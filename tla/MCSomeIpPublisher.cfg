CONSTANTS
    tA = tA
    tB = tB
    tC = tC
    svc1 = svc1
    svc2 = svc2
    grp1 = grp1
    grp2 = grp2
    ServiceKeys = {svc1, svc2, svc3}
    Topics = {tA, tB, tC}
    Service <- TwoServices
    Group <- TwoGroups
    Callers = {c1, c2}
    BasePorts = {1, 3}
    FirstPort = 1
    MaxPort = 4
    ForeignPorts = {4}
    MaxPublishes = 3
    MaxStacks = 2
SPECIFICATION Spec
CHECK_DEADLOCK FALSE
INVARIANTS TypeOK PortsDistinct NoServiceLost
 
