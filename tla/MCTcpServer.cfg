CONSTANTS
    Conns = {c1, c2}
    Topics = {tA}
    MaxEntries = 2
    Free = Free
SPECIFICATION FairSpec
CHECK_DEADLOCK FALSE
INVARIANTS TypeOK LockProtects
PROPERTY StopEndsAll
