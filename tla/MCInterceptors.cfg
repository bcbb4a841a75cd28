CONSTANTS
    k1 = k1
    k2 = k2
    k3 = k3
    m1 = m1
    m2 = m2
    Calls = {c1, c2, c3}
    Contexts = {k1, k2, k3}
    Authorized = {k1, k2}
    Traced = {k1, k2}
    SharedTrace = shared
    Methods = {m1, m2}
    MethodOf <- MCMethodOf
    Priority <- MCPriority
    InitialChains <- MCInitialChains
    MaxChanges = 1
    None = None
SPECIFICATION ChainSpec
CHECK_DEADLOCK FALSE
INVARIANTS ChainTypeOK MetersExact TraceFaithful
