CONSTANTS
    Conns = {c1, c2}
    Topics = {tA}
    MaxEntries = 2
    Free = Free
SPECIFICATION Spec
CHECK_DEADLOCK FALSE
INVARIANT DroppedFromAll
