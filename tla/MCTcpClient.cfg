CONSTANTS
    Subs = {s1, s2}
    Topics = {tA}
    MaxMsgs = 2
    MaxExtra = 1
SPECIFICATION FairSpec
CHECK_DEADLOCK FALSE
INVARIANTS TypeOK ServerAgrees CalledInBounds
PROPERTY ReaderServes
