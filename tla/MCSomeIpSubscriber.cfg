CONSTANTS
    Topics = {tA}
    Key <- OwnKey
    Subs = {s1, s2, s3}
    MaxStacks = 2
    MaxMsgs = 1
    MaxFailures = 1
    NoTopic = NoTopic
SPECIFICATION FairSpec
CHECK_DEADLOCK FALSE
INVARIANTS TypeOK NoSocketLost AtMostOnce
PROPERTY TopicGetsHeard
