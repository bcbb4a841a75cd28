CONSTANTS
    Callers = {c1, c2, c3}
    FailureThreshold = 2
    RecoveryTimeout = 2
    HalfOpenMaxCalls = 2
SPECIFICATION FairSpec
INVARIANTS TypeOK FieldsAgree CoolDownServed
PROPERTIES OpensOnStreak ClosesWhenHealthy
