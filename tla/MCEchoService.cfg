CONSTANTS
    Callers = {c1, c2}
    FailureThreshold = 2
    RecoveryTimeout = 3
    HalfOpenMaxCalls = 1
    MaxAttempts = 3
    BaseDelay = 1
    MaxDelay = 2
    Timeout = 2
    RetryOn = {"timeout", "open"}
SPECIFICATION EchoFairSpec
INVARIANT OutcomeHonest
PROPERTIES InvokeEnds RecoversWhenHealthy
