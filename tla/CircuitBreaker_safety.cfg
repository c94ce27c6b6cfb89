SPECIFICATION FairSpec
CONSTANTS
    s1 = s1
    s2 = s2
    Senders = {s1, s2}
    FailureThreshold = 2
    SuccessThreshold = 2
    CooldownSeconds = 1
    FailureWindow = 2
    DefaultTtl = 1
    MaxFailures = 2
    MaxFaults = 1
INVARIANTS BreakerTypeOK CooldownHolds OpensOnFailures
PROPERTY Recovers
