SPECIFICATION FairSpec
CONSTANTS
    Messages = {m1}
    MaxRetries = 4
    BaseDelay = 1
    LockTtl = 12
    RunLimit = 3
    FaultKinds = {"crash", "redis", "throw", "lost"}
    FaultBudget <- FaultsMixed
    MaxFaults = 4
INVARIANTS TypeOK OneWorker AckedIsHandled NoOrphanLock OneFaultIsSurvived
PROPERTIES OutcomeSpec Delivered
