SPECIFICATION FairSpec
CONSTANTS
    t1 = t1
    t2 = t2
    Turns <- TwoTurns
    MaxAttempts = 2
    MaxFaults = 1
    MaxDeletions = 1
INVARIANTS
    MemoryTypeOK
    ReportIsKept
    ErasedStays
    RetriesSuffice
PROPERTY
    QueuedIsStored
CHECK_DEADLOCK FALSE
