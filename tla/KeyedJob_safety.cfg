SPECIFICATION KeyedSpec
CONSTANTS
    k1 = k1
    Messages = {m1, m2}
    MaxRetries = 1
    BaseDelay = 1
    LockTtl = 3
    RunLimit = 1
    FaultKinds = {"crash", "redis", "throw", "lost"}
    FaultBudget <- FaultsAny
    MaxFaults = 2
    Keys = {k1}
    keyOf <- OneKey
    KeyTtl = 3
    MaxKeyFaults = 1
INVARIANTS KeyedTypeOK WorkIsExclusive NothingLost
