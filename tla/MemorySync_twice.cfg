SPECIFICATION Spec
CONSTANTS
    t1 = t1
    t2 = t2
    Turns <- TwoTurns
    MaxAttempts = 3
    MaxFaults = 1
    MaxDeletions = 0
INVARIANT RerunsStoreOnce
CHECK_DEADLOCK FALSE
