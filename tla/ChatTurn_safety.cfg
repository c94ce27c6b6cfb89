SPECIFICATION FairSpec
CONSTANTS
    s = s
    r1 = r1
    r2 = r2
    Submits <- OneSubmit
    Regenerates <- TwoRegenerates
    Calling <- OneCalling
    HistoryLimit = 3
    MaxFaults = 2
INVARIANTS
    ChatTypeOK
    OneAnswer
    ToolIsRecorded
    RememberedIsStored
PROPERTY
    StreamingEnds
CHECK_DEADLOCK FALSE
