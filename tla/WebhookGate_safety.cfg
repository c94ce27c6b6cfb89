SPECIFICATION Spec
CONSTANTS
    p1 = p1
    p2 = p2
    trips = trips
    cache = cache
    AnyTable = AnyTable
    Postings = {p1, p2}
    payloadOf <- Trip
    endpointOf <- ToBoth
    tableFilter <- Filters
    idempotencyTTL <- Ttls
    MaxPosts = 1
    HoldLimit = 1
    ThrownStatuses = {409, 500}
    MaxFaults = 1
INVARIANTS GateTypeOK OneHandler NoOrphanKey RepostingSuffices
CHECK_DEADLOCK FALSE
