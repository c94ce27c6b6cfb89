SPECIFICATION Spec
CONSTANTS
    p1 = p1
    p2 = p2
    trips = trips
    cache = cache
    AnyTable = AnyTable
    Postings = {p1, p2}
    payloadOf <- Collaborator
    endpointOf <- ToBoth
    tableFilter <- Filters
    idempotencyTTL <- Ttls
    MaxPosts = 0
    HoldLimit = 1
    ThrownStatuses = {500}
    MaxFaults = 0
INVARIANT EachEndpointServes
CHECK_DEADLOCK FALSE
