SPECIFICATION Spec
CONSTANTS
    budget = budget
    itinerary = itinerary
    u1 = u1
    u2 = u2
    u3 = u3
    Agents = {budget, itinerary}
    Updates = {u1, u2, u3}
    Requests = {r1, r2}
    agentOf <- OfAgents
    InitialVersion = 1
INVARIANTS ConfigTypeOK FreshRead
CHECK_DEADLOCK FALSE
