SPECIFICATION FairSpec
CONSTANTS
    m1 = m1
    m2 = m2
    i1 = i1
    Nobody = Nobody
    NoData = NoData
    Mutations = {m1, m2}
    Calls <- AllPairs
    Items = {i1}
INVARIANTS TripListsTypeOK FreshIsTrue ShownOnce
PROPERTY Converges
CONSTRAINT NoPageBehind
CHECK_DEADLOCK FALSE
