CONSTANTS
    weights = weights
    keys = keys
    host = host
    gpu = gpu
    t1 = t1
    r1 = r1
    r2 = r2
    s1 = s1
    noBudget = noBudget
    noLocation = noLocation
    noScope = noScope
    noPlan = noPlan
    Values <- MCValues
    Locations <- MCLocations
    Cuda = {gpu}
    Rank <- MCRank
    Budget <- MCBudget
    Size <- MCSize
    Exclusive = {weights}
    SourceAt <- MCSourceAt
    NoBudget = noBudget
    NoLocation = noLocation
    Leases = {t1}
    Holds = {}
    Reservations = {r1, r2}
    Scopes = {s1}
    Plans <- MCPlans
    Requests <- MCRequests
    Batches <- MCBatches
    ReserveSizes = {1}
    NoScope = noScope
    NoPlan = noPlan

SPECIFICATION Spec
INVARIANTS
    ClosedScopeOwnsNothing
CHECK_DEADLOCK FALSE
