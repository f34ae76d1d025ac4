CONSTANTS
    weights = weights
    keys = keys
    host = host
    gpu = gpu
    t1 = t1
    h1 = h1
    a = a
    b = b
    r1 = r1
    s1 = s1
    u1 = u1
    noBudget = noBudget
    noLocation = noLocation
    noScope = noScope
    noPlan = noPlan
    Values <- MCValues
    Locations <- MCLocations
    Cuda = {gpu}
    Rank <- MCRank
    Budget <- MCBudget
    Size <- MCSize
    Exclusive = {weights}
    SourceAt <- MCSourceAt
    NoBudget = noBudget
    NoLocation = noLocation
    Leases = {t1, a, b}
    Holds = {h1}
    Reservations = {r1}
    Scopes = {s1}
    Plans = {}
    Requests <- MCRequests
    Batches = {}
    ReserveSizes = {1}
    NoScope = noScope
    NoPlan = noPlan
    Fallback <- MCFallback
    MaxDepth = 16
    Uses = {u1}
    ScopeOf <- MCScopeOf
    LeaseOf <- MCLeaseOf
    AutoRequests <- Impossible
    Rankings <- MCRankings

SPECIFICATION ControllerSpec
INVARIANT SearchEnds
CHECK_DEADLOCK FALSE
