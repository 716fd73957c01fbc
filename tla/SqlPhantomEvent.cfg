\* A request fails after it has published.
CONSTANTS
    u1 = u1
    u2 = u2
    Users = {u1, u2}
    Names = {"a", "b"}
    MaxHeroes = 2
    MaxTime = 0
    Bodies <- Clients
    NULL = NULL
    UNSET = UNSET
    NoHero = NoHero
    Workers = {w1, w2}
    Requests <- PairRequests
    Tables <- PairTables
    MaxRequests = 1
    MaxPurges = 0
    MaxBulk = 2
SPECIFICATION Spec
INVARIANT EventsAreOfSuccesses
CHECK_DEADLOCK FALSE
