\* A delete whose snapshot came too early.
CONSTANTS
    u1 = u1
    u2 = u2
    Users = {u1, u2}
    Names = {"a", "b"}
    MaxHeroes = 3
    MaxTime = 0
    Bodies <- Clients
    NULL = NULL
    UNSET = UNSET
    NoHero = NoHero
    Workers = {w1, w2}
    Requests <- RouteRequests
    Tables <- RouteTables
    MaxRequests = 2
    MaxPurges = 0
    MaxBulk = 2
SPECIFICATION Spec
PROPERTY DeletesAreLogged
CHECK_DEADLOCK FALSE
