\* Every route, two requests at a time, scheduled fairly.
CONSTANTS
    u1 = u1
    u2 = u2
    Users = {u1, u2}
    Names = {"a", "b"}
    MaxHeroes = 3
    MaxTime = 1
    Bodies <- Clients
    NULL = NULL
    UNSET = UNSET
    NoHero = NoHero
    Workers = {w1, w2}
    Requests <- RouteRequests
    Tables <- RouteTables
    MaxRequests = 2
    MaxPurges = 1
    MaxBulk = 1
SPECIFICATION FairSpec
PROPERTIES
    OnlyOwnRowsChange
    EveryRequestEnds
CHECK_DEADLOCK FALSE
