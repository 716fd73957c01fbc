\* A lock is committed between another request's check and its UPDATE.
CONSTANTS
    u1 = u1
    u2 = u2
    Users = {u1, u2}
    Names = {"a", "b"}
    MaxHeroes = 2
    MaxTime = 0
    Bodies <- Clients
    NULL = NULL
    UNSET = UNSET
    NoHero = NoHero
    Workers = {w1, w2}
    Requests <- PairRequests
    Tables <- PairTables
    MaxRequests = 2
    MaxPurges = 0
    MaxBulk = 2
SPECIFICATION Spec
PROPERTY LockCheckIsAtomic
CHECK_DEADLOCK FALSE
