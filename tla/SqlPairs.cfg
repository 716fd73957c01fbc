\* Two writers and the purge over two rows.
CONSTANTS
    u1 = u1
    u2 = u2
    Users = {u1, u2}
    Names = {"a", "b"}
    MaxHeroes = 2
    MaxTime = 0
    Bodies <- Clients
    NULL = NULL
    UNSET = UNSET
    NoHero = NoHero
    Workers = {w1, w2}
    Requests <- PairRequests
    Tables <- PairTables
    MaxRequests = 3
    MaxPurges = 1
    MaxBulk = 2
SPECIFICATION Spec
INVARIANTS
    RequestsDoNotDeadlock
    AnswersAreDurable
PROPERTIES
    NoFieldIsLost
    ChangesAreLogged
    OnlyArchivedRowsArePurged
CHECK_DEADLOCK FALSE
