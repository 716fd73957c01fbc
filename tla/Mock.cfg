\* Two records of two owners over two instants, bulk requests over every
\* selection, four mutations in all.
CONSTANTS
    Users = {u1, u2}
    Writers = {u1, u2}
    Deleters = {u1, u2}
    Names = {"a"}
    MaxHeroes = 2
    MaxTime = 1
    Bodies <- EditBodies
    NULL = NULL
    UNSET = UNSET
    NoHero = NoHero
    MaxBulk = 1
    MaxLog = 4
SPECIFICATION Spec
SYMMETRY UserSymmetry
VIEW WithoutReply
INVARIANTS
    LogsShowTheRow
    OnlyTheOwnerActs
    LockedNotArchived
PROPERTIES
    ErrorsLeaveNoTrace
    StoreSpec
