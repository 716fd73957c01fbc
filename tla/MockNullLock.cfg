\* Bodies with is_locked: null.
CONSTANTS
    Users = {u1, u2}
    Writers = {u1, u2}
    Deleters = {u1, u2}
    Names = {"a"}
    MaxHeroes = 1
    MaxTime = 0
    Bodies <- NullBodies
    NULL = NULL
    UNSET = UNSET
    NoHero = NoHero
    MaxBulk = 1
    MaxLog = 4
SPECIFICATION Spec
INVARIANT RowsCanBeRead
