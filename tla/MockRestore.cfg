\* A live row under a bulk restore.
CONSTANTS
    Users = {u1, u2}
    Writers = {u1, u2}
    Deleters = {u1, u2}
    Names = {"a"}
    MaxHeroes = 1
    MaxTime = 1
    Bodies <- EditBodies
    NULL = NULL
    UNSET = UNSET
    NoHero = NoHero
    MaxBulk = 1
    MaxLog = 4
SPECIFICATION Spec
PROPERTY RestoreOnlyArchived
