\* A locked record gets a PATCH that unlocks and edits.
CONSTANTS
    Users = {u1, u2}
    Writers = {u1, u2}
    Deleters = {u1}
    Names = {"a"}
    MaxHeroes = 1
    MaxTime = 1
    Bodies <- EditBodies
    NULL = NULL
    UNSET = UNSET
    NoHero = NoHero
    MaxBulk = 1
    MaxLog = 4
SPECIFICATION Spec
PROPERTY UnlockMayEdit
