\* One issue, two comments, one closing; it may come to rest.
CONSTANTS
    MaxComments = 2
    MaxCloses = 1
    MaxCommits = 4
SPECIFICATION Spec
INVARIANTS
    OneBuildPerRepro
    BuiltWasConfirmed
    ClosedIsClean
    RestartIsFromScratch
PROPERTIES
    ConfirmedMovesOn
CHECK_DEADLOCK FALSE
