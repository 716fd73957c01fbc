\* One confirmation and a closing in the middle of its handling.
CONSTANTS
    MaxComments = 1
    MaxCloses = 1
    MaxCommits = 3
SPECIFICATION Spec
INVARIANTS
    AppliesRaceNothing
CHECK_DEADLOCK FALSE
