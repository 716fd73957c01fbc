\* One confirmation, no closing.
CONSTANTS
    MaxComments = 1
    MaxCloses = 0
    MaxCommits = 2
SPECIFICATION Spec
PROPERTIES
    ConfirmedIsHeard
CHECK_DEADLOCK FALSE
