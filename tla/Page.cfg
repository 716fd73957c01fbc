\* Two heroes; two acts of the user, of another client, or failures.
CONSTANTS
    Ids = {1, 2}
    MaxActs = 2
    MaxReads = 2
SPECIFICATION Spec
INVARIANTS
    SelectionIsShown
    OwnChangesShow
PROPERTIES
    EndsUpToDate
CHECK_DEADLOCK FALSE
