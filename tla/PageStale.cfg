\* A list may stay behind for good.
CONSTANTS
    Ids = {1}
    MaxActs = 2
    MaxReads = 2
SPECIFICATION Spec
PROPERTY AlwaysEndsUpToDate
CHECK_DEADLOCK FALSE
