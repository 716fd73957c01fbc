\* Three releases of a file of two lines, one of them the instance's own.
CONSTANTS
    Lines = {1, 2}
    Texts = {"a", "b"}
    Bumps = {"patch", "none"}
    Kinds = {"alpha", "stable"}
    Channel = "alpha"
    TierMoves <- Kept
    FirstTier = "merge"
    MaxTags = 3
    MaxEdits = 2
    MaxLocal = 1
    MaxSyncs = 2
SPECIFICATION Spec
INVARIANTS
    VersionsMoveOn
    FreshUnlessTakenBack
PROPERTIES
    LocalEditsSurvive
    SyncNeverGoesBack
    CatchesUp
CHECK_DEADLOCK FALSE
