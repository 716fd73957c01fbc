\* A pull request cannot be opened.
CONSTANTS
    Lines = {1, 2}
    Texts = {"a", "b"}
    Bumps = {"none"}
    Kinds = {"alpha"}
    Channel = "alpha"
    TierMoves <- Kept
    FirstTier = "merge"
    MaxTags = 2
    MaxEdits = 2
    MaxLocal = 0
    MaxSyncs = 1
SPECIFICATION Spec
PROPERTIES
    AlwaysCatchesUp
CHECK_DEADLOCK FALSE
