\* A file that was left to the instances is merged again.
CONSTANTS
    Lines = {1}
    Texts = {"a", "b"}
    Bumps = {"none"}
    Kinds = {"alpha"}
    Channel = "alpha"
    TierMoves <- TakenBack
    FirstTier = "merge"
    MaxTags = 4
    MaxEdits = 3
    MaxLocal = 0
    MaxSyncs = 3
SPECIFICATION Spec
INVARIANTS
    NoStaleTemplate
CHECK_DEADLOCK FALSE
