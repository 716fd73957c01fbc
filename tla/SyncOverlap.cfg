\* Two release runs overlap; the manifest never takes a file back.
CONSTANTS
    Lines = {1}
    Texts = {"a", "b"}
    Bumps = {"patch", "none"}
    Kinds = {"alpha", "stable"}
    Channel = "alpha"
    TierMoves <- Kept
    FirstTier = "merge"
    MaxTags = 4
    MaxEdits = 2
    MaxLocal = 0
    MaxSyncs = 2
SPECIFICATION Spec
INVARIANTS
    NoStaleTemplate
CHECK_DEADLOCK FALSE
