SPECIFICATION QueriesSpec
CONSTANTS
    Null = Null
    Chars <- MCFoldedChars
    Lower <- MCFoldedLower
    NoneText <- MCNoneText
    Wildcard = "_"
    Names <- MCNames
    Levels <- MCLevels
    Widest = 5
    FilterLists <- MCFilterLists
    Sorts <- MCSorts
    Skips <- MCSkips
    Limits <- MCLimits
    MaxRows = 3
INVARIANTS
    BackendsAgree
