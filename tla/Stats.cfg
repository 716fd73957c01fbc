\* Up to three heroes over three days, with a commit between the statements.
SPECIFICATION StatsSpec
CONSTANTS
    Null = Null
    Levels = {0, 3}
    Locks = {TRUE, FALSE}
    MaxRows = 3
    MaxDay = 2
    MaxOvertaking = 1
    Width = 2
    MaxHistory = 2
    Periods = 2
INVARIANTS
    StatsAreOfTheirTime
    LinesAreContinued
