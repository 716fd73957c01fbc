\* Up to four heroes over three days of a bucket each.
SPECIFICATION StatsSpec
CONSTANTS
    Null = Null
    Levels = {1, 3}
    Locks = {FALSE}
    MaxRows = 4
    MaxDay = 2
    MaxOvertaking = 0
    Width = 1
    MaxHistory = 3
    Periods = 2
INVARIANTS
    LinesAreContinued
