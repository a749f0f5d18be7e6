CONSTANTS
    Sources = {"Fills"}
    Hours = 3
    Blocks = 4
    TurnBytes = 2
    DirtyLimit = 2
    MaxFaults = 0
SPECIFICATION ISpec
INVARIANT FillsNotLost
CHECK_DEADLOCK FALSE
