CONSTANTS
    Sources = {"Fills"}
    Hours = 3
    Blocks = 4
    TurnBytes = 3
    DirtyLimit = 2
    MaxFaults = 1
SPECIFICATION ISpec
PROPERTIES
    NoUnreadCursorDropped
    NoStrandedCursor
    EventuallyTaken
CHECK_DEADLOCK FALSE
