CONSTANTS
    MaxHeight = 4
    Capacity = 3
    Touched = {1, 3, 4}
    MaxGaps = 2
SPECIFICATION CSpec
INVARIANTS
    NothingMissed
    L2NotStale
PROPERTIES
    L2Forward
    GapDisconnects
