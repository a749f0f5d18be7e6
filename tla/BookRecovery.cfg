CONSTANTS
    None = None
    MaxHeight = 4
    MaxEpoch = 9
    QueueHeights = 2
    SnapshotLag = 0
    MaxFaults = 1
    Drifts = {2}
    Listings = {3}
    Brittle = {3}
    Verdict <- MCVerdict
    Rejected <- MCRejected
SPECIFICATION RSpec
PROPERTIES
    Recovers
    DivergenceRepaired
    CatchesUp
