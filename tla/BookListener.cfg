CONSTANTS
    None = None
    MaxHeight = 4
    MaxEpoch = 2
    QueueHeights = 2
    SnapshotLag = 1
    Drifts = {2}
    Listings = {3}
    Brittle = {3}
    Verdict <- MCVerdict
    Rejected <- MCRejected
SPECIFICATION Spec
INVARIANT TypeOK
INVARIANTS
    CacheOwned
    BaselineCoherent
    ReplayNeverFails
    NoPairedBacklog
    SubscribersInSync
    TimeOfHeight
PROPERTIES
    FeedOrdered
    NoSilentRewrite
    ImplementsFeed
