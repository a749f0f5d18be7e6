CONSTANTS
    btc = btc
    hip4 = hip4
    Coins <- MCCoins
    Hip4Coins <- MCHip4Coins
    Snapshots <- MCSnapshots
    Blocks <- MCBlocks
    SnapHeights = {1}
    MaxBook = 2
    LastHeight = 2
    MaxAddr = 3
    MaxHeld = 2
    MaxFrame = 2
    MaxBytes = 2
    MaxEntries = 2
SPECIFICATION ViewsSpec
INVARIANTS
    ViewsFaithful
    WireExact
CHECK_DEADLOCK FALSE
