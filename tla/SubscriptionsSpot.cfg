CONSTANTS
    btc = btc
    hip4 = hip4
    spot = spot
    other = other
    Coins <- MCCoins
    Requests <- MCRequests
    SpotCoins = {spot}
    AtCoins = {spot}
    Hip4Coins = {hip4}
    AllCoins = FALSE
    ExtraCoins = {btc, spot}
    ignore_spot = TRUE
    MaxSubscriptions = 2
    Capacity = 2
SPECIFICATION SubsSpec
INVARIANT SpotNotServed
CHECK_DEADLOCK FALSE
