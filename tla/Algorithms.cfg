CONSTANTS
    Prices = {3, 992, 9993, 9998, 95000, 99995, 100001, 100050}
    Sizes = {1, 2}
    TradedCoins = {btc, hip4, other}
    NoCoin = NoCoin
    InScope = {btc, hip4}
    Subscribed = {btc, hip4}
    MaxTrades = 3
    btc = btc
    hip4 = hip4
    other = other
    MaxHeight = 4
    QueueHeights = 2
    QueueBytes = 3
    WireSizes = {1, 2}
SPECIFICATION ASpec
INVARIANTS
    ViewsExact
    NeverOverstated
    TradesExact
    BytesExact
    NoPairLost
PROPERTY ImplementsPairing
CHECK_DEADLOCK FALSE
