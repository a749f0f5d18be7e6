CONSTANTS
    Coins = {"BTC", "@1"}
    Oids = {1, 2, 3, 4}
    NoOid = NoOid
    MaxPx = 2
    MaxSz = 2
    Spot = {"@1"}
    IgnoreSpot = TRUE
    Genesis <- MCGenesis
    Placements <- MCPlacements
    Unrested <- MCUnrested
    MaxHeight = 3
    MaxOps = 3
    MaxLost = 1
SPECIFICATION Spec
INVARIANTS
    FollowsNode
    AuditExact
