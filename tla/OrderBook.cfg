CONSTANTS
    Coins = {"BTC"}
    Oids = {"o1", "o2", "o3"}
    NoOid = NoOid
    MaxPx = 2
    MaxSz = 2
    Keys = {k1, k2, k3, k4}
    Nil = Nil
    k1 = k1
    k2 = k2
    k3 = k3
    k4 = k4
SPECIFICATION OSpec
INVARIANTS
    IndexAgrees
    Uncrossed
    LinksAgree
PROPERTIES
    PriorityKept
    ImplementsQueue
