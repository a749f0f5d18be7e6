CONSTANTS
    Clients = {"c1", "c2"}
    Subs = {"s1", "s2"}
    Views = {{"s1", "s2"}, {"s1"}}
    MaxPermits = 1
    HISTORY = 2
    MaxHeight = 4
SPECIFICATION SSpec
INVARIANTS
    PermitsExact
    TraceHonest
PROPERTY NobodyBlocks
