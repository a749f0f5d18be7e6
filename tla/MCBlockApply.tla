---------------------------- MODULE MCBlockApply ----------------------------
(* Instance of BlockApply for TLC: a perpetual that begins with an empty   *)
(* book or two asks, and a spot coin that is listed later.                 *)
EXTENDS BlockApply

Placement(coin, side, px, sz) == [coin |-> coin, side |-> side, px |-> px, sz |-> sz]

MCPlacements ==
    {Placement("BTC", "Bid", 1, 2), Placement("BTC", "Bid", 2, 1),
     Placement("BTC", "Ask", 1, 2), Placement("BTC", "Ask", 2, 1),
     Placement("@1", "Bid", 1, 1)}

MCUnrested == {Placement("BTC", "Ask", 2, 1)}

Begins(oid, px, sz) ==
    [coin |-> "BTC", oid |-> oid, side |-> "Ask", px |-> px, sz |-> sz,
     is_trigger |-> FALSE, timestamp |-> 1]

MCGenesis ==
    {"BTC" :> EmptySnap,
     "BTC" :> [EmptySnap EXCEPT !["Ask"] = <<Begins(1, 1, 1), Begins(2, 1, 2)>>]}

=============================================================================
