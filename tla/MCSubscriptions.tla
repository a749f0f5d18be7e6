-------------------------- MODULE MCSubscriptions ---------------------------
(* Subscriptions for TLC: every form of L2Book request for a HIP-4 coin,   *)
(* and each kind of request for an ordinary and a spot coin.               *)
EXTENDS Subscriptions

CONSTANTS btc, hip4, spot, other

MCCoins == {btc, hip4, spot, other}
MCRequests ==
    Requested("L2Book", {hip4}, {None, 1, 2, 4, 5, 6}, {None, 0, 20, 101}, {None, 2, 3, 5})
    \cup Requested("L2Book", {btc, spot, other}, {5}, {100}, {5})
    \cup Requested("L4Book", {hip4, spot}, {None}, {None}, {None})
    \cup Requested("Trades", {btc}, {None}, {None}, {None})

=============================================================================
