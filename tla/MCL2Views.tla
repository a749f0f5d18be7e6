----------------------------- MODULE MCL2Views ------------------------------
(* L2Views for TLC: a coin that is in every snapshot and a HIP-4 coin that *)
(* appears with its first order.                                           *)
EXTENDS L2Views, TLC

CONSTANTS btc, hip4

MCCoins == {btc, hip4}
MCHip4Coins == {hip4}

\* The book of btc differs between snapshots: a reload at the same height.
MCSnapshots == {btc :> 0, btc :> 1}

\* A quiet block, one coin's change, and a first order too large for a frame.
MCBlocks == {<<>>, btc :> 1, hip4 :> 2}

=============================================================================
