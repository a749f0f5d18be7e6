---------------------------- MODULE MCAlgorithms ----------------------------
(* The algorithms that stand alone, for TLC, side by side: every bounded   *)
(* book for L2Levels, every bounded block of trades for Trades, and the    *)
(* unmatched queues; while one moves the others stay as they begin.        *)
EXTENDS L2Levels, Trades, BatchQueues

AInit == LevelsInit /\ TradesInit /\ BInit

Still == BInit /\ UNCHANGED bvars

ANext ==
    \/ made = <<>> /\ LevelsNext /\ UNCHANGED tvars /\ Still
    \/ levels = <<>> /\ side = "Ask" /\ TradesNext /\ UNCHANGED l2vars /\ Still
    \/ levels = <<>> /\ side = "Ask" /\ made = <<>> /\ BNext /\ UNCHANGED <<l2vars, tvars>>

avars == <<l2vars, tvars, bvars>>

ASpec == AInit /\ [][ANext]_avars

=============================================================================
