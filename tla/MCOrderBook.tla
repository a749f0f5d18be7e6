---------------------------- MODULE MCOrderBook ----------------------------
(* The book and the list its levels are made of, for TLC, side by side:    *)
(* while one is used the other stays as it begins.                         *)
EXTENDS OrderBook, LinkedList

OInit == BookInit /\ LInit

ONext ==
    \/ BookNext /\ slab = [s \in {} |-> Nil] /\ result /\ UNCHANGED lvars
    \/ LNext /\ order_books = Empty /\ call = Idle /\ UNCHANGED bookVars

OSpec == OInit /\ [][ONext]_<<bookVars, lvars>>

=============================================================================
