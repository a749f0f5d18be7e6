--------------------------- MODULE PairingQueues ---------------------------
(***************************************************************************)
(* The status and diff queues as the listener's model uses them: sets of   *)
(* heights, with pop_cache a single step.                                  *)
(***************************************************************************)
EXTENDS HeightQueues

VARIABLES
    statuses, diffs,    \* set queues
    result              \* what the last call returned: an outcome and a height

Result(outcome, h) == [outcome |-> outcome, height |-> h]

PInit == statuses = EmptyQueue /\ diffs = EmptyQueue /\ result = Result("none", 0)

\* q' after push(h), with the outcome.
PPush(q, qNext, h) ==
    \/ /\ Stale(q, h) /\ qNext = q
       /\ result' = Result("stale", h)
    \/ /\ ~Stale(q, h) /\ ~PushRefused(q, h, FALSE)
       /\ qNext = Pushed(q, h)
       /\ result' = Result("accepted", h)
    \/ /\ ~Stale(q, h) /\ \E over \in BOOLEAN : PushRefused(q, h, over)
       /\ qNext = q
       /\ result' = Result("refused", h)

PPop ==
    \/ /\ Paired(statuses, diffs) = {}
       /\ statuses' = Drained(statuses, diffs)
       /\ diffs' = Drained(diffs, statuses)
       /\ result' = Result("unpaired", 0)
    \/ \E h \in Heights :
       /\ IsLeast(h, Paired(statuses, diffs))
       /\ statuses' = Above(statuses, h)
       /\ diffs' = Above(diffs, h)
       /\ result' = Result("pair", h)

PReset == statuses' = EmptyQueue /\ diffs' = EmptyQueue /\ result' = Result("none", 0)

PNext ==
    \/ \E h \in Heights : PPush(statuses, statuses', h) /\ diffs' = diffs
    \/ \E h \in Heights : PPush(diffs, diffs', h) /\ statuses' = statuses
    \/ PPop
    \/ PReset

PSpec == PInit /\ [][PNext]_<<statuses, diffs, result>>

=============================================================================
