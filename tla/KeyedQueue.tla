----------------------------- MODULE KeyedQueue -----------------------------
(***************************************************************************)
(* What OrderBook relies on of a price level's LinkedList: a sequence of   *)
(* distinct keys.                                                          *)
(***************************************************************************)
EXTENDS Sequences, SequencesExt

CONSTANT Keys

VARIABLES
    queue,      \* the keys, first in line first
    result      \* what the last call returned

\* Where a key is in the line.
At(k) == CHOOSE i \in DOMAIN queue : queue[i] = k

PushBack(k) ==
    \/ k \notin ToSet(queue) /\ queue' = Append(queue, k) /\ result' = TRUE
    \/ k \in ToSet(queue) /\ queue' = queue /\ result' = FALSE

InsertBefore(b, k) ==
    IF k \in ToSet(queue) \/ b \notin ToSet(queue)
    THEN queue' = queue /\ result' = FALSE
    ELSE queue' = InsertAt(queue, At(b), k) /\ result' = TRUE

RemoveFront ==
    IF queue = <<>> THEN queue' = queue /\ result' = FALSE
    ELSE queue' = Tail(queue) /\ result' = TRUE

RemoveNode(k) ==
    IF k \in ToSet(queue) THEN queue' = RemoveAt(queue, At(k)) /\ result' = TRUE
    ELSE queue' = queue /\ result' = FALSE

KInit == queue = <<>> /\ result = TRUE

KNext ==
    \/ \E k \in Keys : PushBack(k) \/ RemoveNode(k)
    \/ \E b, k \in Keys : InsertBefore(b, k)
    \/ RemoveFront

KSpec == KInit /\ [][KNext]_<<queue, result>>

=============================================================================
