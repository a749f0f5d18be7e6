---------------------------- MODULE HeightQueues ----------------------------
(***************************************************************************)
(* The two BatchQueues of the listener, as sets of heights.                *)
(*                                                                         *)
(* push accepts a height only above every height it accepted before, so a  *)
(* deque is the increasing enumeration of the set of heights in it.        *)
(* BatchQueues.tla has the deques, the byte counters and the loop of       *)
(* pop_cache, and checks that they compute what is defined here.           *)
(***************************************************************************)
EXTENDS Integers, FiniteSets

CONSTANTS
    MaxHeight,       \* bound: the last block the node produces
    QueueHeights     \* limits.queue_heights

Heights == 1..MaxHeight

\* The heights in the deque, and last_ts (0 is None).
Queues     == [heights : SUBSET Heights, last : 0..MaxHeight]
EmptyQueue == [heights |-> {}, last |-> 0]

\* push ignores a height it is past.
Stale(q, h) == h =< q.last

\* push refuses by count or span of heights, or (`over') by bytes or age.
PushRefused(q, h, over) ==
    \/ over
    \/ Cardinality(q.heights) >= QueueHeights
    \/ \E f \in q.heights : h - f > QueueHeights

Pushed(q, h) == [heights |-> q.heights \union {h}, last |-> h]

\* pop_cache drops the lower of the two fronts until they are equal (the
\* least common height, which it returns) or one queue is empty.
Paired(s, d)      == s.heights \intersect d.heights
Above(q, h)       == [q EXCEPT !.heights = {x \in @ : x > h}]
Drained(q, other) == [q EXCEPT !.heights = {x \in @ : \A y \in other.heights : x > y}]

IsLeast(h, S) == h \in S /\ \A x \in S : h =< x

=============================================================================
