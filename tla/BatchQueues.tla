---------------------------- MODULE BatchQueues ----------------------------
(***************************************************************************)
(* BatchQueue (listeners/order_book/utils.rs) and pop_cache (mod.rs): the  *)
(* deques of unmatched status and diff batches with their byte counters,   *)
(* and the loop that looks for the next block present in both.             *)
(***************************************************************************)
EXTENDS HeightQueues, SequencesExt

CONSTANTS
    QueueBytes,      \* limits.queue_bytes
    WireSizes            \* wire sizes a batch may have

ASSUME SizesAssumption ==
    /\ {MaxHeight, QueueHeights, QueueBytes} \subseteq Nat
    /\ WireSizes \subseteq Nat \ {0}

VARIABLES
    order_status_cache, order_diff_cache,   \* [deque, last_ts, bytes]
    loop,                \* "idle", or "popping" while pop_cache runs
    before,              \* the two queues when pop_cache was called (history)
    result,              \* outcome of the last call
    given                \* per source, heights accepted; and pairs returned (history)

bvars == <<order_status_cache, order_diff_cache, loop, before, result, given>>

Result(outcome, h) == [outcome |-> outcome, height |-> h]

new == [deque |-> <<>>, last_ts |-> 0, bytes |-> 0]

Bytes(deque) == FoldLeft(LAMBDA acc, batch : acc + batch.wire_bytes, 0, deque)
HeightSet(q) == {q.deque[i].height : i \in DOMAIN q.deque}
AsSet(q)     == [heights |-> HeightSet(q), last |-> q.last_ts]

NotPopping == <<EmptyQueue, EmptyQueue>>

BInit ==
    /\ order_status_cache = new
    /\ order_diff_cache = new
    /\ loop = "idle"
    /\ before = NotPopping
    /\ result = Result("none", 0)
    /\ given = [statuses |-> {}, diffs |-> {}, pairs |-> {}]

\* The limits of push; `aged' is the age of the front batch being over queue_age.
\* saturating_sub: a difference below zero counts as zero.
OverLimit(q, h, size, aged) ==
    \/ q.bytes + size > QueueBytes
    \/ Len(q.deque) >= QueueHeights
    \/ q.deque # <<>> /\ (aged \/ h - Head(q.deque).height > QueueHeights)

\* Mutant of push: the byte counter is set, not added to.
push_SetsBytes(q, h, size) ==
    [deque   |-> Append(q.deque, [height |-> h, wire_bytes |-> size]),
     last_ts |-> h,
     bytes   |-> size]

push(q, h, size) ==
    [deque   |-> Append(q.deque, [height |-> h, wire_bytes |-> size]),
     last_ts |-> h,
     bytes   |-> q.bytes + size]

\* q' after the call of push, with its outcome.
Push(q, qNext, h, size, aged) ==
    \/ /\ q.last_ts >= h
       /\ qNext = q
       /\ result' = Result("stale", h)
    \/ /\ q.last_ts < h /\ ~OverLimit(q, h, size, aged)
       /\ qNext = push(q, h, size)
       /\ result' = Result("accepted", h)
    \/ /\ q.last_ts < h /\ OverLimit(q, h, size, aged)
       /\ qNext = q
       /\ result' = Result("refused", h)

Accepted(set, h) == IF result'.outcome = "accepted" THEN set \union {h} ELSE set

PushStatus(h, size, aged) ==
    /\ loop = "idle"
    /\ Push(order_status_cache, order_status_cache', h, size, aged)
    /\ given' = [given EXCEPT !.statuses = Accepted(@, h)]
    /\ UNCHANGED <<order_diff_cache, loop, before>>

PushDiff(h, size, aged) ==
    /\ loop = "idle"
    /\ Push(order_diff_cache, order_diff_cache', h, size, aged)
    /\ given' = [given EXCEPT !.diffs = Accepted(@, h)]
    /\ UNCHANGED <<order_status_cache, loop, before>>

pop_front(q) == [q EXCEPT !.deque = Tail(@), !.bytes = @ - Head(q.deque).wire_bytes]

CallPopCache ==
    /\ loop = "idle"
    /\ loop' = "popping"
    /\ before' = <<AsSet(order_status_cache), AsSet(order_diff_cache)>>
    /\ UNCHANGED <<order_status_cache, order_diff_cache, result, given>>

Return(r) == loop' = "idle" /\ result' = r /\ before' = NotPopping

DiffFront   == Head(order_diff_cache.deque).height
StatusFront == Head(order_status_cache.deque).height

\* Mutant of PopLoop: on unequal fronts the higher one is dropped.
PopLoop_DropsHigher ==
    /\ loop = "popping"
    /\ order_diff_cache.deque # <<>> /\ order_status_cache.deque # <<>>
    /\ \/ /\ DiffFront > StatusFront
          /\ order_diff_cache' = pop_front(order_diff_cache)
          /\ UNCHANGED <<order_status_cache, loop, before, result, given>>
       \/ /\ DiffFront < StatusFront
          /\ order_status_cache' = pop_front(order_status_cache)
          /\ UNCHANGED <<order_diff_cache, loop, before, result, given>>
       \/ /\ DiffFront = StatusFront
          /\ order_diff_cache' = pop_front(order_diff_cache)
          /\ order_status_cache' = pop_front(order_status_cache)
          /\ given' = [given EXCEPT !.pairs = @ \union {DiffFront}]
          /\ Return(Result("pair", DiffFront))

\* Mutant of PopLoop: unequal fronts are both dropped.
PopLoop_DropsBoth ==
    /\ loop = "popping"
    /\ order_diff_cache.deque # <<>> /\ order_status_cache.deque # <<>>
    /\ order_diff_cache' = pop_front(order_diff_cache)
    /\ order_status_cache' = pop_front(order_status_cache)
    /\ IF DiffFront = StatusFront
       THEN /\ given' = [given EXCEPT !.pairs = @ \union {DiffFront}]
            /\ Return(Result("pair", DiffFront))
       ELSE UNCHANGED <<loop, before, result, given>>

\* One iteration of pop_cache's loop on two non-empty queues.
PopLoop ==
    /\ loop = "popping"
    /\ order_diff_cache.deque # <<>> /\ order_status_cache.deque # <<>>
    /\ \/ /\ DiffFront < StatusFront
          /\ order_diff_cache' = pop_front(order_diff_cache)
          /\ UNCHANGED <<order_status_cache, loop, before, result, given>>
       \/ /\ DiffFront > StatusFront
          /\ order_status_cache' = pop_front(order_status_cache)
          /\ UNCHANGED <<order_diff_cache, loop, before, result, given>>
       \/ /\ DiffFront = StatusFront
          /\ order_diff_cache' = pop_front(order_diff_cache)
          /\ order_status_cache' = pop_front(order_status_cache)
          /\ given' = [given EXCEPT !.pairs = @ \union {DiffFront}]
          /\ Return(Result("pair", DiffFront))

PopNothing ==
    /\ loop = "popping"
    /\ order_diff_cache.deque = <<>> \/ order_status_cache.deque = <<>>
    /\ Return(Result("unpaired", 0))
    /\ UNCHANGED <<order_status_cache, order_diff_cache, given>>

\* A fence replaces both queues.
Replaced ==
    /\ loop = "idle"
    /\ order_status_cache' = new
    /\ order_diff_cache' = new
    /\ result' = Result("none", 0)
    /\ given' = [statuses |-> {}, diffs |-> {}, pairs |-> {}]
    /\ UNCHANGED <<loop, before>>

BNext ==
    \/ \E h \in Heights, size \in WireSizes, aged \in BOOLEAN :
          PushStatus(h, size, aged) \/ PushDiff(h, size, aged)
    \/ CallPopCache
    \/ PopLoop
    \/ PopNothing
    \/ Replaced

BSpec == BInit /\ [][BNext]_bvars

-----------------------------------------------------------------------------
\* push and pop_front keep the byte counter exact (its subtraction can never
\* wrap), and a queue within its limits in bytes, count and span of heights.
WithinLimits(q) ==
    /\ q.bytes = Bytes(q.deque)
    /\ q.bytes =< QueueBytes
    /\ Len(q.deque) =< QueueHeights
    /\ \A i \in DOMAIN q.deque : q.deque[i].height - Head(q.deque).height =< QueueHeights

BytesExact == WithinLimits(order_status_cache) /\ WithinLimits(order_diff_cache)

\* pop_cache drops a batch only when its partner can no longer arrive: a block
\* accepted from both sources is still queued on both or was returned.
NoPairLost ==
    \A h \in given.statuses \intersect given.diffs :
        \/ h \in given.pairs
        \/ h \in HeightSet(order_status_cache) \intersect HeightSet(order_diff_cache)

\* The deques and the loop implement the set queues of the listener's model.
Abstract == INSTANCE PairingQueues WITH
    statuses <- IF loop = "popping" THEN before[1] ELSE AsSet(order_status_cache),
    diffs    <- IF loop = "popping" THEN before[2] ELSE AsSet(order_diff_cache)

ImplementsPairing == Abstract!PSpec

=============================================================================
