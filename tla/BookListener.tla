---------------------------- MODULE BookListener ----------------------------
(***************************************************************************)
(* OrderBookListener and the tasks that drive it                           *)
(* (server/src/listeners/order_book/{mod,state,utils}.rs).                 *)
(*                                                                         *)
(* One mutex guards the listener.  Three kinds of critical sections take   *)
(* it: a read turn of the select loop (process_data over the records of    *)
(* one file), the maintenance tick, and the snapshot task fetch_snapshot,  *)
(* of which at most one exists and which releases the mutex while it waits *)
(* for the node, parses, and sleeps.  Every action below is one critical   *)
(* section, except that a read turn is one step per record: `turn' is the  *)
(* source being read, and the mutex is held while it is not "none".        *)
(*                                                                         *)
(* Data abstraction.  A block is its height.  A local book is the node's   *)
(* snapshot at height `origin' followed by the local application of the    *)
(* blocks origin+1 .. height; applying is deterministic, so the pair fixes *)
(* the contents.  The constants Verdict and Rejected say how the contents  *)
(* compare with the node's book and which blocks the book refuses.         *)
(*                                                                         *)
(* The unmatched batches are the sets of heights of HeightQueues.tla.      *)
(***************************************************************************)
EXTENDS HeightQueues

CONSTANTS
    None,            \* Rust's None
    MaxEpoch,        \* bound: how often recovery_epoch is incremented
    SnapshotLag,     \* how far behind its head the node's export may be
    Verdict,         \* what validation says of book (origin, height)
    Rejected         \* <<o, h>>: block h is refused by the book (o, h-1)

Epochs   == 0..MaxEpoch
Verdicts == {"Equal", "EmptyBooksAdded", "Diverged"}
Sources  == {"OrderStatuses", "OrderDiffs", "Fills"}

\* OrderBookState.  `time' is the time of block `height', written as that
\* height, or 0 for a book that no block has been applied to.
Books == [origin : Heights, height : Heights, time : 0..MaxHeight,
          snapped : BOOLEAN]

\* The pairs (status batch, diff batch) a snapshot task has collected.
Caches == [pairs : SUBSET Heights]

\* The life of the snapshot task, from one lock release to the next.
Phases == {"idle", "spawned", "requesting", "responded", "parsing",
           "succeeded", "failed"}
Fetches == [phase : Phases, epoch : Epochs, base : Books \union {None},
            height : Heights]
NoFetch == [phase |-> "idle", epoch |-> 0, base |-> None, height |-> 1]

\* InternalMessage, book part.  `time' and `height' are 0 where absent.
Messages == [kind : {"none", "Gap", "Snapshot", "L4BookUpdates"},
             height : 0..MaxHeight, time : 0..MaxHeight]
Silent             == [kind |-> "none", height |-> 0, time |-> 0]
Gap                == [kind |-> "Gap", height |-> 0, time |-> 0]
L4BookUpdates(h)   == [kind |-> "L4BookUpdates", height |-> h, time |-> h]
Snapshot(b)        == [kind |-> "Snapshot", height |-> b.height, time |-> b.time]

\* What a subscriber was last told: 0 is nothing since the last Gap.
Histories == [l4 : 0..MaxHeight, l2 : 0..MaxHeight]

ASSUME BoundsAssumption ==
    /\ MaxHeight \in Nat \ {0}
    /\ MaxEpoch \in Nat
    /\ QueueHeights \in Nat \ {0}
    /\ SnapshotLag \in Nat
ASSUME NoneAssumption == None \notin Books /\ None \notin Caches
ASSUME VerdictAssumption ==
    /\ Verdict \in [Heights \X Heights -> Verdicts]
    /\ \A h \in Heights : Verdict[<<h, h>>] = "Equal"
ASSUME RejectedAssumption == Rejected \subseteq Heights \X Heights

VARIABLES
    nodeHeight,          \* the node's head
    order_book_state,    \* None or a book
    order_status_cache, order_diff_cache,
    fetched_snapshot_cache, \* None or a cache
    recovery_epoch,
    turn,                \* source of the read turn holding the lock, or "none"
    fetch,               \* the snapshot task and its local variables
    out,                 \* the message the last step published
    seen                 \* heights last published since the last Gap (history)

vars == <<nodeHeight, order_book_state, order_status_cache, order_diff_cache,
          fetched_snapshot_cache, recovery_epoch, turn, fetch, out, seen>>

queues == <<order_status_cache, order_diff_cache>>

is_ready == order_book_state # None
LockFree == turn = "none"

-----------------------------------------------------------------------------
(* Publishing: `seen' records what a subscriber was last told since a Gap.   *)

Publish(m) ==
    /\ out' = m
    /\ seen' = CASE m.kind = "Gap"           -> [l4 |-> 0, l2 |-> 0]
                 [] m.kind = "L4BookUpdates" -> [seen EXCEPT !.l4 = m.height]
                 [] m.kind = "Snapshot"      -> [seen EXCEPT !.l2 = m.height]
                 [] OTHER                    -> seen

-----------------------------------------------------------------------------
(* OrderBookState                                                            *)

from_snapshot(h, t) == [origin |-> h, height |-> h, time |-> t, snapped |-> FALSE]

\* Mutant of CanApply: any later block is accepted.
CanApply_AnyLater(b, h) == h > b.height /\ <<b.origin, h>> \notin Rejected

\* apply_updates succeeds on the next block unless the book refuses it.
CanApply(b, h) == h = b.height + 1 /\ <<b.origin, h>> \notin Rejected

\* Mutants of apply_updates: the height moves twice; the time is forgotten.
apply_updates_TwoHeights(b, h) == [b EXCEPT !.height = h + 1, !.time = h, !.snapped = FALSE]
apply_updates_KeepsTime(b, h)  == [b EXCEPT !.height = h, !.snapped = FALSE]

apply_updates(b, h) == [b EXCEPT !.height = h, !.time = h, !.snapped = FALSE]

\* Applying pairs in increasing order; pairs at or below b.height are no-ops.
\* CleanTo: the loop reaches height t without an error.
CleanTo(b, pairs, t) ==
    /\ b.height =< t
    /\ \A h \in (b.height + 1)..t : h \in pairs /\ <<b.origin, h>> \notin Rejected

\* The pairs on which the loop would stop with an error (at the least one).
Failing(b, pairs) == {h \in pairs : h > b.height /\ ~CleanTo(b, pairs, h)}

\* The book after the loop has reached t.
AppliedTo(b, t) == IF t = b.height THEN b ELSE apply_updates(b, t)

\* The loop consumes all pairs without an error and ends at height t.
EndsAt(b, pairs, t) == CleanTo(b, pairs, t) /\ \A h \in pairs : h =< t

-----------------------------------------------------------------------------
Init ==
    /\ nodeHeight = 1
    /\ order_book_state = None
    /\ order_status_cache = EmptyQueue
    /\ order_diff_cache = EmptyQueue
    /\ fetched_snapshot_cache = None
    /\ recovery_epoch = 0
    /\ turn = "none"
    /\ fetch = NoFetch
    /\ out = Silent
    /\ seen = [l4 |-> 0, l2 |-> 0]

\* The node produces a block (external).
NodeBlock ==
    /\ nodeHeight < MaxHeight
    /\ nodeHeight' = nodeHeight + 1
    /\ out' = Silent
    /\ UNCHANGED <<order_book_state, queues, fetched_snapshot_cache,
                   recovery_epoch, turn, fetch, seen>>

-----------------------------------------------------------------------------
(* fence: forget everything that depends on an unbroken stream, and say so.  *)

\* Mutants of fence: the epoch stays; no Gap is sent.
fence_KeepsEpoch ==
    /\ recovery_epoch < MaxEpoch
    /\ recovery_epoch' = recovery_epoch
    /\ order_book_state' = None
    /\ order_status_cache' = EmptyQueue
    /\ order_diff_cache' = EmptyQueue
    /\ fetched_snapshot_cache' = None
    /\ Publish(Gap)

fence_NoGap ==
    /\ recovery_epoch < MaxEpoch
    /\ recovery_epoch' = recovery_epoch + 1
    /\ order_book_state' = None
    /\ order_status_cache' = EmptyQueue
    /\ order_diff_cache' = EmptyQueue
    /\ fetched_snapshot_cache' = None
    /\ Publish(Silent)

fence ==
    /\ recovery_epoch < MaxEpoch
    /\ recovery_epoch' = recovery_epoch + 1
    /\ order_book_state' = None
    /\ order_status_cache' = EmptyQueue
    /\ order_diff_cache' = EmptyQueue
    /\ fetched_snapshot_cache' = None
    /\ Publish(Gap)

\* Every reason of the select loop to fence outside a read turn: notification
\* overflow, a removed, replaced or unreadable file, too many cursors, an
\* attachment at the tail, a record or partial record over its limits.
SourceFence ==
    /\ LockFree
    /\ fence
    /\ UNCHANGED <<nodeHeight, turn, fetch>>

-----------------------------------------------------------------------------
(* process_data: one step per record, then EndTurn.                          *)

\* The record is malformed, or receive_batch failed: process_data returns the
\* error and the caller fences before it releases the lock.
AbandonTurn ==
    /\ fence
    /\ turn' = "none"
    /\ UNCHANGED <<nodeHeight, fetch>>

MalformedRecord(src) ==
    /\ turn \in {"none", src}
    /\ AbandonTurn

\* Mutant of ApplyPair: a full cache is emptied but its owner not outdated.
ApplyPair_RestartsCache(h, over) ==
    /\ order_book_state' = apply_updates(order_book_state, h)
    /\ recovery_epoch' = recovery_epoch
    /\ fetched_snapshot_cache' =
          CASE fetched_snapshot_cache = None -> None
            [] over -> [pairs |-> {h}]
            [] OTHER -> [pairs |-> fetched_snapshot_cache.pairs \union {h}]
    /\ Publish(L4BookUpdates(h))

\* The tail of receive_batch, on the queues s and d left by the push.
\* `over': the pair would take the validation cache over its byte limit.
ApplyPair(h, over) ==
    /\ order_book_state' = apply_updates(order_book_state, h)
    /\ IF fetched_snapshot_cache # None
            /\ (Cardinality(fetched_snapshot_cache.pairs) >= QueueHeights \/ over)
       THEN /\ recovery_epoch < MaxEpoch
            /\ recovery_epoch' = recovery_epoch + 1
            /\ fetched_snapshot_cache' = None
       ELSE /\ recovery_epoch' = recovery_epoch
            /\ fetched_snapshot_cache' =
                  IF fetched_snapshot_cache = None THEN None
                  ELSE [pairs |-> fetched_snapshot_cache.pairs \union {h}]
    /\ Publish(L4BookUpdates(h))

NothingApplied ==
    /\ Publish(Silent)
    /\ UNCHANGED <<order_book_state, fetched_snapshot_cache, recovery_epoch>>

Continue(src) == turn' = src /\ UNCHANGED <<nodeHeight, fetch>>

Drain(src, s, d, over) ==
    \/ /\ ~is_ready
       /\ order_status_cache' = s /\ order_diff_cache' = d
       /\ NothingApplied
       /\ Continue(src)
    \/ /\ is_ready /\ Paired(s, d) = {}
       /\ order_status_cache' = Drained(s, d) /\ order_diff_cache' = Drained(d, s)
       /\ NothingApplied
       /\ Continue(src)
    \/ /\ is_ready
       /\ \E h \in Heights :
          /\ IsLeast(h, Paired(s, d))
          /\ \/ /\ h =< order_book_state.height
                /\ order_status_cache' = Above(s, h) /\ order_diff_cache' = Above(d, h)
                /\ NothingApplied
                /\ Continue(src)
             \/ /\ CanApply(order_book_state, h)
                /\ order_status_cache' = Above(s, h) /\ order_diff_cache' = Above(d, h)
                /\ ApplyPair(h, over)
                /\ Continue(src)
             \/ /\ h > order_book_state.height /\ ~CanApply(order_book_state, h)
                /\ AbandonTurn

ReceiveStatuses(h, over) ==
    /\ turn \in {"none", "OrderStatuses"}
    /\ \/ /\ Stale(order_status_cache, h)
          /\ Drain("OrderStatuses", order_status_cache, order_diff_cache, over)
       \/ /\ ~Stale(order_status_cache, h)
          /\ ~PushRefused(order_status_cache, h, FALSE)
          /\ Drain("OrderStatuses", Pushed(order_status_cache, h), order_diff_cache, over)
       \/ /\ ~Stale(order_status_cache, h)
          /\ PushRefused(order_status_cache, h, over)
          /\ AbandonTurn

ReceiveDiffs(h, over) ==
    /\ turn \in {"none", "OrderDiffs"}
    /\ \/ /\ Stale(order_diff_cache, h)
          /\ Drain("OrderDiffs", order_status_cache, order_diff_cache, over)
       \/ /\ ~Stale(order_diff_cache, h)
          /\ ~PushRefused(order_diff_cache, h, FALSE)
          /\ Drain("OrderDiffs", order_status_cache, Pushed(order_diff_cache, h), over)
       \/ /\ ~Stale(order_diff_cache, h)
          /\ PushRefused(order_diff_cache, h, over)
          /\ AbandonTurn

\* A fill batch goes to the trades feed (Ingestion.tla has last_fill and what
\* becomes of it); for the book it is one more call of pop_cache.
ReceiveFills(over) ==
    /\ turn \in {"none", "Fills"}
    /\ Drain("Fills", order_status_cache, order_diff_cache, over)

\* After the last record: publish the book unless this height has been.
EndTurn ==
    /\ turn' = "none"
    /\ IF is_ready /\ ~order_book_state.snapped
       THEN /\ order_book_state' = [order_book_state EXCEPT !.snapped = TRUE]
            /\ Publish(Snapshot(order_book_state))
       ELSE Publish(Silent) /\ UNCHANGED order_book_state
    /\ UNCHANGED <<nodeHeight, queues, fetched_snapshot_cache,
                   recovery_epoch, fetch>>

-----------------------------------------------------------------------------
(* The maintenance tick and the snapshot ticker of the select loop.          *)

Spawn == fetch' = [fetch EXCEPT !.phase = "spawned"]

\* Mutant of AgeOutCache: the owner is outdated but its cache goes on.
AgeOutCache_KeepsCache ==
    /\ fetched_snapshot_cache # None
    /\ recovery_epoch < MaxEpoch
    /\ recovery_epoch' = recovery_epoch + 1
    /\ Publish(Silent)
    /\ UNCHANGED <<order_book_state, queues, fetched_snapshot_cache>>

\* The validation cache outlived queue_age: abandon this attempt only.
AgeOutCache ==
    /\ fetched_snapshot_cache # None
    /\ recovery_epoch < MaxEpoch
    /\ recovery_epoch' = recovery_epoch + 1
    /\ fetched_snapshot_cache' = None
    /\ Publish(Silent)
    /\ UNCHANGED <<order_book_state, queues>>

QueuesWithinAge ==
    /\ Publish(Silent)
    /\ UNCHANGED <<order_book_state, queues, fetched_snapshot_cache, recovery_epoch>>

\* A queue's front outlived queue_age.
ExpireQueues ==
    /\ order_status_cache.heights # {} \/ order_diff_cache.heights # {}
    /\ fence

\* Recovery is spawned once its retry time has come, if no task exists.
\* (When both ages are exceeded the epoch moves by two; one step suffices,
\* since only its difference from an earlier epoch is ever looked at.)
Maintenance(due) ==
    /\ LockFree
    /\ AgeOutCache \/ QueuesWithinAge \/ ExpireQueues
    /\ IF order_book_state' = None /\ fetch.phase = "idle" /\ due
       THEN Spawn
       ELSE UNCHANGED fetch
    /\ UNCHANGED <<nodeHeight, turn>>

TickerTick ==
    /\ LockFree
    /\ fetch.phase = "idle"
    /\ Spawn
    /\ Publish(Silent)
    /\ UNCHANGED <<nodeHeight, order_book_state, queues,
                   fetched_snapshot_cache, recovery_epoch, turn>>

-----------------------------------------------------------------------------
(* fetch_snapshot                                                            *)

\* Take the epoch and the validation baseline, and start caching pairs.
BeginFetch ==
    /\ LockFree
    /\ fetch.phase = "spawned"
    /\ fetch' = [fetch EXCEPT !.phase = "requesting", !.epoch = recovery_epoch,
                              !.base = order_book_state]
    /\ fetched_snapshot_cache' = [pairs |-> {}]
    /\ Publish(Silent)
    /\ UNCHANGED <<nodeHeight, order_book_state, queues,
                   recovery_epoch, turn>>

FetchTo(phase) == fetch' = [fetch EXCEPT !.phase = phase]

\* The task returns: only its result is left for join_next.
FetchEnds(phase) == fetch' = [NoFetch EXCEPT !.phase = phase]

\* The node has written its snapshot at some recent height (external).
NodeResponds(h) ==
    /\ fetch.phase = "requesting"
    /\ h =< nodeHeight /\ h + SnapshotLag >= nodeHeight
    /\ fetch' = [fetch EXCEPT !.phase = "responded", !.height = h]
    /\ Publish(Silent)
    /\ UNCHANGED <<nodeHeight, order_book_state, queues,
                   fetched_snapshot_cache, recovery_epoch, turn>>

\* Request or parse error: drop the cache, whatever the epoch, and keep the
\* live state.
FetchUnavailable ==
    /\ LockFree
    /\ fetch.phase \in {"requesting", "parsing"}
    /\ fetched_snapshot_cache' = None
    /\ FetchEnds("succeeded")
    /\ Publish(Silent)
    /\ UNCHANGED <<nodeHeight, order_book_state, queues,
                   recovery_epoch, turn>>

\* Mutant of CheckEpoch: an outdated task does not return.
CheckEpoch_Waits ==
    /\ LockFree
    /\ fetch.phase = "responded"
    /\ recovery_epoch = fetch.epoch
    /\ FetchTo("parsing")
    /\ Publish(Silent)
    /\ UNCHANGED <<nodeHeight, order_book_state, queues,
                   fetched_snapshot_cache, recovery_epoch, turn>>

\* The response is looked at only if no fence intervened.
CheckEpoch ==
    /\ LockFree
    /\ fetch.phase = "responded"
    /\ IF recovery_epoch # fetch.epoch THEN FetchEnds("succeeded") ELSE FetchTo("parsing")
    /\ Publish(Silent)
    /\ UNCHANGED <<nodeHeight, order_book_state, queues,
                   fetched_snapshot_cache, recovery_epoch, turn>>

\* The task panics; its cache is left to the fence of JoinFetch.
FetchPanics ==
    /\ fetch.phase \in {"spawned", "requesting", "responded", "parsing"}
    /\ FetchEnds("failed")
    /\ Publish(Silent)
    /\ UNCHANGED <<nodeHeight, order_book_state, queues,
                   fetched_snapshot_cache, recovery_epoch, turn>>

KeepState ==
    /\ Publish(Silent)
    /\ UNCHANGED order_book_state

\* Mutant of init_from_snapshot: ready without the queued pairs.
init_from_snapshot_NoReplay(h) ==
    /\ Publish(Silent)
    /\ FetchEnds("succeeded")
    /\ order_book_state' = from_snapshot(h, 0)
    /\ UNCHANGED queues

\* init_from_snapshot: apply every queued pair to the snapshot.  A failing
\* pair stays consumed and the listener stays unready until the next snapshot.
init_from_snapshot(h) ==
    LET b     == from_snapshot(h, 0)
        pairs == Paired(order_status_cache, order_diff_cache)
    IN  /\ Publish(Silent)
        /\ FetchEnds("succeeded")
        /\ \/ \E t \in Heights :
                /\ EndsAt(b, pairs, t)
                /\ order_book_state' = AppliedTo(b, t)
                /\ order_status_cache' = Drained(order_status_cache, order_diff_cache)
                /\ order_diff_cache' = Drained(order_diff_cache, order_status_cache)
           \/ \E bad \in Heights :
                /\ IsLeast(bad, Failing(b, pairs))
                /\ order_status_cache' = Above(order_status_cache, bad)
                /\ order_diff_cache' = Above(order_diff_cache, bad)
                /\ UNCHANGED order_book_state

\* Mutants of Reload: the rest of the cache is dropped; an empty-book refresh
\* loses the source time; a diverged book is kept.
Reload_DropsRest(added, baseline, rest) ==
    LET b == from_snapshot(fetch.height, IF added THEN baseline.time ELSE 0)
    IN  /\ order_book_state' = [b EXCEPT !.snapped = added]
        /\ Publish(IF added THEN Snapshot(b) ELSE Gap)
        /\ FetchEnds("succeeded")

Reload_NoTime(added, baseline, rest) ==
    LET b == from_snapshot(fetch.height, 0)
    IN  \E t \in Heights :
            /\ EndsAt(b, rest, t)
            /\ order_book_state' = [AppliedTo(b, t) EXCEPT !.snapped = added]
            /\ Publish(IF added THEN Snapshot(AppliedTo(b, t)) ELSE Gap)
            /\ FetchEnds("succeeded")

Reload_KeepsBook(added, baseline, rest) ==
    KeepState /\ FetchEnds("succeeded")

\* reconcile_snapshot's reload: rebuild from the node's snapshot and the rest
\* of the cache, then either refresh quietly or announce a Gap.
Reload(added, baseline, rest) ==
    LET b == from_snapshot(fetch.height, IF added THEN baseline.time ELSE 0)
    IN  \/ \E t \in Heights :
             /\ EndsAt(b, rest, t)
             /\ order_book_state' = [AppliedTo(b, t) EXCEPT !.snapped = added]
             /\ Publish(IF added THEN Snapshot(AppliedTo(b, t)) ELSE Gap)
             /\ FetchEnds("succeeded")
        \/ /\ Failing(b, rest) # {}
           /\ KeepState
           /\ FetchEnds("failed")

\* Validate the snapshot against the baseline brought to its height.
Validate(baseline, rest) ==
    LET verdict == Verdict[<<baseline.origin, baseline.height>>]
    IN  IF verdict = "Equal"
        THEN KeepState /\ FetchEnds("succeeded")
        ELSE Reload(verdict = "EmptyBooksAdded", baseline, rest)

\* Replaying the cache onto the baseline reaches the snapshot, or fails on a
\* pair, or (baseline too far, cache too short) cannot get to its height.
reconcile_snapshot(base, cache) ==
    IF base = None
    THEN init_from_snapshot(fetch.height)
    ELSE /\ UNCHANGED queues
         /\ IF CleanTo(base, cache, fetch.height)
            THEN Validate(AppliedTo(base, fetch.height), {h \in cache : h > fetch.height})
            ELSE /\ KeepState
                 /\ FetchEnds(IF base.height < fetch.height /\ Failing(base, cache) # {}
                              THEN "failed" ELSE "succeeded")

\* finish_snapshot: a fence since BeginFetch makes it a no-op.
FinishFetch ==
    /\ LockFree
    /\ fetch.phase = "parsing"
    /\ IF recovery_epoch # fetch.epoch
       THEN /\ KeepState
            /\ FetchEnds("succeeded")
            /\ UNCHANGED <<queues, fetched_snapshot_cache>>
       ELSE /\ fetched_snapshot_cache' = None
            /\ reconcile_snapshot(fetch.base, IF fetched_snapshot_cache = None THEN {}
                                              ELSE fetched_snapshot_cache.pairs)
    /\ UNCHANGED <<nodeHeight, recovery_epoch, turn>>

\* join_next: the owner learns the result; an error fences.
JoinFetch ==
    /\ LockFree
    /\ fetch.phase \in {"succeeded", "failed"}
    /\ fetch' = NoFetch
    /\ IF fetch.phase = "failed"
       THEN fence
       ELSE /\ Publish(Silent)
            /\ UNCHANGED <<order_book_state, queues, fetched_snapshot_cache,
                           recovery_epoch>>
    /\ UNCHANGED <<nodeHeight, turn>>

-----------------------------------------------------------------------------
\* Records reach the listener in any order, late, twice or never.
Receive == \E h \in 1..nodeHeight, over \in BOOLEAN :
              \/ ReceiveStatuses(h, over)
              \/ ReceiveDiffs(h, over)
              \/ ReceiveFills(over)

FetchStep ==
    \/ BeginFetch
    \/ \E h \in Heights : NodeResponds(h)
    \/ FetchUnavailable
    \/ CheckEpoch
    \/ FetchPanics
    \/ FinishFetch

Next ==
    \/ NodeBlock
    \/ SourceFence
    \/ \E src \in Sources : MalformedRecord(src)
    \/ Receive
    \/ EndTurn
    \/ \E due \in BOOLEAN : Maintenance(due)
    \/ TickerTick
    \/ FetchStep
    \/ JoinFetch

Spec == Init /\ [][Next]_vars

-----------------------------------------------------------------------------
\* Every variable of the listener and of its snapshot task has its type; in
\* particular no operation moves a book beyond the blocks that exist.
TypeOK ==
    /\ nodeHeight \in Heights
    /\ order_book_state \in Books \union {None}
    /\ order_status_cache \in Queues
    /\ order_diff_cache \in Queues
    /\ fetched_snapshot_cache \in Caches \union {None}
    /\ recovery_epoch \in Epochs
    /\ turn \in Sources \union {"none"}
    /\ fetch \in Fetches
    /\ out \in Messages
    /\ seen \in Histories

-----------------------------------------------------------------------------
(* Safety                                                                    *)

InFlight == fetch.phase \in {"requesting", "responded", "parsing"}

\* The task may still act on the listener: no epoch change since BeginFetch.
Current == InFlight /\ fetch.epoch = recovery_epoch

\* begin_caching / take_cache / fence: the validation cache belongs to the one
\* task in flight and is gone as soon as that task is outdated, so the
\* unconditional take_cache of the error paths never takes another's cache.
CacheOwned ==
    fetched_snapshot_cache # None => Current \/ fetch.phase = "failed"

\* fetch_snapshot's baseline: while the task is current, its clone is the live
\* book as it was, and the cache holds exactly the blocks applied since then.
BaselineCoherent ==
    Current =>
        /\ fetched_snapshot_cache # None
        /\ fetch.base = None <=> order_book_state = None
        /\ fetch.base # None =>
             /\ fetch.base.origin = order_book_state.origin
             /\ fetch.base.height =< order_book_state.height
             /\ fetched_snapshot_cache.pairs =
                    (fetch.base.height + 1)..order_book_state.height
             /\ fetch.base.height = order_book_state.height =>
                    fetch.base.time = order_book_state.time

\* reconcile_snapshot's first `?': replaying the cached pairs onto the
\* baseline never fails, so no fence comes from an unchanged book.
ReplayNeverFails ==
    Current /\ fetch.base # None =>
        Failing(fetch.base, fetched_snapshot_cache.pairs) = {}

\* receive_batch pops one pair per record: that is enough, because a ready
\* listener never has batches waiting in both queues.
NoPairedBacklog ==
    is_ready => order_status_cache.heights = {} \/ order_diff_cache.heights = {}

\* What was published since the last Gap is what the book is: updates up to
\* its height, a snapshot no later, and exactly its height once `snapped'.
\* Nothing is outstanding once the book is gone.
SubscribersInSync ==
    IF is_ready
    THEN /\ seen.l4 \in {0, order_book_state.height}
         /\ seen.l2 =< order_book_state.height
         /\ order_book_state.snapped => seen.l2 = order_book_state.height
    ELSE seen = [l4 |-> 0, l2 |-> 0]

\* The time of a book is that of the block at its height; only a book that no
\* block was applied to since its snapshot may have none.
TimeOfHeight ==
    is_ready => \/ order_book_state.time = order_book_state.height
                \/ /\ order_book_state.time = 0
                   /\ order_book_state.height = order_book_state.origin

\* Between two Gaps the L4 updates are consecutive blocks, and an L2 snapshot
\* is never older than one already published or out of step with the updates.
FeedOrdered ==
    [][/\ out'.kind = "L4BookUpdates" =>
            /\ seen.l4 \in {0, out'.height - 1}
            /\ seen.l2 < out'.height
       /\ out'.kind = "Snapshot" =>
            /\ seen.l4 \in {0, out'.height}
            /\ seen.l2 =< out'.height]_vars

\* reconcile_snapshot never replaces a live book behind its subscribers' back:
\* without a Gap the contents may differ by new empty books only, and height
\* and source time stay.  With a Gap, too, the height does not go back.
NoSilentRewrite ==
    [][is_ready /\ order_book_state' # None
         /\ order_book_state'.origin # order_book_state.origin =>
            /\ order_book_state'.height = order_book_state.height
            /\ \/ out' = Gap
               \/ /\ Verdict[<<order_book_state.origin, order_book_state'.origin>>]
                        = "EmptyBooksAdded"
                  /\ order_book_state'.time = order_book_state.time]_vars

\* The listener implements the feed its subscribers rely on.
Feed == INSTANCE BookFeed WITH
            height <- IF is_ready THEN order_book_state.height ELSE 0

ImplementsFeed == Feed!FeedSpec

=============================================================================
