------------------------ MODULE BookListener_proofs ------------------------
(***************************************************************************)
(* Proofs about BookListener for every node height, epoch bound, queue     *)
(* limit, and for every way blocks may be refused or diverge.              *)
(***************************************************************************)
EXTENDS BookListener, TLAPS

(***************************************************************************)
(* Facts about the operators the listener is built from.                   *)
(***************************************************************************)
\* What push and pop_cache return is a queue (BatchQueue::push, pop_cache).
LEMMA QueueTypes ==
    ASSUME NEW s \in Queues, NEW d \in Queues, NEW h \in Heights
    PROVE  /\ Pushed(s, h) \in Queues
           /\ Above(s, h) \in Queues
           /\ Drained(s, d) \in Queues
  <1>. USE BoundsAssumption DEF Heights, Queues
  <1>1. Pushed(s, h) \in Queues  BY DEF Pushed
  <1>2. Above(s, h) \in Queues   BY DEF Above
  <1>3. Drained(s, d) \in Queues BY DEF Drained
  <1>. QED  BY <1>1, <1>2, <1>3

\* A fenced queue is a queue (BatchQueue::new).
LEMMA EmptyQueueType == EmptyQueue \in Queues
  BY BoundsAssumption DEF Queues, EmptyQueue, Heights

\* Popping until no pair is left empties one queue: of the two fronts the
\* lower is dropped each time (pop_cache).
LEMMA DrainedOneSided ==
    ASSUME NEW s \in Queues, NEW d \in Queues
    PROVE  Drained(s, d).heights = {} \/ Drained(d, s).heights = {}
  <1>. DEFINE S == s.heights
             D == d.heights
  <1>1. S \in SUBSET Heights /\ D \in SUBSET Heights  BY DEF Queues
  <1>2. /\ Drained(s, d).heights = {x \in S : \A y \in D : x > y}
        /\ Drained(d, s).heights = {x \in D : \A y \in S : x > y}
    BY DEF Drained, Queues
  <1>3. SUFFICES ASSUME NEW x \in S, \A y \in D : x > y,
                        NEW z \in D, \A y \in S : z > y
                 PROVE  FALSE
    BY <1>2
  <1>. QED  BY <1>1, <1>3, BoundsAssumption DEF Heights

\* Applying a block to a book gives that book one height on (apply_updates).
LEMMA ApplyFacts ==
    ASSUME NEW b \in Books, NEW h \in Heights
    PROVE  /\ apply_updates(b, h) \in Books
           /\ apply_updates(b, h).origin = b.origin
           /\ apply_updates(b, h).height = h
           /\ apply_updates(b, h).time = h
           /\ apply_updates(b, h).snapped = FALSE
           /\ b # None
  <1>1. h \in 0..MaxHeight  BY BoundsAssumption DEF Heights
  <1>2. apply_updates(b, h) \in Books  BY <1>1 DEF Books, apply_updates
  <1>. QED  BY <1>2, NoneAssumption DEF Books, apply_updates

\* So does applying a run of blocks.
LEMMA AppliedFacts ==
    ASSUME NEW b \in Books, NEW h \in Heights
    PROVE  /\ AppliedTo(b, h) \in Books
           /\ AppliedTo(b, h).origin = b.origin
           /\ AppliedTo(b, h).height = h
           /\ AppliedTo(b, h).time = IF h = b.height THEN b.time ELSE h
  BY ApplyFacts DEF AppliedTo

\* A book built from a snapshot has that snapshot's height (from_snapshot).
LEMMA SnapshotFacts ==
    ASSUME NEW h \in Heights, NEW t \in 0..MaxHeight
    PROVE  /\ from_snapshot(h, t) \in Books
           /\ from_snapshot(h, t).origin = h
           /\ from_snapshot(h, t).height = h
           /\ from_snapshot(h, t).time = t
           /\ from_snapshot(h, t).snapped = FALSE
  BY DEF Books, from_snapshot

\* Publishing a book marks it and changes nothing else (l2_snapshots).
LEMMA SnappedFacts ==
    ASSUME NEW b \in Books, NEW f \in BOOLEAN
    PROVE  /\ [b EXCEPT !.snapped = f] \in Books
           /\ [b EXCEPT !.snapped = f].origin = b.origin
           /\ [b EXCEPT !.snapped = f].height = b.height
           /\ [b EXCEPT !.snapped = f].time = b.time
           /\ [b EXCEPT !.snapped = f].snapped = f
  BY DEF Books

\* The messages the listener sends (InternalMessage).
LEMMA MessageTypes ==
    /\ Silent \in Messages
    /\ Gap \in Messages
    /\ \A h \in Heights : L4BookUpdates(h) \in Messages
    /\ \A b \in Books : Snapshot(b) \in Messages
  <1>. USE BoundsAssumption DEF Messages, Heights
  <1>1. Silent \in Messages  BY DEF Silent
  <1>2. Gap \in Messages     BY DEF Gap
  <1>3. \A h \in Heights : L4BookUpdates(h) \in Messages  BY DEF L4BookUpdates
  <1>4. \A b \in Books : Snapshot(b) \in Messages  BY DEF Snapshot, Books
  <1>. QED  BY <1>1, <1>2, <1>3, <1>4

\* What publishing a message makes of the subscribers' history.
LEMMA PublishFacts ==
    ASSUME seen \in Histories
    PROVE  /\ Publish(Silent) => out' = Silent /\ seen' = seen
           /\ Publish(Gap) => out' = Gap /\ seen' = [l4 |-> 0, l2 |-> 0]
           /\ \A h \in Heights : Publish(L4BookUpdates(h)) =>
                 out' = L4BookUpdates(h) /\ seen' = [l4 |-> h, l2 |-> seen.l2]
           /\ \A b \in Books : Publish(Snapshot(b)) =>
                 out' = Snapshot(b) /\ seen' = [l4 |-> seen.l4, l2 |-> b.height]
  <1>. USE DEF Publish, Histories
  <1>1. Publish(Silent) => out' = Silent /\ seen' = seen  BY DEF Silent
  <1>2. Publish(Gap) => out' = Gap /\ seen' = [l4 |-> 0, l2 |-> 0]  BY DEF Gap
  <1>3. ASSUME NEW h \in Heights, Publish(L4BookUpdates(h))
        PROVE  out' = L4BookUpdates(h) /\ seen' = [l4 |-> h, l2 |-> seen.l2]
    BY <1>3 DEF L4BookUpdates
  <1>4. ASSUME NEW b \in Books, Publish(Snapshot(b))
        PROVE  out' = Snapshot(b) /\ seen' = [l4 |-> seen.l4, l2 |-> b.height]
    BY <1>4 DEF Snapshot
  <1>. QED  BY <1>1, <1>2, <1>3, <1>4

\* The snapshot task's record, after each way it may change.
LEMMA FetchTypes ==
    ASSUME fetch \in Fetches, NEW p \in Phases
    PROVE  /\ [fetch EXCEPT !.phase = p] \in Fetches
           /\ \A h \in Heights : [fetch EXCEPT !.phase = p, !.height = h] \in Fetches
           /\ \A e \in Epochs, b \in Books \union {None} :
                 [fetch EXCEPT !.phase = p, !.epoch = e, !.base = b] \in Fetches
           /\ NoFetch \in Fetches
           /\ [NoFetch EXCEPT !.phase = p] \in Fetches
  <1>1. /\ [fetch EXCEPT !.phase = p] \in Fetches
        /\ \A h \in Heights : [fetch EXCEPT !.phase = p, !.height = h] \in Fetches
        /\ \A e \in Epochs, b \in Books \union {None} :
              [fetch EXCEPT !.phase = p, !.epoch = e, !.base = b] \in Fetches
    BY DEF Fetches
  <1>2. 0 \in Epochs /\ 1 \in Heights  BY BoundsAssumption DEF Epochs, Heights
  <1>3. NoFetch \in Fetches  BY <1>2 DEF NoFetch, Fetches, Phases
  <1>4. [NoFetch EXCEPT !.phase = p] \in Fetches  BY <1>3 DEF Fetches
  <1>. QED  BY <1>1, <1>3, <1>4

(***************************************************************************)
(* Type correctness.                                                       *)
(***************************************************************************)
\* Publishing keeps the message and the history well typed.
LEMMA PublishTypes ==
    ASSUME seen \in Histories, NEW m,
           \/ m \in {Silent, Gap}
           \/ \E h \in Heights : m = L4BookUpdates(h)
           \/ \E b \in Books : m = Snapshot(b),
           Publish(m)
    PROVE  out' \in Messages /\ seen' \in Histories
  <1>1. 0 \in 0..MaxHeight /\ Heights \subseteq 0..MaxHeight
    BY BoundsAssumption DEF Heights
  <1>2. m \in Messages  BY MessageTypes
  <1>3. out' \in Messages  BY <1>2 DEF Publish
  <1>4. seen' \in Histories
    <2>1. CASE m \in {Silent, Gap}  BY <2>1, <1>1, PublishFacts DEF Histories
    <2>2. ASSUME NEW h \in Heights, m = L4BookUpdates(h)  PROVE seen' \in Histories
      BY <2>2, <1>1, PublishFacts DEF Histories
    <2>3. ASSUME NEW b \in Books, m = Snapshot(b)  PROVE seen' \in Histories
      <3>1. b.height \in Heights  BY DEF Books
      <3>2. seen' = [l4 |-> seen.l4, l2 |-> b.height]  BY <2>3, PublishFacts
      <3>. QED  BY <3>1, <3>2, <1>1 DEF Histories
    <2>. QED  BY <2>1, <2>2, <2>3
  <1>. QED  BY <1>3, <1>4

\* What a step assigns besides the node's head, the turn and the task.
ListenerTypes ==
    /\ order_book_state \in Books \union {None}
    /\ order_status_cache \in Queues
    /\ order_diff_cache \in Queues
    /\ fetched_snapshot_cache \in Caches \union {None}
    /\ recovery_epoch \in Epochs
    /\ out \in Messages
    /\ seen \in Histories

\* fence leaves a well-typed listener.
LEMMA FenceTypes == TypeOK /\ fence => ListenerTypes'
  <1>. SUFFICES ASSUME TypeOK, fence  PROVE ListenerTypes'
    OBVIOUS
  <1>1. recovery_epoch' \in Epochs
    BY BoundsAssumption DEF TypeOK, fence, Epochs
  <1>2. order_status_cache' \in Queues /\ order_diff_cache' \in Queues
    BY EmptyQueueType DEF fence
  <1>3. out' \in Messages /\ seen' \in Histories
    BY PublishTypes DEF TypeOK, fence
  <1>. QED  BY <1>1, <1>2, <1>3 DEF fence, ListenerTypes

\* One record leaves a well-typed listener (the tail of receive_batch).
LEMMA DrainTypes ==
    ASSUME TypeOK, NEW src \in Sources, NEW s \in Queues, NEW d \in Queues,
           NEW over \in BOOLEAN, Drain(src, s, d, over)
    PROVE  TypeOK'
  <1>. USE DEF Continue
  <1>1. nodeHeight' \in Heights /\ fetch' \in Fetches /\ turn' \in Sources \union {"none"}
    BY DEF TypeOK, Drain, AbandonTurn
  <1>2. ASSUME NothingApplied
        PROVE  /\ order_book_state' \in Books \union {None}
               /\ fetched_snapshot_cache' \in Caches \union {None}
               /\ recovery_epoch' \in Epochs
               /\ out' \in Messages /\ seen' \in Histories
    BY <1>2, PublishTypes DEF TypeOK, NothingApplied
  <1>3. ASSUME NEW h \in Heights, is_ready, ApplyPair(h, over)
        PROVE  /\ order_book_state' \in Books \union {None}
               /\ fetched_snapshot_cache' \in Caches \union {None}
               /\ recovery_epoch' \in Epochs
               /\ out' \in Messages /\ seen' \in Histories
    <2>1. order_book_state' \in Books
      BY <1>3, ApplyFacts DEF TypeOK, is_ready, ApplyPair
    <2>2. fetched_snapshot_cache' \in Caches \union {None}
      BY <1>3 DEF TypeOK, ApplyPair, Caches
    <2>3. recovery_epoch' \in Epochs
      BY <1>3, BoundsAssumption DEF TypeOK, ApplyPair, Epochs
    <2>4. out' \in Messages /\ seen' \in Histories
      BY <1>3, PublishTypes DEF TypeOK, ApplyPair
    <2>. QED  BY <2>1, <2>2, <2>3, <2>4
  <1>4. CASE ~is_ready /\ order_status_cache' = s /\ order_diff_cache' = d /\ NothingApplied
    BY <1>1, <1>2, <1>4 DEF TypeOK
  <1>5. CASE /\ order_status_cache' = Drained(s, d) /\ order_diff_cache' = Drained(d, s)
             /\ NothingApplied
    <2>1. order_status_cache' \in Queues /\ order_diff_cache' \in Queues
      BY <1>5 DEF Drained, Queues
    <2>. QED  BY <1>1, <1>2, <1>5, <2>1 DEF TypeOK
  <1>6. ASSUME NEW h \in Heights, is_ready,
               order_status_cache' = Above(s, h), order_diff_cache' = Above(d, h),
               NothingApplied \/ ApplyPair(h, over)
        PROVE  TypeOK'
    <2>1. order_status_cache' \in Queues /\ order_diff_cache' \in Queues
      BY <1>6, QueueTypes
    <2>. QED  BY <1>1, <1>2, <1>3, <1>6, <2>1 DEF TypeOK
  <1>7. CASE AbandonTurn
    BY <1>1, <1>7, FenceTypes DEF AbandonTurn, TypeOK, ListenerTypes
  <1>. QED  BY <1>4, <1>5, <1>6, <1>7 DEF Drain

\* A step of the snapshot task that ends it leaves well-typed variables.
LEMMA FinishTypes == TypeOK /\ FinishFetch => TypeOK'
  <1>. SUFFICES ASSUME TypeOK, FinishFetch  PROVE TypeOK'
    OBVIOUS
  <1>. DEFINE cache == IF fetched_snapshot_cache = None THEN {}
                       ELSE fetched_snapshot_cache.pairs
             good  == /\ order_book_state' \in Books \union {None}
                      /\ order_status_cache' \in Queues
                      /\ order_diff_cache' \in Queues
                      /\ fetch' \in Fetches
                      /\ out' \in Messages /\ seen' \in Histories
  <1>1. 0 \in 0..MaxHeight /\ fetch.height \in Heights /\ fetch.base \in Books \union {None}
    BY BoundsAssumption DEF TypeOK, Fetches, Heights
  <1>2. ASSUME NEW p \in Phases, FetchEnds(p)  PROVE fetch' \in Fetches
    BY <1>2, FetchTypes DEF FetchEnds, TypeOK
  <1>3. KeepState => /\ order_book_state' \in Books \union {None}
                     /\ out' \in Messages /\ seen' \in Histories
    BY PublishTypes DEF TypeOK, KeepState
  <1>4. ASSUME KeepState, UNCHANGED queues, NEW p \in Phases, FetchEnds(p)  PROVE good
    BY <1>2, <1>3, <1>4 DEF TypeOK, queues
  <1>5. ASSUME init_from_snapshot(fetch.height)  PROVE good
    <2>1. from_snapshot(fetch.height, 0) \in Books  BY <1>1, SnapshotFacts
    <2>2. order_book_state' \in Books \union {None}
      BY <1>5, <2>1, AppliedFacts DEF TypeOK, init_from_snapshot
    <2>3. order_status_cache' \in Queues /\ order_diff_cache' \in Queues
      <3>1. CASE /\ order_status_cache' = Drained(order_status_cache, order_diff_cache)
                 /\ order_diff_cache' = Drained(order_diff_cache, order_status_cache)
        BY <3>1, <1>1, QueueTypes DEF TypeOK
      <3>2. ASSUME NEW bad \in Heights, order_status_cache' = Above(order_status_cache, bad),
                   order_diff_cache' = Above(order_diff_cache, bad)
            PROVE  order_status_cache' \in Queues /\ order_diff_cache' \in Queues
        BY <3>2, QueueTypes DEF TypeOK
      <3>. QED  BY <1>5, <3>1, <3>2 DEF init_from_snapshot
    <2>4. out' \in Messages /\ seen' \in Histories
      BY <1>5, PublishTypes DEF TypeOK, init_from_snapshot
    <2>5. fetch' \in Fetches  BY <1>2, <1>5 DEF init_from_snapshot, Phases
    <2>. QED  BY <2>2, <2>3, <2>4, <2>5
  <1>6. ASSUME NEW added \in BOOLEAN, NEW baseline \in Books, NEW rest,
               Reload(added, baseline, rest), UNCHANGED queues
        PROVE  good
    <2>. DEFINE time == IF added THEN baseline.time ELSE 0
                b    == from_snapshot(fetch.height, time)
    <2>1. time \in 0..MaxHeight  BY <1>1 DEF Books
    <2>2. b \in Books  BY <1>1, <2>1, SnapshotFacts
    <2>3. ASSUME NEW t \in Heights,
                 order_book_state' = [AppliedTo(b, t) EXCEPT !.snapped = added],
                 Publish(IF added THEN Snapshot(AppliedTo(b, t)) ELSE Gap),
                 FetchEnds("succeeded")
          PROVE  good
      <3>. HIDE DEF b
      <3>1. AppliedTo(b, t) \in Books  BY <2>2, AppliedFacts
      <3>2. order_book_state' \in Books  BY <2>3, <3>1, SnappedFacts
      <3>3. out' \in Messages /\ seen' \in Histories
        BY <2>3, <3>1, PublishTypes DEF TypeOK
      <3>. QED  BY <1>2, <1>6, <2>3, <3>2, <3>3 DEF TypeOK, queues, Phases
    <2>4. CASE KeepState /\ FetchEnds("failed")  BY <1>4, <1>6, <2>4 DEF Phases
    <2>. QED  BY <1>6, <2>3, <2>4 DEF Reload
  <1>7. CASE recovery_epoch # fetch.epoch
    <2>1. good  BY <1>4, <1>7 DEF FinishFetch, Phases
    <2>. QED  BY <1>7, <2>1 DEF TypeOK, FinishFetch
  <1>8. CASE recovery_epoch = fetch.epoch
    <2>1. fetched_snapshot_cache' = None /\ reconcile_snapshot(fetch.base, cache)
      BY <1>8 DEF FinishFetch
    <2>2. good
      <3>1. CASE fetch.base = None  BY <1>5, <2>1, <3>1 DEF reconcile_snapshot
      <3>2. CASE fetch.base # None /\ CleanTo(fetch.base, cache, fetch.height)
        <4>. DEFINE baseline == AppliedTo(fetch.base, fetch.height)
                    rest     == {h \in cache : h > fetch.height}
        <4>1. UNCHANGED queues /\ Validate(baseline, rest)
          BY <2>1, <3>2 DEF reconcile_snapshot
        <4>2. baseline \in Books  BY <1>1, <3>2, AppliedFacts
        <4>. HIDE DEF baseline, rest
        <4>3. CASE KeepState /\ FetchEnds("succeeded")  BY <1>4, <4>1, <4>3 DEF Phases
        <4>4. ASSUME NEW v, Reload(v = "EmptyBooksAdded", baseline, rest)  PROVE good
          BY <1>6, <4>1, <4>2, <4>4
        <4>. QED  BY <4>1, <4>3, <4>4 DEF Validate
      <3>3. CASE fetch.base # None /\ ~CleanTo(fetch.base, cache, fetch.height)
        BY <1>4, <2>1, <3>3 DEF reconcile_snapshot, Phases
      <3>. QED  BY <3>1, <3>2, <3>3
    <2>. QED  BY <2>1, <2>2 DEF TypeOK, FinishFetch
  <1>. QED  BY <1>7, <1>8

\* Every step preserves the types, action by action.
LEMMA TypeStep == TypeOK /\ [Next]_vars => TypeOK'
  <1>. SUFFICES ASSUME TypeOK, [Next]_vars  PROVE TypeOK'
    OBVIOUS
  <1>. DEFINE book == /\ order_book_state' \in Books \union {None}
                      /\ order_status_cache' \in Queues
                      /\ order_diff_cache' \in Queues
             msg  == out' \in Messages /\ seen' \in Histories
  <1>1. ASSUME NEW h \in 1..nodeHeight, NEW over \in BOOLEAN
        PROVE  ReceiveStatuses(h, over) \/ ReceiveDiffs(h, over) \/ ReceiveFills(over)
                  => TypeOK'
    <2>1. h \in Heights  BY BoundsAssumption DEF TypeOK, Heights
    <2>2. /\ Pushed(order_status_cache, h) \in Queues
          /\ Pushed(order_diff_cache, h) \in Queues
      BY <2>1, QueueTypes DEF TypeOK
    <2>3. AbandonTurn => TypeOK'
      BY FenceTypes DEF AbandonTurn, TypeOK, ListenerTypes
    <2>4. ReceiveStatuses(h, over) => TypeOK'
      BY <2>2, <2>3, DrainTypes DEF ReceiveStatuses, TypeOK, Sources
    <2>5. ReceiveDiffs(h, over) => TypeOK'
      BY <2>2, <2>3, DrainTypes DEF ReceiveDiffs, TypeOK, Sources
    <2>6. ReceiveFills(over) => TypeOK'
      BY DrainTypes DEF ReceiveFills, TypeOK, Sources
    <2>. QED  BY <2>4, <2>5, <2>6
  <1>2. CASE Receive  BY <1>1, <1>2 DEF Receive
  <1>3. CASE NodeBlock
    <2>1. nodeHeight' \in Heights  BY <1>3, BoundsAssumption DEF NodeBlock, TypeOK, Heights
    <2>. QED  BY <1>3, <2>1, MessageTypes DEF NodeBlock, TypeOK, queues
  <1>4. CASE SourceFence
    BY <1>4, FenceTypes DEF SourceFence, TypeOK, ListenerTypes
  <1>5. ASSUME NEW src \in Sources, MalformedRecord(src)  PROVE TypeOK'
    BY <1>5, FenceTypes DEF MalformedRecord, AbandonTurn, TypeOK, ListenerTypes
  <1>6. CASE EndTurn
    <2>1. CASE is_ready /\ ~order_book_state.snapped
      <3>1. order_book_state \in Books  BY <2>1 DEF TypeOK, is_ready
      <3>2. order_book_state' \in Books  BY <1>6, <2>1, <3>1, SnappedFacts DEF EndTurn
      <3>3. msg  BY <1>6, <2>1, <3>1, PublishTypes DEF EndTurn, TypeOK
      <3>. QED  BY <1>6, <3>2, <3>3 DEF EndTurn, TypeOK, queues
    <2>2. CASE ~(is_ready /\ ~order_book_state.snapped)
      <3>1. msg  BY <1>6, <2>2, PublishTypes DEF EndTurn, TypeOK
      <3>. QED  BY <1>6, <2>2, <3>1 DEF EndTurn, TypeOK, queues
    <2>. QED  BY <2>1, <2>2
  <1>7. ASSUME NEW due \in BOOLEAN, Maintenance(due)  PROVE TypeOK'
    <2>1. fetch' \in Fetches
      BY <1>7, FetchTypes DEF Maintenance, Spawn, TypeOK, Phases
    <2>2. ListenerTypes'
      <3>1. CASE AgeOutCache
        <4>1. msg  BY <3>1, PublishTypes DEF AgeOutCache, TypeOK
        <4>2. recovery_epoch' \in Epochs
          BY <3>1, BoundsAssumption DEF AgeOutCache, TypeOK, Epochs
        <4>. QED  BY <3>1, <4>1, <4>2 DEF AgeOutCache, TypeOK, ListenerTypes, queues
      <3>2. CASE QueuesWithinAge
        <4>1. msg  BY <3>2, PublishTypes DEF QueuesWithinAge, TypeOK
        <4>. QED  BY <3>2, <4>1 DEF QueuesWithinAge, TypeOK, ListenerTypes, queues
      <3>3. CASE ExpireQueues  BY <3>3, FenceTypes DEF ExpireQueues
      <3>. QED  BY <1>7, <3>1, <3>2, <3>3 DEF Maintenance
    <2>. QED  BY <1>7, <2>1, <2>2 DEF Maintenance, TypeOK, ListenerTypes
  <1>8. CASE TickerTick
    <2>1. fetch' \in Fetches  BY <1>8, FetchTypes DEF TickerTick, Spawn, TypeOK, Phases
    <2>2. msg  BY <1>8, PublishTypes DEF TickerTick, TypeOK
    <2>. QED  BY <1>8, <2>1, <2>2 DEF TickerTick, TypeOK, queues
  <1>9. CASE BeginFetch
    <2>1. fetch' \in Fetches  BY <1>9, FetchTypes DEF BeginFetch, TypeOK, Phases
    <2>2. msg  BY <1>9, PublishTypes DEF BeginFetch, TypeOK
    <2>3. fetched_snapshot_cache' \in Caches  BY <1>9 DEF BeginFetch, Caches
    <2>. QED  BY <1>9, <2>1, <2>2, <2>3 DEF BeginFetch, TypeOK, queues
  <1>10. ASSUME NEW h \in Heights, NodeResponds(h)  PROVE TypeOK'
    <2>1. fetch' \in Fetches  BY <1>10, FetchTypes DEF NodeResponds, TypeOK, Phases
    <2>2. msg  BY <1>10, PublishTypes DEF NodeResponds, TypeOK
    <2>. QED  BY <1>10, <2>1, <2>2 DEF NodeResponds, TypeOK, queues
  <1>11. CASE FetchUnavailable \/ CheckEpoch \/ FetchPanics
    <2>1. fetch' \in Fetches
      BY <1>11, FetchTypes DEF FetchUnavailable, CheckEpoch, FetchPanics, FetchEnds,
                               FetchTo, TypeOK, Phases
    <2>2. msg  BY <1>11, PublishTypes DEF FetchUnavailable, CheckEpoch, FetchPanics, TypeOK
    <2>. QED
      BY <1>11, <2>1, <2>2 DEF FetchUnavailable, CheckEpoch, FetchPanics, TypeOK, queues
  <1>12. CASE FinishFetch  BY <1>12, FinishTypes
  <1>13. CASE JoinFetch
    <2>1. fetch' \in Fetches  BY <1>13, FetchTypes DEF JoinFetch, TypeOK, Phases
    <2>2. ListenerTypes'
      <3>1. CASE fetch.phase = "failed"  BY <1>13, <3>1, FenceTypes DEF JoinFetch
      <3>2. CASE fetch.phase # "failed"
        <4>1. msg  BY <1>13, <3>2, PublishTypes DEF JoinFetch, TypeOK
        <4>. QED  BY <1>13, <3>2, <4>1 DEF JoinFetch, TypeOK, ListenerTypes, queues
      <3>. QED  BY <3>1, <3>2
    <2>. QED  BY <1>13, <2>1, <2>2 DEF JoinFetch, TypeOK, ListenerTypes
  <1>14. CASE UNCHANGED vars  BY <1>14 DEF TypeOK, vars
  <1>. QED  BY <1>2, <1>3, <1>4, <1>5, <1>6, <1>7, <1>8, <1>9, <1>10, <1>11, <1>12,
              <1>13, <1>14 DEF Next, FetchStep

\* The initial listener is well typed (OrderBookListener::new).
LEMMA TypeInit == Init => TypeOK
  <1>1. 1 \in Heights /\ 0 \in 0..MaxHeight /\ 0 \in Epochs
    BY BoundsAssumption DEF Heights, Epochs
  <1>2. NoFetch \in Fetches  BY <1>1 DEF NoFetch, Fetches, Phases
  <1>. QED  BY <1>1, <1>2, EmptyQueueType, MessageTypes DEF Init, TypeOK, Histories

\* The listener, its queues, its validation cache and its snapshot task are
\* well typed in every state, whatever the limits: no handler takes a book
\* past the blocks that exist or leaves a queue half updated.
THEOREM TypeCorrect == Spec => []TypeOK
  BY TypeInit, TypeStep, PTL DEF Spec

(***************************************************************************)
(* The inductive invariant.  The properties of the listener hold together  *)
(* and not one by one: a reload keeps the subscribers in sync only because *)
(* the cache is exactly the run of blocks between the baseline and the     *)
(* live book, which holds only because an outdated task has no cache.      *)
(* Three facts are added: a task's epoch is never ahead of the listener's, *)
(* and baseline and live book consist of blocks after their snapshot,      *)
(* which the live book accepted.                                           *)
(***************************************************************************)
EpochOrder == fetch.epoch =< recovery_epoch

BaseAfterOrigin == fetch.base # None => fetch.base.origin =< fetch.base.height

BlocksAccepted ==
    is_ready =>
        /\ order_book_state.origin =< order_book_state.height
        /\ \A h \in (order_book_state.origin + 1)..order_book_state.height :
               <<order_book_state.origin, h>> \notin Rejected

TaskInv == CacheOwned /\ BaselineCoherent /\ EpochOrder /\ BaseAfterOrigin
BookInv == BlocksAccepted /\ NoPairedBacklog /\ SubscribersInSync /\ TimeOfHeight
IndInv  == TypeOK /\ TaskInv /\ BookInv

(***************************************************************************)
(* The snapshot task and its cache.                                        *)
(***************************************************************************)
\* Counting the epoch up and dropping the cache outdates the task in flight
\* (fence, the age limit, a full validation cache).
LEMMA TaskOutdated ==
    ASSUME TypeOK, TaskInv,
           recovery_epoch' = recovery_epoch + 1, fetched_snapshot_cache' = None,
           \/ fetch' = fetch
           \/ Spawn
           \/ fetch' = NoFetch
    PROVE  TaskInv'
  <1>1. recovery_epoch \in Nat /\ fetch.epoch \in Nat
    BY BoundsAssumption DEF TypeOK, Fetches, Epochs
  <1>2. /\ fetch'.epoch = fetch.epoch \/ fetch'.epoch = 0
        /\ fetch'.base = fetch.base \/ fetch'.base = None
    BY DEF TypeOK, Fetches, Spawn, NoFetch
  <1>3. EpochOrder' /\ ~Current'  BY <1>1, <1>2 DEF TaskInv, EpochOrder, Current
  <1>4. BaseAfterOrigin'  BY <1>2 DEF TaskInv, BaseAfterOrigin
  <1>. QED  BY <1>3, <1>4 DEF TaskInv, CacheOwned, BaselineCoherent

\* A task that returned leaves nothing behind, unless its panic is still to
\* be fenced (fetch_snapshot's returns).
LEMMA TaskReturned ==
    ASSUME TypeOK, TaskInv, NEW p \in {"succeeded", "failed"}, FetchEnds(p),
           recovery_epoch' = recovery_epoch,
           p = "succeeded" => fetched_snapshot_cache' = None
    PROVE  TaskInv'
  <1>1. fetch'.phase = p /\ fetch'.epoch = 0 /\ fetch'.base = None
    BY DEF FetchEnds, NoFetch
  <1>2. recovery_epoch \in Nat  BY BoundsAssumption DEF TypeOK, Epochs
  <1>3. ~Current' /\ EpochOrder'  BY <1>1, <1>2 DEF Current, InFlight, EpochOrder
  <1>. QED  BY <1>1, <1>3 DEF TaskInv, CacheOwned, BaselineCoherent, BaseAfterOrigin

\* Applying a pair extends the cache by exactly the block the live book gains.
LEMMA TaskApplies ==
    ASSUME TypeOK, TaskInv, is_ready, NEW h \in Heights, NEW over \in BOOLEAN,
           CanApply(order_book_state, h), ApplyPair(h, over), UNCHANGED fetch
    PROVE  TaskInv'
  <1>. DEFINE live  == order_book_state
             cache == fetched_snapshot_cache
  <1>1. live \in Books  BY DEF TypeOK, is_ready
  <1>2. /\ live' \in Books /\ live' # None
        /\ live'.origin = live.origin /\ live'.height = live.height + 1
    BY <1>1, ApplyFacts DEF ApplyPair, CanApply
  <1>3. CASE recovery_epoch' = recovery_epoch + 1 /\ cache' = None
    BY <1>3, TaskOutdated
  <1>4. CASE recovery_epoch' = recovery_epoch /\ cache = None /\ cache' = None
    BY <1>4 DEF TaskInv, CacheOwned, BaselineCoherent, EpochOrder, BaseAfterOrigin,
                Current, InFlight
  <1>5. CASE recovery_epoch' = recovery_epoch /\ cache # None
               /\ cache' = [pairs |-> cache.pairs \union {h}]
    <2>1. CacheOwned' /\ EpochOrder' /\ BaseAfterOrigin'
      BY <1>5 DEF TaskInv, CacheOwned, EpochOrder, BaseAfterOrigin, Current, InFlight
    <2>2. BaselineCoherent'
      <3>. SUFFICES ASSUME Current  PROVE BaselineCoherent!2'
        BY <1>5 DEF BaselineCoherent, Current, InFlight
      <3>1. BaselineCoherent!2  BY DEF TaskInv, BaselineCoherent
      <3>2. fetch.base \in Books /\ fetch.base # None
        BY <3>1 DEF is_ready, TypeOK, Fetches
      <3>3. cache' \in Caches /\ cache' # None
        BY <1>1, <1>5, NoneAssumption DEF TypeOK, Caches
      <3>4. fetch.base.height \in Int /\ live.height \in Int /\ h = live.height + 1
        BY <1>1, <3>2, BoundsAssumption DEF Books, Heights, CanApply
      <3>5. cache'.pairs = (fetch.base.height + 1)..live'.height
        <4>1. cache.pairs = (fetch.base.height + 1)..live.height  BY <3>1, <3>2
        <4>2. fetch.base.height =< live.height  BY <3>1, <3>2
        <4>. QED  BY <1>2, <1>5, <3>4, <4>1, <4>2
      <3>6. fetch.base.height =< live'.height /\ fetch.base.height # live'.height
        BY <1>2, <3>1, <3>2, <3>4
      <3>. QED  BY <1>2, <3>1, <3>2, <3>3, <3>5, <3>6
    <2>. QED  BY <2>1, <2>2 DEF TaskInv
  <1>. QED  BY <1>3, <1>4, <1>5 DEF ApplyPair

\* A record of a read turn leaves the task its coherent baseline.
LEMMA TaskDrains ==
    ASSUME TypeOK, TaskInv, NEW src \in Sources, NEW s, NEW d,
           NEW over \in BOOLEAN, Drain(src, s, d, over)
    PROVE  TaskInv'
  <1>1. CASE AbandonTurn  BY <1>1, TaskOutdated DEF AbandonTurn, fence
  <1>2. CASE NothingApplied /\ UNCHANGED fetch
    BY <1>2 DEF NothingApplied, TaskInv, CacheOwned, BaselineCoherent, EpochOrder,
                BaseAfterOrigin, Current, InFlight
  <1>3. ASSUME NEW h \in Heights, is_ready, CanApply(order_book_state, h),
               ApplyPair(h, over), UNCHANGED fetch
        PROVE  TaskInv'
    BY <1>3, TaskApplies
  <1>. QED  BY <1>1, <1>2, <1>3 DEF Drain, Continue

\* Every step keeps the cache with its owner and the baseline coherent.
LEMMA TaskStep == IndInv /\ [Next]_vars => TaskInv'
  <1>. SUFFICES ASSUME TypeOK, TaskInv, BookInv, [Next]_vars  PROVE TaskInv'
    BY DEF IndInv
  <1>. DEFINE same == UNCHANGED <<order_book_state, fetched_snapshot_cache, recovery_epoch>>
  <1>1. ASSUME NEW h \in 1..nodeHeight, NEW over \in BOOLEAN
        PROVE  ReceiveStatuses(h, over) \/ ReceiveDiffs(h, over) \/ ReceiveFills(over)
                  => TaskInv'
    <2>1. AbandonTurn => TaskInv'  BY TaskOutdated DEF AbandonTurn, fence
    <2>. QED  BY <2>1, TaskDrains DEF ReceiveStatuses, ReceiveDiffs, ReceiveFills, Sources
  <1>2. CASE Receive  BY <1>1, <1>2 DEF Receive
  <1>3. CASE UNCHANGED fetch /\ same
    BY <1>3 DEF TaskInv, CacheOwned, BaselineCoherent, EpochOrder, BaseAfterOrigin,
                Current, InFlight
  <1>4. CASE SourceFence \/ \E src \in Sources : MalformedRecord(src)
    BY <1>4, TaskOutdated DEF SourceFence, MalformedRecord, AbandonTurn, fence
  <1>5. CASE EndTurn
    <2>1. CASE is_ready /\ ~order_book_state.snapped
      <3>1. order_book_state \in Books  BY <2>1 DEF TypeOK, is_ready
      <3>2. order_book_state' = [order_book_state EXCEPT !.snapped = TRUE]
        BY <1>5, <2>1 DEF EndTurn
      <3>3. /\ order_book_state' \in Books
            /\ order_book_state'.origin = order_book_state.origin
            /\ order_book_state'.height = order_book_state.height
            /\ order_book_state'.time = order_book_state.time
        BY <3>1, <3>2, SnappedFacts
      <3>. QED
        BY <1>5, <3>1, <3>3, NoneAssumption
           DEF EndTurn, TaskInv, CacheOwned, BaselineCoherent, EpochOrder,
               BaseAfterOrigin, Current, InFlight
    <2>2. CASE ~(is_ready /\ ~order_book_state.snapped)  BY <1>3, <1>5, <2>2 DEF EndTurn
    <2>. QED  BY <2>1, <2>2
  <1>6. ASSUME same, fetch.phase = "idle", Spawn  PROVE TaskInv'
    <2>1. fetch'.phase = "spawned" /\ fetch'.epoch = fetch.epoch /\ fetch'.base = fetch.base
      BY <1>6 DEF Spawn, TypeOK, Fetches
    <2>. QED  BY <1>6, <2>1 DEF TaskInv, CacheOwned, BaselineCoherent, EpochOrder,
                                BaseAfterOrigin, Current, InFlight
  <1>7. ASSUME NEW due \in BOOLEAN, Maintenance(due)  PROVE TaskInv'
    <2>1. UNCHANGED fetch \/ (fetch.phase = "idle" /\ Spawn)  BY <1>7 DEF Maintenance
    <2>2. CASE AgeOutCache \/ ExpireQueues
      BY <2>1, <2>2, TaskOutdated DEF AgeOutCache, ExpireQueues, fence
    <2>3. CASE QueuesWithinAge  BY <1>3, <1>6, <2>1, <2>3 DEF QueuesWithinAge
    <2>. QED  BY <1>7, <2>2, <2>3 DEF Maintenance
  <1>8. CASE TickerTick  BY <1>6, <1>8 DEF TickerTick
  <1>9. CASE BeginFetch
    <2>1. /\ fetch'.phase = "requesting" /\ fetch'.epoch = recovery_epoch
          /\ fetch'.base = order_book_state
      BY <1>9 DEF BeginFetch, TypeOK, Fetches
    <2>2. fetched_snapshot_cache' # None /\ fetched_snapshot_cache'.pairs = {}
      BY <1>9, NoneAssumption DEF BeginFetch, Caches
    <2>3. recovery_epoch \in Nat  BY BoundsAssumption DEF TypeOK, Epochs
    <2>4. CacheOwned' /\ EpochOrder'
      BY <1>9, <2>1, <2>3 DEF BeginFetch, CacheOwned, EpochOrder, Current, InFlight
    <2>5. BaseAfterOrigin' /\ BaselineCoherent'
      <3>1. CASE order_book_state = None
        BY <1>9, <2>1, <2>2, <3>1 DEF BeginFetch, BaseAfterOrigin, BaselineCoherent
      <3>2. CASE order_book_state # None
        <4>1. order_book_state.height \in Int
          BY <3>2, BoundsAssumption DEF TypeOK, Books, Heights
        <4>2. {} = (order_book_state.height + 1)..order_book_state.height  BY <4>1
        <4>3. BaselineCoherent'
          BY <1>9, <2>1, <2>2, <3>2, <4>1, <4>2 DEF BeginFetch, BaselineCoherent
        <4>4. BaseAfterOrigin'
          BY <2>1, <3>2 DEF BookInv, BlocksAccepted, is_ready, BaseAfterOrigin
        <4>. QED  BY <4>3, <4>4
      <3>. QED  BY <3>1, <3>2
    <2>. QED  BY <2>4, <2>5 DEF TaskInv
  <1>10. ASSUME same, NEW q \in {"requesting", "responded"}, fetch.phase = q,
               fetch'.phase \in {"responded", "parsing"},
               fetch'.epoch = fetch.epoch, fetch'.base = fetch.base
        PROVE  TaskInv'
    BY <1>10 DEF TaskInv, CacheOwned, BaselineCoherent, EpochOrder, BaseAfterOrigin,
                 Current, InFlight
  <1>11. ASSUME NEW h \in Heights, NodeResponds(h)  PROVE TaskInv'
    <2>1. fetch'.phase = "responded" /\ fetch'.epoch = fetch.epoch /\ fetch'.base = fetch.base
      BY <1>11 DEF NodeResponds, TypeOK, Fetches
    <2>. QED  BY <1>10, <1>11, <2>1 DEF NodeResponds
  <1>12. CASE CheckEpoch
    <2>1. CASE recovery_epoch # fetch.epoch
      <3>1. fetched_snapshot_cache = None
        BY <1>12, <2>1 DEF CheckEpoch, TaskInv, CacheOwned, Current
      <3>. QED  BY <1>12, <2>1, <3>1, TaskReturned DEF CheckEpoch
    <2>2. CASE recovery_epoch = fetch.epoch
      <3>1. fetch'.phase = "parsing" /\ fetch'.epoch = fetch.epoch /\ fetch'.base = fetch.base
        BY <1>12, <2>2 DEF CheckEpoch, FetchTo, TypeOK, Fetches
      <3>. QED  BY <1>10, <1>12, <3>1 DEF CheckEpoch
    <2>. QED  BY <2>1, <2>2
  <1>13. CASE FetchUnavailable  BY <1>13, TaskReturned DEF FetchUnavailable
  <1>14. CASE FetchPanics  BY <1>14, TaskReturned DEF FetchPanics
  <1>15. CASE FinishFetch
    <2>1. CASE recovery_epoch # fetch.epoch
      <3>1. fetched_snapshot_cache = None
        BY <1>15, <2>1 DEF FinishFetch, TaskInv, CacheOwned, Current
      <3>. QED  BY <1>15, <2>1, <3>1, TaskReturned DEF FinishFetch
    <2>2. CASE recovery_epoch = fetch.epoch
      <3>1. FetchEnds("succeeded") \/ FetchEnds("failed")
        BY <1>15, <2>2 DEF FinishFetch, reconcile_snapshot, init_from_snapshot, Validate, Reload
      <3>. QED  BY <1>15, <2>2, <3>1, TaskReturned DEF FinishFetch
    <2>. QED  BY <2>1, <2>2
  <1>16. CASE JoinFetch
    <2>1. CASE fetch.phase = "failed"  BY <1>16, <2>1, TaskOutdated DEF JoinFetch, fence
    <2>2. CASE fetch.phase = "succeeded"
      <3>1. fetched_snapshot_cache = None
        BY <2>2 DEF TaskInv, CacheOwned, Current, InFlight
      <3>2. fetch'.phase = "idle" /\ fetch'.epoch = 0 /\ fetch'.base = None
        BY <1>16 DEF JoinFetch, NoFetch
      <3>3. recovery_epoch \in Nat  BY BoundsAssumption DEF TypeOK, Epochs
      <3>. QED
        BY <1>16, <2>2, <3>1, <3>2, <3>3
           DEF JoinFetch, TaskInv, CacheOwned, BaselineCoherent, EpochOrder,
               BaseAfterOrigin, Current, InFlight
    <2>. QED  BY <1>16, <2>1, <2>2 DEF JoinFetch
  <1>17. CASE NodeBlock  BY <1>3, <1>17 DEF NodeBlock
  <1>18. CASE UNCHANGED vars  BY <1>3, <1>18 DEF vars
  <1>. QED  BY <1>2, <1>4, <1>5, <1>7, <1>8, <1>9, <1>11, <1>12, <1>13, <1>14, <1>15,
              <1>16, <1>17, <1>18 DEF Next, FetchStep

(***************************************************************************)
(* The live book and what its subscribers were told of it.                 *)
(***************************************************************************)
\* Nothing published, nothing changed.
LEMMA BookKept ==
    ASSUME TypeOK, BookInv, Publish(Silent), UNCHANGED <<order_book_state, queues>>
    PROVE  BookInv'
  <1>1. seen' = seen  BY PublishFacts DEF TypeOK
  <1>. QED  BY <1>1 DEF BookInv, BlocksAccepted, NoPairedBacklog, SubscribersInSync,
                        TimeOfHeight, is_ready, queues

\* A Gap takes the book and the subscribers' history away together (fence).
LEMMA BookFenced == ASSUME TypeOK, fence  PROVE BookInv'
  <1>1. seen' = [l4 |-> 0, l2 |-> 0] /\ order_book_state' = None
    BY PublishFacts DEF TypeOK, fence
  <1>. QED  BY <1>1 DEF BookInv, BlocksAccepted, NoPairedBacklog, SubscribersInSync,
                        TimeOfHeight, is_ready

\* A record finds at most one waiting batch that it can complete: before its
\* push one of the two queues was empty.
AlmostOneSided(s, d) ==
    \/ s.heights = {} \/ d.heights = {}
    \/ \E x \in Heights : s.heights = {x} \/ d.heights = {x}

\* The tail of receive_batch keeps book, queues and subscribers in step.
LEMMA BookDrains ==
    ASSUME TypeOK, BookInv, NEW src \in Sources, NEW s \in Queues, NEW d \in Queues,
           is_ready => AlmostOneSided(s, d),
           NEW over \in BOOLEAN, Drain(src, s, d, over)
    PROVE  BookInv'
  <1>1. CASE AbandonTurn  BY <1>1, BookFenced DEF AbandonTurn
  <1>2. CASE ~is_ready /\ NothingApplied
    <2>1. seen' = seen  BY <1>2, PublishFacts DEF TypeOK, NothingApplied
    <2>. QED  BY <1>2, <2>1 DEF NothingApplied, BookInv, BlocksAccepted, NoPairedBacklog,
                                SubscribersInSync, TimeOfHeight, is_ready
  <1>3. ASSUME is_ready, NEW h \in Heights, IsLeast(h, Paired(s, d))
        PROVE  Above(s, h).heights = {} \/ Above(d, h).heights = {}
    <2>1. /\ h \in s.heights /\ h \in d.heights
          /\ s.heights \in SUBSET Heights /\ d.heights \in SUBSET Heights
      BY <1>3 DEF IsLeast, Paired, Queues
    <2>2. s.heights = {h} \/ d.heights = {h}  BY <1>3, <2>1 DEF AlmostOneSided
    <2>3. /\ Above(s, h).heights = {x \in s.heights : x > h}
          /\ Above(d, h).heights = {x \in d.heights : x > h}
      BY DEF Above, Queues
    <2>. QED  BY <2>2, <2>3, BoundsAssumption DEF Heights
  <1>4. ASSUME is_ready, NothingApplied,
               order_status_cache'.heights = {} \/ order_diff_cache'.heights = {}
        PROVE  BookInv'
    <2>1. seen' = seen  BY <1>4, PublishFacts DEF TypeOK, NothingApplied
    <2>. QED  BY <1>4, <2>1 DEF NothingApplied, BookInv, BlocksAccepted, NoPairedBacklog,
                                SubscribersInSync, TimeOfHeight, is_ready
  <1>5. ASSUME is_ready, NEW h \in Heights, CanApply(order_book_state, h),
               ApplyPair(h, over),
               order_status_cache'.heights = {} \/ order_diff_cache'.heights = {}
        PROVE  BookInv'
    <2>. DEFINE live == order_book_state
    <2>1. live \in Books /\ live.height \in Int /\ live.origin \in Int /\ h = live.height + 1
      BY <1>5, BoundsAssumption DEF TypeOK, is_ready, Books, Heights, CanApply
    <2>2. /\ live' # None /\ live'.origin = live.origin /\ live'.height = h
          /\ live'.time = h /\ live'.snapped = FALSE
      BY <1>5, <2>1, ApplyFacts DEF ApplyPair
    <2>3. seen' = [l4 |-> h, l2 |-> seen.l2]  BY <1>5, PublishFacts DEF TypeOK, ApplyPair
    <2>4. seen.l2 \in Int /\ seen.l2 =< live.height
      BY <1>5, BoundsAssumption DEF TypeOK, Histories, BookInv, SubscribersInSync
    <2>5. BlocksAccepted'
      <3>1. live.origin =< live.height
               /\ \A x \in (live.origin + 1)..live.height : <<live.origin, x>> \notin Rejected
        BY <1>5 DEF BookInv, BlocksAccepted
      <3>. QED  BY <1>5, <2>1, <2>2, <3>1 DEF BlocksAccepted, CanApply
    <2>6. NoPairedBacklog'  BY <1>5 DEF NoPairedBacklog
    <2>7. SubscribersInSync'  BY <2>1, <2>2, <2>3, <2>4 DEF SubscribersInSync, is_ready
    <2>8. TimeOfHeight'  BY <2>2 DEF TimeOfHeight
    <2>. QED  BY <2>5, <2>6, <2>7, <2>8 DEF BookInv
  <1>6. CASE /\ is_ready /\ Paired(s, d) = {} /\ NothingApplied
             /\ order_status_cache' = Drained(s, d) /\ order_diff_cache' = Drained(d, s)
    BY <1>4, <1>6, DrainedOneSided
  <1>7. ASSUME is_ready, NEW h \in Heights, IsLeast(h, Paired(s, d)),
               order_status_cache' = Above(s, h), order_diff_cache' = Above(d, h),
               \/ NothingApplied
               \/ CanApply(order_book_state, h) /\ ApplyPair(h, over)
        PROVE  BookInv'
    BY <1>3, <1>4, <1>5, <1>7
  <1>. QED  BY <1>1, <1>2, <1>6, <1>7 DEF Drain

\* The validated run: a reload replays exactly the blocks between the node's
\* snapshot and the live height (reconcile_snapshot).
LEMMA ReloadReachesLive ==
    ASSUME IndInv, Current, fetch.base # None,
           CleanTo(fetch.base, fetched_snapshot_cache.pairs, fetch.height),
           NEW b \in Books, b.height = fetch.height, NEW t \in Heights,
           EndsAt(b, {h \in fetched_snapshot_cache.pairs : h > fetch.height}, t)
    PROVE  /\ is_ready /\ t = order_book_state.height
           /\ fetch.base.height =< fetch.height /\ fetch.height =< t
           /\ \A h \in (fetch.height + 1)..t : <<b.origin, h>> \notin Rejected
  <1>. DEFINE live  == order_book_state
             pairs == fetched_snapshot_cache.pairs
             s     == fetch.height
  <1>1. BaselineCoherent!2  BY DEF IndInv, TaskInv, BaselineCoherent
  <1>2. /\ live # None /\ live.height \in Int /\ fetch.base.height \in Int /\ s \in Int /\ t \in Int
    BY <1>1, BoundsAssumption DEF IndInv, TypeOK, Fetches, Books, Heights
  <1>3. pairs = (fetch.base.height + 1)..live.height /\ fetch.base.height =< live.height
    BY <1>1
  <1>4. /\ fetch.base.height =< s
        /\ \A h \in (fetch.base.height + 1)..s : h \in pairs
    BY DEF CleanTo
  <1>5. s =< live.height
    BY <1>2, <1>3, <1>4
  <1>6. /\ s =< t
        /\ \A h \in (s + 1)..t : h \in pairs /\ <<b.origin, h>> \notin Rejected
        /\ \A h \in pairs : h > s => h =< t
    BY DEF EndsAt, CleanTo
  <1>7. t =< live.height
    <2>1. CASE t > s
      <3>1. t \in (s + 1)..t  BY <1>2, <2>1
      <3>2. t \in pairs  BY <1>6, <3>1
      <3>. QED  BY <1>2, <1>3, <3>2
    <2>. QED  BY <1>2, <1>5, <1>6, <2>1
  <1>8. live.height =< t
    <2>1. CASE live.height = s  BY <2>1, <1>6
    <2>2. CASE live.height > s
      <3>1. live.height \in pairs  BY <1>2, <1>3, <1>4, <2>2
      <3>. QED  BY <2>2, <3>1, <1>6
    <2>. QED  BY <2>1, <2>2, <1>2, <1>5
  <1>. QED  BY <1>2, <1>4, <1>6, <1>7, <1>8 DEF is_ready

\* What a reload makes of book and subscribers: the height stays; a refresh
\* for new empty books keeps the source time and publishes the book, any other
\* difference is announced as a Gap (reconcile_snapshot).
LEMMA ReloadFacts ==
    ASSUME IndInv, Current, fetch.base # None,
           CleanTo(fetch.base, fetched_snapshot_cache.pairs, fetch.height),
           NEW added \in BOOLEAN, NEW t \in Heights, NEW b,
           b = from_snapshot(fetch.height, IF added THEN AppliedTo(fetch.base, fetch.height).time
                                           ELSE 0),
           EndsAt(b, {h \in fetched_snapshot_cache.pairs : h > fetch.height}, t),
           order_book_state' = [AppliedTo(b, t) EXCEPT !.snapped = added],
           Publish(IF added THEN Snapshot(AppliedTo(b, t)) ELSE Gap)
    PROVE  /\ is_ready /\ order_book_state' \in Books
           /\ order_book_state'.origin = fetch.height
           /\ order_book_state'.height = order_book_state.height
           /\ order_book_state'.snapped = added
           /\ order_book_state'.origin =< order_book_state'.height
           /\ \A h \in (order_book_state'.origin + 1)..order_book_state'.height :
                  <<order_book_state'.origin, h>> \notin Rejected
           /\ IF added
              THEN /\ order_book_state'.time = order_book_state.time
                   /\ out'.kind = "Snapshot" /\ out'.height = order_book_state.height
                   /\ out'.time = order_book_state.time
                   /\ seen' = [l4 |-> seen.l4, l2 |-> order_book_state.height]
              ELSE /\ out' = Gap /\ seen' = [l4 |-> 0, l2 |-> 0]
                   /\ order_book_state'.time =
                         IF order_book_state'.height = order_book_state'.origin THEN 0
                         ELSE order_book_state'.height
  <1>. DEFINE live == order_book_state
             s    == fetch.height
             base == fetch.base
  <1>1. /\ s \in Heights /\ base \in Books /\ seen \in Histories /\ 0 \in 0..MaxHeight
    BY BoundsAssumption DEF IndInv, TypeOK, Fetches
  <1>2. /\ AppliedTo(base, s) \in Books
        /\ AppliedTo(base, s).time = IF s = base.height THEN base.time ELSE s
    BY <1>1, AppliedFacts
  <1>3. (IF added THEN AppliedTo(base, s).time ELSE 0) \in 0..MaxHeight
    BY <1>1, <1>2 DEF Books
  <1>4. /\ b \in Books /\ b.origin = s /\ b.height = s
        /\ b.time = IF added THEN AppliedTo(base, s).time ELSE 0
    BY <1>1, <1>3, SnapshotFacts, ZenonT(60)
  <1>5. /\ is_ready /\ t = live.height
        /\ base.height =< s /\ s =< t
        /\ \A h \in (s + 1)..t : <<s, h>> \notin Rejected
    BY <1>4, ReloadReachesLive
  <1>6. /\ AppliedTo(b, t) \in Books
        /\ AppliedTo(b, t).origin = s
        /\ AppliedTo(b, t).height = t
        /\ AppliedTo(b, t).time = IF t = s THEN b.time ELSE t
    BY <1>4, AppliedFacts
  <1>7. /\ live' \in Books /\ live'.origin = s /\ live'.height = t
        /\ live'.time = AppliedTo(b, t).time /\ live'.snapped = added
    BY <1>6, SnappedFacts
  <1>8. live \in Books /\ live.height \in Int /\ live.origin \in Int /\ s \in Int
           /\ base.height \in Int
    BY <1>1, <1>5, BoundsAssumption DEF is_ready, IndInv, TypeOK, Books, Heights
  <1>9. /\ base.origin = live.origin /\ base.origin =< base.height
        /\ base.height = live.height => base.time = live.time
    BY DEF IndInv, TaskInv, BaselineCoherent, BaseAfterOrigin
  <1>10. live.height > base.height => live.time = live.height
    BY <1>5, <1>8, <1>9 DEF IndInv, BookInv, TimeOfHeight
  <1>11. CASE added
    <2>1. live'.time = live.time
      <3>1. CASE t # s  BY <3>1, <1>5, <1>6, <1>7, <1>8, <1>10
      <3>2. CASE t = s /\ s = base.height  BY <3>2, <1>2, <1>4, <1>5, <1>6, <1>7, <1>9, <1>11
      <3>3. CASE t = s /\ s # base.height
        BY <3>3, <1>2, <1>4, <1>5, <1>6, <1>7, <1>8, <1>10, <1>11
      <3>. QED  BY <3>1, <3>2, <3>3
    <2>2. out' = Snapshot(AppliedTo(b, t)) /\ seen' = [l4 |-> seen.l4, l2 |-> t]
      BY <1>1, <1>6, <1>11, PublishFacts
    <2>3. out'.kind = "Snapshot" /\ out'.height = t /\ out'.time = live.time
      BY <2>1, <2>2, <1>6, <1>7 DEF Snapshot
    <2>. QED  BY <1>5, <1>7, <1>11, <2>1, <2>2, <2>3
  <1>12. CASE ~added
    <2>1. out' = Gap /\ seen' = [l4 |-> 0, l2 |-> 0]
      BY <1>1, <1>12, PublishFacts
    <2>. QED  BY <1>4, <1>5, <1>6, <1>7, <1>12, <2>1
  <1>. QED  BY <1>11, <1>12

(***************************************************************************)
(* The forms a step can take for whoever watches the book and the channel. *)
(***************************************************************************)
\* Nothing happens to the book and nothing is said.
Kept == UNCHANGED <<order_book_state, seen>> /\ out'.kind = "none"

\* The book is gone, and a Gap says so.
Fenced == order_book_state' = None /\ out' = Gap /\ seen' = [l4 |-> 0, l2 |-> 0]

\* There was no book and now there is one.
Opened ==
    /\ ~is_ready /\ order_book_state' \in Books
    /\ out'.kind = "none" /\ seen' = seen

\* The book took the next block.
Advanced ==
    /\ is_ready /\ order_book_state' \in Books
    /\ order_book_state'.origin = order_book_state.origin
    /\ order_book_state'.height = order_book_state.height + 1
    /\ out' = L4BookUpdates(order_book_state'.height)

\* The book was published as it is.
Published ==
    /\ is_ready /\ order_book_state' \in Books
    /\ order_book_state'.origin = order_book_state.origin
    /\ order_book_state'.height = order_book_state.height
    /\ out' = Snapshot(order_book_state)

\* The book was rebuilt at its height: with a Gap, or (new empty books only)
\* as a snapshot with the source time it had.
Reloaded ==
    /\ is_ready /\ order_book_state' \in Books
    /\ order_book_state'.height = order_book_state.height
    /\ \/ out' = Gap
       \/ /\ out'.kind = "Snapshot" /\ out'.height = order_book_state.height
          /\ out'.time = order_book_state.time
          /\ order_book_state'.time = order_book_state.time
          /\ Verdict[<<order_book_state.origin, order_book_state'.origin>>] = "EmptyBooksAdded"

\* The end of a fetch: nothing, a first book, or a reload; in each case the
\* book's invariants hold again (finish_snapshot).
LEMMA FinishStep ==
    ASSUME IndInv, FinishFetch
    PROVE  BookInv' /\ (Kept \/ Opened \/ Reloaded)
  <1>. DEFINE live == order_book_state
  <1>1. /\ TypeOK /\ BookInv /\ seen \in Histories
        /\ fetch.base \in Books \union {None} /\ fetch.height \in Heights
    BY DEF IndInv, TypeOK, Fetches
  <1>2. ASSUME KeepState, UNCHANGED queues  PROVE BookInv' /\ Kept
    <2>1. BookInv'  BY <1>1, <1>2, BookKept DEF KeepState
    <2>2. Kept  BY <1>1, <1>2, PublishFacts DEF KeepState, Kept, Silent
    <2>. QED  BY <2>1, <2>2
  <1>3. CASE recovery_epoch # fetch.epoch  BY <1>2, <1>3 DEF FinishFetch
  <1>4. CASE recovery_epoch = fetch.epoch
    <2>1. Current  BY <1>4 DEF FinishFetch, Current, InFlight
    <2>2. BaselineCoherent!2  BY <2>1 DEF IndInv, TaskInv, BaselineCoherent
    <2>. DEFINE pairs == fetched_snapshot_cache.pairs
    <2>3. reconcile_snapshot(fetch.base, pairs)  BY <1>4, <2>2 DEF FinishFetch
    <2>4. CASE fetch.base = None
      <3>. DEFINE b == from_snapshot(fetch.height, 0)
                 q == Paired(order_status_cache, order_diff_cache)
      <3>1. live = None /\ init_from_snapshot(fetch.height)
        BY <2>2, <2>3, <2>4 DEF reconcile_snapshot
      <3>2. seen' = seen /\ out' = Silent /\ out'.kind = "none" /\ seen = [l4 |-> 0, l2 |-> 0]
        BY <1>1, <3>1, PublishFacts
           DEF init_from_snapshot, BookInv, SubscribersInSync, is_ready, Silent
      <3>3. 0 \in 0..MaxHeight  BY BoundsAssumption
      <3>4. /\ b \in Books /\ b.origin = fetch.height /\ b.height = fetch.height
            /\ b.time = 0 /\ b.snapped = FALSE
        BY <1>1, <3>3, SnapshotFacts, ZenonT(60)
      <3>5. ASSUME NEW t \in Heights, EndsAt(b, q, t), live' = AppliedTo(b, t),
                   order_status_cache' = Drained(order_status_cache, order_diff_cache),
                   order_diff_cache' = Drained(order_diff_cache, order_status_cache)
            PROVE  BookInv' /\ Opened
        <4>. HIDE DEF b
        <4>1. /\ live' \in Books /\ live'.origin = b.origin /\ live'.height = t
              /\ live'.time = IF t = b.height THEN b.time ELSE t
          BY <3>4, <3>5, AppliedFacts
        <4>2. live'.snapped = FALSE
          BY <3>4, <3>5, ApplyFacts DEF AppliedTo
        <4>3. live' # None  BY <4>1, NoneAssumption
        <4>4. BlocksAccepted'
          BY <3>4, <3>5, <4>1 DEF EndsAt, CleanTo, BlocksAccepted
        <4>5. TimeOfHeight'  BY <3>4, <4>1 DEF TimeOfHeight
        <4>6. SubscribersInSync'
          <5>1. t \in Int /\ 0 =< t  BY BoundsAssumption DEF Heights
          <5>. QED  BY <3>2, <4>1, <4>2, <4>3, <5>1 DEF SubscribersInSync, is_ready
        <4>7. NoPairedBacklog'
          BY <1>1, <3>5, DrainedOneSided DEF TypeOK, NoPairedBacklog
        <4>. QED  BY <3>1, <3>2, <4>1, <4>4, <4>5, <4>6, <4>7 DEF BookInv, Opened, is_ready
      <3>6. CASE UNCHANGED live
        BY <3>1, <3>2, <3>6 DEF Kept, BookInv, BlocksAccepted, NoPairedBacklog, TimeOfHeight,
                                SubscribersInSync, is_ready
      <3>. QED  BY <3>1, <3>5, <3>6 DEF init_from_snapshot
    <2>5. CASE fetch.base # None /\ CleanTo(fetch.base, pairs, fetch.height)
      <3>. DEFINE baseline == AppliedTo(fetch.base, fetch.height)
                 rest     == {h \in pairs : h > fetch.height}
                 verdict  == Verdict[<<baseline.origin, baseline.height>>]
                 added    == verdict = "EmptyBooksAdded"
                 b        == from_snapshot(fetch.height, IF added THEN baseline.time ELSE 0)
      <3>1. UNCHANGED queues /\ Validate(baseline, rest)
        BY <2>3, <2>5 DEF reconcile_snapshot
      <3>2. KeepState \/ Reload(added, baseline, rest)  BY <3>1 DEF Validate
      <3>3. baseline.origin = live.origin /\ baseline.height = fetch.height
        BY <1>1, <2>2, <2>5, AppliedFacts
      <3>4. ASSUME NEW t \in Heights, EndsAt(b, rest, t),
                   live' = [AppliedTo(b, t) EXCEPT !.snapped = added],
                   Publish(IF added THEN Snapshot(AppliedTo(b, t)) ELSE Gap)
            PROVE  BookInv' /\ Reloaded
        <4>. HIDE DEF b, baseline, rest
        <4>1. /\ is_ready /\ live' \in Books
              /\ live'.origin = fetch.height /\ live'.height = live.height
              /\ live'.snapped = added /\ live'.origin =< live'.height
              /\ \A h \in (live'.origin + 1)..live'.height : <<live'.origin, h>> \notin Rejected
              /\ IF added
                 THEN /\ live'.time = live.time
                      /\ out'.kind = "Snapshot" /\ out'.height = live.height
                      /\ out'.time = live.time
                      /\ seen' = [l4 |-> seen.l4, l2 |-> live.height]
                 ELSE /\ out' = Gap /\ seen' = [l4 |-> 0, l2 |-> 0]
                      /\ live'.time = IF live'.height = live'.origin THEN 0 ELSE live'.height
          BY <2>1, <2>5, <3>4, ReloadFacts DEF b, baseline, rest
        <4>. HIDE DEF added
        <4>2. Reloaded
          <5>1. added => Verdict[<<live.origin, live'.origin>>] = "EmptyBooksAdded"
            BY <3>3, <4>1 DEF added
          <5>. QED  BY <4>1, <5>1 DEF Reloaded
        <4>3. live' # None /\ live # None  BY <4>1, NoneAssumption DEF is_ready
        <4>4. BlocksAccepted'  BY <4>1 DEF BlocksAccepted
        <4>5. NoPairedBacklog'
          BY <1>1, <3>1, <4>3 DEF BookInv, NoPairedBacklog, is_ready, queues
        <4>6. TimeOfHeight'
          <5>1. CASE ~added  BY <4>1, <5>1 DEF TimeOfHeight
          <5>2. CASE added
            <6>1. \/ live.time = live.height
                  \/ live.time = 0 /\ live.height = live.origin
              BY <1>1, <4>3 DEF BookInv, TimeOfHeight, is_ready
            <6>2. /\ live.origin =< fetch.height /\ fetch.height =< live.height
                  /\ live.origin \in Int /\ live.height \in Int /\ fetch.height \in Int
              <7>1. fetch.base.origin =< fetch.base.height /\ fetch.base.height =< fetch.height
                BY <2>5 DEF IndInv, TaskInv, BaseAfterOrigin, CleanTo
              <7>2. /\ live.origin \in Int /\ live.height \in Int /\ fetch.height \in Int
                    /\ fetch.base.height \in Int
                BY <1>1, <2>5, <4>3, BoundsAssumption DEF TypeOK, Books, Heights
              <7>. QED  BY <2>2, <2>5, <4>1, <7>1, <7>2
            <6>. QED  BY <4>1, <5>2, <6>1, <6>2 DEF TimeOfHeight
          <5>. QED  BY <5>1, <5>2
        <4>7. SubscribersInSync'
          <5>1. live.height \in Int /\ 0 =< live.height
            BY <1>1, <4>3, BoundsAssumption DEF TypeOK, Books, Heights
          <5>2. seen.l4 \in {0, live.height}  BY <1>1, <4>3 DEF BookInv, SubscribersInSync, is_ready
          <5>3. CASE added  BY <4>1, <4>3, <5>1, <5>2, <5>3 DEF SubscribersInSync, is_ready
          <5>4. CASE ~added  BY <4>1, <4>3, <5>1, <5>4 DEF SubscribersInSync, is_ready
          <5>. QED  BY <5>3, <5>4
        <4>. QED  BY <4>2, <4>4, <4>5, <4>6, <4>7 DEF BookInv
      <3>. QED  BY <1>2, <3>1, <3>2, <3>4 DEF Reload
    <2>6. CASE fetch.base # None /\ ~CleanTo(fetch.base, pairs, fetch.height)
      BY <1>2, <2>3, <2>6 DEF reconcile_snapshot
    <2>. QED  BY <2>4, <2>5, <2>6
  <1>. QED  BY <1>3, <1>4

\* Every step takes one of the forms and re-establishes the book's invariants.
LEMMA BookStep ==
    ASSUME IndInv, Next
    PROVE  /\ BookInv'
           /\ Kept \/ Fenced \/ Opened \/ Advanced \/ Published \/ Reloaded
  <1>. DEFINE live  == order_book_state
             forms == Kept \/ Fenced \/ Opened \/ Advanced \/ Published \/ Reloaded
  <1>1. TypeOK /\ TaskInv /\ BookInv /\ seen \in Histories  BY DEF IndInv, TypeOK
  <1>2. ASSUME fence  PROVE BookInv' /\ Fenced
    BY <1>1, <1>2, BookFenced, PublishFacts DEF fence, Fenced
  <1>3. ASSUME Publish(Silent), UNCHANGED <<order_book_state, queues>>  PROVE BookInv' /\ Kept
    <2>1. BookInv'  BY <1>1, <1>3, BookKept
    <2>2. Kept  BY <1>1, <1>3, PublishFacts DEF Kept, Silent
    <2>. QED  BY <2>1, <2>2
  <1>4. ASSUME NEW src \in Sources, NEW s \in Queues, NEW d \in Queues,
               is_ready => AlmostOneSided(s, d), NEW over \in BOOLEAN, Drain(src, s, d, over)
        PROVE  BookInv' /\ forms
    <2>1. BookInv'  BY <1>1, <1>4, BookDrains
    <2>2. CASE AbandonTurn  BY <1>2, <2>1, <2>2 DEF AbandonTurn
    <2>3. CASE NothingApplied  BY <1>1, <2>1, <2>3, PublishFacts DEF NothingApplied, Kept, Silent
    <2>4. ASSUME NEW h \in Heights, is_ready, CanApply(live, h), ApplyPair(h, over)
          PROVE  Advanced
      <3>1. live \in Books  BY <1>1, <2>4 DEF TypeOK, is_ready
      <3>2. live' \in Books /\ live'.origin = live.origin /\ live'.height = h
               /\ h = live.height + 1
        BY <2>4, <3>1, ApplyFacts DEF ApplyPair, CanApply
      <3>3. out' = L4BookUpdates(h)  BY <2>4 DEF ApplyPair, Publish
      <3>. QED  BY <2>4, <3>2, <3>3 DEF Advanced
    <2>. QED  BY <1>4, <2>1, <2>2, <2>3, <2>4 DEF Drain
  <1>5. ASSUME NEW h \in 1..nodeHeight, NEW over \in BOOLEAN
        PROVE  ReceiveStatuses(h, over) \/ ReceiveDiffs(h, over) \/ ReceiveFills(over)
                  => BookInv' /\ forms
    <2>1. h \in Heights  BY <1>1, BoundsAssumption DEF TypeOK, Heights
    <2>2. AbandonTurn => BookInv' /\ forms  BY <1>2 DEF AbandonTurn
    <2>3. order_status_cache \in Queues /\ order_diff_cache \in Queues  BY <1>1 DEF TypeOK
    <2>4. /\ Pushed(order_status_cache, h) \in Queues
          /\ Pushed(order_diff_cache, h) \in Queues
      BY <2>1, <2>3, QueueTypes
    <2>5. is_ready => order_status_cache.heights = {} \/ order_diff_cache.heights = {}
      BY <1>1 DEF BookInv, NoPairedBacklog
    <2>6. is_ready => /\ AlmostOneSided(order_status_cache, order_diff_cache)
                      /\ AlmostOneSided(Pushed(order_status_cache, h), order_diff_cache)
                      /\ AlmostOneSided(order_status_cache, Pushed(order_diff_cache, h))
      BY <2>1, <2>5 DEF AlmostOneSided, Pushed
    <2>7. ReceiveStatuses(h, over) => BookInv' /\ forms
      BY <1>4, <2>2, <2>3, <2>4, <2>6 DEF ReceiveStatuses, Sources
    <2>8. ReceiveDiffs(h, over) => BookInv' /\ forms
      BY <1>4, <2>2, <2>3, <2>4, <2>6 DEF ReceiveDiffs, Sources
    <2>9. ReceiveFills(over) => BookInv' /\ forms
      BY <1>4, <2>3, <2>6 DEF ReceiveFills, Sources
    <2>. QED  BY <2>7, <2>8, <2>9
  <1>6. CASE Receive  BY <1>5, <1>6 DEF Receive
  <1>7. CASE EndTurn
    <2>1. CASE is_ready /\ ~live.snapped
      <3>1. live \in Books /\ live # None  BY <1>1, <2>1 DEF TypeOK, is_ready
      <3>2. live' = [live EXCEPT !.snapped = TRUE] /\ Publish(Snapshot(live)) /\ UNCHANGED queues
        BY <1>7, <2>1 DEF EndTurn, queues
      <3>3. /\ live' \in Books /\ live'.origin = live.origin /\ live'.height = live.height
            /\ live'.time = live.time /\ live' # None
        BY <3>1, <3>2, SnappedFacts, NoneAssumption
      <3>4. out' = Snapshot(live) /\ seen' = [l4 |-> seen.l4, l2 |-> live.height]
        BY <1>1, <3>1, <3>2, PublishFacts
      <3>5. Published  BY <2>1, <3>3, <3>4 DEF Published
      <3>6. live.height \in Int  BY <3>1, BoundsAssumption DEF Books, Heights
      <3>7. BlocksAccepted' /\ NoPairedBacklog' /\ TimeOfHeight'
        BY <1>1, <2>1, <3>2, <3>3
           DEF BookInv, BlocksAccepted, NoPairedBacklog, TimeOfHeight, queues, is_ready
      <3>8. SubscribersInSync'
        BY <1>1, <2>1, <3>3, <3>4, <3>6 DEF BookInv, SubscribersInSync, is_ready
      <3>. QED  BY <3>5, <3>7, <3>8 DEF BookInv
    <2>2. CASE ~(is_ready /\ ~live.snapped)  BY <1>3, <1>7, <2>2 DEF EndTurn
    <2>. QED  BY <2>1, <2>2
  <1>8. CASE SourceFence \/ \E src \in Sources : MalformedRecord(src)
    BY <1>2, <1>8 DEF SourceFence, MalformedRecord, AbandonTurn
  <1>9. ASSUME NEW due \in BOOLEAN, Maintenance(due)  PROVE BookInv' /\ forms
    BY <1>2, <1>3, <1>9 DEF Maintenance, AgeOutCache, QueuesWithinAge, ExpireQueues
  <1>10. CASE JoinFetch  BY <1>2, <1>3, <1>10 DEF JoinFetch
  <1>11. CASE FinishFetch  BY <1>11, FinishStep
  <1>12. CASE NodeBlock
    BY <1>1, <1>12 DEF NodeBlock, BookInv, BlocksAccepted, NoPairedBacklog, SubscribersInSync,
                       TimeOfHeight, is_ready, queues, Kept, Silent
  <1>13. CASE TickerTick  BY <1>3, <1>13 DEF TickerTick
  <1>14. CASE BeginFetch \/ (\E h \in Heights : NodeResponds(h)) \/ FetchUnavailable
                \/ CheckEpoch \/ FetchPanics
    BY <1>3, <1>14 DEF BeginFetch, NodeResponds, FetchUnavailable, CheckEpoch, FetchPanics
  <1>. QED  BY <1>6, <1>7, <1>8, <1>9, <1>10, <1>11, <1>12, <1>13, <1>14 DEF Next, FetchStep

\* The invariant holds of a new listener (OrderBookListener::new).
LEMMA IndInvInit == Init => IndInv
  <1>. SUFFICES ASSUME Init  PROVE IndInv
    OBVIOUS
  <1>1. TypeOK  BY TypeInit
  <1>2. TaskInv
    BY DEF Init, NoFetch, TaskInv, CacheOwned, BaselineCoherent, EpochOrder, BaseAfterOrigin,
           Current, InFlight
  <1>3. BookInv
    BY DEF Init, BookInv, BlocksAccepted, NoPairedBacklog, SubscribersInSync, TimeOfHeight,
           is_ready
  <1>. QED  BY <1>1, <1>2, <1>3 DEF IndInv

\* Every step of reader, maintenance, snapshot task and owner keeps it.
LEMMA IndInvStep == IndInv /\ [Next]_vars => IndInv'
  <1>. SUFFICES ASSUME IndInv, [Next]_vars  PROVE IndInv'
    OBVIOUS
  <1>1. TypeOK'  BY TypeStep DEF IndInv
  <1>2. TaskInv'  BY TaskStep
  <1>3. BookInv'
    <2>1. CASE Next  BY <2>1, BookStep
    <2>2. CASE UNCHANGED vars
      BY <2>2 DEF IndInv, vars, BookInv, BlocksAccepted, NoPairedBacklog, SubscribersInSync,
                  TimeOfHeight, is_ready
    <2>. QED  BY <2>1, <2>2
  <1>. QED  BY <1>1, <1>2, <1>3 DEF IndInv

\* The inductive invariant holds throughout.
THEOREM Inductive == Spec => []IndInv
  BY IndInvInit, IndInvStep, PTL DEF Spec

\* The validation cache always belongs to the one task in flight whose epoch
\* is the listener's (begin_caching, take_cache, fence).
THEOREM CacheHasOwner == Spec => []CacheOwned
  BY Inductive, PTL DEF IndInv, TaskInv

\* A current task's clone and cache are the live book, block for block: the
\* audit of reconcile_snapshot compares like with like.
THEOREM BaselineStaysCoherent == Spec => []BaselineCoherent
  BY Inductive, PTL DEF IndInv, TaskInv

\* One pop per record is enough: a ready listener never holds batches in both
\* queues (receive_batch, pop_cache, init_from_snapshot).
THEOREM NoBacklog == Spec => []NoPairedBacklog
  BY Inductive, PTL DEF IndInv, BookInv

\* What was published since the last Gap agrees with the book
\* (receive_batch, process_data, reconcile_snapshot, fence).
THEOREM SubscribersStayInSync == Spec => []SubscribersInSync
  BY Inductive, PTL DEF IndInv, BookInv

\* A book's time is that of the block at its height, or none for a fresh
\* snapshot (apply_updates, from_snapshot, reconcile_snapshot).
THEOREM TimeMatchesHeight == Spec => []TimeOfHeight
  BY Inductive, PTL DEF IndInv, BookInv

\* The baseline takes every cached pair: the live book has taken them all.
LEMMA ReplayClean == IndInv => ReplayNeverFails
  <1>. SUFFICES ASSUME IndInv, Current, fetch.base # None,
                       NEW h \in fetched_snapshot_cache.pairs, h > fetch.base.height
                PROVE  CleanTo(fetch.base, fetched_snapshot_cache.pairs, h)
    BY DEF ReplayNeverFails, Failing
  <1>. DEFINE live == order_book_state
             base == fetch.base
  <1>1. /\ live # None /\ base.origin = live.origin
        /\ fetched_snapshot_cache.pairs = (base.height + 1)..live.height
    BY DEF IndInv, TaskInv, BaselineCoherent
  <1>2. live.height \in Int /\ base.height \in Int /\ base.origin \in Int
    BY <1>1, BoundsAssumption DEF IndInv, TypeOK, Fetches, Books, Heights
  <1>3. base.origin =< base.height  BY DEF IndInv, TaskInv, BaseAfterOrigin
  <1>4. \A x \in (live.origin + 1)..live.height : <<live.origin, x>> \notin Rejected
    BY <1>1 DEF IndInv, BookInv, BlocksAccepted, is_ready
  <1>. QED  BY <1>1, <1>2, <1>3, <1>4 DEF CleanTo

\* Replaying the cached pairs onto the baseline never fails: the `?' of
\* reconcile_snapshot's first loop fences no healthy book.
THEOREM ReplaySucceeds == Spec => []ReplayNeverFails
  BY Inductive, ReplayClean, PTL

(***************************************************************************)
(* Action properties and refinement, from the forms of a step.             *)
(***************************************************************************)
\* Between two Gaps the updates are consecutive blocks and the snapshots are
\* in step with them (receive_batch, process_data).
LEMMA StepOrdered ==
    ASSUME IndInv, [Next]_vars
    PROVE  [/\ out'.kind = "L4BookUpdates" =>
                 /\ seen.l4 \in {0, out'.height - 1}
                 /\ seen.l2 < out'.height
            /\ out'.kind = "Snapshot" =>
                 /\ seen.l4 \in {0, out'.height}
                 /\ seen.l2 =< out'.height]_vars
  <1>. DEFINE live == order_book_state
  <1>1. CASE UNCHANGED vars  BY <1>1
  <1>2. CASE Next
    <2>1. Kept \/ Fenced \/ Opened \/ Advanced \/ Published \/ Reloaded  BY <1>2, BookStep
    <2>2. is_ready => /\ live.height \in Int /\ seen.l2 \in Int
                      /\ seen.l4 \in {0, live.height} /\ seen.l2 =< live.height
      BY BoundsAssumption DEF IndInv, TypeOK, Books, Heights, Histories, is_ready, BookInv,
                              SubscribersInSync
    <2>3. CASE Kept \/ Fenced \/ Opened  BY <2>3 DEF Kept, Fenced, Opened, Gap
    <2>4. CASE Advanced  BY <2>2, <2>4 DEF Advanced, L4BookUpdates
    <2>5. CASE Published  BY <2>2, <2>5 DEF Published, Snapshot
    <2>6. CASE Reloaded  BY <2>2, <2>6 DEF Reloaded, Gap
    <2>. QED  BY <2>1, <2>3, <2>4, <2>5, <2>6
  <1>. QED  BY <1>1, <1>2

\* The order of the L4 and L2 feeds, for every limit and every interleaving of
\* reader, maintenance and snapshot task.
THEOREM FeedStaysOrdered == Spec => FeedOrdered
  <1>1. Spec => []IndInv /\ [][Next]_vars  BY Inductive, PTL DEF Spec
  <1>. QED  BY <1>1, StepOrdered, PTL DEF FeedOrdered

\* A step that replaces a live book does it at its height and says so, unless
\* only empty books are new (reconcile_snapshot).
LEMMA StepNotSilent ==
    ASSUME IndInv, [Next]_vars
    PROVE  [is_ready /\ order_book_state' # None
              /\ order_book_state'.origin # order_book_state.origin =>
                 /\ order_book_state'.height = order_book_state.height
                 /\ \/ out' = Gap
                    \/ /\ Verdict[<<order_book_state.origin, order_book_state'.origin>>]
                             = "EmptyBooksAdded"
                       /\ order_book_state'.time = order_book_state.time]_vars
  <1>1. CASE UNCHANGED vars  BY <1>1
  <1>2. CASE Next
    <2>1. Kept \/ Fenced \/ Opened \/ Advanced \/ Published \/ Reloaded  BY <1>2, BookStep
    <2>. QED  BY <2>1 DEF Kept, Fenced, Opened, Advanced, Published, Reloaded
  <1>. QED  BY <1>1, <1>2

\* No reload rewrites a live book behind its subscribers' back.
THEOREM NothingRewrittenSilently == Spec => NoSilentRewrite
  <1>1. Spec => []IndInv /\ [][Next]_vars  BY Inductive, PTL DEF Spec
  <1>. QED  BY <1>1, StepNotSilent, PTL DEF NoSilentRewrite

\* Each step of the listener is a step of the feed, or changes neither the
\* height it shows nor the message.
LEMMA StepOfFeed ==
    ASSUME IndInv, [Next]_vars
    PROVE  [Feed!FeedNext]_(Feed!feedVars)
  <1>. DEFINE live == order_book_state
  <1>1. CASE UNCHANGED vars  BY <1>1 DEF vars, Feed!feedVars, is_ready
  <1>2. CASE Next
    <2>1. Kept \/ Fenced \/ Opened \/ Advanced \/ Published \/ Reloaded  BY <1>2, BookStep
    <2>2. is_ready => live \in Books /\ live.height \in 1..MaxHeight
      BY DEF IndInv, TypeOK, is_ready, Books, Heights
    <2>3. live' \in Books => live' # None /\ live'.height \in 1..MaxHeight
      BY NoneAssumption DEF Books, Heights
    <2>4. CASE Kept  BY <2>4 DEF Kept, is_ready, Feed!FeedNext, Feed!Quiet
    <2>5. CASE Fenced  BY <2>5 DEF Fenced, Gap, is_ready, Feed!FeedNext, Feed!Close
    <2>6. CASE Opened
      BY <2>3, <2>6 DEF Opened, is_ready, Feed!FeedNext, Feed!Open, Feed!Up
    <2>7. CASE Advanced
      BY <2>2, <2>3, <2>7, BoundsAssumption
         DEF Advanced, L4BookUpdates, is_ready, Feed!FeedNext, Feed!Update, Feed!Up
    <2>8. is_ready => live.time \in {0, live.height}
      BY DEF IndInv, BookInv, TimeOfHeight
    <2>9. CASE Published
      BY <2>2, <2>3, <2>8, <2>9, BoundsAssumption
         DEF Published, Snapshot, is_ready, Feed!FeedNext, Feed!Announce, Feed!Up
    <2>10. CASE Reloaded
      BY <2>2, <2>3, <2>8, <2>10, BoundsAssumption
         DEF Reloaded, Gap, is_ready, Feed!FeedNext, Feed!Announce, Feed!Replace, Feed!Up
    <2>. QED  BY <2>1, <2>4, <2>5, <2>6, <2>7, <2>9, <2>10
  <1>. QED  BY <1>1, <1>2

\* The listener implements BookFeed: queues, cache, epochs and the snapshot
\* task are invisible to whoever reads the channel.
THEOREM RefinesFeed == Spec => ImplementsFeed
  <1>1. Init => Feed!FeedInit  BY DEF Init, is_ready, Silent, Feed!FeedInit
  <1>2. Spec => Init /\ []IndInv /\ [][Next]_vars  BY Inductive, PTL DEF Spec
  <1>. QED  BY <1>1, <1>2, StepOfFeed, PTL DEF ImplementsFeed, Feed!FeedSpec

=============================================================================
