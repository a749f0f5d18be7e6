# TLA+ models of the order book server

The repository is a Rust server that follows a Hyperliquid node through the
files the node writes, keeps the order books of the coins in scope, and streams
L2 views, L4 books and trades to websocket clients. This directory models that
server in TLA+, checks the models with TLC on small instances, and proves most
of their safety properties with TLAPS for all values of their constants.
`PROJECT.json` maps every definition to the lines it stands for and lists the
runs, mutants, hazards, findings and theorems. Paths below are under
`src/server/src/`.

## The system

| part | state | operations | what makes it correct |
|---|---|---|---|
| file watcher and cursors (`listeners/order_book/ingestion.rs`, the select loop of `mod.rs`) | dirty queue with `created` flags and `overflow`; a cursor (offset, inode, partial record) per hourly file | push a path, open, read one byte budget, evict, remove, revisit on the maintenance tick | bounded; no unread byte given up without a fence; a lost notification strands nothing |
| batch queues (`utils.rs`, `pop_cache`) | two deques of unmatched batches, byte counters, last heights | push with limits, pop the next pair | no pair lost; counters exact |
| book listener (`mod.rs`, `state.rs`) | book, queues, validation cache, `recovery_epoch` | a read turn, maintenance, fence, the snapshot task's critical sections | the book equals what subscribers were told; a snapshot is never applied to a stream it does not belong to |
| snapshot task (`fetch_snapshot`) | an epoch and a clone of the book held across request, parse and sleep | request, check the epoch, finish, fail | its cache and clone together are the live book; recovery succeeds in the end |
| books (`order_book/multi_book.rs`, `order_book/mod.rs`) | per coin, price levels and an index from order id to side and price | add (with matching, or in front of another order), cancel, resize | index and levels agree; uncrossed; priority kept |
| block application and audit (`state.rs`, `utils.rs`, `types/inner.rs`) | the books and their height | load a snapshot, apply a block's statuses and diffs, compare with a later snapshot | the books are the node's; a departure from them is noticed, and nothing else is |
| price level (`order_book/linked_list.rs`) | slab of nodes, key index, head, tail | push, insert before, remove | it is a sequence of distinct keys |
| L2 aggregation (`order_book/levels.rs`) | none | bucket, build levels, chain of views | a view built from a view is the view of the book |
| L2 views and wire cache (`utils.rs`, `state.rs`, `servers/websocket_server.rs`) | a map of views behind an Arc, the dirty coins; one cache of encoded frames | refresh, publish, get | a view stays what it was; cached bytes are fresh bytes |
| subscriptions (`types/subscription.rs`) | the connection's universe and subscriptions | validate, subscribe, cancel | what is accepted is served; the universe follows the book |
| trades (`coin_to_trades`) | none | pair fills, split by coin | exactly the trades made, in order |
| connection (`handle_socket`) | broadcast receiver, `sent_positions` | recv, client requests | no hole, no stale or backward view; a Gap ends it |
| admission and delivery trace (`ws_handler`, `servers/delivery_trace.rs`) | a semaphore of permits; the last batches of a connection with their frames | request, upgrade, one batch write by write, end of the task | permits are given back; a trace never claims more than was written |

They interact as follows. One mutex guards the listener. The select loop takes
it for each read turn and each maintenance tick, the single snapshot task takes
it between its waits, and connections take it to read a snapshot. The listener
publishes to a broadcast channel (`Snapshot`, `L4BookUpdates`, `Fills`, `Gap`);
each connection has its own bounded receiver. Any doubt about a stream ends in
`fence`: the book is dropped, the epoch incremented, the queues reset and a
`Gap` sent, and the next maintenance tick starts a snapshot task.

Hard behaviours: the snapshot task works on values read several lock releases
ago; two files per block arrive independently; limits (bytes, heights, age)
strike at any point; an error may come in the middle of a turn; notifications
and channel messages are lost; addresses of freed views are reused.

## Modules

| module | models | notes |
|---|---|---|
| `HeightQueues` | the batch queues as sets of heights | used by the listener and its proofs |
| `BookListener` | listener, select loop, snapshot task | the core |
| `BookFeed` | abstract: what the listener promises its subscribers | refined by `BookListener`, the source of `Connection` |
| `BookListener_proofs`, `Ingestion_proofs`, `OrderBook_proofs` (with `LinkedList`), `BookViews_proofs` and `BlockApply_proofs` (each extends the one before), `Algorithms_proofs` (`L2Levels`, `Trades`, `BatchQueues`, `Subscriptions`), `Connection_proofs` (with `L2Views`), `Sockets_proofs` | theorems about these modules | TLAPS |
| `BookRecovery` | the listener with in-order delivery, a budget of faults and fairness | extends `BookListener` |
| `PairingQueues` | abstract: the pairing of `HeightQueues` as a specification | |
| `BatchQueues` | the deques, byte counters and the `pop_cache` loop | refines `PairingQueues` |
| `Ingestion` | dirty queue, cursors, select loop, node's files | |
| `OrderBook` | the books of several coins | |
| `BlockApply` | `apply_updates`, snapshots of the books and their audit, next to the node's own books | extends `OrderBook` |
| `KeyedQueue`, `LinkedList` | abstract sequence of keys, and the slab list that refines it | |
| `L2Levels` | aggregation and the chain of views | |
| `L2Views` | dirty coins, shared Arcs, `BookWireCache` | |
| `Subscriptions` | scope, validation, a connection's universe | |
| `Trades` | fills to trades | |
| `Connection` | one connection on top of `BookFeed` | extends `BookFeed` |
| `Sockets` | admission, delivery of a snapshot write by write, delivery trace | several connections |
| `MCBookListener`, `MCBookRecovery`, `MCBlockApply`, `MCL2Views`, `MCSubscriptions` | values of set- and function-valued constants for TLC | |
| `MCOrderBook`, `MCAlgorithms` | modules that share nothing, run side by side: `OrderBook` and `LinkedList`; `L2Levels`, `Trades` and `BatchQueues` | |

### State and actions

`BookListener` keeps the code's names: `order_book_state`,
`order_status_cache`, `order_diff_cache`, `fetched_snapshot_cache`,
`recovery_epoch`. A block is its height. A book is the node's snapshot at height
`origin` followed by the blocks up to `height`; since applying is deterministic,
this pair fixes its contents, and the constants `Verdict` and `Rejected` say how
the contents compare with the node's and which blocks a book refuses. Every
critical section is one action, except that a read turn is one step per record
(`BeginTurn`, `Receive...`, `EndTurn`) with the mutex held in `turn`. `fetch` is
the snapshot task: `Spawn`, `BeginFetch` (epoch and clone), `NodeResponds`,
`FetchUnavailable`, `CheckEpoch`, `FinishFetch`, `FetchPanics`, `JoinFetch`.
Records come in any order, late, twice or never; `over` is any limit whose
measure (bytes, age) the model does not carry. `out` is the message of the last
step and `seen` a history of what was told since the last Gap.

`BatchQueues` has what `HeightQueues` leaves out: sizes, byte counters, the
position inside the loop. `Ingestion` counts bytes in half records, so that
files and turns may end inside a record. `OrderBook` matches maker by maker and
includes the failed addition that has already traded, the coin without a book,
and the id that `push_back` silently ignores. `LinkedList` has slab
indices that are reused. `L2Views` has a heap of addresses that are reused as
soon as nobody refers to them. `Connection` has a receiver that loses its oldest
message when full, and takes `is_ready` and `universe` under separate locks.
`Subscriptions` has several coins and the forms of a request, `Connection` one
coin with heights. `Sockets` has a step for every write of a batch.

`BlockApply` opens what `BookListener` treats as a height: it says what a book
contains, which blocks it refuses (`Rejected` there) and how the audit compares
it with the node's (`Verdict` there). The node is external and has books of its
own: it opens orders at the back of a price or in front of another order, opens
Ioc and trigger orders that do not rest, fires triggers at another price and
size, trades, cancels, lists coins, and puts each change into the block under
construction as status, diff or both. A block may be written without one of its
events. The server loads a snapshot of any height, is offered any block (again,
too early, or next), applies it diff by diff with `OrderBook`'s actions, and is
audited at any time. Loading takes the snapshot's coins one by one in any order
and adds each order with `OrderBook`'s actions, too; since the server requests
snapshots without trigger orders, `remove_triggers` finds none. What is assumed of the node: its diffs come in the order of
its book's changes, ids are not used twice, its book is uncrossed, and a
snapshot lists a price's orders by priority. Since the node does not look at the
server, its blocks are written before the server starts; every order of the
server's steps relative to them is still there.

## Runs

| run | states | shows |
|---|---|---|
| `BookListener` | 417,000 | cache, baseline, queues and publications stay consistent under any interleaving; the listener implements `BookFeed` |
| `BookRecovery` | 133,000 | with a bounded number of faults it becomes ready again, replaces a diverged book, reaches the last block |
| `OrderBook` | 46,000 | `OrderBook`: index and levels agree, priority kept, uncrossed in every state (while an addition is matching and after one that failed, too); `LinkedList`: links agree in both directions, refines `KeyedQueue` |
| `BlockApply` | 1,345,000 | without lost events the books are the node's, index and times included, and no block is refused (`FollowsNode`); an audit raises the alarm exactly when they are not (`AuditExact`) |
| `Ingestion` | 31,000 | no cursor with unread bytes dropped without a fence; every cursor is read to its end even after lost notifications; if nothing fails and no hour overtakes an earlier one in the queue of paths, every block is published or covered by a later fence |
| `Algorithms` | 49,000 | `L2Levels`: chained aggregation equals grouping the book by the step of the view, nothing overstated; `Trades`: each subscription gets its coin's trades, in order; `BatchQueues`: no block that is in both queues is lost, counters and limits exact, refines `PairingQueues` |
| `L2Views` | 602,000 | views are faithful and immutable; answers of the wire cache equal fresh encodings |
| `Subscriptions` | 80,000 | accepted L2 parameters have views; the universe catches up |
| `Connection` | 126,000 | no hole, no stale or backward view, every Gap ends the connection |
| `Sockets` | 31,000 | no permit is lost, none is held for ever by a client that does nothing; a trace shows a batch complete only if every subscription has its height or a later one |
| `IngestionRotation`, `SubscriptionsSpot` | | disagreements with the documentation, see Findings |

### Bounds, and why they are enough

* `MaxHeight = 4`, `QueueHeights = 2`, `MaxEpoch = 2`: a snapshot at a height
  below, at and above the clone's; a queue at its limit; a first task outdated,
  a second one current, and a fence for that one too. `Drifts = {2}` makes books
  from block 2 on differ from the node's, `Listings = {3}` adds an empty book,
  `Brittle = {3}` makes a book refuse block 3: the three verdicts and both
  outcomes of applying occur. `BookRecovery` has one fault and enough epochs for
  every retry; `SnapshotLag = 0` there keeps the node's exports at its head.
* `BatchQueues`: four heights, limits of two batches and three bytes, sizes one
  and two: each limit is reached alone.
* `Ingestion`: three hours of one source (a successor's successor, so that
  eviction happens), four blocks, so that files of one and of two records come
  before and after each other, a budget of one record and a half per turn, so that
  a turn ends inside a record and a file may need two, a dirty limit of two, one
  fault. An hour can overtake another within these bounds: `EventuallyTaken`
  excludes it (`Overtaking`), and would be violated if it did not. The streams
  share nothing but the dirty queue and the limit on cursors, which three files
  fill. `IngestionRotation`: a budget of one record, no fault; what overtaking loses.
* `OrderBook`: three orders, two prices, two sizes: partial fill, full fill,
  walk over two makers, insertion in front; one coin, since books share nothing
  (two are in `BlockApply`). `LinkedList`: four keys, so that a
  node can be removed from the middle and its index be reused.
* `L2Levels`: prices of one to six digits on both sides of three powers of ten,
  where a step changes, including prices that round across it; below five digits
  the view (5, 5) is coarser than the buckets of the views built from it.
  `Trades`: three trades in any order of three coins, either side first, either
  side taking.
* `L2Views`: two snapshots with different books at one height, three live
  allocations, two held views. The heights are those of one block.
* `Subscriptions`: four coins of four kinds, two subscriptions, a channel of two.
* `Connection`: four blocks, a channel of three, two Gaps.
* `BlockApply`: two blocks after the first snapshot, three changes at the node,
  one lost event, a perpetual that begins empty or with two asks at one price
  and a spot coin that is ignored. Three changes are enough for an order that is
  opened, traded in part and removed, for a trigger placed in one block that
  fires in the next in front of a resting order, and for a lost event whose
  consequence is refused later or never.
* `Sockets`: two clients for one permit, two subscriptions, four heights with a
  history of two, so that the history overflows, and snapshots without a view
  for one subscription.

Runs whose node stops at `MaxHeight` and may then have nothing to do
(`Ingestion`, `Algorithms`, `L2Views`, `Subscriptions`) do not check for
deadlock; all others do.

### Fairness

* `BookRecovery`: weak fairness of delivery, the end of a turn, both ticks, and
  the task's steps. The select loop polls every branch that is ready, the tokio
  mutex queues its waiters, the request has a timeout, and the maintenance tick
  comes back to files with unread bytes (`NoStrandedCursor`). The node is
  assumed to go on producing blocks. Faults are not fair.
* `Ingestion`: the loop comes round to a ready turn and to the tick.
* `Connection`: a connection with a message waiting receives it; a blocked write
  ends by its deadline, which is a disconnect.
* `Sockets`: the upgrade's and the writes' deadlines pass, and what needs no
  client goes on. Nothing is assumed of clients: they may never finish their
  upgrade nor read what they are sent.

## Proofs

Every theorem below holds for all values of the constants that satisfy the named
assumption of its module; the assumptions say that bounds are naturals (positive
where the code's limits are), that sets of keys are finite, and that `None`-like
values are not members of what they stand beside. TLC evaluates each assumption
in the run of its module. Theorems have the form `Spec => []Inv`, `Spec =>
[][A]_vars` or `Spec => Abstract!Spec`; the first two follow from an inductive
invariant, for which initiation, one lemma per action and a stuttering step are
proved.

### `BookListener` (`BoundsAssumption`, `NoneAssumption`, `VerdictAssumption`)

Type correctness, the invariants `CacheOwned`, `BaselineCoherent`,
`ReplayNeverFails`, `NoPairedBacklog`, `SubscribersInSync` and `TimeOfHeight`,
the action properties `FeedOrdered` and `NoSilentRewrite`, and the refinement
`ImplementsFeed`. `VerdictAssumption` says that a snapshot just loaded equals
itself. The inductive invariant is `IndInv = TypeOK /\ TaskInv /\ BookInv`.

* `TaskInv`: `CacheOwned` (the cache belongs to the current task),
  `BaselineCoherent` (clone plus cached pairs are the live book), `EpochOrder`
  (a task's epoch is not in the future, so that a fence outdates it for good)
  and `BaseAfterOrigin`. None is inductive alone: that a cache can be replayed
  needs that it is the current task's, and that needs the epochs' order.
* `BookInv`: `BlocksAccepted` (no block the live book was built from is one it
  refuses, which makes a reload's replay possible), `NoPairedBacklog`,
  `SubscribersInSync`, `TimeOfHeight`.

Each action preserves the two halves separately (`TaskStep`, `BookStep`). For the
second half, the action properties and the refinement, every step is first
classified by what it does to book and channel (`Kept`, `Fenced`, `Opened`,
`Advanced`, `Published`, `Reloaded`); each class is a step or a stutter of
`BookFeed`.

### `OrderBook` (`BookAssumption`) and `LinkedList` (`ListAssumption`)

`IndexAgrees`, `Uncrossed` and `PriorityKept`. `IndexAgrees` speaks of states
between calls, `Uncrossed` of every state; `BookInv` says what holds during a call: the index knows the resting
orders and those in `call.filled` (`Indexed`), no bid reaches an ask (`Apart`),
the taker's id is not known yet, and when matching is over nothing is left of the
taker or nothing crosses it. Each change of a book is a `Loses`, a `Gains` or a
resize of one queue that `KeepsOrder`.

`LinksAgree` and the refinement `ImplementsQueue`. The inductive invariant `LInv`
says that there is a sequence of slab indices and one of keys such that the nodes
are `Strung` on both links in that order from head to tail, that nothing else is
in the slab, and that the map is the inverse of the nodes' keys. An operation
splices or cuts both sequences at one place (`LinkOK`, `UnlinkOK`), whichever
index the slab gives. That the walk of `to_vec` computes this sequence is an
induction along it (`WalkMeets`).

### `BlockApply` (`BlockAssumption`)

`FollowsNode` and `AuditExact`. `BlockAssumption` says what the node's first
books may be: uncrossed, each side from its best price on, and with the ids
issued first, no id twice; and that orders are placed with a size. What the
node's later books are is proved, not assumed. `BookInv` of `OrderBook_proofs` is
part of the invariant: its lemmas about a call are used for calls made by a load
and by a diff.

A *view* gives the queue of every coin, side and price (`View` of the node's
books, `BookView` of the server's). `BookViews_proofs` says what each call does to
the server's view, and two facts about views: a book is told by its queues, the
index included (`BooksByQueues`), and `to_snapshot` lists them so that the audit
compares views (`AuditDecides`). `AuditExact` needs no more than that the server's
books and the node's are sound. `FollowsNode` needs two invariants.

* `ChainInv` is about the node and its blocks: `Leads` says that the diffs of a
  block without a lost event, taken one by one with that block's order map, turn
  the view of the height before into that of its own, each being applicable where
  it comes (an order that comes to rest trades with nobody and finds the order it
  is put in front of). For the block under construction the same holds up to the
  node's present books, with the order map of the statuses so far; a later status
  must not disturb it (`LeadsMap`). That no id is new twice, neither in a block
  nor in a later one than a book that has had it, is `Once` and `Born`; it rests on
  the ids of triggers that have not fired being the only issued ones that may
  still come to rest (`Spent`).
* `ServerInv` says for each phase of the server's work how far its books are: a
  part of the snapshot being loaded, of which the rest is to come (`Loads`,
  `Halfway`); the view of its height (`ReadyOK`); or in the middle of a block a view
  from which the diffs left lead to the block's (`ApplyingAt`). In the middle of a
  call it speaks of the view that the call will leave (`Tracks`), which is known
  because such a call matches nothing (`Smooth`). `Fresh`: the books hold no id that
  a later block will bring, lost events or not, so that an addition that the
  index would make ambiguous does not occur.

A diff applied is then a move of both: `NewFollows` and `ChangeFollows` say it for
one diff, `DiffServes`, `LoadOrderServes` and the like for the steps. A coin that
`ignore_spot` leaves out is outside `Watched`.

### `BatchQueues` (`SizesAssumption`)

`NoPairLost`, `BytesExact` and the refinement `ImplementsPairing`. `BInv` adds
that the deques are increasing and within limits, that what was accepted from one
source is queued or the other source is past it (`Accounted`), and, while
`pop_cache` loops, that what it dropped so far is what the set queues drop in one
step (`Popping`, `Progress`): the loop's steps stutter, its last one is
`PairingQueues`' pop. `BytesExact` needs what the sum over a deque does when a
batch is pushed or popped, by induction over its length. The proofs are in
`Algorithms_proofs`, with those of the next two modules and of `Subscriptions`.

### `L2Levels` (`PricesAssumption`)

`ViewsExact` and `NeverOverstated`. The state needs no strengthening beyond the
book being sorted (`LInv`); the work is in the operators.

* A view is a grid of prices: rounding takes a price to the first grid price that
  is as bad or worse for the reader (`IsGrid`, `ViewsAreGrids`), although the
  step changes at each power of ten: the powers of ten are themselves multiples of
  the steps on both sides (`Ladder`).
* The step of a view is the width of the price's bucket, or that of the view (5, 5)
  where it is wider (`Step`, `StepIs`). It is wider below five digits only
  (`StepsAreBuckets`).
* The prices of a coarser grid are prices of the finer one (`StepsMultiply`,
  `BuiltViews`), so rounding twice is rounding once (`RoundsTwice`). And where the
  bucket that `build_l2_level` computes is narrower than the step, the price of
  the finer view, which is what it is computed of, is on the grid already
  (`Agrees`). This is where the chain of views could go wrong.
* `build_l2_level` opens a level or joins the last one (`BuildOpens`,
  `BuildJoins`). A view of a part of the book, extended by one level of the finer
  view, is the view of that part and the orders of that level (`ViewGoesOn`);
  by induction over the levels, the view of a view is the view of the book
  (`ViewOfView`).
* The sizes down to a level are the sizes of the orders at its price or better
  (`PrefixSum`); `NeverOverstated` follows since a rounded price is never better
  and a sum over fewer orders never larger (`SumMonotone`).

`PricesAssumption` says that prices have up to fourteen digits (they are below a
million; zero has one digit). The bound is that of `num_digits`, which takes the
logarithm in `f64`: to fourteen digits it is certainly exact, so that counting
digits models it.

### `Trades` (`TradesAssumption`)

`TradesExact`, which is inductive with the types of the two histories (`TInv`).
`coin_to_trades` pairs the fills of a record from its end and turns the result
round: a record with two more fills in scope gives the same trades and one more
(`PairsOfTwoMore`, `ReverseCons`), one with two fills out of scope the same
trades, and the folds that keep a coin's trades respect concatenation
(`OfCoinsTwo`).

### `Ingestion` (`IngestionAssumption`)

`NoUnreadCursorDropped` (checked by a run, too), and three facts that only the
proof states: `FillsInOrder` (the sequence of blocks published in `taken["Fills"]`,
over the whole life of the server, is strictly increasing, hence none is published
twice, across fences, evictions and re-read files; that none is *left out* is
what `IngestionRotation` refutes), `WakePending` (the `Notify`'s one permit is
there whenever a path is queued or the overflow flag is up: the safety half of
`NoStrandedCursor` and `EventuallyTaken`) and `WithinDirtyLimit`. `IInv` adds that
queue and map of `DirtyFiles` hold the same paths, each once; that a cursor is
within its file; and that the fills published are in order and none is above
`last`, which a fence resets for the other streams only (`TakenOK`). `WakePending` alone is
not inductive: `push` may set the flag without adding a path, and it is the limit
being positive that makes the queue non-empty then.

### `L2Views` (`ViewsAssumption`), in `Connection_proofs`

`ViewsFaithful` and `WireExact`. `VInv` gives every owner of an address (live
state, request under way, held views, wire cache) its own condition on the heap:
the address is allocated, and its map is what the owner takes it for. A new map
is allocated at a free address and the map of an address is only changed in place
while nobody else owns it, so that each condition survives what the other owners
do. For the wire cache this is exactly that it retains its source.

### `Subscriptions`, `Connection`, `Sockets`

`UniverseCurrent` and `AcceptedHasView` (`SubscriptionsAssumption`).
`UniverseCurrent` is about a connection with nothing waiting; `SubsInv` says the
same of one with messages waiting: without a Gap or a loss the last of them has
the coins of the book (`LastCurrent`) and the book is still there (`BookThere`).

`NothingMissed`, `L2NotStale` and `L2Forward` (`ConnectionAssumption`). `CInv` adds that updates wait in order and not ahead of
the book, and that `sent_positions` is what the client has.

`PermitsExact` and `TraceHonest` (`SocketsAssumption`). `SInv` counts the
connections, of which finitely many exist at a time although clients may be any
set, and says of each connection how far its batch is: a subscription that is
left has no frame, one that is not has been served.

### How induction is done

The library's induction theorems take an operator and cannot be instantiated
here. The proofs derive what they need from `WFMin`: a non-empty set of naturals
has a least element (`LeastExists`), hence a set with 0 and all successors is
`Nat` (`AllNaturals`), and membership in a set takes the place of the operator.
The same argument gives the existence and the values of recursive functions
(`FoldLeft` in `BytesExact`, `PushAll`, the views and the split of trades by coin;
the sums over sets of orders; powers of ten and the count of digits; the walk of
`LinkedList`).

### Only model-checked

* Everything under fairness: `BookRecovery`'s properties, `NoStrandedCursor`,
  `EventuallyTaken`, `GapDisconnects` and `NobodyBlocks` are liveness, which
  is outside this prover.

Every invariant and every action property of the passing runs, and every
refinement, is a theorem.

## Findings

* `IngestionRotation`: "Trade and L4 event loss is never hidden by coalescing".
  A file that needs several read turns is queued again behind its successor of
  the next hour; once the successor's fills are published, `last_fill` drops the
  rest of the older file without a Gap. Status and diff streams notice the jump.
* `SubscriptionsSpot`: spot books are documented as unsupported, but a spot coin
  that is in scope can be subscribed to until the first `Snapshot` message, and
  is then served a book that is never updated.

Met while modelling, and not the subject of a run:

* The repository's README says the server exits when a snapshot differs from its
  book, or after five seconds without events. `reconcile_snapshot` reloads, sends
  a Gap and goes on (`NoSilentRewrite`, `DivergenceRepaired`), and nothing exits
  for want of events.
* For prices of fewer than five digits (under 0.0001) the views of four figures and
  fewer are aggregated from a view in steps of five, and where their own buckets
  are narrower (four digits in the four-figure view) they keep its steps: an ask at
  1231 units is shown at 1235. No document promises the finer step; `Step` states
  the one the code has, and `ViewsExact` and `NeverOverstated` hold there with it.

## Not modelled

The `/resources` route (it only reads counters), record formats and their
parsing, prices and sizes as decimal strings included (a record is accepted or
malformed), the streaming JSON visitor of the snapshot loader beyond its coin
filter, `DirectoryListener` (used by its own test only), the binaries and the
example client. Durations are not modelled: an age limit or a deadline may
strike whenever its timer runs. That every validation attempt may hit a limit
when the node's export is slow is a listed hazard without a property. Truncation
of a file by its writer is outside the modelled environment.

## Plan

Done, in this order: the listener and its feed, recovery, queues, ingestion,
order book, list, connection, L2 aggregation, L2 views with the wire cache,
subscriptions, trades, the listener's proofs; then the books of several coins,
the application and audit of a block, admission and delivery traces.

Then the theorems, in this order: connection, order book, subscriptions, sockets,
batch queues, L2 views, ingestion, linked list, trades, L2 aggregation, and last
the application of blocks.

Left: a model of the time limits (block age, queue age, deadlines) under which
the listed hazard of a slow export could be stated.
