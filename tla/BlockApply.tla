----------------------------- MODULE BlockApply -----------------------------
(***************************************************************************)
(* What is inside the book that BookListener.tla only knows by height: the *)
(* state built from a snapshot of the node (from_snapshot), advanced block *)
(* by block (OrderBookState::apply_updates of listeners/order_book/        *)
(* state.rs), and audited against a later snapshot                         *)
(* (validate_snapshot_consistency of utils.rs).                            *)
(*                                                                         *)
(* The node is external: it has books of its own, and every change of them *)
(* goes into the block under construction as an order status, a book diff  *)
(* or both, in the order it happens.  A block may reach the server without *)
(* one of its events: that is the divergence that audits are there for.    *)
(*                                                                         *)
(* The node's blocks do not depend on the server, so they are written      *)
(* first; the server then meets them at any pace.  Its calls are one       *)
(* critical section each, taken diff by diff here.                         *)
(***************************************************************************)
EXTENDS OrderBook

CONSTANTS
    Spot,           \* the spot coins (Coin::is_spot)
    IgnoreSpot,     \* the ignore_spot flag
    Genesis,        \* bound: the books the node may begin with
    Placements,     \* bound: [coin, side, px, sz] of the orders the node opens
    Unrested,       \* bound: those it opens as Ioc or trigger orders
    MaxHeight,      \* bound: blocks, counting the one of the first snapshot
    MaxOps,         \* bound: changes at the node
    MaxLost         \* bound: lost events

\* An order that rests in the book of a coin, on a side.
RestingOrders(coin, side) ==
    [coin : {coin}, oid : Oids, side : {side}, px : Pxs, sz : Szs \ {0},
     is_trigger : {FALSE}, timestamp : Nat]

\* The node's book of a coin: on each side the best price first, no price that
\* would trade with the other side, and no id twice.
IsSnapshot(snapshot, coin) ==
    /\ snapshot = [s \in Sides |-> snapshot[s]]
    /\ \A s \in Sides : snapshot[s] \in Seq(RestingOrders(coin, s))
    /\ \A s \in Sides : \A i, j \in DOMAIN snapshot[s] :
          i < j => Crosses(Other(s), snapshot[s][i].px, snapshot[s][j].px)
    /\ \A i \in DOMAIN snapshot["Bid"], j \in DOMAIN snapshot["Ask"] :
          snapshot["Bid"][i].px < snapshot["Ask"][j].px
    /\ \A s, t \in Sides : \A i \in DOMAIN snapshot[s], j \in DOMAIN snapshot[t] :
          snapshot[s][i].oid = snapshot[t][j].oid => s = t /\ i = j

IsNode(n) == DOMAIN n \subseteq Coins /\ \A c \in DOMAIN n : IsSnapshot(n[c], c)

IdsIn(n) ==
    UNION {UNION {{n[c][s][i].oid : i \in DOMAIN n[c][s]} : s \in Sides} : c \in DOMAIN n}

\* The node issues the ids 1, 2, ...; the books it begins with have the first.
ASSUME BlockAssumption ==
    /\ Spot \subseteq Coins /\ IgnoreSpot \in BOOLEAN /\ Oids \subseteq Nat \ {0}
    /\ Placements \subseteq [coin : Coins, side : Sides, px : Pxs, sz : Szs \ {0}]
    /\ MaxHeight \in Nat \ {0} /\ MaxOps \in Nat /\ MaxLost \in Nat
    /\ \A n \in Genesis : /\ IsNode(n) /\ IsFiniteSet(IdsIn(n))
                          /\ IdsIn(n) \subseteq 1..Cardinality(IdsIn(n))

VARIABLES
    node,       \* per listed coin and side, the resting orders, best first
    triggers,   \* the node's trigger orders that have not fired
    issued,     \* the ids issued so far are 1..issued
    ops,        \* changes so far (for the bound)
    block,      \* the block under construction: [statuses, diffs]
    blocks,     \* the blocks as the server reads them
    past,       \* node at each height (history)
    lossy,      \* heights of blocks with a lost event (history)
    height,     \* of the server's books
    origin,     \* height of the snapshot they started from (history)
    work        \* the critical section under way

nodeVars  == <<node, triggers, issued, ops, block>>
chainVars == <<blocks, past, lossy>>
stateVars == <<height, origin, work>>
vars == <<bookVars, nodeVars, chainVars, stateVars>>

NoEvents  == [statuses |-> <<>>, diffs |-> <<>>]
EmptySnap == [s \in Sides |-> <<>>]

\* No books; books that wait for the next call; a snapshot being built in; a
\* block being applied.
NoState == [phase |-> "none"]
Ready   == [phase |-> "ready"]

Init ==
    /\ BookInit
    /\ node \in Genesis
    /\ issued = Cardinality(IdsIn(node))
    /\ triggers = {} /\ ops = 0 /\ block = NoEvents
    /\ blocks = <<NoEvents>> /\ past = <<node>> /\ lossy = {}
    /\ height = 0 /\ origin = 0 /\ work = NoState

-----------------------------------------------------------------------------
(* The node (external)                                                       *)

Now == Len(blocks) + 1

\* A status or a diff of the block under construction.
Status(order, status, tif) == [order |-> order, status |-> status, tif |-> tif, time |-> Now]
Diff(order, kind, before) ==
    [coin |-> order.coin, oid |-> order.oid, px |-> order.px, kind |-> kind,
     sz |-> order.sz, before |-> before]

Change(statuses, diffs) ==
    /\ ops < MaxOps /\ ops' = ops + 1
    /\ Len(blocks) < MaxHeight
    /\ block' = [statuses |-> block.statuses \o statuses, diffs |-> block.diffs \o diffs]
    /\ UNCHANGED <<bookVars, chainVars, stateVars>>

Issue == issued + 1 \in Oids /\ issued' = issued + 1

\* `order' comes to rest at place i of its side: its price neither crosses the
\* other side nor is out of line with its neighbours.
CanRest(order, i) ==
    LET q == node[order.coin][order.side] IN
    /\ i \in 1..(Len(q) + 1)
    /\ \A j \in DOMAIN q :
          q[j].px # order.px => (j < i <=> Crosses(Other(order.side), q[j].px, order.px))
    /\ \A j \in DOMAIN node[order.coin][Other(order.side)] :
          ~Crosses(order.side, node[order.coin][Other(order.side)][j].px, order.px)

\* The order of the same price that it is put in front of.
InFrontOf(order, i) ==
    LET q == node[order.coin][order.side] IN
    IF i =< Len(q) /\ q[i].px = order.px THEN q[i].oid ELSE NoOid

ComesToRest(order, i) ==
    node' = [node EXCEPT ![order.coin][order.side] = InsertAt(@, i, order)]

Open(order, i) ==
    /\ Issue /\ CanRest(order, i) /\ ComesToRest(order, i)
    /\ Change(<<Status(order, "open", "Gtc")>>, <<Diff(order, "New", InFrontOf(order, i))>>)
    /\ UNCHANGED triggers

\* It trades at once or is cancelled: it is opened and never rests.
OpenIoc(order) ==
    /\ Issue
    /\ Change(<<Status(order, "open", "Ioc")>>, <<>>)
    /\ UNCHANGED <<node, triggers>>

OpenTrigger(order) ==
    /\ Issue
    /\ triggers' = triggers \union {order}
    /\ Change(<<Status(order, "open", "Gtc")>>, <<>>)
    /\ UNCHANGED node

\* The status repeats the trigger order as it was placed; what comes to rest is
\* an ordinary order, new in the book, at a price and size of its own.
Fire(order, px, sz, i) ==
    /\ order \in triggers
    /\ triggers' = triggers \ {order}
    /\ LET rests == [order EXCEPT !.px = px, !.sz = sz, !.is_trigger = FALSE, !.timestamp = Now]
       IN  /\ CanRest(rests, i) /\ ComesToRest(rests, i)
           /\ Change(<<Status(order, "triggered", "Gtc")>>,
                     <<Diff(rests, "New", InFrontOf(rests, i))>>)
    /\ UNCHANGED issued

\* The first in line trades one unit.
Trade(coin, side) ==
    /\ node[coin][side] # <<>>
    /\ LET q    == node[coin][side]
           left == [Head(q) EXCEPT !.sz = @ - 1]
       IN  IF left.sz = 0
           THEN /\ node' = [node EXCEPT ![coin][side] = Tail(q)]
                /\ Change(<<Status(left, "filled", "Gtc")>>, <<Diff(left, "Remove", NoOid)>>)
           ELSE /\ node' = [node EXCEPT ![coin][side] = <<left>> \o Tail(q)]
                /\ Change(<<>>, <<Diff(left, "Update", NoOid)>>)
    /\ UNCHANGED <<triggers, issued>>

Cancel(coin, side, i) ==
    /\ i \in DOMAIN node[coin][side]
    /\ node' = [node EXCEPT ![coin][side] = RemoveAt(@, i)]
    /\ LET order == node[coin][side][i]
       IN  Change(<<Status(order, "canceled", "Gtc")>>, <<Diff(order, "Remove", NoOid)>>)
    /\ UNCHANGED <<triggers, issued>>

\* A coin is listed, or an empty one taken off; neither is in the stream.
Relist(coin) ==
    /\ \/ coin \notin DOMAIN node /\ node' = With(node, coin, EmptySnap)
       \/ /\ coin \in DOMAIN node /\ node[coin] = EmptySnap
          /\ \A order \in triggers : order.coin # coin
          /\ node' = Without(node, {coin})
    /\ Change(<<>>, <<>>)
    /\ UNCHANGED <<triggers, issued>>

\* The block is written, whole or without one of its events.
Seal(b) ==
    /\ Len(blocks) < MaxHeight
    /\ blocks' = Append(blocks, b)
    /\ past' = Append(past, node)
    /\ lossy' = IF b = block THEN lossy ELSE lossy \union {Now}
    /\ Cardinality(lossy') =< MaxLost
    /\ block' = NoEvents
    /\ UNCHANGED <<bookVars, stateVars, node, triggers, issued, ops>>

Written ==
    {block}
    \union {[block EXCEPT !.statuses = RemoveAt(@, i)] : i \in DOMAIN block.statuses}
    \union {[block EXCEPT !.diffs = RemoveAt(@, i)] : i \in DOMAIN block.diffs}

Order(p, trigger) ==
    [coin |-> p.coin, oid |-> issued + 1, side |-> p.side, px |-> p.px, sz |-> p.sz,
     is_trigger |-> trigger, timestamp |-> Now]

Listed == {p \in Placements : p.coin \in DOMAIN node}

NodeNext ==
    \/ \E p \in Listed, i \in 1..MaxOps : Open(Order(p, FALSE), i)
    \/ \E p \in Listed \intersect Unrested : OpenIoc(Order(p, FALSE)) \/ OpenTrigger(Order(p, TRUE))
    \/ \E order \in triggers, px \in Pxs, sz \in Szs \ {0}, i \in 1..MaxOps : Fire(order, px, sz, i)
    \/ \E coin \in DOMAIN node, side \in Sides : Trade(coin, side)
    \/ \E coin \in DOMAIN node, side \in Sides, i \in 1..MaxOps : Cancel(coin, side, i)
    \/ \E coin \in Coins : Relist(coin)
    \/ \E b \in Written : Seal(b)

-----------------------------------------------------------------------------
(* The books from a snapshot, and back                                       *)

\* Trailing orders that are on both sides are triggers, and are left out.
remove_triggers(snapshot) ==
    LET ids(side)  == {snapshot[side][i].oid : i \in DOMAIN snapshot[side]}
        both       == ids("Bid") \intersect ids("Ask")
        kept(side) == {i \in DOMAIN snapshot[side] : snapshot[side][i].oid \notin both}
    IN  [s \in Sides |-> SubSeq(snapshot[s], 1, IF kept(s) = {} THEN 0 ELSE Max(kept(s)))]

\* The orders in the order in which from_snapshot adds them: bids, then asks.
AddedInOrder(snapshot) == remove_triggers(snapshot)["Bid"] \o remove_triggers(snapshot)["Ask"]

\* from_snapshots at height h: coin by coin, in any order.
StartLoading(h) ==
    /\ order_books' = Empty
    /\ call' = Idle
    /\ work' = [phase |-> "loading", height |-> h, coins |-> DOMAIN past[h], todo |-> <<>>]

\* init_from_snapshot: of any height the node has exported.
Load(h) ==
    /\ work.phase = "none" /\ Len(blocks) = MaxHeight
    /\ StartLoading(h)
    /\ UNCHANGED <<nodeVars, chainVars, height, origin>>

\* A new book, and then its orders.
LoadCoin(c) ==
    /\ work.phase = "loading" /\ work.todo = <<>> /\ call = Idle
    /\ c \in work.coins
    /\ order_books' = With(order_books, c, new)
    /\ work' = [work EXCEPT !.coins = @ \ {c}, !.todo = AddedInOrder(past[work.height][c])]
    /\ UNCHANGED <<call, nodeVars, chainVars, height, origin>>

LoadOrder ==
    /\ work.phase = "loading" /\ work.todo # <<>>
    /\ AddOrder(Head(work.todo), NoOid)
    /\ work' = [work EXCEPT !.todo = Tail(@)]
    /\ UNCHANGED <<nodeVars, chainVars, height, origin>>

Loaded ==
    /\ work.phase = "loading" /\ work.todo = <<>> /\ work.coins = {} /\ call = Idle
    /\ height' = work.height /\ origin' = work.height
    /\ work' = Ready
    /\ UNCHANGED <<bookVars, nodeVars, chainVars>>

\* Price by price from the best one, each queue in its order.
to_snapshot(book) ==
    [s \in Sides |-> FoldLeft(LAMBDA orders, p : orders \o QueueAt(book, s, p), <<>>,
                              [i \in Pxs |-> IF s = "Bid" THEN MaxPx + 1 - i ELSE i])]

to_snapshots == [c \in DOMAIN order_books |-> to_snapshot(order_books[c])]

-----------------------------------------------------------------------------
(* apply_updates                                                             *)

is_inserted_into_book(s) ==
    \/ s.status = "open" /\ ~s.order.is_trigger /\ s.tif # "Ioc"
    \/ s.order.is_trigger /\ s.status = "triggered"

\* order_map: the last such status of each order.
OrderMap(statuses) ==
    LET in == {i \in DOMAIN statuses : is_inserted_into_book(statuses[i])}
    IN  [o \in {statuses[i].order.oid : i \in in} |->
            statuses[Max({i \in in : statuses[i].order.oid = o})]]

\* An error: the listener drops the state.
Err == order_books' = Empty /\ call' = Idle /\ work' = NoState /\ height' = 0 /\ origin' = 0

Succeeds(h) == h = height + 1

\* The call with block h, which may be one that was applied before (the cache
\* reaches further back than the snapshot) or one that comes too early.
ApplyBlock(h) ==
    /\ work.phase = "ready" /\ call = Idle
    /\ \/ h > height + 1 /\ Err
       \/ /\ Succeeds(h)
          /\ work' = [phase |-> "applying", todo |-> blocks[h].diffs,
                      order_map |-> OrderMap(blocks[h].statuses)]
          /\ UNCHANGED <<bookVars, height, origin>>
       \/ h =< height /\ ~Succeeds(h) /\ UNCHANGED <<bookVars, stateVars>>
    /\ UNCHANGED <<nodeVars, chainVars>>

\* A trigger becomes an ordinary order of the time it fired.
convert_trigger(order, ts) ==
    IF order.is_trigger THEN [order EXCEPT !.is_trigger = FALSE, !.timestamp = ts] ELSE order

\* Mutant of Rests: the order keeps the price of its status.
Rests_StatusPrice(s, d) == convert_trigger([s.order EXCEPT !.sz = d.sz], s.time)

\* The order of status s as it comes to rest, at the diff's price and size.
Rests(s, d) == convert_trigger([s.order EXCEPT !.px = d.px, !.sz = d.sz], s.time)

ApplyDiff ==
    /\ work.phase = "applying" /\ work.todo # <<>> /\ call = Idle
    /\ LET d    == Head(work.todo)
           skip == d.coin \in Spot /\ IgnoreSpot
           done == [work EXCEPT !.todo = Tail(@)]
       IN \/ skip /\ work' = done /\ UNCHANGED bookVars
          \/ /\ ~skip /\ d.kind = "New" /\ d.oid \in DOMAIN work.order_map
             /\ AddOrder(Rests(work.order_map[d.oid], d), d.before)
             /\ work' = [done EXCEPT !.order_map = Without(@, {d.oid})]
          \/ \* no opening status
             /\ ~skip /\ d.kind = "New" /\ d.oid \notin DOMAIN work.order_map
             /\ call' = Failed /\ work' = done /\ UNCHANGED order_books
          \/ ~skip /\ d.kind = "Update" /\ modify_sz(d.oid, d.coin, d.sz) /\ work' = done
          \/ ~skip /\ d.kind = "Remove" /\ cancel_order(d.oid, d.coin) /\ work' = done
    /\ UNCHANGED <<nodeVars, chainVars, height, origin>>

\* The call of add_order_before made by LoadOrder or ApplyDiff goes on.
Adding ==
    /\ MatchOne \/ MatchDone \/ Rest
    /\ UNCHANGED <<nodeVars, chainVars, stateVars>>

BlockRefused ==
    /\ work.phase = "applying" /\ call = Failed
    /\ Err
    /\ UNCHANGED <<nodeVars, chainVars>>

BlockDone ==
    /\ work.phase = "applying" /\ work.todo = <<>> /\ call = Idle
    /\ height' = height + 1
    /\ work' = Ready
    /\ UNCHANGED <<bookVars, nodeVars, chainVars, origin>>

-----------------------------------------------------------------------------
(* validate_snapshot_consistency                                             *)

Audited(m) == {c \in DOMAIN m : ~(IgnoreSpot /\ c \in Spot)}

\* Mutant of SameOrders: orders are compared as far as both sides reach.
SameOrders_NoCount(book1, book2) ==
    \A s \in Sides : \A i \in DOMAIN book1[s] \intersect DOMAIN book2[s] : book1[s][i] = book2[s][i]

SameOrders(book1, book2) ==
    \A s \in Sides : /\ Len(book1[s]) = Len(book2[s])
                     /\ \A i \in DOMAIN book1[s] : book1[s][i] = book2[s][i]

validate_snapshot_consistency(snapshot, expected) ==
    LET left == Audited(expected) \ DOMAIN snapshot IN
    CASE \E c \in Audited(snapshot) : IF c \in DOMAIN expected THEN ~SameOrders(snapshot[c], expected[c])
                                      ELSE snapshot[c] # EmptySnap -> "Err"
      [] \E c \in left : expected[c] # EmptySnap                   -> "Err"
      [] OTHER -> IF left = {} THEN "Equal" ELSE "EmptyBooksAdded"

Verdict == validate_snapshot_consistency(to_snapshots, past[height])

\* reconcile_snapshot with a snapshot of the books' own height.
Audit ==
    /\ work.phase = "ready" /\ call = Idle
    /\ \/ Verdict = "Equal" /\ UNCHANGED <<bookVars, work>>
       \/ Verdict # "Equal" /\ StartLoading(height)
    /\ UNCHANGED <<nodeVars, chainVars, height, origin>>

Next ==
    \/ NodeNext
    \/ \E h \in DOMAIN past : Load(h)
    \/ \E c \in Coins : LoadCoin(c)
    \/ LoadOrder \/ Loaded \/ Adding
    \/ \E h \in DOMAIN blocks : ApplyBlock(h)
    \/ ApplyDiff \/ BlockRefused \/ BlockDone
    \/ Audit

Spec == Init /\ [][Next]_vars

-----------------------------------------------------------------------------
\* Its orders of one price, in their order.
AtPrice(orders, px) ==
    FoldLeft(LAMBDA queue, o : IF o.px = px THEN Append(queue, o) ELSE queue, <<>>, orders)

\* The book a snapshot stands for: levels by price, index by id.
BookOf(snapshot) ==
    LET orders == UNION {ToSet(snapshot[s]) : s \in Sides} IN
    [levels |-> [s \in Sides |-> [p \in {o.px : o \in ToSet(snapshot[s])} |-> AtPrice(snapshot[s], p)]],
     oid_to_side_px |->
        [id \in {o.oid : o \in orders} |->
            LET o == CHOOSE x \in orders : x.oid = id IN [side |-> o.side, px |-> o.px]]]

\* The node's book of a coin at the server's height.
NodeBook(c) == IF c \in DOMAIN past[height] THEN BookOf(past[height][c]) ELSE new

SameBooks == \A c \in Coins : ~(IgnoreSpot /\ c \in Spot) => Book(c) = NodeBook(c)

Intact == lossy \intersect (origin + 1)..height = {}

\* As long as no event was lost the server's books are the node's, order for
\* order, queue position, time and index included, from whatever snapshot they
\* started and whatever blocks were offered again; and apply_updates refuses no
\* block half-way.
FollowsNode ==
    /\ work.phase = "ready" /\ Intact => SameBooks
    /\ call.phase = "failed" => lossy \intersect (origin + 1)..(height + 1) # {}

\* The audit raises an alarm exactly if the server's books, the index that no
\* snapshot shows included, are not those of the node.
AuditExact == work.phase = "ready" => (Verdict # "Err" <=> SameBooks)

=============================================================================
