----------------------------- MODULE OrderBook -----------------------------
(***************************************************************************)
(* The books (OrderBooks of server/src/order_book/multi_book.rs) and each  *)
(* coin's OrderBook (order_book/mod.rs): two maps from price to the queue  *)
(* of resting orders, and the index from order id to side and price.  A    *)
(* call runs to completion under the listener's lock; only the loop of     *)
(* match_order is taken one maker at a time.                               *)
(*                                                                         *)
(* A queue is the sequence that LinkedList.tla shows the slab list to be.  *)
(***************************************************************************)
EXTENDS Integers, Sequences, SequencesExt, FiniteSetsExt, TLC

CONSTANTS
    Coins,
    Oids,        \* order ids
    NoOid,       \* insert_before: None
    MaxPx,       \* prices are 1..MaxPx
    MaxSz        \* sizes are 0..MaxSz

ASSUME BookAssumption ==
    MaxPx \in Nat \ {0} /\ MaxSz \in Nat \ {0} /\ NoOid \notin Oids

Sides == {"Bid", "Ask"}
Pxs   == 1..MaxPx
Szs   == 0..MaxSz
Other(side) == IF side = "Bid" THEN "Ask" ELSE "Bid"

VARIABLES
    order_books,     \* a map from coin to [levels, oid_to_side_px]: levels has,
                     \* per side, a map from price to a queue of orders
    call             \* the add_order_before under way, and the last outcome

bookVars == <<order_books, call>>

Empty  == [p \in {} |-> <<>>]
Idle   == [phase |-> "idle"]
Failed == [phase |-> "failed"]

new == [levels |-> [s \in Sides |-> Empty], oid_to_side_px |-> Empty]

BookInit == order_books = Empty /\ call = Idle

\* A map without these keys, and with a key inserted or replaced.
Without(f, S) == [x \in DOMAIN f \ S |-> f[x]]
With(f, x, y) == [z \in DOMAIN f \union {x} |-> IF z = x THEN y ELSE f[z]]

\* The map with queue q at price px; an empty queue is taken out of the map.
WithQueue(map, px, q) ==
    IF q = <<>> THEN Without(map, {px}) ELSE With(map, px, q)

\* A coin's book; there is none before its first order or snapshot.
Book(coin) == IF coin \in DOMAIN order_books THEN order_books[coin] ELSE new

QueueAt(book, side, px) ==
    IF px \in DOMAIN book.levels[side] THEN book.levels[side][px] ELSE <<>>

Position(q, oid) == SelectInSeq(q, LAMBDA o : o.oid = oid)

-----------------------------------------------------------------------------
(* add_order_before                                                          *)

\* A new order, in front of `before' or (NoOid) last at its price.
AddOrder(order, before) ==
    /\ call = Idle
    /\ call' = [phase |-> "matching", order |-> order, before |-> before, filled |-> {}]
    /\ order_books' = With(order_books, order.coin, Book(order.coin))

\* Mutant of Crosses: equal prices do not trade.
Crosses_Strict(side, px, limit) == IF side = "Ask" THEN px > limit ELSE px < limit

\* Does a taker on `side' with this limit trade at px?
Crosses(side, px, limit) == IF side = "Ask" THEN px >= limit ELSE px =< limit

\* The price match_order visits first among those it trades at.
Best(side, prices) == IF side = "Ask" THEN Max(prices) ELSE Min(prices)

Taker == call.order

Crossed ==
    {p \in DOMAIN Book(Taker.coin).levels[Other(Taker.side)] : Crosses(Taker.side, p, Taker.px)}

\* What a taker and a maker of these sizes trade; both lose it.
fill(sz, maker_sz) == Min({sz, maker_sz})

\* One maker: the head of the best level is filled, and leaves at size zero.
MatchOne ==
    /\ call.phase = "matching"
    /\ Crossed # {}
    /\ LET makers == Other(Taker.side)
           px     == Best(Taker.side, Crossed)
           q      == Book(Taker.coin).levels[makers][px]
           traded == fill(Taker.sz, Head(q).sz)
           left   == Head(q).sz - traded
       IN  /\ order_books' = [order_books EXCEPT ![Taker.coin].levels[makers] = WithQueue(@, px,
                    IF left = 0 THEN Tail(q) ELSE <<[Head(q) EXCEPT !.sz = left]>> \o Tail(q))]
           /\ call' = [call EXCEPT !.order.sz = @ - traded,
                         !.filled = IF left = 0 THEN @ \union {Head(q).oid} ELSE @,
                         !.phase = IF Taker.sz = traded THEN "matched" ELSE @]

MatchDone ==
    /\ call.phase = "matching"
    /\ Crossed = {}
    /\ call' = [call EXCEPT !.phase = "matched"]
    /\ UNCHANGED order_books

\* Mutant of Unindex: filled makers stay in the index.
Unindex_Keeps(book, filled) == book

\* The filled makers leave the index.
Unindex(book, filled) == [book EXCEPT !.oid_to_side_px = Without(@, filled)]

\* The queue with the order placed in it: push_back ignores an id that is
\* already there, insert_before refuses it, as it refuses a missing `before'.
CanPlace(q, oid, before) ==
    before = NoOid \/ (Position(q, oid) = 0 /\ Position(q, before) # 0)

Placed(q, order, before) ==
    IF before # NoOid THEN InsertAt(q, Position(q, before), order)
    ELSE IF Position(q, order.oid) = 0 THEN Append(q, order) ELSE q

\* add_order_to_book on the rest of the taker.
Rest ==
    /\ call.phase = "matched"
    /\ LET book == Unindex(Book(Taker.coin), call.filled)
           q    == QueueAt(book, Taker.side, Taker.px)
       IN \/ /\ Taker.sz = 0
             /\ order_books' = [order_books EXCEPT ![Taker.coin] = book]
             /\ call' = Idle
          \/ \* the caller drops the book
             /\ Taker.sz > 0 /\ ~CanPlace(q, Taker.oid, call.before)
             /\ order_books' = [order_books EXCEPT ![Taker.coin] = book]
             /\ call' = Failed
          \/ /\ Taker.sz > 0 /\ CanPlace(q, Taker.oid, call.before)
             /\ order_books' = [order_books EXCEPT ![Taker.coin] =
                  [book EXCEPT
                     !.levels[Taker.side] = WithQueue(@, Taker.px, Placed(q, Taker, call.before)),
                     !.oid_to_side_px = With(@, Taker.oid, [side |-> Taker.side, px |-> Taker.px])]]
             /\ call' = Idle

-----------------------------------------------------------------------------
\* A coin without a book, and an id that is not in the index, are failures.
Known(coin, oid) == oid \in DOMAIN Book(coin).oid_to_side_px

cancel_order(oid, coin) ==
    /\ call = Idle
    /\ \/ ~Known(coin, oid) /\ call' = Failed /\ UNCHANGED order_books
       \/ /\ Known(coin, oid)
          /\ LET at == Book(coin).oid_to_side_px[oid]
                 q  == QueueAt(Book(coin), at.side, at.px)
                 i  == Position(q, oid)
             IN  /\ order_books' = [order_books EXCEPT
                        ![coin].levels[at.side] = WithQueue(@, at.px, IF i = 0 THEN q ELSE RemoveAt(q, i)),
                        ![coin].oid_to_side_px = Without(@, {oid})]
                 /\ call' = IF i = 0 THEN Failed ELSE Idle

\* Mutant of Resized: the order loses its place in the queue.
Resized_Requeued(q, i, sz) == Append(RemoveAt(q, i), [q[i] EXCEPT !.sz = sz])

Resized(q, i, sz) == [q EXCEPT ![i].sz = sz]

\* The order keeps its place; size zero is not special.
modify_sz(oid, coin, sz) ==
    /\ call = Idle
    /\ \/ ~Known(coin, oid) /\ call' = Failed /\ UNCHANGED order_books
       \/ /\ Known(coin, oid)
          /\ LET at == Book(coin).oid_to_side_px[oid]
                 q  == QueueAt(Book(coin), at.side, at.px)
                 i  == Position(q, oid)
             IN  IF i = 0
                 THEN call' = Failed /\ UNCHANGED order_books
                 ELSE /\ order_books' = [order_books EXCEPT ![coin].levels[at.side] =
                                           WithQueue(@, at.px, Resized(q, i, sz))]
                      /\ UNCHANGED call

\* A failed call is an error of apply_updates: the listener drops the books.
Dropped ==
    /\ call.phase = "failed"
    /\ order_books' = Empty
    /\ call' = Idle

\* Any calls.  Order ids are the exchange's: a new order's is not resting.
BookNext ==
    \/ \E coin \in Coins, oid \in Oids, side \in Sides, px \in Pxs, sz \in Szs,
          before \in Oids \union {NoOid} :
             /\ ~Known(coin, oid)
             /\ AddOrder([coin |-> coin, oid |-> oid, side |-> side, px |-> px, sz |-> sz], before)
    \/ MatchOne
    \/ MatchDone
    \/ Rest
    \/ \E oid \in Oids, coin \in Coins : cancel_order(oid, coin)
    \/ \E oid \in Oids, coin \in Coins, sz \in Szs : modify_sz(oid, coin, sz)
    \/ Dropped

BookSpec == BookInit /\ [][BookNext]_bookVars

-----------------------------------------------------------------------------
Resting == {w \in Coins \X Sides \X Pxs \X Oids :
              Position(QueueAt(Book(w[1]), w[2], w[3]), w[4]) # 0}

\* Between calls, also after a failed one that has already traded: the index
\* knows exactly the resting orders and where each one rests, an order rests
\* once, and no level is empty.
IndexAgrees ==
    call.phase \in {"idle", "failed"} =>
        /\ Resting = UNION {{<<c, Book(c).oid_to_side_px[o].side, Book(c).oid_to_side_px[o].px, o>> :
                               o \in DOMAIN Book(c).oid_to_side_px} : c \in Coins}
        /\ \A c \in Coins, s \in Sides : \A p \in DOMAIN Book(c).levels[s] :
              LET q == QueueAt(Book(c), s, p) IN
              q # <<>> /\ IsInjective([i \in DOMAIN q |-> q[i].oid])

\* No resting bid and ask would trade: not between calls, not in the middle of
\* an addition, and not after a failed one that has already matched.
Uncrossed ==
    \A c \in Coins : \A b \in DOMAIN Book(c).levels["Bid"], a \in DOMAIN Book(c).levels["Ask"] :
        b < a

Ahead(w, x) ==
    LET q == QueueAt(Book(w[1]), w[2], w[3]) IN Position(q, w[4]) < Position(q, x[4])

\* Queue priority: whatever is added, filled, cancelled or resized, two orders
\* that stay at a price stay in the same order.
PriorityKept ==
    [][\A w, x \in Resting \intersect Resting' :
         (\A i \in 1..3 : w[i] = x[i]) => (Ahead(w, x) <=> Ahead(w, x)')]_bookVars

=============================================================================
