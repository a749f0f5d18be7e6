-------------------------- MODULE OrderBook_proofs --------------------------
(***************************************************************************)
(* Proofs about OrderBook for every set of coins and of order ids and for  *)
(* every bound on prices and sizes, and about LinkedList, of which its     *)
(* levels are made, for every finite set of keys.                          *)
(***************************************************************************)
EXTENDS BlockApply, LinkedList, SequenceTheorems, FiniteSetTheorems, NaturalsInduction,
        WellFoundedInduction, TLAPS

\* Any order, and one with the fields that only BlockApply looks at.
Orders ==
    [coin : Coins, oid : Oids, side : Sides, px : Pxs, sz : Szs]
    \union [coin : Coins, oid : Oids, side : Sides, px : Pxs, sz : Szs,
            is_trigger : BOOLEAN, timestamp : Nat]
Places == [side : Sides, px : Pxs]

\* A queue of resting orders: an id occurs once.
Queues ==
    {q \in Seq(Orders) : \A i, j \in DOMAIN q : q[i].oid = q[j].oid => i = j}

\* One side of a book keeps no empty level.
Levels == UNION {[D -> Queues \ {<<>>}] : D \in SUBSET Pxs}
Indices == UNION {[D -> Places] : D \in SUBSET Oids}
Books == [levels : [Sides -> Levels], oid_to_side_px : Indices]

Calls == {Idle, Failed}
         \union [phase : {"matching", "matched"}, order : Orders,
                 before : Oids \union {NoOid}, filled : SUBSET Oids]

InCall == call.phase \in {"matching", "matched"}

BookTypeOK ==
    /\ order_books \in UNION {[D -> Books] : D \in SUBSET Coins}
    /\ call \in Calls

\* The order with this id is in the queue.
Holds(q, o) == \E i \in DOMAIN q : q[i].oid = o

\* The index knows where every resting order rests, and knows no others but
\* the makers that the call under way has filled.
Indexed(b, filled) ==
    /\ \A s \in Sides, p \in Pxs, o \in Oids :
          Holds(QueueAt(b, s, p), o) =>
             o \in DOMAIN b.oid_to_side_px /\ b.oid_to_side_px[o] = [side |-> s, px |-> p]
    /\ \A o \in DOMAIN b.oid_to_side_px :
          o \notin filled <=> Holds(QueueAt(b, b.oid_to_side_px[o].side, b.oid_to_side_px[o].px), o)

\* No bid trades with an ask.
Apart(b) == \A x \in DOMAIN b.levels["Bid"], y \in DOMAIN b.levels["Ask"] : x < y

Filled(c) == IF InCall /\ Taker.coin = c THEN call.filled ELSE {}

BookInv ==
    /\ BookTypeOK
    /\ \A c \in Coins : Indexed(Book(c), Filled(c)) /\ Apart(Book(c))
    /\ InCall => Taker.coin \in DOMAIN order_books /\ ~Known(Taker.coin, Taker.oid)
    /\ call.phase = "matched" => Taker.sz = 0 \/ Crossed = {}

\* Orders that are in both queues are in the same order in both.
KeepsOrder(q, r) ==
    \A i, j \in DOMAIN q, k, l \in DOMAIN r :
       q[i].oid = r[k].oid /\ q[j].oid = r[l].oid => (i < j <=> k < l)

\* r holds what q holds without the orders in G.
Loses(q, r, G) ==
    /\ \A o : Holds(r, o) <=> Holds(q, o) /\ o \notin G
    /\ \A o \in G : o \in Oids /\ Holds(q, o)

\* r holds what q holds and the order n.
Gains(q, r, n) == \A o : Holds(r, o) <=> Holds(q, o) \/ o = n

-----------------------------------------------------------------------------
(* Queues *)

\* Position finds the order, and 0 says that it is not there.
LEMMA PositionFacts ==
    ASSUME NEW q \in Queues, NEW o
    PROVE  /\ \A i \in DOMAIN q : q[i].oid = o => Position(q, o) = i
           /\ Position(q, o) # 0 <=> Holds(q, o)
           /\ Position(q, o) # 0 => Position(q, o) \in DOMAIN q /\ q[Position(q, o)].oid = o
  <1>. q \in Seq(Orders) /\ DOMAIN q = 1..Len(q) /\ Len(q) \in Nat  BY DEF Queues
  <1>1. ASSUME NEW i \in DOMAIN q, q[i].oid = o PROVE Position(q, o) = i
    <2>1. {j \in 1..Len(q) : q[j].oid = o} = {i}  BY <1>1 DEF Queues
    <2>2. Min({i}) = i  BY DEF Min
    <2>. QED  BY <2>1, <2>2 DEF Position, SelectInSeq
  <1>2. ASSUME ~Holds(q, o) PROVE Position(q, o) = 0
    <2>1. {j \in 1..Len(q) : q[j].oid = o} = {}  BY <1>2 DEF Holds
    <2>. QED  BY <2>1 DEF Position, SelectInSeq
  <1>. QED  BY <1>1, <1>2 DEF Holds

\* The queue without its front (remove_front).
LEMMA TailQueue ==
    ASSUME NEW q \in Queues, q # <<>>
    PROVE  /\ Head(q) \in Orders /\ 1 \in DOMAIN q /\ Head(q) = q[1]
           /\ Tail(q) \in Queues
           /\ \A o : Holds(Tail(q), o) <=> Holds(q, o) /\ o # Head(q).oid
           /\ KeepsOrder(q, Tail(q))
  <1>. DEFINE r == Tail(q)
  <1>1. /\ q \in Seq(Orders) /\ DOMAIN q = 1..Len(q) /\ Len(q) \in Nat \ {0}
        /\ Head(q) = q[1] /\ q[1] \in Orders /\ r \in Seq(Orders)
        /\ DOMAIN r = 1..(Len(q) - 1)
        /\ \A i \in DOMAIN r : r[i] = q[i + 1] /\ i + 1 \in DOMAIN q
    BY DEF Queues
  <1>2. \A i, j \in DOMAIN q : q[i].oid = q[j].oid => i = j  BY DEF Queues
  <1>. HIDE DEF r
  <1>3. \A i, j \in DOMAIN r : r[i].oid = r[j].oid => i = j  BY <1>1, <1>2
  <1>4. ASSUME NEW o, Holds(q, o), o # Head(q).oid PROVE Holds(r, o)
    <2>1. PICK i \in DOMAIN q : q[i].oid = o  BY <1>4 DEF Holds
    <2>2. i - 1 \in DOMAIN r /\ r[i - 1] = q[i]  BY <1>1, <1>4, <2>1
    <2>. QED  BY <2>1, <2>2 DEF Holds
  <1>5. ASSUME NEW o, Holds(r, o) PROVE Holds(q, o) /\ o # Head(q).oid
    <2>1. PICK i \in DOMAIN r : r[i].oid = o  BY <1>5 DEF Holds
    <2>2. i + 1 # 1 /\ i + 1 \in DOMAIN q /\ q[i + 1].oid = o  BY <1>1, <2>1
    <2>. QED  BY <1>1, <1>2, <2>2 DEF Holds
  <1>6. KeepsOrder(q, r)  BY <1>1, <1>2 DEF KeepsOrder
  <1>7. r \in Queues  BY <1>1, <1>3 DEF Queues
  <1>. QED  BY <1>1, <1>4, <1>5, <1>6, <1>7 DEF r

\* A queue that differs from q in sizes only.
LEMMA SameIds ==
    ASSUME NEW q \in Queues, NEW r \in Seq(Orders), Len(r) = Len(q),
           \A i \in DOMAIN q : r[i].oid = q[i].oid
    PROVE  /\ r \in Queues
           /\ \A o : Holds(r, o) <=> Holds(q, o)
           /\ KeepsOrder(q, r)
           /\ q # <<>> => r # <<>>
  <1>1. DOMAIN q = 1..Len(q) /\ DOMAIN r = 1..Len(q) /\ Len(q) \in Nat /\ q \in Seq(Orders)
    BY DEF Queues
  <1>2. \A i, j \in DOMAIN q : q[i].oid = q[j].oid => i = j  BY DEF Queues
  <1>3. r \in Queues  BY <1>1, <1>2 DEF Queues
  <1>4. \A o : Holds(r, o) <=> Holds(q, o)  BY <1>1 DEF Holds
  <1>5. KeepsOrder(q, r)  BY <1>1, <1>2 DEF KeepsOrder
  <1>6. q # <<>> => r # <<>>  BY <1>1
  <1>. QED  BY <1>3, <1>4, <1>5, <1>6

\* The front of the queue partly filled, and an order resized in its place.
LEMMA ResizeQueue ==
    ASSUME NEW q \in Queues, NEW z \in Szs
    PROVE  /\ q # <<>> => LET r == <<[Head(q) EXCEPT !.sz = z]>> \o Tail(q) IN
                 /\ r \in Queues /\ r # <<>> /\ KeepsOrder(q, r)
                 /\ \A o : Holds(r, o) <=> Holds(q, o)
           /\ \A i \in DOMAIN q : LET r == Resized(q, i, z) IN
                 /\ r \in Queues /\ r # <<>> /\ KeepsOrder(q, r)
                 /\ \A o : Holds(r, o) <=> Holds(q, o)
  <1>1. /\ q \in Seq(Orders) /\ DOMAIN q = 1..Len(q) /\ Len(q) \in Nat
        /\ \A i \in DOMAIN q : q[i] \in Orders
    BY DEF Queues
  <1>2. \A x \in Orders : [x EXCEPT !.sz = z] \in Orders /\ [x EXCEPT !.sz = z].oid = x.oid
    BY DEF Orders
  <1>3. ASSUME q # <<>>
        PROVE  LET r == <<[Head(q) EXCEPT !.sz = z]>> \o Tail(q) IN
                 /\ r \in Queues /\ r # <<>> /\ KeepsOrder(q, r)
                 /\ \A o : Holds(r, o) <=> Holds(q, o)
    <2>. DEFINE e == [Head(q) EXCEPT !.sz = z]
               r == <<e>> \o Tail(q)
    <2>1. e \in Orders /\ e.oid = q[1].oid  BY <1>1, <1>2, <1>3
    <2>. HIDE DEF e
    <2>2. r \in Seq(Orders) /\ Len(r) = Len(q) /\ r[1] = e
          /\ \A i \in 2..Len(q) : r[i] = q[i]
      BY <1>1, <1>3, <2>1
    <2>3. \A i \in DOMAIN q : r[i].oid = q[i].oid  BY <1>1, <2>1, <2>2
    <2>. HIDE DEF r
    <2>4. /\ r \in Queues /\ r # <<>> /\ KeepsOrder(q, r)
          /\ \A o : Holds(r, o) <=> Holds(q, o)
      BY <1>3, <2>2, <2>3, SameIds
    <2>. QED  BY <2>4 DEF r, e
  <1>4. ASSUME NEW i \in DOMAIN q
        PROVE  LET r == Resized(q, i, z) IN
                 /\ r \in Queues /\ r # <<>> /\ KeepsOrder(q, r)
                 /\ \A o : Holds(r, o) <=> Holds(q, o)
    <2>. DEFINE r == Resized(q, i, z)
    <2>1. r = [q EXCEPT ![i] = [q[i] EXCEPT !.sz = z]]  BY <1>1 DEF Resized
    <2>2. [q[i] EXCEPT !.sz = z] \in Orders /\ [q[i] EXCEPT !.sz = z].oid = q[i].oid
      BY <1>1, <1>2
    <2>. HIDE DEF r
    <2>3. /\ r \in Seq(Orders) /\ Len(r) = Len(q)
          /\ \A j \in DOMAIN q : r[j].oid = q[j].oid
      BY <1>1, <2>1, <2>2
    <2>4. q # <<>>  BY <1>1
    <2>5. /\ r \in Queues /\ r # <<>> /\ KeepsOrder(q, r)
          /\ \A o : Holds(r, o) <=> Holds(q, o)
      BY <2>3, <2>4, SameIds
    <2>. QED  BY <2>5 DEF r
  <1>. QED  BY <1>3, <1>4

\* The queue without the order at i (remove_node).
LEMMA RemoveQueue ==
    ASSUME NEW q \in Queues, NEW i \in DOMAIN q
    PROVE  /\ RemoveAt(q, i) \in Queues
           /\ \A o : Holds(RemoveAt(q, i), o) <=> Holds(q, o) /\ o # q[i].oid
           /\ KeepsOrder(q, RemoveAt(q, i))
  <1>. DEFINE r == RemoveAt(q, i)
             n == Len(q)
             a == SubSeq(q, 1, i - 1)
             b == SubSeq(q, i + 1, n)
  <1>1. /\ q \in Seq(Orders) /\ DOMAIN q = 1..n /\ n \in Nat /\ i \in 1..n
        /\ \A x, y \in DOMAIN q : q[x].oid = q[y].oid => x = y
    BY DEF Queues
  <1>2. a \in Seq(Orders) /\ Len(a) = i - 1 /\ \A j \in 1..(i - 1) : a[j] = q[j]
    BY <1>1
  <1>3. b \in Seq(Orders) /\ Len(b) = n - i /\ \A j \in 1..(n - i) : b[j] = q[i + j]
    BY <1>1
  <1>4. r = a \o b  BY DEF RemoveAt
  <1>. HIDE DEF r, a, b
  <1>5. /\ r \in Seq(Orders) /\ DOMAIN r = 1..(n - 1)
        /\ \A j \in 1..(n - 1) : r[j] = IF j < i THEN q[j] ELSE q[j + 1]
    <2>0. r \in Seq(Orders) /\ Len(r) = Len(a) + Len(b)
      BY <1>2, <1>3, <1>4, ConcatProperties
    <2>1. r \in Seq(Orders) /\ Len(r) = n - 1  BY <1>1, <1>2, <1>3, <2>0
    <2>2. \A j \in 1..(n - 1) : r[j] = IF j =< Len(a) THEN a[j] ELSE b[j - Len(a)]
      BY <1>1, <1>2, <1>3, <1>4, ConcatProperties
    <2>3. ASSUME NEW j \in 1..(n - 1) PROVE r[j] = IF j < i THEN q[j] ELSE q[j + 1]
      <3>1. CASE j < i  BY <1>1, <1>2, <2>2, <3>1
      <3>2. CASE ~(j < i)
        <4>1. j - (i - 1) \in 1..(n - i) /\ i + (j - (i - 1)) = j + 1  BY <1>1, <3>2
        <4>2. b[j - (i - 1)] = q[i + (j - (i - 1))]  BY <1>3, <4>1
        <4>. QED  BY <1>1, <1>2, <2>2, <3>2, <4>1, <4>2
      <3>. QED  BY <3>1, <3>2
    <2>. QED  BY <2>1, <2>3
  <1>. DEFINE up(j) == IF j < i THEN j ELSE j + 1
  <1>6. \A j \in DOMAIN r : up(j) \in DOMAIN q /\ up(j) # i /\ r[j] = q[up(j)]
    BY <1>1, <1>5
  <1>7. \A j, k \in DOMAIN r : (up(j) = up(k) => j = k) /\ (j < k <=> up(j) < up(k))
    BY <1>1, <1>5
  <1>8. \A k \in DOMAIN q \ {i} : \E j \in DOMAIN r : up(j) = k
    <2>. SUFFICES ASSUME NEW k \in DOMAIN q \ {i} PROVE \E j \in DOMAIN r : up(j) = k
      OBVIOUS
    <2>1. CASE k < i
      <3>1. k \in DOMAIN r /\ up(k) = k  BY <1>1, <1>5, <2>1
      <3>. QED  BY <3>1
    <2>2. CASE ~(k < i)
      <3>1. k - 1 \in DOMAIN r /\ up(k - 1) = k  BY <1>1, <1>5, <2>2
      <3>. QED  BY <3>1
    <2>. QED  BY <2>1, <2>2
  <1>. HIDE DEF up
  <1>9. r \in Queues  BY <1>1, <1>5, <1>6, <1>7 DEF Queues
  <1>10. \A o : Holds(r, o) <=> Holds(q, o) /\ o # q[i].oid
    BY <1>1, <1>6, <1>8 DEF Holds
  <1>11. KeepsOrder(q, r)  BY <1>1, <1>6, <1>7 DEF KeepsOrder
  <1>. QED  BY <1>9, <1>10, <1>11 DEF r

\* r is q with e inserted at k (insert_before), or appended (push_back): k is
\* then one past the end.
InsertedAt(q, r, k, e) ==
    /\ k \in 1..(Len(q) + 1)
    /\ r \in Seq(Orders) /\ Len(r) = Len(q) + 1
    /\ \A j \in 1..(Len(q) + 1) :
          r[j] = IF j < k THEN q[j] ELSE IF j = k THEN e ELSE q[j - 1]

\* The queue with an order it does not hold inserted.
LEMMA InsertQueue ==
    ASSUME NEW q \in Queues, NEW e \in Orders, ~Holds(q, e.oid),
           NEW r, NEW k, InsertedAt(q, r, k, e)
    PROVE  /\ r \in Queues /\ r # <<>>
           /\ \A o : Holds(r, o) <=> Holds(q, o) \/ o = e.oid
           /\ KeepsOrder(q, r)
  <1>. DEFINE n == Len(q)
             up(j) == IF j < k THEN j ELSE j + 1
  <1>. USE DEF InsertedAt
  <1>1. /\ q \in Seq(Orders) /\ DOMAIN q = 1..n /\ n \in Nat /\ DOMAIN r = 1..(n + 1)
        /\ \A x, y \in DOMAIN q : q[x].oid = q[y].oid => x = y
        /\ \A x \in DOMAIN q : q[x].oid # e.oid
        /\ k \in 1..(n + 1)
    BY DEF Queues, Holds
  <1>2. \A j \in DOMAIN q : up(j) \in DOMAIN r \ {k} /\ r[up(j)] = q[j]  BY <1>1
  <1>3. \A i, j \in DOMAIN q : i < j <=> up(i) < up(j)  BY <1>1
  <1>4. \A l \in DOMAIN r \ {k} : \E j \in DOMAIN q : up(j) = l
    <2>. SUFFICES ASSUME NEW l \in DOMAIN r \ {k} PROVE \E j \in DOMAIN q : up(j) = l
      OBVIOUS
    <2>1. CASE l < k
      <3>1. l \in DOMAIN q /\ up(l) = l  BY <1>1, <2>1
      <3>. QED  BY <3>1
    <2>2. CASE ~(l < k)
      <3>1. l - 1 \in DOMAIN q /\ up(l - 1) = l  BY <1>1, <2>2
      <3>. QED  BY <3>1
    <2>. QED  BY <2>1, <2>2
  <1>5. r[k] = e /\ k \in DOMAIN r  BY <1>1
  <1>. HIDE DEF up
  <1>6. ASSUME NEW x \in DOMAIN r, NEW y \in DOMAIN r, r[x].oid = r[y].oid PROVE x = y
    <2>1. CASE x = k \/ y = k  BY <1>1, <1>2, <1>4, <1>5, <1>6, <2>1
    <2>2. CASE x # k /\ y # k
      <3>1. PICK i \in DOMAIN q : up(i) = x  BY <1>4, <2>2
      <3>2. PICK j \in DOMAIN q : up(j) = y  BY <1>4, <2>2
      <3>. QED  BY <1>1, <1>2, <1>6, <3>1, <3>2
    <2>. QED  BY <2>1, <2>2
  <1>7. r \in Queues /\ r # <<>>  BY <1>1, <1>6 DEF Queues
  <1>8. ASSUME NEW o PROVE Holds(r, o) <=> Holds(q, o) \/ o = e.oid
    <2>1. ASSUME Holds(q, o) PROVE Holds(r, o)  BY <1>2, <2>1 DEF Holds
    <2>2. ASSUME o = e.oid PROVE Holds(r, o)  BY <1>5, <2>2 DEF Holds
    <2>3. ASSUME Holds(r, o), o # e.oid PROVE Holds(q, o)
      <3>1. PICK l \in DOMAIN r : r[l].oid = o  BY <2>3 DEF Holds
      <3>2. PICK j \in DOMAIN q : up(j) = l  BY <1>4, <1>5, <2>3, <3>1
      <3>. QED  BY <1>2, <3>1, <3>2 DEF Holds
    <2>. QED  BY <2>1, <2>2, <2>3
  <1>9. KeepsOrder(q, r)
    <2>. SUFFICES ASSUME NEW i \in DOMAIN q, NEW j \in DOMAIN q, NEW x \in DOMAIN r,
                         NEW y \in DOMAIN r, q[i].oid = r[x].oid, q[j].oid = r[y].oid
                  PROVE  i < j <=> x < y
      BY DEF KeepsOrder
    <2>1. x = up(i) /\ y = up(j)  BY <1>2, <1>6
    <2>. QED  BY <1>3, <2>1
  <1>. QED  BY <1>7, <1>8, <1>9

\* The queue with the rest of a new order placed in it (add_order_to_book).
LEMMA PlaceQueue ==
    ASSUME NEW q \in Queues, NEW e \in Orders, NEW before \in Oids \union {NoOid},
           ~Holds(q, e.oid), CanPlace(q, e.oid, before)
    PROVE  /\ Placed(q, e, before) \in Queues /\ Placed(q, e, before) # <<>>
           /\ \A o : Holds(Placed(q, e, before), o) <=> Holds(q, o) \/ o = e.oid
           /\ KeepsOrder(q, Placed(q, e, before))
  <1>. DEFINE r == Placed(q, e, before)
             n == Len(q)
  <1>1. q \in Seq(Orders) /\ DOMAIN q = 1..n /\ n \in Nat  BY DEF Queues
  <1>2. Position(q, e.oid) = 0  BY PositionFacts
  <1>3. CASE before = NoOid
    <2>1. r = Append(q, e)  BY <1>2, <1>3 DEF Placed
    <2>2. PICK i \in 1..(n + 1) : i = n + 1  BY <1>1
    <2>3. /\ r \in Seq(Orders) /\ Len(r) = n + 1
          /\ \A j \in 1..(n + 1) : r[j] = IF j < i THEN q[j] ELSE IF j = i THEN e ELSE q[j - 1]
      BY <1>1, <2>1, <2>2
    <2>. HIDE DEF r
    <2>4. InsertedAt(q, r, i, e)  BY <2>3 DEF InsertedAt
    <2>5. /\ r \in Queues /\ r # <<>> /\ KeepsOrder(q, r)
          /\ \A o : Holds(r, o) <=> Holds(q, o) \/ o = e.oid
      BY <2>4, InsertQueue
    <2>. QED  BY <2>5 DEF r
  <1>4. CASE before # NoOid
    <2>1. Position(q, before) \in 1..n  BY <1>1, <1>4, PositionFacts DEF CanPlace
    <2>2. r = InsertAt(q, Position(q, before), e)  BY <1>4 DEF Placed
    <2>3. PICK i \in 1..n : i = Position(q, before)  BY <2>1
    <2>. DEFINE a == SubSeq(q, 1, i - 1)
               b == SubSeq(q, i, n)
    <2>4. a \in Seq(Orders) /\ Len(a) = i - 1 /\ \A j \in 1..(i - 1) : a[j] = q[j]
      BY <1>1
    <2>5. b \in Seq(Orders) /\ Len(b) = n - i + 1 /\ \A j \in 1..(n - i + 1) : b[j] = q[i + j - 1]
      BY <1>1
    <2>6. r = (a \o <<e>>) \o b  BY <2>2, <2>3 DEF InsertAt
    <2>. HIDE DEF r, a, b
    <2>. DEFINE c == a \o <<e>>
    <2>7. /\ c \in Seq(Orders) /\ Len(c) = i
          /\ \A j \in 1..i : c[j] = IF j < i THEN q[j] ELSE e
      <3>1. <<e>> \in Seq(Orders) /\ Len(<<e>>) = 1 /\ <<e>>[1] = e  OBVIOUS
      <3>2. /\ c \in Seq(Orders) /\ Len(c) = Len(a) + 1
            /\ \A j \in 1..(Len(a) + 1) : c[j] = IF j =< Len(a) THEN a[j] ELSE <<e>>[j - Len(a)]
        BY <2>4, <3>1, ConcatProperties
      <3>3. \A j \in 1..i : c[j] = IF j =< i - 1 THEN a[j] ELSE <<e>>[j - (i - 1)]
        BY <1>1, <2>4, <3>2
      <3>. QED  BY <1>1, <2>4, <3>1, <3>2, <3>3
    <2>. HIDE DEF c
    <2>8. /\ r \in Seq(Orders) /\ Len(r) = Len(c) + Len(b)
          /\ \A j \in 1..(Len(c) + Len(b)) : r[j] = IF j =< Len(c) THEN c[j] ELSE b[j - Len(c)]
      <3>1. r = c \o b  BY <2>6 DEF c
      <3>. QED  BY <2>5, <2>7, <3>1, ConcatProperties
    <2>9. Len(r) = n + 1  BY <1>1, <2>5, <2>7, <2>8
    <2>10. ASSUME NEW j \in 1..(n + 1)
           PROVE  r[j] = IF j < i THEN q[j] ELSE IF j = i THEN e ELSE q[j - 1]
      <3>1. CASE j =< i  BY <1>1, <2>5, <2>7, <2>8, <3>1
      <3>2. CASE ~(j =< i)
        <4>1. j - i \in 1..(n - i + 1) /\ i + (j - i) - 1 = j - 1  BY <1>1, <3>2
        <4>2. b[j - i] = q[i + (j - i) - 1]  BY <2>5, <4>1
        <4>. QED  BY <1>1, <2>5, <2>7, <2>8, <3>2, <4>1, <4>2
      <3>. QED  BY <1>1, <3>1, <3>2
    <2>11. InsertedAt(q, r, i, e)
      <3>1. i \in 1..(n + 1)  BY <1>1
      <3>. QED  BY <2>8, <2>9, <2>10, <3>1 DEF InsertedAt
    <2>12. /\ r \in Queues /\ r # <<>> /\ KeepsOrder(q, r)
           /\ \A o : Holds(r, o) <=> Holds(q, o) \/ o = e.oid
      BY <2>11, InsertQueue
    <2>. QED  BY <2>12 DEF r
  <1>. QED  BY <1>3, <1>4

\* A queue may be kept as it is, and one that loses every order keeps the rest.
LEMMA TrivialOrder ==
    /\ \A q \in Queues : KeepsOrder(q, q)
    /\ \A q : KeepsOrder(q, <<>>) /\ KeepsOrder(<<>>, q)
    /\ <<>> \in Queues
    /\ \A o : ~Holds(<<>>, o)
  <1>1. \A q \in Queues : KeepsOrder(q, q)  BY DEF KeepsOrder, Queues
  <1>2. \A q : KeepsOrder(q, <<>>) /\ KeepsOrder(<<>>, q)  BY DEF KeepsOrder
  <1>3. <<>> \in Queues  BY DEF Queues
  <1>4. \A o : ~Holds(<<>>, o)  BY DEF Holds
  <1>. QED  BY <1>1, <1>2, <1>3, <1>4

-----------------------------------------------------------------------------
(* Levels *)

\* match_order trades at one of the prices it may trade at.
LEMMA BestFacts ==
    ASSUME NEW prices \in SUBSET Pxs, prices # {}, NEW side
    PROVE  Best(side, prices) \in prices
  <1>1. Pxs \subseteq Nat  BY BookAssumption DEF Pxs
  <1>2. \A T \in SUBSET Nat : T # {} => \E x \in T : \A y \in T : x =< y
    <2>. SUFFICES ASSUME NEW T \in SUBSET Nat, T # {} PROVE \E x \in T : \A y \in T : x =< y
      OBVIOUS
    <2>1. PICK x \in T : \A y \in T : ~(<<y, x>> \in OpToRel(<, Nat))
      BY NatLessThanWellFounded, WFMin
    <2>2. ASSUME NEW y \in T PROVE x =< y
      <3>1. y < x => <<y, x>> \in OpToRel(<, Nat)  BY DEF OpToRel
      <3>2. ~(y < x)  BY <2>1, <3>1
      <3>. QED  BY <3>2
    <2>. QED  BY <2>2
  <1>3. Min(prices) \in prices
    <2>1. \E x \in prices : \A y \in prices : x =< y  BY <1>1, <1>2
    <2>. QED  BY <2>1 DEF Min
  <1>4. Max(prices) \in prices
    <2>. DEFINE T == {MaxPx - p : p \in prices}
    <2>1. T \in SUBSET Nat /\ T # {}
      <3>1. \A p \in prices : MaxPx - p \in Nat  BY BookAssumption DEF Pxs
      <3>. QED  BY <3>1
    <2>2. PICK x \in T : \A y \in T : x =< y  BY <1>2, <2>1
    <2>3. PICK p \in prices : x = MaxPx - p  BY <2>2
    <2>4. \A y \in prices : p >= y
      <3>. SUFFICES ASSUME NEW y \in prices PROVE p >= y
        OBVIOUS
      <3>1. MaxPx - p =< MaxPx - y  BY <2>2, <2>3
      <3>. QED  BY <1>1, <3>1, BookAssumption
    <2>5. \E z \in prices : \A y \in prices : z >= y  BY <2>4
    <2>. QED  BY <2>5 DEF Max
  <1>. QED  BY <1>3, <1>4 DEF Best

\* The map of one side after the queue at a price has changed.
LEMMA WithQueueFacts ==
    ASSUME NEW m \in Levels, NEW p \in Pxs, NEW q \in Queues
    PROVE  /\ WithQueue(m, p, q) \in Levels
           /\ q = <<>> => DOMAIN WithQueue(m, p, q) = DOMAIN m \ {p}
           /\ q # <<>> => DOMAIN WithQueue(m, p, q) = DOMAIN m \union {p}
           /\ \A x \in DOMAIN m \ {p} : WithQueue(m, p, q)[x] = m[x]
           /\ q # <<>> => WithQueue(m, p, q)[p] = q
  <1>1. DOMAIN m \in SUBSET Pxs /\ \A x \in DOMAIN m : m[x] \in Queues \ {<<>>}
    BY DEF Levels
  <1>2. CASE q = <<>>
    <2>1. WithQueue(m, p, q) = [x \in DOMAIN m \ {p} |-> m[x]]
      BY <1>2 DEF WithQueue, Without
    <2>2. [x \in DOMAIN m \ {p} |-> m[x]] \in [DOMAIN m \ {p} -> Queues \ {<<>>}]  BY <1>1
    <2>3. WithQueue(m, p, q) \in Levels  BY <1>1, <2>1, <2>2 DEF Levels
    <2>. QED  BY <1>2, <2>1, <2>3
  <1>3. CASE q # <<>>
    <2>1. WithQueue(m, p, q) = [x \in DOMAIN m \union {p} |-> IF x = p THEN q ELSE m[x]]
      BY <1>3 DEF WithQueue, With
    <2>2. [x \in DOMAIN m \union {p} |-> IF x = p THEN q ELSE m[x]]
             \in [DOMAIN m \union {p} -> Queues \ {<<>>}]
      BY <1>1, <1>3
    <2>3. WithQueue(m, p, q) \in Levels  BY <1>1, <2>1, <2>2 DEF Levels
    <2>. QED  BY <1>3, <2>1, <2>3
  <1>. QED  BY <1>2, <1>3

\* What a price holds in a book.
LEMMA QueueFacts ==
    ASSUME NEW b \in Books, NEW s \in Sides
    PROVE  /\ DOMAIN b.levels[s] \in SUBSET Pxs
           /\ \A p : QueueAt(b, s, p) \in Queues
           /\ \A p : p \in DOMAIN b.levels[s] <=> QueueAt(b, s, p) # <<>>
           /\ \A p \in DOMAIN b.levels[s] : b.levels[s][p] = QueueAt(b, s, p)
  <1>1. b.levels[s] \in Levels  BY DEF Books
  <1>2. /\ DOMAIN b.levels[s] \in SUBSET Pxs
        /\ \A p \in DOMAIN b.levels[s] : b.levels[s][p] \in Queues \ {<<>>}
    BY <1>1 DEF Levels
  <1>. QED  BY <1>2, TrivialOrder DEF QueueAt

\* A book with another queue at one price, and another index.
Changed(b, s, p, q, ix) ==
    [levels |-> [b.levels EXCEPT ![s] = WithQueue(@, p, q)], oid_to_side_px |-> ix]

\* A book with both of its fields replaced.
LEMMA BookRecord ==
    ASSUME NEW b \in Books, NEW lv, NEW ix
    PROVE  [b EXCEPT !.levels = lv, !.oid_to_side_px = ix] = [levels |-> lv, oid_to_side_px |-> ix]
  <1>1. [b EXCEPT !.levels = lv, !.oid_to_side_px = ix] \in [levels : {lv}, oid_to_side_px : {ix}]
    BY DEF Books
  <1>2. ASSUME NEW e \in [levels : {lv}, oid_to_side_px : {ix}]
        PROVE  e = [levels |-> lv, oid_to_side_px |-> ix]
    OBVIOUS
  <1>. QED  BY <1>1, <1>2

\* Nothing but that price changes.
LEMMA ChangedFacts ==
    ASSUME NEW b \in Books, NEW s \in Sides, NEW p \in Pxs, NEW q \in Queues, NEW ix \in Indices
    PROVE  /\ Changed(b, s, p, q, ix) \in Books
           /\ Changed(b, s, p, q, ix).oid_to_side_px = ix
           /\ QueueAt(Changed(b, s, p, q, ix), s, p) = q
           /\ \A t \in Sides, x \in Pxs : t # s \/ x # p =>
                 QueueAt(Changed(b, s, p, q, ix), t, x) = QueueAt(b, t, x)
           /\ \A t \in Sides \ {s} : Changed(b, s, p, q, ix).levels[t] = b.levels[t]
           /\ DOMAIN Changed(b, s, p, q, ix).levels[s] \subseteq DOMAIN b.levels[s] \union {p}
  <1>. DEFINE d == Changed(b, s, p, q, ix)
             m == WithQueue(b.levels[s], p, q)
  <1>1. b.levels \in [Sides -> Levels] /\ b.levels[s] \in Levels  BY DEF Books
  <1>2. /\ m \in Levels
        /\ q = <<>> => DOMAIN m = DOMAIN b.levels[s] \ {p}
        /\ q # <<>> => DOMAIN m = DOMAIN b.levels[s] \union {p}
        /\ \A x \in DOMAIN b.levels[s] \ {p} : m[x] = b.levels[s][x]
        /\ q # <<>> => m[p] = q
    BY <1>1, WithQueueFacts
  <1>. HIDE DEF m
  <1>3. d = [levels |-> [b.levels EXCEPT ![s] = m], oid_to_side_px |-> ix]
    BY <1>1 DEF Changed, m
  <1>. HIDE DEF d
  <1>4. d \in Books /\ d.oid_to_side_px = ix /\ d.levels[s] = m
        /\ \A t \in Sides \ {s} : d.levels[t] = b.levels[t]
    BY <1>1, <1>2, <1>3 DEF Books
  <1>5. ASSUME NEW t \in Sides, NEW x \in Pxs
        PROVE  /\ t # s \/ x # p => QueueAt(d, t, x) = QueueAt(b, t, x)
               /\ t = s /\ x = p => QueueAt(d, t, x) = q
    <2>1. CASE t # s  BY <1>4, <2>1 DEF QueueAt
    <2>2. CASE t = s  BY <1>2, <1>4, <2>2 DEF QueueAt
    <2>. QED  BY <2>1, <2>2
  <1>. QED  BY <1>2, <1>4, <1>5 DEF d

\* The index with a place added (oid_to_side_px.insert).
LEMMA WithFacts ==
    ASSUME NEW ix \in Indices, NEW o \in Oids, NEW w \in Places
    PROVE  /\ With(ix, o, w) \in Indices /\ DOMAIN With(ix, o, w) = DOMAIN ix \union {o}
           /\ With(ix, o, w)[o] = w
           /\ \A x \in DOMAIN ix \ {o} : With(ix, o, w)[x] = ix[x]
  <1>1. DOMAIN ix \in SUBSET Oids /\ \A x \in DOMAIN ix : ix[x] \in Places  BY DEF Indices
  <1>2. With(ix, o, w) \in [DOMAIN ix \union {o} -> Places]  BY <1>1 DEF With
  <1>3. With(ix, o, w) \in Indices  BY <1>1, <1>2 DEF Indices
  <1>. QED  BY <1>1, <1>3 DEF With

\* The index with some ids taken out (oid_to_side_px.remove).
LEMMA WithoutFacts ==
    ASSUME NEW ix \in Indices, NEW F
    PROVE  /\ Without(ix, F) \in Indices /\ DOMAIN Without(ix, F) = DOMAIN ix \ F
           /\ \A x \in DOMAIN ix \ F : Without(ix, F)[x] = ix[x]
           /\ \A x \in DOMAIN ix : x \in Oids /\ ix[x] \in Places
  <1>1. DOMAIN ix \in SUBSET Oids /\ \A x \in DOMAIN ix : ix[x] \in Places  BY DEF Indices
  <1>2. Without(ix, F) \in [DOMAIN ix \ F -> Places]  BY <1>1 DEF Without
  <1>3. Without(ix, F) \in Indices  BY <1>1, <1>2 DEF Indices
  <1>. QED  BY <1>1, <1>3 DEF Without

-----------------------------------------------------------------------------
(* The index *)

\* Orders in G leave the queue at a price, and stay in the index until they
\* are taken out of it.
LEMMA IndexedRemoved ==
    ASSUME NEW b \in Books, NEW F, NEW G, Indexed(b, F),
           NEW s \in Sides, NEW p \in Pxs, NEW r \in Queues,
           Loses(QueueAt(b, s, p), r, G)
    PROVE  Indexed(Changed(b, s, p, r, b.oid_to_side_px), F \union G)
  <1>. DEFINE ix == b.oid_to_side_px
             d == Changed(b, s, p, r, ix)
  <1>1. ix \in Indices  BY DEF Books
  <1>2. /\ d.oid_to_side_px = ix
        /\ \A t \in Sides, x \in Pxs :
              t # s \/ x # p => QueueAt(d, t, x) = QueueAt(b, t, x)
        /\ QueueAt(d, s, p) = r
    BY <1>1, ChangedFacts
  <1>. HIDE DEF d
  <1>3. ASSUME NEW t \in Sides, NEW x \in Pxs, NEW o \in Oids, Holds(QueueAt(d, t, x), o)
        PROVE  o \in DOMAIN ix /\ ix[o] = [side |-> t, px |-> x]
    <2>1. Holds(QueueAt(b, t, x), o)  BY <1>2, <1>3 DEF Loses
    <2>. QED  BY <2>1 DEF Indexed
  <1>4. ASSUME NEW o \in DOMAIN ix
        PROVE  o \notin F \union G <=> Holds(QueueAt(d, ix[o].side, ix[o].px), o)
    <2>1. ix[o] \in Places /\ ix[o].side \in Sides /\ ix[o].px \in Pxs
      BY <1>1 DEF Indices, Places
    <2>2. o \notin F <=> Holds(QueueAt(b, ix[o].side, ix[o].px), o)
      BY DEF Indexed
    <2>3. o \in G => ix[o].side = s /\ ix[o].px = p
      <3>1. o \in G => ix[o] = [side |-> s, px |-> p]  BY DEF Indexed, Loses
      <3>. QED  BY <3>1
    <2>. QED  BY <1>2, <2>1, <2>2, <2>3 DEF Loses
  <1>. QED  BY <1>2, <1>3, <1>4 DEF Indexed, d

\* The filled makers leave the index: it knows the resting orders and no others.
LEMMA Unindexed ==
    ASSUME NEW b \in Books, NEW F, Indexed(b, F)
    PROVE  /\ Unindex(b, F) \in Books
           /\ Unindex(b, F).levels = b.levels
           /\ \A s, p : QueueAt(Unindex(b, F), s, p) = QueueAt(b, s, p)
           /\ Unindex(b, F).oid_to_side_px = Without(b.oid_to_side_px, F)
           /\ Indexed(Unindex(b, F), {})
  <1>. DEFINE ix == b.oid_to_side_px
             d == Unindex(b, F)
  <1>1. ix \in Indices  BY DEF Books
  <1>2. /\ Without(ix, F) \in Indices /\ DOMAIN Without(ix, F) = DOMAIN ix \ F
        /\ \A x \in DOMAIN ix \ F : Without(ix, F)[x] = ix[x]
        /\ \A x \in DOMAIN ix : x \in Oids /\ ix[x] \in Places
    BY <1>1, WithoutFacts
  <1>3. d = [levels |-> b.levels, oid_to_side_px |-> Without(ix, F)]
    BY DEF Unindex, Books
  <1>4. /\ d \in Books /\ d.levels = b.levels /\ d.oid_to_side_px = Without(ix, F)
        /\ \A s, p : QueueAt(d, s, p) = QueueAt(b, s, p)
    BY <1>2, <1>3 DEF Books, QueueAt
  <1>. HIDE DEF d
  <1>5. ASSUME NEW s \in Sides, NEW p \in Pxs, NEW o \in Oids, Holds(QueueAt(d, s, p), o)
        PROVE  /\ o \in DOMAIN d.oid_to_side_px
               /\ d.oid_to_side_px[o] = [side |-> s, px |-> p]
    <2>1. Holds(QueueAt(b, s, p), o)  BY <1>4, <1>5
    <2>2. o \in DOMAIN ix /\ ix[o] = [side |-> s, px |-> p]  BY <2>1 DEF Indexed
    <2>3. o \notin F  BY <2>1, <2>2 DEF Indexed
    <2>. QED  BY <1>2, <1>4, <2>2, <2>3
  <1>6. ASSUME NEW o \in DOMAIN d.oid_to_side_px
        PROVE  Holds(QueueAt(d, d.oid_to_side_px[o].side, d.oid_to_side_px[o].px), o)
    <2>1. o \in DOMAIN ix \ F /\ d.oid_to_side_px[o] = ix[o]  BY <1>2, <1>4
    <2>. QED  BY <1>4, <2>1 DEF Indexed
  <1>. QED  BY <1>4, <1>5, <1>6 DEF Indexed, d

\* An order the index does not know is placed in a queue and indexed.
LEMMA IndexedAdded ==
    ASSUME NEW b \in Books, Indexed(b, {}), NEW n \in Oids, n \notin DOMAIN b.oid_to_side_px,
           NEW s \in Sides, NEW p \in Pxs, NEW r \in Queues,
           Gains(QueueAt(b, s, p), r, n)
    PROVE  Indexed(Changed(b, s, p, r, With(b.oid_to_side_px, n, [side |-> s, px |-> p])), {})
  <1>. DEFINE ix == b.oid_to_side_px
             w == [side |-> s, px |-> p]
             jx == With(ix, n, w)
             d == Changed(b, s, p, r, jx)
  <1>1. ix \in Indices /\ w \in Places  BY DEF Books, Places
  <1>2. /\ jx \in Indices /\ DOMAIN jx = DOMAIN ix \union {n}
        /\ jx[n] = w
        /\ \A x \in DOMAIN ix \ {n} : jx[x] = ix[x]
        /\ \A x \in DOMAIN ix : ix[x] \in Places
    <2>1. \A x \in DOMAIN ix : ix[x] \in Places  BY <1>1 DEF Indices
    <2>2. PICK iy \in Indices : iy = ix  BY <1>1
    <2>3. PICK v \in Places : v = w  BY <1>1
    <2>4. /\ With(iy, n, v) \in Indices /\ DOMAIN With(iy, n, v) = DOMAIN iy \union {n}
          /\ With(iy, n, v)[n] = v
      BY WithFacts, ZenonT(60)
    <2>5. \A x \in DOMAIN iy \ {n} : With(iy, n, v)[x] = iy[x]  BY WithFacts, ZenonT(60)
    <2>. QED  BY <2>1, <2>2, <2>3, <2>4, <2>5
  <1>. HIDE DEF jx
  <1>3. /\ d.oid_to_side_px = jx
        /\ \A t \in Sides, x \in Pxs :
              t # s \/ x # p => QueueAt(d, t, x) = QueueAt(b, t, x)
        /\ QueueAt(d, s, p) = r
    BY <1>2, ChangedFacts
  <1>. HIDE DEF d
  <1>4. \A t \in Sides, x \in Pxs : ~Holds(QueueAt(b, t, x), n)  BY DEF Indexed
  <1>5. ASSUME NEW t \in Sides, NEW x \in Pxs, NEW o \in Oids, Holds(QueueAt(d, t, x), o)
        PROVE  o \in DOMAIN jx /\ jx[o] = [side |-> t, px |-> x]
    <2>1. CASE o = n  BY <1>2, <1>3, <1>4, <1>5, <2>1
    <2>2. CASE o # n
      <3>1. Holds(QueueAt(b, t, x), o)  BY <1>3, <1>5, <2>2 DEF Gains
      <3>2. o \in DOMAIN ix /\ ix[o] = [side |-> t, px |-> x]  BY <3>1 DEF Indexed
      <3>. QED  BY <1>2, <2>2, <3>2
    <2>. QED  BY <2>1, <2>2
  <1>6. ASSUME NEW o \in DOMAIN jx
        PROVE  Holds(QueueAt(d, jx[o].side, jx[o].px), o)
    <2>1. CASE o = n
      <3>1. jx[o].side = s /\ jx[o].px = p  BY <1>2, <2>1
      <3>. QED  BY <1>3, <2>1, <3>1 DEF Gains
    <2>2. CASE o # n
      <3>1. o \in DOMAIN ix /\ jx[o] = ix[o]  BY <1>2, <2>2
      <3>2. jx[o].side \in Sides /\ jx[o].px \in Pxs  BY <1>2, <3>1 DEF Places
      <3>3. Holds(QueueAt(b, jx[o].side, jx[o].px), o)  BY <3>1 DEF Indexed
      <3>. QED  BY <1>3, <3>2, <3>3 DEF Gains
    <2>. QED  BY <2>1, <2>2
  <1>7. Indexed(d, {})  BY <1>3, <1>5, <1>6 DEF Indexed
  <1>. QED  BY <1>7 DEF d, jx

-----------------------------------------------------------------------------
(* One book of the books *)

\* Orders that stay at their price stay in order, at every price.
BookKeeps(b, d) ==
    \A s \in Sides, p \in Pxs : KeepsOrder(QueueAt(b, s, p), QueueAt(d, s, p))

\* A book that is not changed.
LEMMA KeepsSame == ASSUME NEW b \in Books PROVE BookKeeps(b, b)
  BY QueueFacts, TrivialOrder DEF BookKeeps

\* The book of a coin without orders (OrderBook::new).
LEMMA NewFacts ==
    /\ new \in Books
    /\ Indexed(new, {}) /\ Apart(new)
    /\ \A b : BookKeeps(b, new)
  <1>1. Empty \in Levels /\ Empty \in Indices
    <2>1. Empty \in [{} -> Queues \ {<<>>}] /\ Empty \in [{} -> Places]  BY DEF Empty
    <2>. QED  BY <2>1 DEF Levels, Indices
  <1>2. new \in Books  BY <1>1 DEF new, Books
  <1>3. \A s \in Sides : \A p : QueueAt(new, s, p) = <<>>  BY DEF new, QueueAt, Empty
  <1>4. Indexed(new, {})
    <2>1. DOMAIN new.oid_to_side_px = {}  BY DEF new, Empty
    <2>. QED  BY <1>3, <2>1, TrivialOrder DEF Indexed
  <1>5. Apart(new)  BY DEF Apart, new, Empty, Sides
  <1>6. \A b : BookKeeps(b, new)  BY <1>3, TrivialOrder DEF BookKeeps
  <1>. QED  BY <1>2, <1>4, <1>5, <1>6

\* Every coin has a book, if only an empty one.
LEMMA BookAt ==
    ASSUME BookTypeOK, NEW c
    PROVE  /\ Book(c) \in Books
           /\ c \in DOMAIN order_books => Book(c) = order_books[c]
           /\ DOMAIN order_books \in SUBSET Coins
  <1>1. DOMAIN order_books \in SUBSET Coins /\ \A x \in DOMAIN order_books : order_books[x] \in Books
    BY DEF BookTypeOK
  <1>. QED  BY <1>1, NewFacts DEF Book

\* A step that changes the book of one coin.
LEMMA OneBook ==
    ASSUME BookTypeOK, NEW c \in DOMAIN order_books, NEW b \in Books,
           order_books' = [order_books EXCEPT ![c] = b]
    PROVE  /\ order_books' \in UNION {[D -> Books] : D \in SUBSET Coins}
           /\ DOMAIN order_books' = DOMAIN order_books
           /\ Book(c)' = b
           /\ \A d : d # c => Book(d)' = Book(d)
  <1>1. PICK D \in SUBSET Coins : order_books \in [D -> Books]  BY DEF BookTypeOK
  <1>2. order_books' \in [D -> Books]  BY <1>1
  <1>3. DOMAIN order_books' = DOMAIN order_books /\ order_books'[c] = b
        /\ \A d \in DOMAIN order_books : d # c => order_books'[d] = order_books[d]
    BY <1>1
  <1>4. Book(c)' = b  BY <1>3 DEF Book
  <1>5. \A d : d # c => Book(d)' = Book(d)  BY <1>3 DEF Book
  <1>. QED  BY <1>2, <1>3, <1>4, <1>5

\* What has to be true of a book while a call has filled the makers F.
Sound(b, F) == b \in Books /\ Indexed(b, F) /\ Apart(b)

\* Orders in G leave a level of a book, by a fill or a cancellation, or its
\* orders change size (G is empty).
LEMMA LevelShrinks ==
    ASSUME NEW b \in Books, NEW F, NEW G, Indexed(b, F), Apart(b),
           NEW s \in Sides, NEW p \in DOMAIN b.levels[s], NEW r \in Queues,
           KeepsOrder(QueueAt(b, s, p), r),
           Loses(QueueAt(b, s, p), r, G),
           NEW d, d = Changed(b, s, p, r, b.oid_to_side_px)
    PROVE  Sound(d, F \union G) /\ BookKeeps(b, d)
  <1>. DEFINE ix == b.oid_to_side_px
  <1>1. ix \in Indices /\ p \in Pxs  BY QueueFacts DEF Books
  <1>2. /\ d \in Books /\ d.oid_to_side_px = ix
        /\ QueueAt(d, s, p) = r
        /\ \A t \in Sides, x \in Pxs : t # s \/ x # p => QueueAt(d, t, x) = QueueAt(b, t, x)
        /\ \A t \in Sides \ {s} : d.levels[t] = b.levels[t]
        /\ DOMAIN d.levels[s] \subseteq DOMAIN b.levels[s] \union {p}
    BY <1>1, ChangedFacts
  <1>3. Indexed(d, F \union G)  BY <1>1, IndexedRemoved
  <1>4. Apart(d)
    <2>1. \A t \in Sides : DOMAIN d.levels[t] \subseteq DOMAIN b.levels[t]  BY <1>2
    <2>. QED  BY <2>1 DEF Apart, Sides
  <1>5. BookKeeps(b, d)
    <2>. SUFFICES ASSUME NEW t \in Sides, NEW x \in Pxs
                  PROVE  KeepsOrder(QueueAt(b, t, x), QueueAt(d, t, x))
      BY DEF BookKeeps
    <2>1. CASE t # s \/ x # p
      <3>1. QueueAt(b, t, x) \in Queues  BY QueueFacts
      <3>. QED  BY <1>2, <2>1, <3>1, TrivialOrder
    <2>2. CASE t = s /\ x = p  BY <1>2, <2>2
    <2>. QED  BY <2>1, <2>2
  <1>. QED  BY <1>2, <1>3, <1>4, <1>5 DEF Sound

\* The rest of an order that trades at no price of the other side is placed.
LEMMA LevelGrows ==
    ASSUME NEW b, Sound(b, {}), NEW n \in Oids, n \notin DOMAIN b.oid_to_side_px,
           NEW s \in Sides, NEW p \in Pxs, NEW r \in Queues,
           KeepsOrder(QueueAt(b, s, p), r), Gains(QueueAt(b, s, p), r, n),
           \A x \in DOMAIN b.levels[Other(s)] : ~Crosses(s, x, p),
           NEW d, d = Changed(b, s, p, r, With(b.oid_to_side_px, n, [side |-> s, px |-> p]))
    PROVE  Sound(d, {}) /\ BookKeeps(b, d)
  <1>0. b \in Books /\ Indexed(b, {}) /\ Apart(b)  BY DEF Sound
  <1>. DEFINE ix == With(b.oid_to_side_px, n, [side |-> s, px |-> p])
  <1>1. ix \in Indices
    <2>1. b.oid_to_side_px \in Indices /\ [side |-> s, px |-> p] \in Places
      BY <1>0 DEF Books, Places
    <2>. QED  BY <2>1, WithFacts
  <1>2. Indexed(d, {})  BY <1>0, IndexedAdded
  <1>. HIDE DEF ix
  <1>3. d = Changed(b, s, p, r, ix)  BY DEF ix
  <1>4. /\ d \in Books /\ QueueAt(d, s, p) = r
        /\ \A t \in Sides, x \in Pxs : t # s \/ x # p => QueueAt(d, t, x) = QueueAt(b, t, x)
        /\ \A t \in Sides \ {s} : d.levels[t] = b.levels[t]
        /\ DOMAIN d.levels[s] \subseteq DOMAIN b.levels[s] \union {p}
    BY <1>0, <1>1, <1>3, ChangedFacts
  <1>5. Apart(d)
    <2>1. DOMAIN b.levels["Bid"] \subseteq Pxs /\ DOMAIN b.levels["Ask"] \subseteq Pxs
      BY <1>0, QueueFacts DEF Sides
    <2>2. Pxs \subseteq Nat  BY BookAssumption DEF Pxs
    <2>3. CASE s = "Bid"
      <3>1. d.levels["Ask"] = b.levels["Ask"]  BY <1>4, <2>3 DEF Sides
      <3>2. DOMAIN d.levels["Bid"] \subseteq DOMAIN b.levels["Bid"] \union {p}  BY <1>4, <2>3
      <3>3. \A y \in DOMAIN b.levels["Ask"] : p < y
        BY <2>1, <2>2, <2>3 DEF Crosses, Other
      <3>. QED  BY <1>0, <3>1, <3>2, <3>3 DEF Apart
    <2>4. CASE s = "Ask"
      <3>1. d.levels["Bid"] = b.levels["Bid"]  BY <1>4, <2>4 DEF Sides
      <3>2. DOMAIN d.levels["Ask"] \subseteq DOMAIN b.levels["Ask"] \union {p}  BY <1>4, <2>4
      <3>3. \A x \in DOMAIN b.levels["Bid"] : x < p
        BY <2>1, <2>2, <2>4 DEF Crosses, Other
      <3>. QED  BY <1>0, <3>1, <3>2, <3>3 DEF Apart
    <2>. QED  BY <2>3, <2>4 DEF Sides
  <1>6. BookKeeps(b, d)
    <2>. SUFFICES ASSUME NEW t \in Sides, NEW x \in Pxs
                  PROVE  KeepsOrder(QueueAt(b, t, x), QueueAt(d, t, x))
      BY DEF BookKeeps
    <2>1. CASE t # s \/ x # p
      <3>1. QueueAt(b, t, x) \in Queues  BY <1>0, QueueFacts
      <3>. QED  BY <1>4, <2>1, <3>1, TrivialOrder
    <2>2. CASE t = s /\ x = p  BY <1>4, <2>2
    <2>. QED  BY <2>1, <2>2
  <1>. QED  BY <1>2, <1>4, <1>5, <1>6 DEF Sound

\* What two sizes trade is no more than either (fill).
LEMMA FillFacts ==
    ASSUME NEW x \in Szs, NEW y \in Szs
    PROVE  fill(x, y) \in Szs /\ fill(x, y) =< x /\ fill(x, y) =< y
  <1>1. x \in Nat /\ y \in Nat  BY BookAssumption DEF Szs
  <1>2. \E z \in {x, y} : \A w \in {x, y} : z =< w  BY <1>1
  <1>3. fill(x, y) \in {x, y} /\ \A w \in {x, y} : fill(x, y) =< w  BY <1>2 DEF fill, Min
  <1>. QED  BY <1>3

-----------------------------------------------------------------------------
(* The steps *)

Kept == \A c \in Coins : BookKeeps(Book(c), Book(c)')

\* The step changes the queue of one book at one price, and no other.
Turns(c, s, p, r) ==
    /\ QueueAt(Book(c)', s, p) = r
    /\ \A d \in Coins, t \in Sides, x \in Pxs :
          d # c \/ t # s \/ x # p => QueueAt(Book(d)', t, x) = QueueAt(Book(d), t, x)

Stays == \A d \in Coins, t \in Sides, x \in Pxs : QueueAt(Book(d)', t, x) = QueueAt(Book(d), t, x)

\* The orders of r are in q, in another size perhaps.
Alike(x, y) == x.oid = y.oid /\ x.side = y.side /\ x.px = y.px
Alikes(q, r) == \A i \in DOMAIN r : \E j \in DOMAIN q : Alike(r[i], q[j])

\* The step gives one book another queue at one price.
LEMMA TurnsOne ==
    ASSUME BookTypeOK, NEW c \in DOMAIN order_books, NEW e \in Books,
           order_books' = [order_books EXCEPT ![c] = e],
           NEW s \in Sides, NEW p \in Pxs, NEW r, QueueAt(e, s, p) = r,
           \A t \in Sides, x \in Pxs : t # s \/ x # p => QueueAt(e, t, x) = QueueAt(Book(c), t, x)
    PROVE  Turns(c, s, p, r)
  <1>1. Book(c)' = e /\ \A d : d # c => Book(d)' = Book(d)  BY OneBook
  <1>2. ASSUME NEW d \in Coins, NEW t \in Sides, NEW x \in Pxs, d # c \/ t # s \/ x # p
        PROVE  QueueAt(Book(d)', t, x) = QueueAt(Book(d), t, x)
    <2>1. CASE d = c  BY <1>1, <1>2, <2>1
    <2>2. CASE d # c  BY <1>1, <2>2
    <2>. QED  BY <2>1, <2>2
  <1>. QED  BY <1>1, <1>2 DEF Turns

\* A queue without its front, and one whose front has another size.
LEMMA AlikeQueues ==
    ASSUME NEW q \in Queues
    PROVE  /\ q # <<>> => Alikes(q, Tail(q))
           /\ q # <<>> => \A z \in Szs : Alikes(q, <<[Head(q) EXCEPT !.sz = z]>> \o Tail(q))
  <1>1. /\ q \in Seq(Orders) /\ DOMAIN q = 1..Len(q) /\ Len(q) \in Nat
        /\ \A i \in DOMAIN q : q[i] \in Orders
    BY DEF Queues
  <1>. SUFFICES ASSUME q # <<>>
                PROVE  /\ Alikes(q, Tail(q))
                       /\ \A z \in Szs : Alikes(q, <<[Head(q) EXCEPT !.sz = z]>> \o Tail(q))
    OBVIOUS
  <1>2. PICK u : u = Tail(q)  OBVIOUS
  <1>3. /\ u \in Seq(Orders) /\ Len(u) = Len(q) - 1 /\ DOMAIN u = 1..(Len(q) - 1) /\ Head(q) = q[1]
        /\ 1 \in DOMAIN q
        /\ \A i \in DOMAIN u : u[i] = q[i + 1] /\ i + 1 \in DOMAIN q
    BY <1>1, <1>2
  <1>4. Alikes(q, u)  BY <1>3 DEF Alikes, Alike
  <1>5. ASSUME NEW z \in Szs PROVE Alikes(q, <<[Head(q) EXCEPT !.sz = z]>> \o Tail(q))
    <2>1. PICK e : e = [Head(q) EXCEPT !.sz = z]  OBVIOUS
    <2>2. e \in Orders /\ Alike(e, q[1])
      <3>1. q[1] \in Orders  BY <1>1, <1>3
      <3>. QED  BY <1>3, <2>1, <3>1 DEF Orders, Alike
    <2>3. PICK v : v = <<e>> \o u  OBVIOUS
    <2>4. v \in Seq(Orders) /\ Len(v) = Len(q) /\ v[1] = e /\ \A i \in 2..Len(q) : v[i] = q[i]
      <3>1. PICK n, one : n = Len(q) /\ one = <<e>>  OBVIOUS
      <3>2. one \in Seq(Orders) /\ Len(one) = 1 /\ one[1] = e /\ n \in Nat \ {0}  BY <1>1, <1>3, <2>2, <3>1
      <3>3. /\ v \in Seq(Orders) /\ Len(v) = 1 + (n - 1)
            /\ \A i \in 1..(1 + (n - 1)) : v[i] = IF i =< 1 THEN one[i] ELSE u[i - 1]
        <4>1. /\ v \in Seq(Orders) /\ Len(v) = Len(one) + Len(u)
              /\ \A i \in 1..(Len(one) + Len(u)) : v[i] = IF i =< Len(one) THEN one[i] ELSE u[i - Len(one)]
          BY <1>3, <2>3, <3>1, <3>2, ConcatProperties
        <4>. QED  BY <1>3, <3>1, <3>2, <4>1
      <3>4. \A i \in 1..n : v[i] = IF i =< 1 THEN e ELSE q[i]
        <4>. SUFFICES ASSUME NEW i \in 1..n PROVE v[i] = IF i =< 1 THEN e ELSE q[i]  OBVIOUS
        <4>1. CASE i =< 1  BY <3>2, <3>3, <4>1
        <4>2. CASE ~(i =< 1)
          <5>1. i - 1 \in DOMAIN u /\ (i - 1) + 1 = i  BY <1>3, <3>1, <3>2, <4>2
          <5>2. v[i] = u[i - 1]
            <6>1. i \in 1..(1 + (n - 1))  BY <3>2
            <6>. QED  BY <3>3, <4>2, <6>1
          <5>3. u[i - 1] = q[(i - 1) + 1]  BY <1>3, <5>1
          <5>. QED  BY <4>2, <5>1, <5>2, <5>3
        <4>. QED  BY <4>1, <4>2
      <3>. QED  BY <3>1, <3>2, <3>3, <3>4
    <2>5. Alikes(q, v)
      <3>. SUFFICES ASSUME NEW i \in DOMAIN v PROVE Alike(v[i], q[i]) /\ i \in DOMAIN q
        BY DEF Alikes
      <3>1. i \in 1..Len(q)  BY <2>4
      <3>2. CASE i = 1  BY <1>3, <2>2, <2>4, <3>2
      <3>3. CASE i # 1
        <4>1. v[i] = q[i]  BY <1>1, <2>4, <3>1, <3>3
        <4>. QED  BY <1>1, <3>1, <4>1 DEF Alike
      <3>. QED  BY <3>2, <3>3
    <2>. QED  BY <1>2, <2>1, <2>3, <2>5
  <1>. QED  BY <1>2, <1>4, <1>5

\* The call under way.
LEMMA CallFacts ==
    ASSUME BookTypeOK
    PROVE  /\ call = Idle => ~InCall /\ call.phase = "idle"
           /\ call.phase = "idle" => call = Idle
           /\ call = Failed => ~InCall
           /\ InCall => /\ call \in [phase : {"matching", "matched"}, order : Orders,
                                     before : Oids \union {NoOid}, filled : SUBSET Oids]
                        /\ Taker \in Orders /\ call.filled \in SUBSET Oids
                        /\ call.before \in Oids \union {NoOid}
  BY DEF BookTypeOK, Calls, Idle, Failed, InCall, Taker

\* A new order is taken up; no book changes but for the one that now exists.
LEMMA StepAdd ==
    ASSUME BookInv, NEW e \in Orders, NEW before \in Oids \union {NoOid},
           ~Known(e.coin, e.oid), AddOrder(e, before)
    PROVE  BookInv' /\ Kept /\ Stays
  <1>1. BookTypeOK /\ ~InCall  BY CallFacts DEF BookInv, AddOrder
  <1>2. PICK c \in Coins : c = e.coin  BY DEF Orders
  <1>3. /\ order_books' = [z \in DOMAIN order_books \union {c} |->
                             IF z = c THEN Book(c) ELSE order_books[z]]
        /\ call' = [phase |-> "matching", order |-> e, before |-> before, filled |-> {}]
    BY <1>2 DEF AddOrder, With
  <1>4. /\ Book(c) \in Books
        /\ DOMAIN order_books \in SUBSET Coins
        /\ \A x \in DOMAIN order_books : order_books[x] \in Books
    BY <1>1, BookAt DEF BookTypeOK
  <1>5. order_books' \in [DOMAIN order_books \union {c} -> Books]  BY <1>3, <1>4
  <1>6. BookTypeOK'
    <2>1. call' \in Calls  BY <1>3 DEF Calls
    <2>2. order_books' \in UNION {[D -> Books] : D \in SUBSET Coins}  BY <1>4, <1>5
    <2>. QED  BY <2>1, <2>2 DEF BookTypeOK
  <1>7. ASSUME NEW d PROVE Book(d)' = Book(d)
    <2>1. CASE d = c  BY <1>3, <2>1 DEF Book
    <2>2. CASE d # c  BY <1>3, <2>2 DEF Book
    <2>. QED  BY <2>1, <2>2
  <1>8. \A d \in Coins : Filled(d) = {} /\ Filled(d)' = {}
    BY <1>1, <1>3 DEF Filled, InCall
  <1>9. \A d \in Coins : Indexed(Book(d), Filled(d))' /\ Apart(Book(d))'
    BY <1>7, <1>8 DEF BookInv
  <1>10. /\ Taker' = e /\ call'.phase # "matched" /\ c \in DOMAIN order_books'
    BY <1>3 DEF Taker
  <1>11. ~Known(Taker.coin, Taker.oid)'
    BY <1>2, <1>7, <1>10 DEF Known
  <1>12. Kept
    BY <1>1, <1>7, BookAt, KeepsSame DEF Kept
  <1>13. Stays  BY <1>7 DEF Stays
  <1>. QED  BY <1>2, <1>6, <1>9, <1>10, <1>11, <1>12, <1>13 DEF BookInv

\* What a step that changes one coin's book has to keep for that book alone.
LEMMA OneBookStep ==
    ASSUME BookInv, NEW c \in DOMAIN order_books, NEW b \in Books, NEW F,
           order_books' = [order_books EXCEPT ![c] = b], call' \in Calls,
           Indexed(b, F), Apart(b), BookKeeps(Book(c), b),
           Filled(c)' = F, \A d \in Coins \ {c} : Filled(d) = {} /\ Filled(d)' = {}
    PROVE  /\ BookTypeOK' /\ Kept
           /\ \A d \in Coins : Indexed(Book(d), Filled(d))' /\ Apart(Book(d))'
           /\ Book(c)' = b /\ DOMAIN order_books' = DOMAIN order_books
  <1>1. BookTypeOK  BY DEF BookInv
  <1>2. /\ order_books' \in UNION {[D -> Books] : D \in SUBSET Coins}
        /\ DOMAIN order_books' = DOMAIN order_books
        /\ Book(c)' = b
        /\ \A d : d # c => Book(d)' = Book(d)
    BY <1>1, OneBook
  <1>3. BookTypeOK'  BY <1>2 DEF BookTypeOK
  <1>4. ASSUME NEW d \in Coins
        PROVE  /\ Indexed(Book(d), Filled(d))' /\ Apart(Book(d))'
               /\ BookKeeps(Book(d), Book(d)')
    <2>1. CASE d = c  BY <1>2, <2>1
    <2>2. CASE d # c
      <3>1. Indexed(Book(d), Filled(d)) /\ Apart(Book(d))  BY DEF BookInv
      <3>2. BookKeeps(Book(d), Book(d))  BY <1>1, BookAt, KeepsSame
      <3>. QED  BY <1>2, <2>2, <3>1, <3>2
    <2>. QED  BY <2>1, <2>2
  <1>. QED  BY <1>2, <1>3, <1>4 DEF Kept

\* One maker is filled or partly filled; a filled one stays indexed for now.
LEMMA StepMatchOne ==
    ASSUME BookInv, MatchOne
    PROVE  /\ BookInv' /\ Kept
           /\ \E s \in Sides, p \in Pxs, r \in Queues :
                 Turns(Taker.coin, s, p, r) /\ Alikes(QueueAt(Book(Taker.coin), s, p), r)
           /\ InCall' => Taker'.oid = Taker.oid /\ Taker'.side = Taker.side /\ Taker'.px = Taker.px
  <1>1. BookTypeOK /\ InCall  BY DEF BookInv, MatchOne, InCall
  <1>2. /\ Taker \in Orders /\ call.filled \in SUBSET Oids
        /\ call \in [phase : {"matching", "matched"}, order : Orders,
                     before : Oids \union {NoOid}, filled : SUBSET Oids]
    BY <1>1, CallFacts
  <1>3. PICK c \in Coins : c = Taker.coin  BY <1>2 DEF Orders
  <1>4. PICK makers \in Sides : makers = Other(Taker.side)  BY DEF Sides, Other
  <1>5. PICK b \in Books : b = Book(c)  BY <1>1, BookAt
  <1>6. c \in DOMAIN order_books /\ b = order_books[c]
    BY <1>1, <1>3, <1>5, BookAt DEF BookInv
  <1>7. PICK px \in DOMAIN b.levels[makers] : px = Best(Taker.side, Crossed)
    <2>1. Crossed \subseteq DOMAIN b.levels[makers] /\ Crossed # {}
      BY <1>3, <1>4, <1>5 DEF Crossed, MatchOne
    <2>2. DOMAIN b.levels[makers] \subseteq Pxs  BY QueueFacts
    <2>. QED  BY <2>1, <2>2, BestFacts
  <1>8. PICK q \in Queues : q = QueueAt(b, makers, px)  BY QueueFacts
  <1>9. q # <<>> /\ q = b.levels[makers][px] /\ px \in Pxs
    BY <1>8, QueueFacts
  <1>10. /\ Head(q) \in Orders /\ 1 \in DOMAIN q /\ Head(q) = q[1] /\ Tail(q) \in Queues
         /\ \A o : Holds(Tail(q), o) <=> Holds(q, o) /\ o # Head(q).oid
         /\ KeepsOrder(q, Tail(q))
    BY <1>9, TailQueue
  <1>11. PICK traded \in Szs : /\ traded = fill(Taker.sz, Head(q).sz)
                               /\ traded =< Taker.sz /\ traded =< Head(q).sz
    BY <1>2, <1>10, FillFacts DEF Orders
  <1>12. PICK left \in Szs : left = Head(q).sz - traded
    BY <1>10, <1>11, BookAssumption DEF Orders, Szs
  <1>. DEFINE r == IF left = 0 THEN Tail(q) ELSE <<[Head(q) EXCEPT !.sz = left]>> \o Tail(q)
             G == IF left = 0 THEN {Head(q).oid} ELSE {}
  <1>13. /\ order_books' = [order_books EXCEPT ![c].levels[makers] = WithQueue(@, px, r)]
         /\ call' = [call EXCEPT !.order.sz = @ - traded,
                       !.filled = IF left = 0 THEN @ \union {Head(q).oid} ELSE @,
                       !.phase = IF Taker.sz = traded THEN "matched" ELSE @]
    BY <1>3, <1>4, <1>5, <1>7, <1>9, <1>11, <1>12 DEF MatchOne
  <1>14. r \in Queues /\ KeepsOrder(q, r) /\ Loses(q, r, G) /\ G \subseteq Oids
    <2>1. CASE left = 0
      <3>1. r = Tail(q) /\ G = {Head(q).oid}  BY <2>1
      <3>2. Head(q).oid \in Oids /\ Holds(q, Head(q).oid)  BY <1>10 DEF Orders, Holds
      <3>. QED  BY <1>10, <3>1, <3>2 DEF Loses
    <2>2. CASE left # 0
      <3>1. r = <<[Head(q) EXCEPT !.sz = left]>> \o Tail(q) /\ G = {}  BY <2>2
      <3>. QED  BY <1>9, <3>1, ResizeQueue DEF Loses
    <2>. QED  BY <2>1, <2>2
  <1>. HIDE DEF r, G
  <1>15. PICK d : /\ d = Changed(b, makers, px, r, b.oid_to_side_px)
                  /\ order_books' = [order_books EXCEPT ![c] = d]
    <2>1. [b EXCEPT !.levels[makers] = WithQueue(@, px, r)]
             = Changed(b, makers, px, r, b.oid_to_side_px)
      BY DEF Books, Changed
    <2>. QED  BY <1>6, <1>13, <2>1
  <1>16. Indexed(b, call.filled) /\ Apart(b)
    BY <1>1, <1>3, <1>5 DEF BookInv, Filled
  <1>17. /\ d \in Books /\ d.oid_to_side_px = b.oid_to_side_px
         /\ Indexed(d, call.filled \union G) /\ Apart(d) /\ BookKeeps(b, d)
    <2>1. PICK F : F = call.filled  OBVIOUS
    <2>2. Indexed(b, F)  BY <1>16, <2>1
    <2>3. KeepsOrder(QueueAt(b, makers, px), r) /\ Loses(QueueAt(b, makers, px), r, G)
      BY <1>8, <1>14
    <2>4. d = Changed(b, makers, px, r, b.oid_to_side_px) /\ r \in Queues /\ Apart(b)
      BY <1>14, <1>15, <1>16
    <2>5. Sound(d, F \union G)  BY <2>2, <2>3, <2>4, LevelShrinks, Zenon
    <2>6. BookKeeps(b, d)  BY <2>2, <2>3, <2>4, LevelShrinks, Zenon
    <2>7. d.oid_to_side_px = b.oid_to_side_px  BY <2>4 DEF Changed
    <2>. QED  BY <2>1, <2>5, <2>6, <2>7 DEF Sound
  <1>18. PICK e \in Orders : /\ e = [Taker EXCEPT !.sz = @ - traded]
                             /\ e.coin = Taker.coin /\ e.oid = Taker.oid
                             /\ e.sz = Taker.sz - traded
                             /\ e.side = Taker.side /\ e.px = Taker.px
    <2>1. Taker.sz - traded \in Szs  BY <1>2, <1>11, BookAssumption DEF Orders, Szs
    <2>2. PICK z \in Szs : z = Taker.sz - traded  BY <2>1
    <2>3. /\ [Taker EXCEPT !.sz = z] \in Orders
          /\ [Taker EXCEPT !.sz = z].coin = Taker.coin /\ [Taker EXCEPT !.sz = z].oid = Taker.oid
          /\ [Taker EXCEPT !.sz = z].sz = z
          /\ [Taker EXCEPT !.sz = z].side = Taker.side /\ [Taker EXCEPT !.sz = z].px = Taker.px
      BY <1>2 DEF Orders
    <2>. QED  BY <2>2, <2>3
  <1>19. /\ call'.order = e /\ call'.before = call.before /\ call'.filled = call.filled \union G
         /\ call'.phase \in {"matching", "matched"}
         /\ call'.phase = "matched" => Taker.sz = traded
         /\ call' \in [phase : {"matching", "matched"}, order : Orders,
                       before : Oids \union {NoOid}, filled : SUBSET Oids]
    <2>1. call.phase = "matching"  BY DEF MatchOne
    <2>2. call.filled \union G \in SUBSET Oids  BY <1>2, <1>14
    <2>3. (IF left = 0 THEN call.filled \union {Head(q).oid} ELSE call.filled) = call.filled \union G
      BY DEF G
    <2>4. call' = [call EXCEPT !.order = e, !.filled = call.filled \union G,
                     !.phase = IF Taker.sz = traded THEN "matched" ELSE "matching"]
      BY <1>2, <1>13, <1>18, <2>1, <2>3 DEF Taker
    <2>. QED  BY <1>2, <2>2, <2>4
  <1>20. /\ \A x \in Coins \ {c} : Filled(x) = {} /\ Filled(x)' = {}
         /\ Filled(c)' = call.filled \union G
    BY <1>1, <1>3, <1>18, <1>19 DEF Filled, InCall, Taker
  <1>21. call' \in Calls  BY <1>19 DEF Calls
  <1>22. /\ BookTypeOK' /\ Kept
         /\ \A x \in Coins : Indexed(Book(x), Filled(x))' /\ Apart(Book(x))'
         /\ Book(c)' = d /\ DOMAIN order_books' = DOMAIN order_books
    BY <1>5, <1>6, <1>15, <1>17, <1>20, <1>21, OneBookStep
  <1>23. Taker' = e  BY <1>19 DEF Taker
  <1>24. Taker'.coin \in DOMAIN order_books' /\ ~Known(Taker.coin, Taker.oid)'
    <2>1. ~Known(c, Taker.oid)  BY <1>1, <1>3 DEF BookInv
    <2>. QED  BY <1>3, <1>5, <1>6, <1>17, <1>18, <1>22, <1>23, <2>1 DEF Known
  <1>25. call'.phase = "matched" => Taker'.sz = 0
    BY <1>2, <1>11, <1>18, <1>19, <1>23, BookAssumption DEF Orders, Szs
  <1>26. Turns(c, makers, px, r)
    <2>1. b.oid_to_side_px \in Indices  BY DEF Books
    <2>2. /\ QueueAt(d, makers, px) = r
          /\ \A t \in Sides, x \in Pxs : t # makers \/ x # px => QueueAt(d, t, x) = QueueAt(b, t, x)
      BY <1>9, <1>14, <1>15, <2>1, ChangedFacts
    <2>3. \A t \in Sides, x \in Pxs : t # makers \/ x # px => QueueAt(d, t, x) = QueueAt(Book(c), t, x)
      BY <1>5, <2>2
    <2>4. c \in DOMAIN order_books /\ d \in Books /\ order_books' = [order_books EXCEPT ![c] = d]
          /\ makers \in Sides /\ px \in Pxs
      BY <1>6, <1>9, <1>15, <1>17
    <2>. QED  BY <1>1, <2>2, <2>3, <2>4, TurnsOne
  <1>27. Alikes(q, r)  BY <1>9, AlikeQueues DEF r
  <1>28. \E s \in Sides, p \in Pxs, u \in Queues :
            Turns(Taker.coin, s, p, u) /\ Alikes(QueueAt(Book(Taker.coin), s, p), u)
    BY <1>3, <1>5, <1>8, <1>9, <1>14, <1>26, <1>27
  <1>. QED  BY <1>18, <1>22, <1>23, <1>24, <1>25, <1>28 DEF BookInv

\* No price is left to trade at.
LEMMA StepMatchDone ==
    ASSUME BookInv, MatchDone
    PROVE  BookInv' /\ Kept /\ Stays /\ Taker' = Taker
  <1>1. BookTypeOK /\ InCall  BY DEF BookInv, MatchDone, InCall
  <1>2. call \in [phase : {"matching", "matched"}, order : Orders,
                  before : Oids \union {NoOid}, filled : SUBSET Oids]
    BY <1>1, CallFacts
  <1>3. /\ call' = [call EXCEPT !.phase = "matched"] /\ order_books' = order_books
        /\ Crossed = {}
    BY DEF MatchDone
  <1>4. /\ call'.order = call.order /\ call'.filled = call.filled /\ call'.phase = "matched"
        /\ call' \in [phase : {"matching", "matched"}, order : Orders,
                      before : Oids \union {NoOid}, filled : SUBSET Oids]
    BY <1>2, <1>3
  <1>5. \A c : Book(c)' = Book(c)  BY <1>3 DEF Book
  <1>6. Taker' = Taker  BY <1>4 DEF Taker
  <1>7. \A c \in Coins : Filled(c)' = Filled(c)  BY <1>1, <1>4, <1>6 DEF Filled, InCall
  <1>8. Crossed' = Crossed  BY <1>5, <1>6 DEF Crossed
  <1>9. BookTypeOK'  BY <1>1, <1>3, <1>4 DEF BookTypeOK, Calls
  <1>10. Kept  BY <1>1, <1>5, BookAt, KeepsSame DEF Kept
  <1>11. \A c \in Coins : Indexed(Book(c), Filled(c))' /\ Apart(Book(c))'
    BY <1>5, <1>7 DEF BookInv
  <1>12. Taker'.coin \in DOMAIN order_books' /\ ~Known(Taker.coin, Taker.oid)'
    BY <1>1, <1>3, <1>5, <1>6 DEF BookInv, Known
  <1>13. Stays  BY <1>5 DEF Stays
  <1>. QED  BY <1>3, <1>6, <1>8, <1>9, <1>10, <1>11, <1>12, <1>13 DEF BookInv

\* The makers it has filled leave the index and what is left of the order rests.
LEMMA StepRest ==
    ASSUME BookInv, Rest
    PROVE  /\ BookInv' /\ Kept /\ call' \in {Idle, Failed}
           /\ LET q == QueueAt(Book(Taker.coin), Taker.side, Taker.px)
                  places == Taker.sz > 0 /\ CanPlace(q, Taker.oid, call.before)
              IN  /\ q \in Queues /\ ~Holds(q, Taker.oid)
                  /\ places => /\ Turns(Taker.coin, Taker.side, Taker.px, Placed(q, Taker, call.before))
                               /\ call' = Idle
                  /\ ~places => Stays
  <1>1. BookTypeOK /\ InCall /\ call.phase = "matched"  BY DEF BookInv, Rest, InCall
  <1>2. /\ Taker \in Orders /\ call.filled \in SUBSET Oids
        /\ call.before \in Oids \union {NoOid}
    BY <1>1, CallFacts
  <1>3. PICK c \in Coins : c = Taker.coin  BY <1>2 DEF Orders
  <1>4. PICK b \in Books : b = Book(c)  BY <1>1, BookAt
  <1>5. c \in DOMAIN order_books /\ b = order_books[c]
    BY <1>1, <1>3, <1>4, BookAt DEF BookInv
  <1>6. Indexed(b, call.filled) /\ Apart(b)
    BY <1>1, <1>3, <1>4 DEF BookInv, Filled
  <1>7. PICK k : k = Unindex(b, call.filled)  OBVIOUS
  <1>8. /\ k \in Books /\ k.levels = b.levels /\ Indexed(k, {})
        /\ k.oid_to_side_px = Without(b.oid_to_side_px, call.filled)
        /\ \A s, p : QueueAt(k, s, p) = QueueAt(b, s, p)
    <2>1. PICK F : F = call.filled  OBVIOUS
    <2>. QED  BY <1>6, <1>7, <2>1, Unindexed
  <1>9. Sound(k, {}) /\ BookKeeps(b, k)
    <2>1. Apart(k)  BY <1>6, <1>8 DEF Apart
    <2>2. BookKeeps(b, b)  BY KeepsSame
    <2>3. BookKeeps(b, k)  BY <1>8, <2>2 DEF BookKeeps
    <2>. QED  BY <1>8, <2>1, <2>3 DEF Sound
  <1>10. \A x \in Coins \ {c} : Filled(x) = {}
    BY <1>3 DEF Filled
  <1>11. Idle \in Calls /\ Failed \in Calls  BY DEF Calls
  <1>12. ASSUME NEW d, Sound(d, {}), BookKeeps(b, d),
                order_books' = [order_books EXCEPT ![c] = d],
                call' = Idle \/ call' = Failed
         PROVE  BookInv' /\ Kept /\ call' \in {Idle, Failed}
    <2>1. ~InCall' /\ call'.phase # "matched"  BY <1>12 DEF InCall, Idle, Failed
    <2>2. \A x \in Coins : Filled(x)' = {}  BY <2>1 DEF Filled
    <2>3. d \in Books /\ Indexed(d, {}) /\ Apart(d)  BY <1>12 DEF Sound
    <2>4. call' \in Calls  BY <1>11, <1>12
    <2>5. PICK F : F = {}  OBVIOUS
    <2>6. /\ Indexed(d, F) /\ Filled(c)' = F
          /\ \A x \in Coins \ {c} : Filled(x) = {} /\ Filled(x)' = {}
      BY <1>10, <2>2, <2>3, <2>5
    <2>7. /\ BookTypeOK' /\ Kept
          /\ \A x \in Coins : Indexed(Book(x), Filled(x))' /\ Apart(Book(x))'
      BY <1>4, <1>5, <1>12, <2>3, <2>4, <2>6, OneBookStep
    <2>. QED  BY <1>12, <2>1, <2>7 DEF BookInv
  <1>. DEFINE q == QueueAt(k, Taker.side, Taker.px)
             places == Taker.sz > 0 /\ CanPlace(q, Taker.oid, call.before)
  <1>13. ASSUME ~places, order_books' = [order_books EXCEPT ![c] = k], call' = Idle \/ call' = Failed
         PROVE  BookInv' /\ Kept /\ call' \in {Idle, Failed} /\ Stays
    <2>1. BookInv' /\ Kept /\ call' \in {Idle, Failed}  BY <1>9, <1>12, <1>13
    <2>2. Stays
      <3>1. k \in Books  BY <1>8
      <3>2. Book(c)' = k /\ \A d : d # c => Book(d)' = Book(d)  BY <1>1, <1>5, <1>13, <3>1, OneBook
      <3>3. ASSUME NEW d \in Coins, NEW t \in Sides, NEW x \in Pxs
            PROVE  QueueAt(Book(d)', t, x) = QueueAt(Book(d), t, x)
        <4>1. CASE d = c  BY <1>4, <1>8, <3>2, <4>1
        <4>2. CASE d # c  BY <3>2, <4>2
        <4>. QED  BY <4>1, <4>2
      <3>. QED  BY <3>3 DEF Stays
    <2>. QED  BY <2>1, <2>2
  <1>14. ASSUME places,
                order_books' = [order_books EXCEPT ![c] =
                   [k EXCEPT !.levels[Taker.side] = WithQueue(@, Taker.px, Placed(q, Taker, call.before)),
                             !.oid_to_side_px = With(@, Taker.oid, [side |-> Taker.side, px |-> Taker.px])]],
                call' = Idle
         PROVE  /\ BookInv' /\ Kept /\ call' \in {Idle, Failed}
                /\ Turns(Taker.coin, Taker.side, Taker.px, Placed(q, Taker, call.before))
    <2>1. PICK s \in Sides : s = Taker.side  BY <1>2 DEF Orders
    <2>2. PICK p \in Pxs : p = Taker.px  BY <1>2 DEF Orders
    <2>3. PICK n \in Oids : n = Taker.oid  BY <1>2 DEF Orders
    <2>4. n \notin DOMAIN k.oid_to_side_px
      BY <1>1, <1>3, <1>4, <1>8, <2>3 DEF BookInv, Known, Without
    <2>5. PICK u \in Queues : u = QueueAt(k, s, p)  BY <1>8, QueueFacts
    <2>6. ~Holds(u, n)  BY <1>8, <2>4, <2>5 DEF Indexed
    <2>7. PICK r : r = Placed(u, Taker, call.before)  OBVIOUS
    <2>8. r \in Queues /\ KeepsOrder(u, r) /\ Gains(u, r, n)
      BY <1>2, <1>14, <2>1, <2>2, <2>3, <2>5, <2>6, <2>7, PlaceQueue DEF Gains
    <2>9. PICK w : w = With(k.oid_to_side_px, n, [side |-> s, px |-> p])  OBVIOUS
    <2>10. PICK d : d = Changed(k, s, p, r, w)  OBVIOUS
    <2>11. [k EXCEPT !.levels[s] = WithQueue(@, p, r), !.oid_to_side_px = w] = d
      <3>1. PICK lv : lv = [k.levels EXCEPT ![s] = WithQueue(@, p, r)]  OBVIOUS
      <3>2. [k EXCEPT !.levels[s] = WithQueue(@, p, r), !.oid_to_side_px = w]
               = [k EXCEPT !.levels = lv, !.oid_to_side_px = w]
        BY <3>1
      <3>3. [k EXCEPT !.levels = lv, !.oid_to_side_px = w] = [levels |-> lv, oid_to_side_px |-> w]
        BY <1>8, BookRecord
      <3>. QED  BY <2>10, <3>1, <3>2, <3>3 DEF Changed
    <2>12. order_books' = [order_books EXCEPT ![c] = d]
      BY <1>8, <1>14, <2>1, <2>2, <2>3, <2>5, <2>7, <2>9, <2>11
    <2>13. \A x \in DOMAIN k.levels[Other(s)] : ~Crosses(s, x, p)
      <3>1. Crossed = {}
        BY <1>1, <1>2, <1>14, BookAssumption DEF BookInv, Orders, Szs
      <3>. QED  BY <1>3, <1>4, <1>8, <2>1, <2>2, <3>1 DEF Crossed
    <2>14. KeepsOrder(QueueAt(k, s, p), r) /\ Gains(QueueAt(k, s, p), r, n)
      BY <2>5, <2>8
    <2>15. d = Changed(k, s, p, r, With(k.oid_to_side_px, n, [side |-> s, px |-> p]))
      BY <2>9, <2>10
    <2>16. Sound(d, {})  BY <1>9, <2>4, <2>8, <2>13, <2>14, <2>15, LevelGrows, Zenon
    <2>17. BookKeeps(k, d)  BY <1>9, <2>4, <2>8, <2>13, <2>14, <2>15, LevelGrows, Zenon
    <2>18. BookKeeps(b, d)  BY <1>8, <2>17 DEF BookKeeps
    <2>19. BookInv' /\ Kept  BY <1>12, <1>14, <2>12, <2>16, <2>18
    <2>20. Turns(c, s, p, r)
      <3>1. w \in Indices
        <4>1. k.oid_to_side_px \in Indices /\ [side |-> s, px |-> p] \in Places
          BY <1>8 DEF Books, Places
        <4>. QED  BY <2>9, <4>1, WithFacts
      <3>2. /\ d \in Books /\ QueueAt(d, s, p) = r
            /\ \A t \in Sides, x \in Pxs : t # s \/ x # p => QueueAt(d, t, x) = QueueAt(k, t, x)
        BY <1>8, <2>8, <2>10, <3>1, ChangedFacts
      <3>3. \A t \in Sides, x \in Pxs : t # s \/ x # p => QueueAt(d, t, x) = QueueAt(Book(c), t, x)
        BY <1>4, <1>8, <3>2
      <3>. QED  BY <1>1, <1>5, <2>12, <3>2, <3>3, TurnsOne
    <2>21. q = u /\ r = Placed(q, Taker, call.before)  BY <2>1, <2>2, <2>5, <2>7
    <2>22. Turns(c, s, p, r) <=>
              Turns(Taker.coin, Taker.side, Taker.px, Placed(q, Taker, call.before))
      <3>. HIDE DEF q
      <3>. QED  BY <1>3, <2>1, <2>2, <2>21
    <2>. QED  BY <1>14, <2>19, <2>20, <2>22
  <1>15. k = Unindex(Book(Taker.coin), call.filled)  BY <1>3, <1>4, <1>7
  <1>16. q = QueueAt(Book(Taker.coin), Taker.side, Taker.px)  BY <1>3, <1>4, <1>8
  <1>17. q \in Queues /\ ~Holds(q, Taker.oid)
    <2>1. PICK s \in Sides : s = Taker.side  BY <1>2 DEF Orders
    <2>2. PICK p \in Pxs : p = Taker.px  BY <1>2 DEF Orders
    <2>3. PICK n \in Oids : n = Taker.oid  BY <1>2 DEF Orders
    <2>4. n \notin DOMAIN k.oid_to_side_px
      BY <1>1, <1>3, <1>4, <1>8, <2>3 DEF BookInv, Known, Without
    <2>5. PICK u \in Queues : u = QueueAt(k, s, p)  BY <1>8, QueueFacts
    <2>6. ~Holds(u, n)  BY <1>8, <2>4, <2>5 DEF Indexed
    <2>. QED  BY <2>1, <2>2, <2>3, <2>5, <2>6
  <1>. HIDE DEF q
  <1>18. \/ ~places /\ order_books' = [order_books EXCEPT ![c] = k] /\ (call' = Idle \/ call' = Failed)
         \/ /\ places
            /\ order_books' = [order_books EXCEPT ![c] =
                 [k EXCEPT !.levels[Taker.side] = WithQueue(@, Taker.px, Placed(q, Taker, call.before)),
                           !.oid_to_side_px = With(@, Taker.oid, [side |-> Taker.side, px |-> Taker.px])]]
            /\ call' = Idle
    BY <1>3, <1>15 DEF Rest, q
  <1>. HIDE DEF places
  <1>19. BookInv' /\ Kept /\ call' \in {Idle, Failed}  BY <1>13, <1>14, <1>18
  <1>20. places => Turns(Taker.coin, Taker.side, Taker.px, Placed(q, Taker, call.before)) /\ call' = Idle
    BY <1>13, <1>14, <1>18
  <1>21. ~places => Stays  BY <1>13, <1>14, <1>18
  <1>. QED  BY <1>16, <1>17, <1>19, <1>20, <1>21 DEF places

\* Between calls every book is sound.
LEMMA IdleFacts ==
    ASSUME BookInv, call = Idle
    PROVE  /\ BookTypeOK /\ ~InCall
           /\ \A c \in Coins : Sound(Book(c), {}) /\ Filled(c) = {}
  <1>1. BookTypeOK /\ ~InCall  BY CallFacts DEF BookInv
  <1>2. \A c \in Coins : Filled(c) = {}  BY <1>1 DEF Filled
  <1>3. ASSUME NEW c \in Coins PROVE Sound(Book(c), {})
    <2>1. Book(c) \in Books  BY <1>1, BookAt
    <2>. QED  BY <1>2, <2>1 DEF BookInv, Sound
  <1>. QED  BY <1>1, <1>2, <1>3

\* A call that ends, or fails, having changed one book.
LEMMA IdleStep ==
    ASSUME BookInv, call = Idle, NEW c \in DOMAIN order_books, NEW d,
           Sound(d, {}), BookKeeps(Book(c), d),
           order_books' = [order_books EXCEPT ![c] = d], call' = Idle
    PROVE  BookInv' /\ Kept
  <1>1. \A x \in Coins : Filled(x) = {}  BY IdleFacts
  <1>2. ~InCall' /\ call'.phase # "matched"  BY DEF InCall, Idle
  <1>3. \A x \in Coins : Filled(x)' = {}  BY <1>2 DEF Filled
  <1>4. d \in Books /\ Indexed(d, {}) /\ Apart(d)  BY DEF Sound
  <1>5. call' \in Calls  BY DEF Calls
  <1>6. c \in Coins  BY IdleFacts, BookAt
  <1>7. PICK F : F = {}  OBVIOUS
  <1>8. Indexed(d, F) /\ Filled(c)' = F /\ \A x \in Coins \ {c} : Filled(x) = {} /\ Filled(x)' = {}
    BY <1>1, <1>3, <1>4, <1>6, <1>7
  <1>9. /\ BookTypeOK' /\ Kept
        /\ \A x \in Coins : Indexed(Book(x), Filled(x))' /\ Apart(Book(x))'
    BY <1>4, <1>5, <1>8, OneBookStep
  <1>. QED  BY <1>2, <1>9 DEF BookInv

\* A call that fails without a change.
LEMMA FailStep ==
    ASSUME BookInv, call = Idle, call' = Failed, order_books' = order_books
    PROVE  BookInv' /\ Kept /\ Stays
  <1>1. ~InCall' /\ call'.phase # "matched"  BY DEF InCall, Failed
  <1>2. \A x : Book(x)' = Book(x)  BY DEF Book
  <1>3. \A x \in Coins : Filled(x)' = Filled(x)  BY <1>1, IdleFacts DEF Filled
  <1>4. BookTypeOK'  BY DEF BookInv, BookTypeOK, Calls
  <1>5. \A x \in Coins : Indexed(Book(x), Filled(x))' /\ Apart(Book(x))'
    BY <1>2, <1>3 DEF BookInv
  <1>6. Kept  BY <1>2, IdleFacts, BookAt, KeepsSame DEF Kept
  <1>7. Stays  BY <1>2 DEF Stays
  <1>. QED  BY <1>1, <1>4, <1>5, <1>6, <1>7 DEF BookInv

\* The index leads to the order: what it knows is where it says.
LEMMA KnownFacts ==
    ASSUME BookInv, call = Idle, NEW coin \in Coins, NEW oid \in Oids, Known(coin, oid)
    PROVE  LET b == Book(coin)
               w == b.oid_to_side_px[oid]
               q == QueueAt(b, w.side, w.px)
           IN  /\ coin \in DOMAIN order_books /\ b = order_books[coin]
               /\ b \in Books /\ Indexed(b, {}) /\ Apart(b)
               /\ w.side \in Sides /\ w.px \in DOMAIN b.levels[w.side] /\ w.px \in Pxs
               /\ q \in Queues /\ q # <<>> /\ Holds(q, oid)
               /\ Position(q, oid) \in DOMAIN q /\ q[Position(q, oid)].oid = oid
               /\ Position(q, oid) # 0
  <1>. DEFINE b == Book(coin)
             w == b.oid_to_side_px[oid]
             q == QueueAt(b, w.side, w.px)
  <1>1. b \in Books /\ Indexed(b, {}) /\ Apart(b) /\ oid \in DOMAIN b.oid_to_side_px
    BY IdleFacts DEF Sound, Known
  <1>2. coin \in DOMAIN order_books /\ b = order_books[coin]
    <2>1. DOMAIN new.oid_to_side_px = {}  BY DEF new, Empty
    <2>. QED  BY <1>1, <2>1 DEF Book
  <1>3. w.side \in Sides /\ w.px \in Pxs  BY <1>1 DEF Books, Indices, Places
  <1>4. Holds(q, oid)  BY <1>1 DEF Indexed
  <1>. HIDE DEF w, b
  <1>5. q \in Queues /\ (w.px \in DOMAIN b.levels[w.side] <=> q # <<>>)
    BY <1>1, <1>3, QueueFacts
  <1>6. q # <<>>  BY <1>4, TrivialOrder
  <1>. HIDE DEF q
  <1>7. Position(q, oid) # 0  BY <1>4, <1>5, PositionFacts
  <1>8. Position(q, oid) \in DOMAIN q /\ q[Position(q, oid)].oid = oid
    BY <1>5, <1>7, PositionFacts
  <1>. QED  BY <1>1, <1>2, <1>3, <1>4, <1>5, <1>6, <1>7, <1>8 DEF q, w, b

\* The order leaves its queue and the index (cancel_order).
LEMMA StepCancel ==
    ASSUME BookInv, NEW oid \in Oids, NEW coin \in Coins, cancel_order(oid, coin)
    PROVE  /\ BookInv' /\ Kept /\ call' \in {Idle, Failed}
           /\ ~Known(coin, oid) => Stays
           /\ Known(coin, oid) =>
                 LET w == Book(coin).oid_to_side_px[oid]
                     q == QueueAt(Book(coin), w.side, w.px)
                 IN  Turns(coin, w.side, w.px, RemoveAt(q, Position(q, oid))) /\ call' = Idle
  <1>0. call = Idle  BY DEF cancel_order
  <1>1. CASE ~Known(coin, oid)
    <2>1. call' = Failed /\ order_books' = order_books  BY <1>1 DEF cancel_order
    <2>. QED  BY <1>0, <1>1, <2>1, FailStep
  <1>2. CASE Known(coin, oid)
    <2>1. PICK b \in Books : b = Book(coin)  BY <1>0, <1>2, KnownFacts
    <2>2. PICK w : w = b.oid_to_side_px[oid]  OBVIOUS
    <2>3. PICK q : q = QueueAt(b, w.side, w.px)  OBVIOUS
    <2>4. PICK i : i = Position(q, oid)  OBVIOUS
    <2>5. /\ coin \in DOMAIN order_books /\ b = order_books[coin]
          /\ Indexed(b, {}) /\ Apart(b)
          /\ w.side \in Sides /\ w.px \in DOMAIN b.levels[w.side]
          /\ q \in Queues /\ Holds(q, oid)
          /\ i \in DOMAIN q /\ q[i].oid = oid /\ i # 0
      BY <1>0, <1>2, <2>1, <2>2, <2>3, <2>4, KnownFacts
    <2>6. PICK s \in Sides : s = w.side  BY <2>5
    <2>7. PICK p \in DOMAIN b.levels[s] : p = w.px  BY <2>5, <2>6
    <2>8. PICK r : r = RemoveAt(q, i)  OBVIOUS
    <2>9. r \in Queues /\ KeepsOrder(q, r) /\ Loses(q, r, {oid})
      BY <2>5, <2>8, RemoveQueue DEF Loses
    <2>10. PICK d : d = Changed(b, s, p, r, b.oid_to_side_px)  OBVIOUS
    <2>11. Sound(d, {} \union {oid}) /\ BookKeeps(b, d)
      <3>1. KeepsOrder(QueueAt(b, s, p), r) /\ Loses(QueueAt(b, s, p), r, {oid})
        BY <2>3, <2>6, <2>7, <2>9
      <3>2. Sound(d, {} \union {oid})  BY <2>5, <2>9, <2>10, <3>1, LevelShrinks, Zenon
      <3>3. BookKeeps(b, d)  BY <2>5, <2>9, <2>10, <3>1, LevelShrinks, Zenon
      <3>. QED  BY <3>2, <3>3
    <2>12. PICK F : F = {oid}  OBVIOUS
    <2>13. d \in Books /\ Indexed(d, F) /\ Apart(d)
      <3>1. {} \union {oid} = F  BY <2>12
      <3>. QED  BY <2>11, <3>1 DEF Sound
    <2>14. PICK k : k = Unindex(d, F)  OBVIOUS
    <2>15. /\ k \in Books /\ k.levels = d.levels /\ Indexed(k, {})
           /\ k.oid_to_side_px = Without(d.oid_to_side_px, F)
           /\ \A t, x : QueueAt(k, t, x) = QueueAt(d, t, x)
      BY <2>13, <2>14, Unindexed
    <2>16. Sound(k, {})  BY <2>13, <2>15 DEF Sound, Apart
    <2>17. BookKeeps(b, k)  BY <2>11, <2>15 DEF BookKeeps
    <2>18. /\ order_books' = [order_books EXCEPT ![coin].levels[s] = WithQueue(@, p, r),
                                                 ![coin].oid_to_side_px = Without(@, F)]
           /\ call' = Idle
      BY <1>2, <2>1, <2>2, <2>3, <2>4, <2>5, <2>6, <2>7, <2>8, <2>12 DEF cancel_order
    <2>19. order_books' = [order_books EXCEPT ![coin] = k]
      <3>1. PICK lv : lv = [b.levels EXCEPT ![s] = WithQueue(@, p, r)]  OBVIOUS
      <3>2. PICK ix : ix = Without(b.oid_to_side_px, F)  OBVIOUS
      <3>3. k = [levels |-> lv, oid_to_side_px |-> ix]
        <4>1. d = [levels |-> lv, oid_to_side_px |-> b.oid_to_side_px]
          BY <2>10, <3>1 DEF Changed
        <4>. QED  BY <2>14, <3>2, <4>1 DEF Unindex
      <3>4. [b EXCEPT !.levels = lv, !.oid_to_side_px = ix] = k  BY <3>3, BookRecord
      <3>5. order_books' = [order_books EXCEPT ![coin] =
                              [@ EXCEPT !.levels = lv, !.oid_to_side_px = ix]]
        BY <2>5, <2>18, <3>1, <3>2 DEF Books
      <3>. QED  BY <2>5, <3>4, <3>5
    <2>20. BookInv' /\ Kept  BY <1>0, <2>1, <2>5, <2>16, <2>17, <2>18, <2>19, IdleStep, ZenonT(60)
    <2>21. Turns(coin, s, p, r)
      <3>1. b.oid_to_side_px \in Indices /\ p \in Pxs /\ BookTypeOK
        BY <2>1, QueueFacts DEF Books, BookInv
      <3>2. /\ QueueAt(d, s, p) = r
            /\ \A t \in Sides, x \in Pxs : t # s \/ x # p => QueueAt(d, t, x) = QueueAt(b, t, x)
        BY <2>9, <2>10, <3>1, ChangedFacts
      <3>3. QueueAt(k, s, p) = r  BY <2>15, <3>2
      <3>4. \A t \in Sides, x \in Pxs : t # s \/ x # p => QueueAt(k, t, x) = QueueAt(Book(coin), t, x)
        BY <2>1, <2>15, <3>2
      <3>. QED  BY <2>5, <2>15, <2>19, <3>1, <3>3, <3>4, TurnsOne
    <2>. QED  BY <1>2, <2>1, <2>2, <2>3, <2>4, <2>6, <2>7, <2>8, <2>18, <2>20, <2>21
  <1>. QED  BY <1>1, <1>2

\* The order keeps its place (modify_sz).
LEMMA StepModify ==
    ASSUME BookInv, NEW oid \in Oids, NEW coin \in Coins, NEW sz \in Szs, modify_sz(oid, coin, sz)
    PROVE  /\ BookInv' /\ Kept /\ call' \in {Idle, Failed}
           /\ ~Known(coin, oid) => Stays
           /\ Known(coin, oid) =>
                 LET w == Book(coin).oid_to_side_px[oid]
                     q == QueueAt(Book(coin), w.side, w.px)
                 IN  Turns(coin, w.side, w.px, Resized(q, Position(q, oid), sz)) /\ call' = Idle
  <1>0. call = Idle  BY DEF modify_sz
  <1>1. CASE ~Known(coin, oid)
    <2>1. call' = Failed /\ order_books' = order_books  BY <1>1 DEF modify_sz
    <2>. QED  BY <1>0, <1>1, <2>1, FailStep
  <1>2. CASE Known(coin, oid)
    <2>1. PICK b \in Books : b = Book(coin)  BY <1>0, <1>2, KnownFacts
    <2>2. PICK w : w = b.oid_to_side_px[oid]  OBVIOUS
    <2>3. PICK q : q = QueueAt(b, w.side, w.px)  OBVIOUS
    <2>4. PICK i : i = Position(q, oid)  OBVIOUS
    <2>5. /\ coin \in DOMAIN order_books /\ b = order_books[coin]
          /\ Indexed(b, {}) /\ Apart(b)
          /\ w.side \in Sides /\ w.px \in DOMAIN b.levels[w.side]
          /\ q \in Queues /\ i \in DOMAIN q /\ i # 0
      BY <1>0, <1>2, <2>1, <2>2, <2>3, <2>4, KnownFacts
    <2>6. PICK s \in Sides : s = w.side  BY <2>5
    <2>7. PICK p \in DOMAIN b.levels[s] : p = w.px  BY <2>5, <2>6
    <2>8. PICK r : r = Resized(q, i, sz)  OBVIOUS
    <2>9. r \in Queues /\ KeepsOrder(q, r) /\ Loses(q, r, {})
      BY <2>5, <2>8, ResizeQueue DEF Loses
    <2>10. PICK d : d = Changed(b, s, p, r, b.oid_to_side_px)  OBVIOUS
    <2>11. Sound(d, {}) /\ BookKeeps(b, d)
      <3>1. KeepsOrder(QueueAt(b, s, p), r) /\ Loses(QueueAt(b, s, p), r, {})
        BY <2>3, <2>6, <2>7, <2>9
      <3>2. Sound(d, {} \union {})  BY <2>5, <2>9, <2>10, <3>1, LevelShrinks, Zenon
      <3>3. BookKeeps(b, d)  BY <2>5, <2>9, <2>10, <3>1, LevelShrinks, Zenon
      <3>4. {} \union {} = {}  OBVIOUS
      <3>. QED  BY <3>2, <3>3, <3>4
    <2>12. /\ order_books' = [order_books EXCEPT ![coin].levels[s] = WithQueue(@, p, r)]
           /\ call' = Idle
      BY <1>0, <1>2, <2>1, <2>2, <2>3, <2>4, <2>5, <2>6, <2>7, <2>8 DEF modify_sz
    <2>13. order_books' = [order_books EXCEPT ![coin] = d]
      <3>1. [b EXCEPT !.levels[s] = WithQueue(@, p, r)] = Changed(b, s, p, r, b.oid_to_side_px)
        BY DEF Books, Changed
      <3>. QED  BY <2>5, <2>10, <2>12, <3>1
    <2>14. BookInv' /\ Kept  BY <1>0, <2>1, <2>5, <2>11, <2>12, <2>13, IdleStep
    <2>15. Turns(coin, s, p, r)
      <3>1. b.oid_to_side_px \in Indices /\ p \in Pxs /\ BookTypeOK
        BY <2>1, QueueFacts DEF Books, BookInv
      <3>2. /\ d \in Books /\ QueueAt(d, s, p) = r
            /\ \A t \in Sides, x \in Pxs : t # s \/ x # p => QueueAt(d, t, x) = QueueAt(b, t, x)
        BY <2>9, <2>10, <3>1, ChangedFacts
      <3>. QED  BY <2>1, <2>5, <2>13, <3>1, <3>2, TurnsOne
    <2>. QED  BY <1>2, <2>1, <2>2, <2>3, <2>4, <2>6, <2>7, <2>8, <2>12, <2>14, <2>15
  <1>. QED  BY <1>1, <1>2

\* The books are dropped.
LEMMA StepDropped == BookInv /\ Dropped => BookInv' /\ Kept
  <1>. SUFFICES ASSUME BookInv, Dropped PROVE BookInv' /\ Kept
    OBVIOUS
  <1>1. order_books' = Empty /\ call' = Idle  BY DEF Dropped
  <1>2. ~InCall' /\ call'.phase # "matched"  BY <1>1 DEF InCall, Idle
  <1>3. \A c : Book(c)' = new  BY <1>1 DEF Book, Empty
  <1>4. \A c \in Coins : Filled(c)' = {}  BY <1>2 DEF Filled
  <1>5. BookTypeOK'
    <2>1. Empty \in [{} -> Books]  BY DEF Empty
    <2>2. order_books' \in UNION {[D -> Books] : D \in SUBSET Coins}  BY <1>1, <2>1
    <2>. QED  BY <1>1, <2>2 DEF BookTypeOK, Calls
  <1>6. \A c \in Coins : Indexed(Book(c), Filled(c))' /\ Apart(Book(c))'
    BY <1>3, <1>4, NewFacts
  <1>7. Kept  BY <1>3, NewFacts DEF Kept
  <1>. QED  BY <1>2, <1>5, <1>6, <1>7 DEF BookInv

-----------------------------------------------------------------------------
(* The theorems *)

\* Before the first order there is no book.
LEMMA BookInvInit == BookInit => BookInv
  <1>. SUFFICES ASSUME BookInit PROVE BookInv
    OBVIOUS
  <1>1. order_books = Empty /\ call = Idle  BY DEF BookInit
  <1>2. ~InCall /\ call.phase # "matched"  BY <1>1 DEF InCall, Idle
  <1>3. \A c : Book(c) = new  BY <1>1 DEF Book, Empty
  <1>4. \A c \in Coins : Filled(c) = {}  BY <1>2 DEF Filled
  <1>5. BookTypeOK
    <2>1. Empty \in [{} -> Books]  BY DEF Empty
    <2>2. order_books \in UNION {[D -> Books] : D \in SUBSET Coins}  BY <1>1, <2>1
    <2>. QED  BY <1>1, <2>2 DEF BookTypeOK, Calls
  <1>6. \A c \in Coins : Indexed(Book(c), Filled(c)) /\ Apart(Book(c))
    BY <1>3, <1>4, NewFacts
  <1>. QED  BY <1>2, <1>5, <1>6 DEF BookInv

\* Every call, and every maker of a call, keeps the invariant and the priority.
LEMMA BookInvNext == BookInv /\ BookNext => BookInv' /\ Kept
  <1>. SUFFICES ASSUME BookInv, BookNext PROVE BookInv' /\ Kept
    OBVIOUS
  <1>1. CASE \E coin \in Coins, oid \in Oids, side \in Sides, px \in Pxs, sz \in Szs,
                before \in Oids \union {NoOid} :
                /\ ~Known(coin, oid)
                /\ AddOrder([coin |-> coin, oid |-> oid, side |-> side, px |-> px, sz |-> sz], before)
    <2>1. PICK coin \in Coins, oid \in Oids, side \in Sides, px \in Pxs, sz \in Szs,
               before \in Oids \union {NoOid} :
                /\ ~Known(coin, oid)
                /\ AddOrder([coin |-> coin, oid |-> oid, side |-> side, px |-> px, sz |-> sz], before)
      BY <1>1
    <2>2. PICK e \in Orders : /\ e = [coin |-> coin, oid |-> oid, side |-> side, px |-> px, sz |-> sz]
                              /\ e.coin = coin /\ e.oid = oid
      <3>1. PICK e : e = [coin |-> coin, oid |-> oid, side |-> side, px |-> px, sz |-> sz]
        OBVIOUS
      <3>2. e \in Orders  BY <3>1 DEF Orders
      <3>3. e.coin = coin /\ e.oid = oid  BY <3>1
      <3>. QED  BY <3>1, <3>2, <3>3
    <2>. QED  BY <2>1, <2>2, StepAdd
  <1>2. CASE MatchOne  BY <1>2, StepMatchOne
  <1>3. CASE MatchDone  BY <1>3, StepMatchDone
  <1>4. CASE Rest  BY <1>4, StepRest
  <1>5. CASE \E oid \in Oids, coin \in Coins : cancel_order(oid, coin)  BY <1>5, StepCancel
  <1>6. CASE \E oid \in Oids, coin \in Coins, sz \in Szs : modify_sz(oid, coin, sz)
    BY <1>6, StepModify
  <1>7. CASE Dropped  BY <1>7, StepDropped
  <1>. QED  BY <1>1, <1>2, <1>3, <1>4, <1>5, <1>6, <1>7 DEF BookNext

\* So does a step of anything else.
LEMMA BookInvStep == BookInv /\ [BookNext]_bookVars => BookInv'
  <1>. SUFFICES ASSUME BookInv, UNCHANGED bookVars PROVE BookInv'
    BY BookInvNext
  <1>1. order_books' = order_books /\ call' = call  BY DEF bookVars
  <1>2. (\A c : Book(c)' = Book(c)) /\ Taker' = Taker /\ (InCall' <=> InCall)
    BY <1>1 DEF Book, Taker, InCall
  <1>3. Crossed' = Crossed  BY <1>2 DEF Crossed
  <1>4. \A c : Filled(c)' = Filled(c)  BY <1>1, <1>2 DEF Filled
  <1>5. BookTypeOK'  BY <1>1 DEF BookInv, BookTypeOK
  <1>6. \A c \in Coins : Indexed(Book(c), Filled(c))' /\ Apart(Book(c))'
    BY <1>2, <1>4 DEF BookInv
  <1>7. InCall' => Taker'.coin \in DOMAIN order_books' /\ ~Known(Taker.coin, Taker.oid)'
    BY <1>1, <1>2 DEF BookInv, Known
  <1>8. call'.phase = "matched" => Taker'.sz = 0 \/ Crossed' = {}
    BY <1>1, <1>2, <1>3 DEF BookInv
  <1>. QED  BY <1>5, <1>6, <1>7, <1>8 DEF BookInv

\* Where an order rests.
LEMMA RestingFacts ==
    ASSUME BookTypeOK, NEW c \in Coins, NEW s \in Sides, NEW p \in Pxs, NEW o \in Oids
    PROVE  /\ QueueAt(Book(c), s, p) \in Queues
           /\ <<c, s, p, o>> \in Resting <=> Holds(QueueAt(Book(c), s, p), o)
  <1>1. QueueAt(Book(c), s, p) \in Queues  BY BookAt, QueueFacts
  <1>2. Position(QueueAt(Book(c), s, p), o) # 0 <=> Holds(QueueAt(Book(c), s, p), o)
    BY <1>1, PositionFacts
  <1>3. <<c, s, p, o>> \in Resting <=> Position(QueueAt(Book(c), s, p), o) # 0
    BY DEF Resting
  <1>. QED  BY <1>1, <1>2, <1>3

\* Between calls the index knows exactly the resting orders and where each one
\* rests, for any number of coins, orders and prices (OrderBook, oid_to_side_px).
THEOREM BookIndexAgrees == BookSpec => []IndexAgrees
  <1>1. BookInv => IndexAgrees
    <2>. SUFFICES ASSUME BookInv, call.phase \in {"idle", "failed"} PROVE IndexAgrees
      BY DEF IndexAgrees
    <2>. DEFINE At(c, o) == <<c, Book(c).oid_to_side_px[o].side, Book(c).oid_to_side_px[o].px, o>>
    <2>1. BookTypeOK /\ \A c \in Coins : Book(c) \in Books /\ Indexed(Book(c), {})
      BY BookAt DEF BookInv, Filled, InCall
    <2>2. ASSUME NEW x \in Resting
          PROVE  \E c \in Coins : \E o \in DOMAIN Book(c).oid_to_side_px : x = At(c, o)
      <3>1. PICK c \in Coins, s \in Sides, p \in Pxs, o \in Oids : x = <<c, s, p, o>>
        BY DEF Resting
      <3>2. Holds(QueueAt(Book(c), s, p), o)  BY <2>1, <2>2, <3>1, RestingFacts
      <3>3. /\ o \in DOMAIN Book(c).oid_to_side_px
            /\ Book(c).oid_to_side_px[o] = [side |-> s, px |-> p]
        BY <2>1, <3>2 DEF Indexed
      <3>. QED  BY <3>1, <3>3
    <2>3. ASSUME NEW c \in Coins, NEW o \in DOMAIN Book(c).oid_to_side_px
          PROVE  At(c, o) \in Resting
      <3>1. PICK s, p : s = Book(c).oid_to_side_px[o].side /\ p = Book(c).oid_to_side_px[o].px
        OBVIOUS
      <3>2. s \in Sides /\ p \in Pxs /\ o \in Oids  BY <2>1, <3>1 DEF Books, Indices, Places
      <3>3. Holds(QueueAt(Book(c), s, p), o)  BY <2>1, <3>1 DEF Indexed
      <3>. QED  BY <2>1, <3>1, <3>2, <3>3, RestingFacts
    <2>4. Resting = UNION {{At(c, o) : o \in DOMAIN Book(c).oid_to_side_px} : c \in Coins}
      <3>. HIDE DEF At
      <3>. QED  BY <2>2, <2>3
    <2>5. ASSUME NEW c \in Coins, NEW s \in Sides, NEW p \in DOMAIN Book(c).levels[s]
          PROVE  LET q == QueueAt(Book(c), s, p) IN
                 q # <<>> /\ IsInjective([i \in DOMAIN q |-> q[i].oid])
      <3>1. PICK q : q = QueueAt(Book(c), s, p)  OBVIOUS
      <3>2. q \in Queues /\ q # <<>>  BY <2>1, <3>1, QueueFacts
      <3>3. IsInjective([i \in DOMAIN q |-> q[i].oid])  BY <3>2 DEF Queues, IsInjective
      <3>. QED  BY <3>1, <3>2, <3>3
    <2>. QED  BY <2>4, <2>5 DEF IndexAgrees
  <1>. QED  BY <1>1, BookInvInit, BookInvStep, PTL DEF BookSpec

\* No resting bid and ask would trade, a call under way or failed included.
THEOREM BookUncrossed == BookSpec => []Uncrossed
  <1>1. BookInv => Uncrossed  BY DEF BookInv, Uncrossed, Apart
  <1>. QED  BY <1>1, BookInvInit, BookInvStep, PTL DEF BookSpec

\* Two orders that stay at a price stay in the same order, whatever is added,
\* filled, cancelled or resized (LinkedList of an OrderBook level).
THEOREM BookPriorityKept == BookSpec => PriorityKept
  <1>. DEFINE Priority == \A w, x \in Resting \intersect Resting' :
                             (\A i \in 1..3 : w[i] = x[i]) => (Ahead(w, x) <=> Ahead(w, x)')
  <1>1. ASSUME BookInv, BookInv', Kept PROVE Priority
    <2>. SUFFICES ASSUME NEW w \in Resting \intersect Resting', NEW x \in Resting \intersect Resting',
                         \A i \in 1..3 : w[i] = x[i]
                  PROVE  Ahead(w, x) <=> Ahead(w, x)'
      OBVIOUS
    <2>1. PICK c \in Coins, s \in Sides, p \in Pxs, o \in Oids : w = <<c, s, p, o>>
      BY DEF Resting
    <2>2. PICK m \in Oids : x = <<c, s, p, m>>  BY <2>1 DEF Resting
    <2>3. PICK q : q = QueueAt(Book(c), s, p)  OBVIOUS
    <2>4. PICK r : r = QueueAt(Book(c)', s, p)  OBVIOUS
    <2>5. q \in Queues /\ r \in Queues
      <3>1. BookTypeOK /\ BookTypeOK'  BY <1>1 DEF BookInv
      <3>2. Book(c) \in Books /\ Book(c)' \in Books  BY <3>1, BookAt, NewFacts DEF BookTypeOK, Book
      <3>. QED  BY <2>3, <2>4, <3>2, QueueFacts
    <2>6. KeepsOrder(q, r)  BY <1>1, <2>3, <2>4 DEF Kept, BookKeeps
    <2>7. /\ Position(q, o) # 0 /\ Position(q, m) # 0 /\ Position(r, o) # 0 /\ Position(r, m) # 0
      BY <2>1, <2>2, <2>3, <2>4 DEF Resting
    <2>8. /\ Position(q, o) \in DOMAIN q /\ q[Position(q, o)].oid = o
          /\ Position(q, m) \in DOMAIN q /\ q[Position(q, m)].oid = m
          /\ Position(r, o) \in DOMAIN r /\ r[Position(r, o)].oid = o
          /\ Position(r, m) \in DOMAIN r /\ r[Position(r, m)].oid = m
      BY <2>5, <2>7, PositionFacts
    <2>9. Position(q, o) < Position(q, m) <=> Position(r, o) < Position(r, m)
      BY <2>6, <2>8 DEF KeepsOrder
    <2>10. Ahead(w, x) <=> Position(q, o) < Position(q, m)  BY <2>1, <2>2, <2>3 DEF Ahead
    <2>11. Ahead(w, x)' <=> Position(r, o) < Position(r, m)  BY <2>1, <2>2, <2>4 DEF Ahead
    <2>. QED  BY <2>9, <2>10, <2>11
  <1>2. BookInv /\ BookInv' /\ [BookNext]_bookVars => [Priority]_bookVars
    BY <1>1, BookInvNext
  <1>3. BookSpec => []BookInv  BY BookInvInit, BookInvStep, PTL DEF BookSpec
  <1>. QED  BY <1>2, <1>3, PTL DEF BookSpec, PriorityKept

-----------------------------------------------------------------------------
(* Induction, from the well-foundedness of the natural numbers *)

\* Every set of natural numbers that is not empty has a least element.
LEMMA LeastExists ==
    ASSUME NEW T \in SUBSET Nat, T # {}
    PROVE  \E n \in T : \A m \in T : n =< m
  <1>1. PICK R : R = OpToRel(<, Nat)  OBVIOUS
  <1>2. IsWellFoundedOn(R, Nat)  BY <1>1, NatLessThanWellFounded
  <1>3. PICK x \in T : \A y \in T : ~(<<y, x>> \in R)  BY <1>2, WFMin
  <1>4. R = {p \in Nat \X Nat : p[1] < p[2]}  BY <1>1 DEF OpToRel
  <1>5. ASSUME NEW y \in T PROVE x =< y
    <2>1. PICK p : p = <<y, x>>  OBVIOUS
    <2>2. p \in Nat \X Nat /\ p[1] = y /\ p[2] = x  BY <2>1
    <2>3. ~(p[1] < p[2])  BY <1>3, <1>4, <1>5, <2>1, <2>2
    <2>. QED  BY <2>2, <2>3
  <1>. QED  BY <1>5

\* A set of natural numbers with 0 and all successors is the whole of them.
LEMMA AllNaturals ==
    ASSUME NEW S \in SUBSET Nat, 0 \in S, \A n \in S : n + 1 \in S
    PROVE  \A n \in Nat : n \in S
  <1>. SUFFICES ASSUME Nat \ S # {} PROVE FALSE  OBVIOUS
  <1>1. PICK n \in Nat \ S : \A m \in Nat \ S : n =< m  BY LeastExists
  <1>2. n - 1 \in Nat  BY <1>1
  <1>3. n - 1 \in S  BY <1>1, <1>2
  <1>. QED  BY <1>1, <1>2, <1>3

-----------------------------------------------------------------------------
(* LinkedList *)

\* The index at place i of a list of n nodes, Nil beyond its ends.
Node(s, n, i) == IF i \in 1..n THEN s[i] ELSE Nil

\* The nodes s with the keys q are strung on the links of the slab sl from h to
\* t, nothing else is in the slab, and the map m has the index of every key.
Strung(n, s, q, sl, m, h, t) ==
    /\ n \in Nat /\ s \in [1..n -> Sids] /\ q \in [1..n -> Keys]
    /\ \A i, j \in 1..n : s[i] = s[j] => i = j
    /\ DOMAIN sl = {s[i] : i \in 1..n}
    /\ \A i \in 1..n : sl[s[i]] = [key  |-> q[i], next |-> Node(s, n, i + 1),
                                   prev |-> Node(s, n, i - 1)]
    /\ DOMAIN m = {q[i] : i \in 1..n}
    /\ \A i \in 1..n : m[q[i]] = s[i]
    /\ h = Node(s, n, 1) /\ t = Node(s, n, n)

\* The inductive invariant.
LInv == \E n, s, q : Strung(n, s, q, slab, key_to_sid, head, tail)

\* The links lead from `start' over the nodes s.
Threaded(n, s, links, start) ==
    /\ DOMAIN links = {s[i] : i \in 1..n}
    /\ \A i \in 1..n : links[s[i]] = Node(s, n, i + 1)
    /\ start = Node(s, n, 1)

\* A walk along the links of n nodes meets them in order and stops.
LEMMA WalkMeets ==
    ASSUME NEW n \in Nat, NEW s \in [1..n -> Sids], n =< Cardinality(Sids), NEW links, NEW start,
           Threaded(n, s, links, start)
    PROVE  Along(links, start) = s
  <1>0. /\ DOMAIN links = {s[i] : i \in 1..n} /\ start = Node(s, n, 1)
        /\ \A i \in 1..n : links[s[i]] = Node(s, n, i + 1)
    BY DEF Threaded
  <1>1. PICK N : N = Cardinality(Sids)  OBVIOUS
  <1>2. N \in Nat /\ Nil \notin Sids
    <2>1. PICK M : M = Cardinality(Keys)  OBVIOUS
    <2>2. M \in Nat  BY <2>1, ListAssumption, FS_CardinalityType
    <2>3. IsFiniteSet(1..M)  BY <2>2, FS_Interval
    <2>4. Sids = 1..M  BY <2>1 DEF Sids
    <2>5. IsFiniteSet(Sids)  BY <2>3, <2>4
    <2>. QED  BY <1>1, <2>5, FS_CardinalityType, ListAssumption
  <1>3. PICK at : at = CHOOSE f : f = [i \in 0..N |-> IF i = 0 THEN start
                           ELSE IF f[i - 1] \in DOMAIN links THEN links[f[i - 1]] ELSE Nil]
    OBVIOUS
  <1>4. Along(links, start) = [i \in 1..Cardinality({i \in 0..N : at[i] # Nil}) |-> at[i - 1]]
    BY <1>1, <1>3 DEF Along
  <1>5. PICK g : g = [i \in 0..N |-> Node(s, n, i + 1)]  OBVIOUS
  <1>6. \A i \in 1..N : (i - 1) \in 0..N /\ g[i - 1] = Node(s, n, i) /\ i \in 0..N
                        /\ g[i] = Node(s, n, i + 1)
    <2>1. \A i \in 1..N : i - 1 \in 0..N /\ i \in 0..N /\ (i - 1) + 1 = i  BY <1>2
    <2>. QED  BY <1>5, <2>1
  <1>7. \A i \in 1..N : g[i] = IF g[i - 1] \in DOMAIN links THEN links[g[i - 1]] ELSE Nil
    <2>. SUFFICES ASSUME NEW i \in 1..N
                  PROVE  g[i] = IF g[i - 1] \in DOMAIN links THEN links[g[i - 1]] ELSE Nil
      OBVIOUS
    <2>1. CASE i \in 1..n
      <3>1. g[i - 1] = s[i] /\ s[i] \in DOMAIN links  BY <1>0, <1>6, <2>1 DEF Node
      <3>2. g[i] = links[s[i]]  BY <1>0, <1>6, <2>1
      <3>. QED  BY <3>1, <3>2
    <2>2. CASE i \notin 1..n
      <3>1. g[i - 1] = Nil  BY <1>6, <2>2 DEF Node
      <3>2. i + 1 \notin 1..n  BY <1>2, <2>2
      <3>3. g[i] = Nil  BY <1>6, <3>2 DEF Node
      <3>4. Nil \notin DOMAIN links  BY <1>0, <1>2
      <3>. QED  BY <3>1, <3>3, <3>4
    <2>. QED  BY <2>1, <2>2
  <1>8. g = [i \in 0..N |-> IF i = 0 THEN start
                 ELSE IF g[i - 1] \in DOMAIN links THEN links[g[i - 1]] ELSE Nil]
    <2>1. 0 \in 0..N /\ g[0] = start  BY <1>0, <1>2, <1>5
    <2>2. \A i \in 0..N : i # 0 => i \in 1..N  BY <1>2
    <2>. QED  BY <1>5, <1>7, <2>1, <2>2
  <1>9. at = [i \in 0..N |-> IF i = 0 THEN start
                 ELSE IF at[i - 1] \in DOMAIN links THEN links[at[i - 1]] ELSE Nil]
    BY <1>3, <1>8
  <1>10. PICK K : K = {i \in Nat : i =< N => at[i] = g[i]}  OBVIOUS
  <1>11. 0 \in K
    <2>1. 0 \in 0..N  BY <1>2
    <2>2. at[0] = start /\ g[0] = start  BY <1>8, <1>9, <2>1
    <2>. QED  BY <1>10, <2>2
  <1>12. ASSUME NEW i \in K PROVE i + 1 \in K
    <2>1. i \in Nat  BY <1>10
    <2>2. PICK j : j = i + 1  OBVIOUS
    <2>3. j \in Nat /\ j - 1 = i  BY <2>1, <2>2
    <2>4. CASE j =< N
      <3>1. j \in 1..N /\ j \in 0..N /\ j # 0 /\ i =< N  BY <1>2, <2>1, <2>2, <2>4
      <3>2. at[i] = g[i]  BY <1>10, <3>1
      <3>3. at[j] = IF at[i] \in DOMAIN links THEN links[at[i]] ELSE Nil  BY <1>9, <2>3, <3>1
      <3>4. g[j] = IF g[i] \in DOMAIN links THEN links[g[i]] ELSE Nil  BY <1>7, <2>3, <3>1
      <3>. QED  BY <1>10, <2>2, <2>3, <3>2, <3>3, <3>4
    <2>5. CASE ~(j =< N)  BY <1>10, <2>2, <2>3, <2>5
    <2>. QED  BY <2>4, <2>5
  <1>13. \A i \in Nat : i \in K
    <2>1. K \in SUBSET Nat  BY <1>10
    <2>. QED  BY <1>11, <1>12, <2>1, AllNaturals
  <1>14. \A i \in 0..N : at[i] = Node(s, n, i + 1)
    <2>1. \A i \in 0..N : i \in Nat /\ i =< N  BY <1>2
    <2>. QED  BY <1>5, <1>10, <1>13, <2>1
  <1>15. {i \in 0..N : at[i] # Nil} = 0..(n - 1)
    <2>1. \A i \in 0..N : i \in 0..(n - 1) <=> i + 1 \in 1..n  BY <1>2
    <2>2. \A i \in 0..(n - 1) : i \in 0..N  BY <1>1, <1>2
    <2>3. \A i \in 0..N : at[i] # Nil <=> i + 1 \in 1..n  BY <1>2, <1>14 DEF Node
    <2>. QED  BY <2>1, <2>2, <2>3
  <1>16. Cardinality(0..(n - 1)) = n
    <2>1. PICK z : z = n - 1  OBVIOUS
    <2>2. z \in Int /\ 0 \in Int  BY <2>1
    <2>3. Cardinality(0..z) = IF 0 > z THEN 0 ELSE z - 0 + 1  BY <2>2, FS_Interval
    <2>. QED  BY <2>1, <2>3
  <1>17. \A i \in 1..n : at[i - 1] = s[i]
    <2>1. \A i \in 1..n : i - 1 \in 0..N /\ (i - 1) + 1 = i  BY <1>1, <1>2
    <2>. QED  BY <1>14, <2>1 DEF Node
  <1>. QED  BY <1>4, <1>15, <1>16, <1>17

\* There are as many nodes as occupied indices, and not more than keys.
LEMMA StrungCounts ==
    ASSUME NEW n, NEW s, NEW q, NEW sl, NEW m, NEW h, NEW t, Strung(n, s, q, sl, m, h, t)
    PROVE  Cardinality(DOMAIN sl) = n /\ n =< Cardinality(Sids)
  <1>1. PICK D : D = DOMAIN sl  OBVIOUS
  <1>2. /\ n \in Nat /\ s \in [1..n -> Sids] /\ D = {s[i] : i \in 1..n}
        /\ \A i, j \in 1..n : s[i] = s[j] => i = j
    BY <1>1 DEF Strung
  <1>3. s \in Bijection(1..n, D)
    <2>1. s \in [1..n -> D]  BY <1>2
    <2>2. s \in Injection(1..n, D)  BY <1>2, <2>1 DEF Injection, IsInjective
    <2>3. \A y \in D : \E i \in 1..n : s[i] = y  BY <1>2
    <2>4. s \in Surjection(1..n, D)  BY <2>1, <2>3 DEF Surjection
    <2>. QED  BY <2>2, <2>4 DEF Bijection
  <1>4. ExistsBijection(1..n, D)  BY <1>3 DEF ExistsBijection
  <1>5. Cardinality(D) = n  BY <1>2, <1>4, FS_CountingElements
  <1>6. IsFiniteSet(Sids)
    <2>1. PICK M : M = Cardinality(Keys)  OBVIOUS
    <2>2. M \in Nat  BY <2>1, ListAssumption, FS_CardinalityType
    <2>3. IsFiniteSet(1..M)  BY <2>2, FS_Interval
    <2>. QED  BY <2>1, <2>3 DEF Sids
  <1>7. D \in SUBSET Sids  BY <1>2
  <1>8. Cardinality(D) =< Cardinality(Sids)  BY <1>6, <1>7, FS_Subset
  <1>. QED  BY <1>1, <1>5, <1>8

\* Both walks go over all the nodes.
LEMMA StrungWalks ==
    ASSUME NEW n, NEW s, NEW q, NEW sl, NEW m, NEW h, NEW t, Strung(n, s, q, sl, m, h, t),
           NEW f, f = [x \in DOMAIN sl |-> sl[x].next], NEW g, g = [x \in DOMAIN sl |-> sl[x].prev],
           NEW r, r = [i \in 1..n |-> s[n + 1 - i]]
    PROVE  Along(f, h) = s /\ Along(g, t) = r
  <1>1. /\ n \in Nat /\ s \in [1..n -> Sids] /\ DOMAIN sl = {s[i] : i \in 1..n}
        /\ \A i, j \in 1..n : s[i] = s[j] => i = j
        /\ \A i \in 1..n : sl[s[i]] = [key  |-> q[i], next |-> Node(s, n, i + 1),
                                       prev |-> Node(s, n, i - 1)]
        /\ h = Node(s, n, 1) /\ t = Node(s, n, n)
    BY DEF Strung
  <1>2. n =< Cardinality(Sids)  BY StrungCounts
  <1>3. Along(f, h) = s
    <2>1. PICK links : links = f  OBVIOUS
    <2>2. DOMAIN links = {s[i] : i \in 1..n}  BY <1>1, <2>1
    <2>3. \A i \in 1..n : links[s[i]] = Node(s, n, i + 1)
      <3>. SUFFICES ASSUME NEW i \in 1..n PROVE links[s[i]] = Node(s, n, i + 1)  OBVIOUS
      <3>1. s[i] \in DOMAIN sl  BY <1>1
      <3>2. sl[s[i]] = [key |-> q[i], next |-> Node(s, n, i + 1), prev |-> Node(s, n, i - 1)]
        BY <1>1
      <3>. QED  BY <2>1, <3>1, <3>2
    <2>4. Threaded(n, s, links, h)  BY <1>1, <2>2, <2>3 DEF Threaded
    <2>5. Along(links, h) = s  BY <1>1, <1>2, <2>4, WalkMeets
    <2>. QED  BY <2>1, <2>5
  <1>4. Along(g, t) = r
    <2>1. PICK links : links = g  OBVIOUS
    <2>3. \A i \in 1..n : n + 1 - i \in 1..n /\ n + 1 - (n + 1 - i) = i  BY <1>1
    <2>4. r \in [1..n -> Sids] /\ \A i \in 1..n : r[i] = s[n + 1 - i]  BY <1>1, <2>3
    <2>5. DOMAIN links = {r[i] : i \in 1..n}
      <3>1. \A i \in 1..n : s[i] \in {r[k] : k \in 1..n}
        <4>. SUFFICES ASSUME NEW i \in 1..n PROVE s[i] \in {r[k] : k \in 1..n}  OBVIOUS
        <4>1. PICK k : k = n + 1 - i  OBVIOUS
        <4>2. k \in 1..n /\ n + 1 - k = i  BY <2>3, <4>1
        <4>. QED  BY <2>4, <4>2
      <3>2. \A i \in 1..n : r[i] \in DOMAIN sl  BY <1>1, <2>3, <2>4
      <3>3. DOMAIN links = DOMAIN sl  BY <2>1
      <3>4. \A y \in DOMAIN sl : y \in {r[i] : i \in 1..n}  BY <1>1, <3>1
      <3>. QED  BY <3>2, <3>3, <3>4
    <2>6. \A i \in 1..n : links[r[i]] = Node(r, n, i + 1)
      <3>. SUFFICES ASSUME NEW i \in 1..n PROVE links[r[i]] = Node(r, n, i + 1)  OBVIOUS
      <3>1. PICK k : k = n + 1 - i  OBVIOUS
      <3>2. k \in 1..n /\ r[i] = s[k]  BY <2>3, <2>4, <3>1
      <3>3. links[s[k]] = Node(s, n, k - 1)
        <4>1. s[k] \in DOMAIN sl  BY <1>1, <3>2
        <4>2. sl[s[k]] = [key |-> q[k], next |-> Node(s, n, k + 1), prev |-> Node(s, n, k - 1)]
          BY <1>1, <3>2
        <4>. QED  BY <2>1, <4>1, <4>2
      <3>4. k - 1 \in 1..n <=> i + 1 \in 1..n  BY <1>1, <3>1
      <3>5. n + 1 - (i + 1) = k - 1  BY <1>1, <3>1
      <3>6. CASE i + 1 \in 1..n
        <4>1. PICK j : j = i + 1  OBVIOUS
        <4>2. r[j] = s[k - 1]  BY <2>4, <3>5, <3>6, <4>1
        <4>. QED  BY <3>2, <3>3, <3>4, <3>6, <4>1, <4>2 DEF Node
      <3>7. CASE i + 1 \notin 1..n  BY <3>2, <3>3, <3>4, <3>7 DEF Node
      <3>. QED  BY <3>6, <3>7
    <2>7. t = Node(r, n, 1)
      <3>1. CASE n = 0  BY <1>1, <3>1 DEF Node
      <3>2. CASE n # 0
        <4>1. 1 \in 1..n /\ n \in 1..n /\ n + 1 - 1 = n  BY <1>1, <3>2
        <4>2. r[1] = s[n]  BY <2>4, <4>1
        <4>. QED  BY <1>1, <4>1, <4>2 DEF Node
      <3>. QED  BY <3>1, <3>2
    <2>8. Threaded(n, r, links, t)  BY <2>5, <2>6, <2>7 DEF Threaded
    <2>9. ASSUME NEW v \in [1..n -> Sids], Threaded(n, v, links, t) PROVE Along(links, t) = v
      BY <1>1, <1>2, <2>9, WalkMeets
    <2>10. Along(links, t) = r  BY <2>4, <2>8, <2>9
    <2>. QED  BY <2>1, <2>10
  <1>. QED  BY <1>3, <1>4

\* The nodes with one more, v, at place j, and without the one at place j.
Spliced(s, n, j, v) == [i \in 1..(n + 1) |-> IF i < j THEN s[i] ELSE IF i = j THEN v ELSE s[i - 1]]
Cut(s, n, j)        == [i \in 1..(n - 1) |-> IF i < j THEN s[i] ELSE s[i + 1]]

\* The slab sl2 is sl with a node at sid linked in between p and x.
Linked(sl, sl2, sid, k, p, x) ==
    /\ DOMAIN sl2 = DOMAIN sl \union {sid}
    /\ sl2[sid] = [key |-> k, next |-> x, prev |-> p]
    /\ \A y \in DOMAIN sl :
          sl2[y] = [key |-> sl[y].key, next |-> IF y = p THEN sid ELSE sl[y].next,
                                       prev |-> IF y = x THEN sid ELSE sl[y].prev]

\* The slab sl2 is sl without the node at sid, which was between p and x.
Unlinked(sl, sl2, sid, p, x) ==
    /\ DOMAIN sl2 = DOMAIN sl \ {sid}
    /\ \A y \in DOMAIN sl2 :
          sl2[y] = [key |-> sl[y].key, next |-> IF y = p THEN x ELSE sl[y].next,
                                       prev |-> IF y = x THEN p ELSE sl[y].prev]

\* A node linked in at place j of the line.
LEMMA LinkOK ==
    ASSUME NEW n, NEW s, NEW q, NEW sl, NEW m, NEW h, NEW t, Strung(n, s, q, sl, m, h, t),
           NEW j \in 1..(n + 1), NEW sid \in Sids, sid \notin DOMAIN sl, NEW k \in Keys, k \notin DOMAIN m,
           NEW p, NEW x, p = Node(s, n, j - 1), x = Node(s, n, j),
           NEW sl2, Linked(sl, sl2, sid, k, p, x),
           NEW h2, h2 = IF p = Nil THEN sid ELSE h, NEW t2, t2 = IF x = Nil THEN sid ELSE t
    PROVE  Strung(n + 1, Spliced(s, n, j, sid), Spliced(q, n, j, k), sl2, Insert(m, k, sid), h2, t2)
  <1>1. /\ n \in Nat /\ s \in [1..n -> Sids] /\ q \in [1..n -> Keys] /\ Nil \notin Sids
        /\ DOMAIN sl = {s[i] : i \in 1..n} /\ DOMAIN m = {q[i] : i \in 1..n}
        /\ \A i \in 1..n : sl[s[i]] = [key  |-> q[i], next |-> Node(s, n, i + 1),
                                       prev |-> Node(s, n, i - 1)]
        /\ \A i \in 1..n : m[q[i]] = s[i]
        /\ h = Node(s, n, 1) /\ t = Node(s, n, n)
    BY ListAssumption DEF Strung
  <1>2. \A i, l \in 1..n : s[i] = s[l] => i = l  BY DEF Strung
  <1>3. PICK z : z = n + 1  OBVIOUS
  <1>4. PICK s2 : s2 = Spliced(s, n, j, sid)  OBVIOUS
  <1>5. PICK q2 : q2 = Spliced(q, n, j, k)  OBVIOUS
  <1>6. PICK m2 : m2 = Insert(m, k, sid)  OBVIOUS
  <1>7. z \in Nat /\ j \in 1..z /\ z - 1 = n  BY <1>1, <1>3
  <1>8. /\ s2 = [i \in 1..z |-> IF i < j THEN s[i] ELSE IF i = j THEN sid ELSE s[i - 1]]
        /\ q2 = [i \in 1..z |-> IF i < j THEN q[i] ELSE IF i = j THEN k ELSE q[i - 1]]
    BY <1>3, <1>4, <1>5 DEF Spliced
  <1>9. \A i \in 1..z : /\ i < j => i \in 1..n /\ s2[i] = s[i] /\ q2[i] = q[i]
                        /\ i = j => s2[i] = sid /\ q2[i] = k
                        /\ i > j => i - 1 \in 1..n /\ s2[i] = s[i - 1] /\ q2[i] = q[i - 1]
    BY <1>7, <1>8
  <1>10. \A i \in 1..z : i < j \/ i = j \/ i > j  BY <1>7
  <1>11. s2 \in [1..z -> Sids] /\ q2 \in [1..z -> Keys]
    BY <1>1, <1>8, <1>9, <1>10
  <1>12. \A i \in 1..n : /\ s[i] # sid /\ q[i] # k
                         /\ i < j => i \in 1..z /\ s2[i] = s[i] /\ q2[i] = q[i]
                         /\ i >= j => i + 1 \in 1..z /\ s2[i + 1] = s[i] /\ q2[i + 1] = q[i]
    BY <1>1, <1>7, <1>8
  <1>13. \A i, l \in 1..z : s2[i] = s2[l] => i = l
    <2>. SUFFICES ASSUME NEW i \in 1..z, NEW l \in 1..z, s2[i] = s2[l] PROVE i = l  OBVIOUS
    <2>1. CASE i = j /\ l # j  BY <1>9, <1>10, <1>12, <2>1
    <2>2. CASE i # j /\ l = j  BY <1>9, <1>10, <1>12, <2>2
    <2>3. CASE i < j /\ l < j  BY <1>2, <1>9, <2>3
    <2>4. CASE i > j /\ l > j  BY <1>2, <1>9, <2>4
    <2>5. CASE i < j /\ l > j
      <3>1. i = l - 1  BY <1>2, <1>9, <2>5
      <3>. QED  BY <1>7, <2>5, <3>1
    <2>6. CASE i > j /\ l < j
      <3>1. i - 1 = l  BY <1>2, <1>9, <2>6
      <3>. QED  BY <1>7, <2>6, <3>1
    <2>. QED  BY <1>10, <2>1, <2>2, <2>3, <2>4, <2>5, <2>6
  <1>14. DOMAIN sl2 = {s2[i] : i \in 1..z}
    <2>1. \A i \in 1..z : s2[i] \in DOMAIN sl2  BY <1>1, <1>9, <1>10 DEF Linked
    <2>2. sid \in {s2[i] : i \in 1..z}  BY <1>7, <1>9
    <2>3. \A i \in 1..n : i < j \/ i >= j  BY <1>1, <1>7
    <2>4. \A i \in 1..n : s[i] \in {s2[l] : l \in 1..z}  BY <1>12, <2>3
    <2>. QED  BY <1>1, <2>1, <2>2, <2>4, SMTT(30) DEF Linked
  <1>15. DOMAIN m2 = {q2[i] : i \in 1..z}
    <2>1. DOMAIN m2 = DOMAIN m \union {k}  BY <1>6 DEF Insert
    <2>2. \A i \in 1..z : q2[i] \in DOMAIN m2  BY <1>1, <1>9, <1>10, <2>1
    <2>3. k \in {q2[i] : i \in 1..z}  BY <1>7, <1>9
    <2>4. \A i \in 1..n : i < j \/ i >= j  BY <1>1, <1>7
    <2>5. \A i \in 1..n : q[i] \in {q2[l] : l \in 1..z}  BY <1>12, <2>4
    <2>. QED  BY <1>1, <2>1, <2>2, <2>3, <2>5
  <1>16. \A i \in 1..z : m2[q2[i]] = s2[i]
    <2>1. m2[k] = sid  BY <1>6 DEF Insert
    <2>2. \A i \in 1..n : m2[q[i]] = s[i]  BY <1>1, <1>6, <1>12 DEF Insert
    <2>. QED  BY <1>9, <1>10, <2>1, <2>2
  <1>17. \A i \in 1..n : /\ (s[i] = p) <=> (i = j - 1)
                         /\ (s[i] = x) <=> (i = j)
    <2>. SUFFICES ASSUME NEW i \in 1..n
                  PROVE  ((s[i] = p) <=> (i = j - 1)) /\ ((s[i] = x) <=> (i = j))
      OBVIOUS
    <2>1. s[i] # Nil  BY <1>1
    <2>2. (s[i] = p) <=> (i = j - 1)
      <3>1. CASE j - 1 \in 1..n  BY <1>2, <3>1 DEF Node
      <3>2. CASE j - 1 \notin 1..n  BY <2>1, <3>2 DEF Node
      <3>. QED  BY <3>1, <3>2
    <2>3. (s[i] = x) <=> (i = j)
      <3>1. CASE j \in 1..n  BY <1>2, <3>1 DEF Node
      <3>2. CASE j \notin 1..n  BY <2>1, <3>2 DEF Node
      <3>. QED  BY <3>1, <3>2
    <2>. QED  BY <2>2, <2>3
  <1>18. \A i \in 1..n : sl2[s[i]] = [key  |-> q[i],
                                      next |-> IF i = j - 1 THEN sid ELSE Node(s, n, i + 1),
                                      prev |-> IF i = j THEN sid ELSE Node(s, n, i - 1)]
    <2>. SUFFICES ASSUME NEW i \in 1..n
                  PROVE  sl2[s[i]] = [key  |-> q[i],
                                      next |-> IF i = j - 1 THEN sid ELSE Node(s, n, i + 1),
                                      prev |-> IF i = j THEN sid ELSE Node(s, n, i - 1)]
      OBVIOUS
    <2>1. PICK y : y = s[i]  OBVIOUS
    <2>2. /\ y \in DOMAIN sl
          /\ sl[y] = [key |-> q[i], next |-> Node(s, n, i + 1), prev |-> Node(s, n, i - 1)]
      BY <1>1, <2>1
    <2>3. sl2[y] = [key |-> sl[y].key, next |-> IF y = p THEN sid ELSE sl[y].next,
                                       prev |-> IF y = x THEN sid ELSE sl[y].prev]
      BY <2>2 DEF Linked
    <2>4. sl[y].key = q[i] /\ sl[y].next = Node(s, n, i + 1) /\ sl[y].prev = Node(s, n, i - 1)
      BY <2>2
    <2>5. ((y = p) <=> (i = j - 1)) /\ ((y = x) <=> (i = j))  BY <1>17, <2>1
    <2>. QED  BY <2>1, <2>3, <2>4, <2>5
  <1>19. \A i \in 1..z : sl2[s2[i]] = [key  |-> q2[i], next |-> Node(s2, z, i + 1),
                                       prev |-> Node(s2, z, i - 1)]
    <2>. SUFFICES ASSUME NEW i \in 1..z
                  PROVE  sl2[s2[i]] = [key  |-> q2[i], next |-> Node(s2, z, i + 1),
                                       prev |-> Node(s2, z, i - 1)]
      OBVIOUS
    <2>1. CASE i < j
      <3>1. i \in 1..n /\ s2[i] = s[i] /\ q2[i] = q[i] /\ i # j  BY <1>9, <2>1
      <3>2. Node(s2, z, i - 1) = Node(s, n, i - 1)
        <4>1. (i - 1 \in 1..z) <=> (i - 1 \in 1..n)  BY <1>7, <3>1
        <4>2. i - 1 \in 1..z => s2[i - 1] = s[i - 1]  BY <1>7, <1>9, <2>1
        <4>. QED  BY <4>1, <4>2 DEF Node
      <3>3. Node(s2, z, i + 1) = IF i = j - 1 THEN sid ELSE Node(s, n, i + 1)
        <4>1. CASE i = j - 1
          <5>1. i + 1 = j  BY <1>7, <4>1
          <5>. QED  BY <1>7, <1>9, <4>1, <5>1 DEF Node
        <4>2. CASE i # j - 1
          <5>1. i + 1 < j /\ i + 1 \in 1..z /\ i + 1 \in 1..n  BY <1>7, <2>1, <4>2
          <5>2. s2[i + 1] = s[i + 1]  BY <1>9, <5>1
          <5>. QED  BY <4>2, <5>1, <5>2 DEF Node
        <4>. QED  BY <4>1, <4>2
      <3>. QED  BY <1>18, <3>1, <3>2, <3>3
    <2>2. CASE i = j
      <3>1. s2[i] = sid /\ q2[i] = k  BY <1>9, <2>2
      <3>2. Node(s2, z, i - 1) = p
        <4>1. (j - 1 \in 1..z) <=> (j - 1 \in 1..n)  BY <1>7
        <4>2. j - 1 \in 1..z => s2[j - 1] = s[j - 1]  BY <1>7, <1>9
        <4>. QED  BY <2>2, <4>1, <4>2 DEF Node
      <3>3. Node(s2, z, i + 1) = x
        <4>1. (j + 1 \in 1..z) <=> (j \in 1..n)  BY <1>7
        <4>2. (j + 1) - 1 = j /\ j + 1 > j  BY <1>7
        <4>3. j + 1 \in 1..z => s2[j + 1] = s[j]  BY <1>9, <4>2
        <4>. QED  BY <2>2, <4>1, <4>3 DEF Node
      <3>. QED  BY <3>1, <3>2, <3>3 DEF Linked
    <2>3. CASE i > j
      <3>1. PICK l : l = i - 1  OBVIOUS
      <3>2. l \in 1..n /\ s2[i] = s[l] /\ q2[i] = q[l] /\ l # j - 1 /\ l + 1 = i  BY <1>7, <1>9, <2>3, <3>1
      <3>3. Node(s2, z, i - 1) = IF l = j THEN sid ELSE Node(s, n, l - 1)
        <4>1. CASE l = j  BY <1>7, <1>9, <3>1, <4>1 DEF Node
        <4>2. CASE l # j
          <5>1. l > j /\ l \in 1..z /\ l - 1 \in 1..n  BY <1>7, <2>3, <3>1, <3>2, <4>2
          <5>2. s2[l] = s[l - 1]  BY <1>9, <5>1
          <5>. QED  BY <3>1, <4>2, <5>1, <5>2 DEF Node
        <4>. QED  BY <4>1, <4>2
      <3>4. Node(s2, z, i + 1) = Node(s, n, l + 1)
        <4>1. (i + 1 \in 1..z) <=> (i \in 1..n)  BY <1>7
        <4>2. i + 1 > j /\ (i + 1) - 1 = i  BY <1>7, <2>3
        <4>3. i + 1 \in 1..z => s2[i + 1] = s[i]  BY <1>9, <4>2
        <4>. QED  BY <3>2, <4>1, <4>3 DEF Node
      <3>. QED  BY <1>18, <3>2, <3>3, <3>4
    <2>. QED  BY <1>10, <2>1, <2>2, <2>3
  <1>20. h2 = Node(s2, z, 1)
    <2>1. 1 \in 1..z  BY <1>7
    <2>2. CASE j = 1
      <3>1. p = Nil /\ s2[1] = sid  BY <1>9, <2>1, <2>2 DEF Node
      <3>. QED  BY <2>1, <3>1 DEF Node
    <2>3. CASE j # 1
      <3>1. j - 1 \in 1..n /\ 1 < j /\ 1 \in 1..n  BY <1>7, <2>3
      <3>2. p # Nil  BY <1>1, <3>1 DEF Node
      <3>3. s2[1] = s[1]  BY <1>9, <2>1, <3>1
      <3>. QED  BY <1>1, <2>1, <3>1, <3>2, <3>3 DEF Node
    <2>. QED  BY <2>2, <2>3
  <1>21. t2 = Node(s2, z, z)
    <2>1. z \in 1..z  BY <1>7
    <2>2. CASE j = z
      <3>1. x = Nil /\ s2[z] = sid  BY <1>7, <1>9, <2>1, <2>2 DEF Node
      <3>. QED  BY <2>1, <3>1 DEF Node
    <2>3. CASE j # z
      <3>1. j \in 1..n /\ z > j /\ n \in 1..n  BY <1>7, <2>3
      <3>2. x # Nil  BY <1>1, <3>1 DEF Node
      <3>3. s2[z] = s[n]  BY <1>7, <1>9, <2>1, <3>1
      <3>. QED  BY <1>1, <2>1, <3>1, <3>2, <3>3 DEF Node
    <2>. QED  BY <2>2, <2>3
  <1>22. Strung(z, s2, q2, sl2, m2, h2, t2)
    BY <1>7, <1>11, <1>13, <1>14, <1>15, <1>16, <1>19, <1>20, <1>21 DEF Strung
  <1>. QED  BY <1>3, <1>4, <1>5, <1>6, <1>22

\* The node at place j taken out of the line.
LEMMA UnlinkOK ==
    ASSUME NEW n, NEW s, NEW q, NEW sl, NEW m, NEW h, NEW t, Strung(n, s, q, sl, m, h, t),
           NEW j \in 1..n, NEW p, NEW x, p = Node(s, n, j - 1), x = Node(s, n, j + 1),
           NEW sl2, Unlinked(sl, sl2, s[j], p, x),
           NEW h2, h2 = IF p = Nil THEN x ELSE h, NEW t2, t2 = IF x = Nil THEN p ELSE t
    PROVE  Strung(n - 1, Cut(s, n, j), Cut(q, n, j), sl2, Drop(m, q[j]), h2, t2)
  <1>1. /\ n \in Nat /\ s \in [1..n -> Sids] /\ q \in [1..n -> Keys] /\ Nil \notin Sids
        /\ DOMAIN sl = {s[i] : i \in 1..n} /\ DOMAIN m = {q[i] : i \in 1..n}
        /\ \A i \in 1..n : sl[s[i]] = [key  |-> q[i], next |-> Node(s, n, i + 1),
                                       prev |-> Node(s, n, i - 1)]
        /\ \A i \in 1..n : m[q[i]] = s[i]
        /\ h = Node(s, n, 1) /\ t = Node(s, n, n)
    BY ListAssumption DEF Strung
  <1>2. \A i, l \in 1..n : s[i] = s[l] => i = l  BY DEF Strung
  <1>3. PICK z : z = n - 1  OBVIOUS
  <1>4. PICK s2 : s2 = Cut(s, n, j)  OBVIOUS
  <1>5. PICK q2 : q2 = Cut(q, n, j)  OBVIOUS
  <1>6. PICK m2 : m2 = Drop(m, q[j])  OBVIOUS
  <1>7. z \in Nat /\ z + 1 = n  BY <1>1, <1>3
  <1>8. /\ s2 = [i \in 1..z |-> IF i < j THEN s[i] ELSE s[i + 1]]
        /\ q2 = [i \in 1..z |-> IF i < j THEN q[i] ELSE q[i + 1]]
    BY <1>3, <1>4, <1>5 DEF Cut
  <1>9. \A i \in 1..z : /\ i < j => i \in 1..n /\ s2[i] = s[i] /\ q2[i] = q[i]
                        /\ i >= j => i + 1 \in 1..n /\ s2[i] = s[i + 1] /\ q2[i] = q[i + 1]
    BY <1>7, <1>8
  <1>10. \A i \in 1..z : i < j \/ i >= j  BY <1>7
  <1>11. s2 \in [1..z -> Sids] /\ q2 \in [1..z -> Keys]
    BY <1>1, <1>8, <1>9, <1>10
  <1>12. \A i \in 1..n : /\ i < j => i \in 1..z /\ s2[i] = s[i] /\ q2[i] = q[i]
                         /\ i > j => i - 1 \in 1..z /\ s2[i - 1] = s[i] /\ q2[i - 1] = q[i]
    BY <1>1, <1>7, <1>8
  <1>13. \A i \in 1..n : /\ s[i] = s[j] => i = j
                         /\ q[i] = q[j] => i = j
    BY <1>1, <1>2
  <1>14. \A i, l \in 1..z : s2[i] = s2[l] => i = l
    <2>. SUFFICES ASSUME NEW i \in 1..z, NEW l \in 1..z, s2[i] = s2[l] PROVE i = l  OBVIOUS
    <2>1. CASE i < j /\ l < j  BY <1>2, <1>9, <2>1
    <2>2. CASE i >= j /\ l >= j
      <3>1. i + 1 = l + 1  BY <1>2, <1>9, <2>2
      <3>. QED  BY <1>7, <3>1
    <2>3. CASE i < j /\ l >= j
      <3>1. i = l + 1  BY <1>2, <1>9, <2>3
      <3>. QED  BY <1>7, <2>3, <3>1
    <2>4. CASE i >= j /\ l < j
      <3>1. i + 1 = l  BY <1>2, <1>9, <2>4
      <3>. QED  BY <1>7, <2>4, <3>1
    <2>. QED  BY <1>10, <2>1, <2>2, <2>3, <2>4
  <1>15. DOMAIN sl2 = {s2[i] : i \in 1..z}
    <2>1. \A i \in 1..z : s2[i] \in DOMAIN sl /\ s2[i] # s[j]
      <3>. SUFFICES ASSUME NEW i \in 1..z PROVE s2[i] \in DOMAIN sl /\ s2[i] # s[j]  OBVIOUS
      <3>1. CASE i < j  BY <1>1, <1>9, <1>13, <3>1
      <3>2. CASE i >= j
        <4>1. i + 1 # j  BY <1>7, <3>2
        <4>. QED  BY <1>1, <1>9, <1>13, <3>2, <4>1
      <3>. QED  BY <1>10, <3>1, <3>2
    <2>2. \A i \in 1..n : i < j \/ i = j \/ i > j  BY <1>1
    <2>3. \A i \in 1..n : i # j => s[i] \in {s2[l] : l \in 1..z}  BY <1>12, <2>2
    <2>4. DOMAIN sl2 = DOMAIN sl \ {s[j]}  BY DEF Unlinked
    <2>5. \A y \in DOMAIN sl2 : y \in {s2[l] : l \in 1..z}  BY <1>1, <2>3, <2>4
    <2>. QED  BY <2>1, <2>4, <2>5
  <1>16. DOMAIN m2 = {q2[i] : i \in 1..z}
    <2>1. \A i \in 1..z : q2[i] \in DOMAIN m /\ q2[i] # q[j]
      <3>. SUFFICES ASSUME NEW i \in 1..z PROVE q2[i] \in DOMAIN m /\ q2[i] # q[j]  OBVIOUS
      <3>1. CASE i < j  BY <1>1, <1>9, <1>13, <3>1
      <3>2. CASE i >= j
        <4>1. i + 1 # j  BY <1>7, <3>2
        <4>. QED  BY <1>1, <1>9, <1>13, <3>2, <4>1
      <3>. QED  BY <1>10, <3>1, <3>2
    <2>2. \A i \in 1..n : i < j \/ i = j \/ i > j  BY <1>1
    <2>3. \A i \in 1..n : i # j => q[i] \in {q2[l] : l \in 1..z}  BY <1>12, <2>2
    <2>4. DOMAIN m2 = DOMAIN m \ {q[j]}  BY <1>6 DEF Drop
    <2>5. \A y \in DOMAIN m2 : y \in {q2[l] : l \in 1..z}  BY <1>1, <2>3, <2>4
    <2>. QED  BY <2>1, <2>4, <2>5
  <1>17. \A i \in 1..z : m2[q2[i]] = s2[i]
    <2>1. \A y \in DOMAIN m2 : m2[y] = m[y]  BY <1>6 DEF Drop
    <2>2. \A i \in 1..z : m2[q2[i]] = m[q2[i]]  BY <1>16, <2>1
    <2>. QED  BY <1>1, <1>9, <1>10, <2>2
  <1>18. \A i \in 1..n : /\ (s[i] = p) <=> (i = j - 1)
                         /\ (s[i] = x) <=> (i = j + 1)
    <2>. SUFFICES ASSUME NEW i \in 1..n
                  PROVE  ((s[i] = p) <=> (i = j - 1)) /\ ((s[i] = x) <=> (i = j + 1))
      OBVIOUS
    <2>1. s[i] # Nil  BY <1>1
    <2>2. (s[i] = p) <=> (i = j - 1)
      <3>1. CASE j - 1 \in 1..n  BY <1>2, <3>1 DEF Node
      <3>2. CASE j - 1 \notin 1..n  BY <2>1, <3>2 DEF Node
      <3>. QED  BY <3>1, <3>2
    <2>3. (s[i] = x) <=> (i = j + 1)
      <3>1. CASE j + 1 \in 1..n  BY <1>2, <3>1 DEF Node
      <3>2. CASE j + 1 \notin 1..n  BY <2>1, <3>2 DEF Node
      <3>. QED  BY <3>1, <3>2
    <2>. QED  BY <2>2, <2>3
  <1>19. \A i \in 1..n : i # j =>
            sl2[s[i]] = [key  |-> q[i],
                         next |-> IF i = j - 1 THEN x ELSE Node(s, n, i + 1),
                         prev |-> IF i = j + 1 THEN p ELSE Node(s, n, i - 1)]
    <2>. SUFFICES ASSUME NEW i \in 1..n, i # j
                  PROVE  sl2[s[i]] = [key  |-> q[i],
                                      next |-> IF i = j - 1 THEN x ELSE Node(s, n, i + 1),
                                      prev |-> IF i = j + 1 THEN p ELSE Node(s, n, i - 1)]
      OBVIOUS
    <2>1. PICK y : y = s[i]  OBVIOUS
    <2>2. y \in DOMAIN sl2  BY <1>1, <1>13, <2>1 DEF Unlinked
    <2>3. sl2[y] = [key |-> sl[y].key, next |-> IF y = p THEN x ELSE sl[y].next,
                                       prev |-> IF y = x THEN p ELSE sl[y].prev]
      BY <2>2 DEF Unlinked
    <2>4. sl[y] = [key |-> q[i], next |-> Node(s, n, i + 1), prev |-> Node(s, n, i - 1)]
      BY <1>1, <2>1
    <2>5. sl[y].key = q[i] /\ sl[y].next = Node(s, n, i + 1) /\ sl[y].prev = Node(s, n, i - 1)
      BY <2>4
    <2>6. ((y = p) <=> (i = j - 1)) /\ ((y = x) <=> (i = j + 1))  BY <1>18, <2>1
    <2>. QED  BY <2>1, <2>3, <2>5, <2>6
  <1>20. \A i \in 1..z : sl2[s2[i]] = [key  |-> q2[i], next |-> Node(s2, z, i + 1),
                                       prev |-> Node(s2, z, i - 1)]
    <2>. SUFFICES ASSUME NEW i \in 1..z
                  PROVE  sl2[s2[i]] = [key  |-> q2[i], next |-> Node(s2, z, i + 1),
                                       prev |-> Node(s2, z, i - 1)]
      OBVIOUS
    <2>1. CASE i < j
      <3>1. i \in 1..n /\ s2[i] = s[i] /\ q2[i] = q[i] /\ i # j /\ i # j + 1  BY <1>7, <1>9, <2>1
      <3>2. Node(s2, z, i - 1) = Node(s, n, i - 1)
        <4>1. (i - 1 \in 1..z) <=> (i - 1 \in 1..n)  BY <1>7, <3>1
        <4>2. i - 1 \in 1..z => s2[i - 1] = s[i - 1]  BY <1>7, <1>9, <2>1
        <4>. QED  BY <4>1, <4>2 DEF Node
      <3>3. Node(s2, z, i + 1) = IF i = j - 1 THEN x ELSE Node(s, n, i + 1)
        <4>1. CASE i = j - 1
          <5>1. i + 1 = j /\ ((j \in 1..z) <=> (j + 1 \in 1..n)) /\ j >= j  BY <1>7, <4>1
          <5>2. j \in 1..z => s2[j] = s[j + 1]  BY <1>9, <5>1
          <5>3. Node(s2, z, j) = x  BY <5>1, <5>2 DEF Node
          <5>. QED  BY <4>1, <5>1, <5>3
        <4>2. CASE i # j - 1
          <5>1. i + 1 < j /\ i + 1 \in 1..z /\ i + 1 \in 1..n  BY <1>7, <2>1, <4>2
          <5>2. s2[i + 1] = s[i + 1]  BY <1>9, <5>1
          <5>. QED  BY <4>2, <5>1, <5>2 DEF Node
        <4>. QED  BY <4>1, <4>2
      <3>. QED  BY <1>19, <3>1, <3>2, <3>3
    <2>2. CASE i >= j
      <3>1. PICK l : l = i + 1  OBVIOUS
      <3>2. l \in 1..n /\ s2[i] = s[l] /\ q2[i] = q[l] /\ l # j /\ l # j - 1 /\ l - 1 = i
        BY <1>7, <1>9, <2>2, <3>1
      <3>3. Node(s2, z, i - 1) = IF l = j + 1 THEN p ELSE Node(s, n, l - 1)
        <4>1. CASE l = j + 1
          <5>1. i = j /\ ((j - 1 \in 1..z) <=> (j - 1 \in 1..n)) /\ j - 1 < j  BY <1>7, <3>1, <4>1
          <5>2. j - 1 \in 1..z => s2[j - 1] = s[j - 1]  BY <1>9, <5>1
          <5>3. Node(s2, z, j - 1) = p  BY <5>1, <5>2 DEF Node
          <5>. QED  BY <4>1, <5>1, <5>3
        <4>2. CASE l # j + 1
          <5>1. i - 1 >= j /\ i - 1 \in 1..z /\ i \in 1..n /\ (i - 1) + 1 = i
            BY <1>7, <2>2, <3>1, <4>2
          <5>2. s2[i - 1] = s[i]  BY <1>9, <5>1
          <5>. QED  BY <3>2, <4>2, <5>1, <5>2 DEF Node
        <4>. QED  BY <4>1, <4>2
      <3>4. Node(s2, z, i + 1) = Node(s, n, l + 1)
        <4>1. (l \in 1..z) <=> (l + 1 \in 1..n)  BY <1>7, <3>2
        <4>2. l >= j  BY <1>7, <2>2, <3>1
        <4>3. l \in 1..z => s2[l] = s[l + 1]  BY <1>9, <4>2
        <4>. QED  BY <3>1, <4>1, <4>3 DEF Node
      <3>. QED  BY <1>19, <3>2, <3>3, <3>4
    <2>. QED  BY <1>10, <2>1, <2>2
  <1>21. h2 = Node(s2, z, 1)
    <2>1. CASE j = 1
      <3>1. p = Nil  BY <2>1 DEF Node
      <3>2. ((1 \in 1..z) <=> (2 \in 1..n)) /\ j + 1 = 2 /\ 1 >= j  BY <1>7, <2>1
      <3>3. 1 \in 1..z => s2[1] = s[2]  BY <1>9, <3>2
      <3>. QED  BY <3>1, <3>2, <3>3 DEF Node
    <2>2. CASE j # 1
      <3>1. j - 1 \in 1..n /\ 1 < j /\ 1 \in 1..n /\ 1 \in 1..z  BY <1>7, <2>2
      <3>2. p # Nil  BY <1>1, <3>1 DEF Node
      <3>3. s2[1] = s[1]  BY <1>9, <3>1
      <3>. QED  BY <1>1, <3>1, <3>2, <3>3 DEF Node
    <2>. QED  BY <2>1, <2>2
  <1>22. t2 = Node(s2, z, z)
    <2>1. CASE j = n
      <3>1. x = Nil  BY <1>1, <2>1 DEF Node
      <3>2. j - 1 = z /\ ((z \in 1..z) <=> (z \in 1..n)) /\ z < j  BY <1>7, <2>1
      <3>3. z \in 1..z => s2[z] = s[z]  BY <1>9, <3>2
      <3>. QED  BY <3>1, <3>2, <3>3 DEF Node
    <2>2. CASE j # n
      <3>1. j + 1 \in 1..n /\ z >= j /\ z \in 1..z /\ n \in 1..n  BY <1>7, <2>2
      <3>2. x # Nil  BY <1>1, <3>1 DEF Node
      <3>3. s2[z] = s[n]  BY <1>7, <1>9, <3>1
      <3>. QED  BY <1>1, <3>1, <3>2, <3>3 DEF Node
    <2>. QED  BY <2>1, <2>2
  <1>23. Strung(z, s2, q2, sl2, m2, h2, t2)
    BY <1>7, <1>11, <1>14, <1>15, <1>16, <1>17, <1>20, <1>21, <1>22 DEF Strung
  <1>. QED  BY <1>3, <1>4, <1>5, <1>6, <1>23

\* Every node of the slab has the three fields.
Nodes(sl) ==
    /\ Nil \notin DOMAIN sl
    /\ \A y \in DOMAIN sl : sl[y] = [key |-> sl[y].key, next |-> sl[y].next, prev |-> sl[y].prev]

\* The links of a line lead to nodes of the slab.
LEMMA StrungNodes ==
    ASSUME NEW n, NEW s, NEW q, NEW sl, NEW m, NEW h, NEW t, Strung(n, s, q, sl, m, h, t)
    PROVE  Nodes(sl)
  <1>1. Nil \notin DOMAIN sl  BY ListAssumption DEF Strung
  <1>2. ASSUME NEW y \in DOMAIN sl
        PROVE  sl[y] = [key |-> sl[y].key, next |-> sl[y].next, prev |-> sl[y].prev]
    <2>1. PICK i \in 1..n : y = s[i]  BY DEF Strung
    <2>2. sl[y] = [key |-> q[i], next |-> Node(s, n, i + 1), prev |-> Node(s, n, i - 1)]
      BY <2>1 DEF Strung
    <2>. QED  BY <2>2
  <1>. QED  BY <1>1, <1>2 DEF Nodes

\* What push_back and insert_before do to the slab.
LEMMA SlabLinked ==
    ASSUME NEW sl, Nodes(sl), NEW sid, sid \notin DOMAIN sl, NEW k, NEW p, NEW x,
           NEW a, a = IF x = Nil THEN sl ELSE [sl EXCEPT ![x].prev = sid],
           NEW b, b = IF p = Nil THEN a ELSE [a EXCEPT ![p].next = sid],
           NEW sl2, sl2 = Insert(b, sid, [key |-> k, next |-> x, prev |-> p])
    PROVE  Linked(sl, sl2, sid, k, p, x)
  <1>2. DOMAIN a = DOMAIN sl /\ DOMAIN b = DOMAIN sl  OBVIOUS
  <1>3. /\ DOMAIN sl2 = DOMAIN sl \union {sid} /\ sl2[sid] = [key |-> k, next |-> x, prev |-> p]
        /\ \A y \in DOMAIN sl : sl2[y] = b[y]
    BY <1>2 DEF Insert
  <1>4. ASSUME NEW y \in DOMAIN sl
        PROVE  sl2[y] = [key |-> sl[y].key, next |-> IF y = p THEN sid ELSE sl[y].next,
                                            prev |-> IF y = x THEN sid ELSE sl[y].prev]
    <2>1. PICK c, d, e : c = sl[y].key /\ d = sl[y].next /\ e = sl[y].prev  OBVIOUS
    <2>2. sl[y] = [key |-> c, next |-> d, prev |-> e] /\ y # Nil  BY <2>1 DEF Nodes
    <2>3. a[y] = [key |-> c, next |-> d, prev |-> IF y = x THEN sid ELSE e]
      <3>1. CASE x = Nil  BY <2>2, <3>1
      <3>2. CASE x # Nil /\ y = x  BY <2>2, <3>2
      <3>3. CASE x # Nil /\ y # x  BY <2>2, <3>3
      <3>. QED  BY <3>1, <3>2, <3>3
    <2>4. b[y] = [key |-> c, next |-> IF y = p THEN sid ELSE d, prev |-> IF y = x THEN sid ELSE e]
      <3>1. CASE p = Nil  BY <2>2, <2>3, <3>1
      <3>2. CASE p # Nil /\ y = p  BY <1>2, <2>3, <3>2
      <3>3. CASE p # Nil /\ y # p  BY <1>2, <2>3, <3>3
      <3>. QED  BY <3>1, <3>2, <3>3
    <2>. QED  BY <1>3, <2>1, <2>4
  <1>. QED  BY <1>3, <1>4 DEF Linked

\* What remove_front and remove_node do to it.
LEMMA SlabUnlinked ==
    ASSUME NEW sl, Nodes(sl), NEW sid, NEW p, NEW x,
           NEW a, a = IF p = Nil THEN Drop(sl, sid) ELSE [Drop(sl, sid) EXCEPT ![p].next = x],
           NEW b, b = IF x = Nil THEN a ELSE [a EXCEPT ![x].prev = p]
    PROVE  Unlinked(sl, b, sid, p, x)
  <1>1. PICK r : r = Drop(sl, sid)  OBVIOUS
  <1>2. DOMAIN r = DOMAIN sl \ {sid} /\ \A y \in DOMAIN r : r[y] = sl[y]  BY <1>1 DEF Drop
  <1>3. a = IF p = Nil THEN r ELSE [r EXCEPT ![p].next = x]  BY <1>1
  <1>4. DOMAIN a = DOMAIN r /\ DOMAIN b = DOMAIN r  BY <1>3
  <1>5. ASSUME NEW y \in DOMAIN b
        PROVE  b[y] = [key |-> sl[y].key, next |-> IF y = p THEN x ELSE sl[y].next,
                                          prev |-> IF y = x THEN p ELSE sl[y].prev]
    <2>1. PICK c, d, e : c = sl[y].key /\ d = sl[y].next /\ e = sl[y].prev  OBVIOUS
    <2>2. y \in DOMAIN r /\ r[y] = [key |-> c, next |-> d, prev |-> e] /\ y # Nil
      BY <1>2, <1>4, <2>1 DEF Nodes
    <2>3. a[y] = [key |-> c, next |-> IF y = p THEN x ELSE d, prev |-> e]
      <3>1. CASE p = Nil  BY <1>3, <2>2, <3>1
      <3>2. CASE p # Nil /\ y = p
        <4>1. a = [r EXCEPT ![y].next = x]  BY <1>3, <3>2
        <4>2. a[y] = [r[y] EXCEPT !.next = x]  BY <2>2, <4>1
        <4>. QED  BY <2>2, <3>2, <4>2
      <3>3. CASE p # Nil /\ y # p  BY <1>3, <2>2, <3>3
      <3>. QED  BY <3>1, <3>2, <3>3
    <2>4. b[y] = [key |-> c, next |-> IF y = p THEN x ELSE d, prev |-> IF y = x THEN p ELSE e]
      <3>1. CASE x = Nil  BY <2>2, <2>3, <3>1
      <3>2. CASE x # Nil /\ y = x  BY <1>4, <2>2, <2>3, <3>2
      <3>3. CASE x # Nil /\ y # x  BY <1>4, <2>2, <2>3, <3>3
      <3>. QED  BY <3>1, <3>2, <3>3
    <2>. QED  BY <2>1, <2>4
  <1>. QED  BY <1>2, <1>4, <1>5 DEF Unlinked

-----------------------------------------------------------------------------
(* The operations *)

ListNow(n, s, q)  == Strung(n, s, q, slab, key_to_sid, head, tail)
ListNext(n, s, q) == Strung(n, s, q, slab', key_to_sid', head', tail')

\* What an operation does to the keys in line.
Refused(n, s, q) == result' = FALSE /\ ListNext(n, s, q)
Added(n, q, j, k) ==
    /\ result' = TRUE /\ j \in 1..(n + 1) /\ (\A i \in 1..n : q[i] # k)
    /\ \E s2 : ListNext(n + 1, s2, Spliced(q, n, j, k))
Removed(n, q, j) ==
    /\ result' = TRUE /\ j \in 1..n
    /\ \E s2 : ListNext(n - 1, s2, Cut(q, n, j))

\* A refused operation leaves the line.
LEMMA RefuseDone ==
    ASSUME NEW n, NEW s, NEW q, ListNow(n, s, q), Refuse
    PROVE  Refused(n, s, q)
  BY DEF Refuse, Refused, ListNow, ListNext

\* A key that the map knows is in line, and no other.
LEMMA KeyPlace ==
    ASSUME NEW n, NEW s, NEW q, ListNow(n, s, q), NEW k
    PROVE  /\ k \in DOMAIN key_to_sid => \E j \in 1..n : q[j] = k /\ key_to_sid[k] = s[j]
           /\ k \notin DOMAIN key_to_sid => \A j \in 1..n : q[j] # k
  BY DEF ListNow, Strung

\* push_back refuses a key that is in line and adds any other at the end.
LEMMA PushBackDone ==
    ASSUME NEW n, NEW s, NEW q, ListNow(n, s, q), NEW k \in Keys, push_back(k)
    PROVE  \/ Refused(n, s, q) /\ \E j \in 1..n : q[j] = k
           \/ Added(n, q, n + 1, k)
  <1>1. CASE k \in DOMAIN key_to_sid /\ Refuse  BY <1>1, RefuseDone, KeyPlace
  <1>2. CASE k \notin DOMAIN key_to_sid /\ ~Refuse
    <2>1. PICK sid \in Vacant :
             /\ key_to_sid' = Insert(key_to_sid, k, sid)
             /\ IF tail = Nil
                THEN slab' = Insert(slab, sid, [key |-> k, next |-> Nil, prev |-> tail]) /\ head' = sid
                ELSE /\ slab' = Insert([slab EXCEPT ![tail].next = sid], sid,
                                      [key |-> k, next |-> Nil, prev |-> tail])
                     /\ head' = head
             /\ tail' = sid
      BY <1>2 DEF push_back
    <2>2. result' = TRUE  BY <1>2 DEF push_back
    <2>3. Strung(n, s, q, slab, key_to_sid, head, tail) /\ n \in Nat  BY DEF ListNow, Strung
    <2>4. PICK j : j = n + 1  OBVIOUS
    <2>5. PICK p : p = tail  OBVIOUS
    <2>6. PICK x : x = Nil  OBVIOUS
    <2>7. p = Node(s, n, j - 1) /\ x = Node(s, n, j) /\ j \in 1..(n + 1)
      <3>1. j - 1 = n /\ j \notin 1..n /\ j \in 1..(n + 1)  BY <2>3, <2>4
      <3>2. tail = Node(s, n, n)  BY <2>3 DEF Strung
      <3>. QED  BY <2>5, <2>6, <3>1, <3>2 DEF Node
    <2>8. sid \in Sids /\ sid \notin DOMAIN slab  BY DEF Vacant
    <2>9. PICK a : a = IF x = Nil THEN slab ELSE [slab EXCEPT ![x].prev = sid]  OBVIOUS
    <2>10. PICK b : b = IF p = Nil THEN a ELSE [a EXCEPT ![p].next = sid]  OBVIOUS
    <2>11. slab' = Insert(b, sid, [key |-> k, next |-> x, prev |-> p])
      <3>1. a = slab  BY <2>6, <2>9
      <3>2. CASE tail = Nil  BY <2>1, <2>5, <2>6, <2>10, <3>1, <3>2
      <3>3. CASE tail # Nil  BY <2>1, <2>5, <2>6, <2>10, <3>1, <3>3
      <3>. QED  BY <3>2, <3>3
    <2>12. Linked(slab, slab', sid, k, p, x)
      <3>1. Nodes(slab)  BY <2>3, StrungNodes
      <3>2. PICK sl2 : sl2 = slab'  OBVIOUS
      <3>3. sl2 = Insert(b, sid, [key |-> k, next |-> x, prev |-> p])  BY <2>11, <3>2
      <3>4. Linked(slab, sl2, sid, k, p, x)  BY <2>8, <2>9, <2>10, <3>1, <3>3, SlabLinked
      <3>. QED  BY <3>2, <3>4
    <2>13. head' = (IF p = Nil THEN sid ELSE head) /\ tail' = (IF x = Nil THEN sid ELSE tail)
      BY <2>1, <2>5, <2>6
    <2>14. PICK sl2, h2, t2 : sl2 = slab' /\ h2 = head' /\ t2 = tail'  OBVIOUS
    <2>15. Strung(n + 1, Spliced(s, n, j, sid), Spliced(q, n, j, k), sl2, Insert(key_to_sid, k, sid), h2, t2)
      BY <1>2, <2>3, <2>7, <2>8, <2>12, <2>13, <2>14, LinkOK
    <2>16. ListNext(n + 1, Spliced(s, n, j, sid), Spliced(q, n, j, k))
      BY <2>1, <2>14, <2>15 DEF ListNext
    <2>17. \A i \in 1..n : q[i] # k  BY <1>2, KeyPlace
    <2>. QED  BY <2>2, <2>4, <2>7, <2>16, <2>17 DEF Added
  <1>. QED  BY <1>1, <1>2 DEF push_back, Refuse

\* insert_before refuses a key that is in line, and a place that is not there.
LEMMA InsertBeforeDone ==
    ASSUME NEW n, NEW s, NEW q, ListNow(n, s, q), NEW before \in Keys, NEW k \in Keys,
           insert_before(before, k)
    PROVE  \/ /\ Refused(n, s, q)
              /\ (\E j \in 1..n : q[j] = k) \/ (\A j \in 1..n : q[j] # before)
           \/ \E j \in 1..n : q[j] = before /\ Added(n, q, j, k)
  <1>1. CASE (k \in DOMAIN key_to_sid \/ before \notin DOMAIN key_to_sid) /\ Refuse
    <2>1. Refused(n, s, q)  BY <1>1, RefuseDone
    <2>2. (\E j \in 1..n : q[j] = k) \/ (\A j \in 1..n : q[j] # before)  BY <1>1, KeyPlace
    <2>. QED  BY <2>1, <2>2
  <1>2. CASE k \notin DOMAIN key_to_sid /\ before \in DOMAIN key_to_sid /\ ~Refuse
    <2>1. PICK j \in 1..n : q[j] = before /\ key_to_sid[before] = s[j]  BY <1>2, KeyPlace
    <2>2. Strung(n, s, q, slab, key_to_sid, head, tail) /\ n \in Nat  BY DEF ListNow, Strung
    <2>3. PICK x : x = s[j]  OBVIOUS
    <2>4. PICK p : p = Node(s, n, j - 1)  OBVIOUS
    <2>5. slab[x].prev = p /\ x # Nil /\ x = Node(s, n, j) /\ j \in 1..(n + 1)
      <3>1. slab[s[j]] = [key |-> q[j], next |-> Node(s, n, j + 1), prev |-> Node(s, n, j - 1)]
        BY <2>1, <2>2 DEF Strung
      <3>2. s[j] \in Sids  BY <2>1, <2>2 DEF Strung
      <3>. QED  BY <2>1, <2>2, <2>3, <2>4, <3>1, <3>2, ListAssumption DEF Node
    <2>6. PICK sid \in Vacant :
             /\ key_to_sid' = Insert(key_to_sid, k, sid)
             /\ slab' = Insert(IF p = Nil THEN [slab EXCEPT ![x].prev = sid]
                              ELSE [[slab EXCEPT ![x].prev = sid] EXCEPT ![p].next = sid],
                              sid, [key |-> k, next |-> x, prev |-> p])
             /\ head' = IF p = Nil THEN sid ELSE head
      BY <1>2, <2>1, <2>3, <2>5 DEF insert_before
    <2>7. result' = TRUE /\ tail' = tail  BY <1>2 DEF insert_before
    <2>8. sid \in Sids /\ sid \notin DOMAIN slab  BY DEF Vacant
    <2>9. PICK a : a = IF x = Nil THEN slab ELSE [slab EXCEPT ![x].prev = sid]  OBVIOUS
    <2>10. PICK b : b = IF p = Nil THEN a ELSE [a EXCEPT ![p].next = sid]  OBVIOUS
    <2>11. slab' = Insert(b, sid, [key |-> k, next |-> x, prev |-> p])
      <3>1. a = [slab EXCEPT ![x].prev = sid]  BY <2>5, <2>9
      <3>. QED  BY <2>6, <2>10, <3>1
    <2>12. Linked(slab, slab', sid, k, p, x)
      <3>1. Nodes(slab)  BY <2>2, StrungNodes
      <3>2. PICK sl2 : sl2 = slab'  OBVIOUS
      <3>3. sl2 = Insert(b, sid, [key |-> k, next |-> x, prev |-> p])  BY <2>11, <3>2
      <3>4. Linked(slab, sl2, sid, k, p, x)  BY <2>8, <2>9, <2>10, <3>1, <3>3, SlabLinked
      <3>. QED  BY <3>2, <3>4
    <2>13. head' = (IF p = Nil THEN sid ELSE head) /\ tail' = (IF x = Nil THEN sid ELSE tail)
      BY <2>5, <2>6, <2>7
    <2>14. PICK sl2, h2, t2 : sl2 = slab' /\ h2 = head' /\ t2 = tail'  OBVIOUS
    <2>15. Strung(n + 1, Spliced(s, n, j, sid), Spliced(q, n, j, k), sl2, Insert(key_to_sid, k, sid), h2, t2)
      BY <1>2, <2>2, <2>4, <2>5, <2>8, <2>12, <2>13, <2>14, LinkOK
    <2>16. ListNext(n + 1, Spliced(s, n, j, sid), Spliced(q, n, j, k))
      BY <2>6, <2>14, <2>15 DEF ListNext
    <2>17. \A i \in 1..n : q[i] # k  BY <1>2, KeyPlace
    <2>18. Added(n, q, j, k)  BY <2>5, <2>7, <2>16, <2>17 DEF Added
    <2>. QED  BY <2>1, <2>18
  <1>. QED  BY <1>1, <1>2 DEF insert_before, Refuse

\* The step unlinks the node at place j, whose neighbours are p and x; a is the
\* slab between the two writes.
Unlinks(n, s, q, j, p, x, a) ==
    /\ j \in 1..n /\ p = Node(s, n, j - 1) /\ x = Node(s, n, j + 1)
    /\ a = IF p = Nil THEN Drop(slab, s[j]) ELSE [Drop(slab, s[j]) EXCEPT ![p].next = x]
    /\ slab' = IF x = Nil THEN a ELSE [a EXCEPT ![x].prev = p]
    /\ key_to_sid' = Drop(key_to_sid, q[j]) /\ result' = TRUE
    /\ head' = IF p = Nil THEN x ELSE head
    /\ tail' = IF x = Nil THEN p ELSE tail

\* The node at place j leaves.
LEMMA TakenOut ==
    ASSUME NEW n, NEW s, NEW q, ListNow(n, s, q),
           NEW j, NEW p, NEW x, NEW a, Unlinks(n, s, q, j, p, x, a)
    PROVE  Removed(n, q, j)
  <1>. USE DEF Unlinks
  <1>1. Strung(n, s, q, slab, key_to_sid, head, tail)  BY DEF ListNow
  <1>2. Nodes(slab)  BY <1>1, StrungNodes
  <1>3. PICK sid : sid = s[j]  OBVIOUS
  <1>4. PICK sl2, h2, t2 : sl2 = slab' /\ h2 = head' /\ t2 = tail'  OBVIOUS
  <1>5. a = IF p = Nil THEN Drop(slab, sid) ELSE [Drop(slab, sid) EXCEPT ![p].next = x]  BY <1>3
  <1>6. sl2 = IF x = Nil THEN a ELSE [a EXCEPT ![x].prev = p]  BY <1>4
  <1>7. Unlinked(slab, sl2, sid, p, x)  BY <1>2, <1>5, <1>6, SlabUnlinked
  <1>8. Unlinked(slab, sl2, s[j], p, x)  BY <1>3, <1>7
  <1>9. h2 = (IF p = Nil THEN x ELSE head) /\ t2 = (IF x = Nil THEN p ELSE tail)  BY <1>4
  <1>10. Strung(n - 1, Cut(s, n, j), Cut(q, n, j), sl2, Drop(key_to_sid, q[j]), h2, t2)
    BY <1>1, <1>8, <1>9, UnlinkOK
  <1>11. ListNext(n - 1, Cut(s, n, j), Cut(q, n, j))  BY <1>4, <1>10 DEF ListNext
  <1>. QED  BY <1>11 DEF Removed

\* remove_node takes the key out of the line, if it is there.
LEMMA RemoveNodeDone ==
    ASSUME NEW n, NEW s, NEW q, ListNow(n, s, q), NEW k \in Keys, remove_node(k)
    PROVE  \/ Refused(n, s, q) /\ \A j \in 1..n : q[j] # k
           \/ \E j \in 1..n : q[j] = k /\ Removed(n, q, j)
  <1>1. CASE k \notin DOMAIN key_to_sid /\ Refuse  BY <1>1, RefuseDone, KeyPlace
  <1>2. CASE k \in DOMAIN key_to_sid /\ ~Refuse
    <2>1. PICK j \in 1..n : q[j] = k /\ key_to_sid[k] = s[j]  BY <1>2, KeyPlace
    <2>2. PICK p : p = Node(s, n, j - 1)  OBVIOUS
    <2>3. PICK x : x = Node(s, n, j + 1)  OBVIOUS
    <2>4. PICK a : a = IF p = Nil THEN Drop(slab, s[j]) ELSE [Drop(slab, s[j]) EXCEPT ![p].next = x]
      OBVIOUS
    <2>5. slab[s[j]].prev = p /\ slab[s[j]].next = x
      <3>1. slab[s[j]] = [key |-> q[j], next |-> Node(s, n, j + 1), prev |-> Node(s, n, j - 1)]
        BY <2>1 DEF ListNow, Strung
      <3>. QED  BY <2>2, <2>3, <3>1
    <2>6. /\ slab' = IF x = Nil THEN a ELSE [a EXCEPT ![x].prev = p]
          /\ key_to_sid' = Drop(key_to_sid, q[j]) /\ result' = TRUE
          /\ head' = IF p = Nil THEN x ELSE head
          /\ tail' = IF x = Nil THEN p ELSE tail
      BY <1>2, <2>1, <2>4, <2>5 DEF remove_node
    <2>7. Unlinks(n, s, q, j, p, x, a)  BY <2>1, <2>2, <2>3, <2>4, <2>6 DEF Unlinks
    <2>8. Removed(n, q, j)  BY <2>7, TakenOut
    <2>. QED  BY <2>1, <2>8
  <1>. QED  BY <1>1, <1>2 DEF remove_node, Refuse

\* remove_front takes the first key out of the line, if there is one.
LEMMA RemoveFrontDone ==
    ASSUME NEW n, NEW s, NEW q, ListNow(n, s, q), remove_front
    PROVE  \/ Refused(n, s, q) /\ n = 0
           \/ Removed(n, q, 1)
  <1>1. head = Node(s, n, 1) /\ tail = Node(s, n, n) /\ n \in Nat /\ s \in [1..n -> Sids]
        /\ \A i, j \in 1..n : s[i] = s[j] => i = j
    BY DEF ListNow, Strung
  <1>2. Nil \notin Sids  BY ListAssumption
  <1>3. CASE n = 0
    <2>1. head = Nil  BY <1>1, <1>3 DEF Node
    <2>2. Refuse  BY <2>1 DEF remove_front
    <2>. QED  BY <1>3, <2>2, RefuseDone
  <1>4. CASE n # 0
    <2>1. PICK j : j = 1  OBVIOUS
    <2>2. j \in 1..n /\ j - 1 = 0 /\ j + 1 = 2 /\ 0 \notin 1..n  BY <1>1, <1>4, <2>1
    <2>3. head = s[j] /\ head # Nil  BY <1>1, <1>2, <2>1, <2>2 DEF Node
    <2>4. PICK p : p = Nil  OBVIOUS
    <2>5. PICK x : x = Node(s, n, j + 1)  OBVIOUS
    <2>6. p = Node(s, n, j - 1)  BY <2>2, <2>4 DEF Node
    <2>7. PICK a : a = IF p = Nil THEN Drop(slab, s[j]) ELSE [Drop(slab, s[j]) EXCEPT ![p].next = x]
      OBVIOUS
    <2>8. slab[s[j]].next = x /\ slab[s[j]].key = q[j]
      <3>1. slab[s[j]] = [key |-> q[j], next |-> Node(s, n, j + 1), prev |-> Node(s, n, j - 1)]
        BY <2>2 DEF ListNow, Strung
      <3>. QED  BY <2>5, <3>1
    <2>9. a = Drop(slab, head)  BY <2>3, <2>4, <2>7
    <2>10. /\ slab' = IF x = Nil THEN a ELSE [a EXCEPT ![x].prev = p]
           /\ key_to_sid' = Drop(key_to_sid, q[j]) /\ result' = TRUE
           /\ head' = IF p = Nil THEN x ELSE head
           /\ tail' = IF x = Nil THEN p ELSE tail
      BY <2>3, <2>4, <2>8, <2>9 DEF remove_front
    <2>11. Unlinks(n, s, q, j, p, x, a)  BY <2>2, <2>5, <2>6, <2>7, <2>10 DEF Unlinks
    <2>12. Removed(n, q, j)  BY <2>11, TakenOut
    <2>. QED  BY <2>1, <2>12
  <1>. QED  BY <1>3, <1>4

\* Every operation does one of these things to the keys in line.
ListStep(n, s, q) ==
    \/ /\ Refused(n, s, q)
       /\ \/ \E k \in Keys : \E j \in 1..n : q[j] = k
          \/ \E k \in Keys : \A j \in 1..n : q[j] # k
          \/ n = 0
    \/ \E k \in Keys : Added(n, q, n + 1, k)
    \/ \E k \in Keys : \E j \in 1..n : Added(n, q, j, k)
    \/ \E j \in 1..n : Removed(n, q, j)

\* What the operations do to the line, taken together.
LEMMA ListSteps ==
    ASSUME NEW n, NEW s, NEW q, ListNow(n, s, q), LNext
    PROVE  ListStep(n, s, q)
  <1>0. q \in [1..n -> Keys] /\ n \in Nat  BY DEF ListNow, Strung
  <1>1. CASE \E k \in Keys : push_back(k)
    <2>1. PICK k \in Keys : push_back(k)  BY <1>1
    <2>2. \/ Refused(n, s, q) /\ \E j \in 1..n : q[j] = k
          \/ Added(n, q, n + 1, k)
      BY <2>1, PushBackDone
    <2>. QED  BY <2>2 DEF ListStep
  <1>2. CASE \E k \in Keys : remove_node(k)
    <2>1. PICK k \in Keys : remove_node(k)  BY <1>2
    <2>2. \/ Refused(n, s, q) /\ \A j \in 1..n : q[j] # k
          \/ \E j \in 1..n : q[j] = k /\ Removed(n, q, j)
      BY <2>1, RemoveNodeDone
    <2>. QED  BY <2>2 DEF ListStep
  <1>3. CASE \E b, k \in Keys : insert_before(b, k)
    <2>1. PICK b \in Keys, k \in Keys : insert_before(b, k)  BY <1>3
    <2>2. \/ /\ Refused(n, s, q)
             /\ (\E j \in 1..n : q[j] = k) \/ (\A j \in 1..n : q[j] # b)
          \/ \E j \in 1..n : q[j] = b /\ Added(n, q, j, k)
      BY <2>1, InsertBeforeDone
    <2>. QED  BY <2>2 DEF ListStep
  <1>4. CASE remove_front
    <2>1. (Refused(n, s, q) /\ n = 0) \/ Removed(n, q, 1)  BY <1>4, RemoveFrontDone
    <2>2. Removed(n, q, 1) => 1 \in 1..n  BY DEF Removed
    <2>. QED  BY <2>1, <2>2 DEF ListStep
  <1>. QED  BY <1>1, <1>2, <1>3, <1>4 DEF LNext

-----------------------------------------------------------------------------
(* The keys in line as a sequence *)

\* The line is a sequence of keys.
LEMMA LineSeq ==
    ASSUME NEW n \in Nat, NEW q \in [1..n -> Keys]
    PROVE  q \in Seq(Keys) /\ Len(q) = n /\ DOMAIN q = 1..n /\ ToSet(q) = {q[i] : i \in 1..n}
  <1>1. q \in Seq(Keys) /\ Len(q) = n /\ DOMAIN q = 1..n  OBVIOUS
  <1>. QED  BY <1>1 DEF ToSet

\* Append adds at the place behind the last.
LEMMA AppendSpliced ==
    ASSUME NEW n \in Nat, NEW q \in [1..n -> Keys], NEW k \in Keys
    PROVE  Append(q, k) = Spliced(q, n, n + 1, k)
  <1>1. q \in Seq(Keys) /\ Len(q) = n  BY LineSeq
  <1>2. PICK z : z = n + 1  OBVIOUS
  <1>3. PICK a : a = Append(q, k)  OBVIOUS
  <1>4. a \in Seq(Keys) /\ Len(a) = z /\ (\A i \in 1..n : a[i] = q[i]) /\ a[z] = k
    BY <1>1, <1>2, <1>3
  <1>5. a = [i \in 1..z |-> a[i]]  BY <1>4
  <1>6. \A i \in 1..z : (i < z => i \in 1..n) /\ (i < z \/ i = z)  BY <1>2
  <1>7. \A i \in 1..z : a[i] = IF i < z THEN q[i] ELSE IF i = z THEN k ELSE q[i - 1]
    BY <1>4, <1>6
  <1>8. a = [i \in 1..z |-> IF i < z THEN q[i] ELSE IF i = z THEN k ELSE q[i - 1]]
    BY <1>5, <1>7
  <1>. QED  BY <1>2, <1>3, <1>8 DEF Spliced

\* InsertAt adds at its place.
LEMMA InsertSpliced ==
    ASSUME NEW n \in Nat, NEW q \in [1..n -> Keys], NEW j \in 1..n, NEW k \in Keys
    PROVE  InsertAt(q, j, k) = Spliced(q, n, j, k)
  <1>1. q \in Seq(Keys) /\ Len(q) = n  BY LineSeq
  <1>2. PICK z : z = n + 1  OBVIOUS
  <1>3. PICK u : u = j - 1  OBVIOUS
  <1>4. u \in Nat /\ u + 1 = j /\ z \in Nat  BY <1>2, <1>3
  <1>5. PICK a : a = SubSeq(q, 1, u)  OBVIOUS
  <1>6. PICK c : c = SubSeq(q, j, n)  OBVIOUS
  <1>7. a \in Seq(Keys) /\ Len(a) = u /\ \A i \in 1..u : a[i] = q[i]
    <2>1. \A i \in 1..u : i \in 1..n /\ 1 + i - 1 = i  BY <1>3
    <2>. QED  BY <1>1, <1>4, <1>5, <2>1, SubSeqProperties
  <1>8. c \in Seq(Keys) /\ Len(c) = n - u /\ \A i \in 1..(n - u) : c[i] = q[u + i]
    <2>1. \A i \in j..n : i \in 1..n  OBVIOUS
    <2>2. \A i \in 1..(n - u) : j + i - 1 = u + i  BY <1>4
    <2>3. n - j + 1 = n - u  BY <1>4
    <2>. QED  BY <1>1, <1>4, <1>6, <2>1, <2>2, <2>3, SubSeqProperties
  <1>9. PICK b : b = a \o <<k>>  OBVIOUS
  <1>10. b \in Seq(Keys) /\ Len(b) = j /\ (\A i \in 1..u : b[i] = q[i]) /\ b[j] = k
    <2>1. <<k>> \in Seq(Keys) /\ Len(<<k>>) = 1 /\ <<k>>[1] = k  OBVIOUS
    <2>2. b \in Seq(Keys) /\ Len(b) = u + 1 /\ (\A i \in 1..u : b[i] = a[i]) /\ b[u + 1] = k
      BY <1>4, <1>7, <1>9, <2>1
    <2>. QED  BY <1>4, <1>7, <2>2
  <1>11. PICK r : r = b \o c  OBVIOUS
  <1>12. /\ r \in Seq(Keys) /\ Len(r) = z
         /\ \A i \in 1..j : r[i] = b[i]
         /\ \A i \in 1..z : i > j => i - j \in 1..(n - u) /\ r[i] = c[i - j]
    <2>1. j + (n - u) = z /\ j \in Nat /\ n - u \in Nat  BY <1>2, <1>3
    <2>2. /\ r \in Seq(Keys) /\ Len(r) = z
          /\ \A i \in 1..z : r[i] = IF i <= j THEN b[i] ELSE c[i - j]
      <3>1. /\ b \o c \in Seq(Keys) /\ Len(b \o c) = Len(b) + Len(c)
            /\ \A i \in 1..(Len(b) + Len(c)) : (b \o c)[i] = IF i <= Len(b) THEN b[i] ELSE c[i - Len(b)]
        BY <1>8, <1>10, ConcatProperties
      <3>2. Len(b) = j /\ Len(c) = n - u /\ Len(b) + Len(c) = z  BY <1>8, <1>10, <2>1
      <3>. QED  BY <1>11, <3>1, <3>2
    <2>3. \A i \in 1..j : i \in 1..z /\ i <= j  BY <1>4, <2>1
    <2>4. \A i \in 1..z : i > j => i - j \in 1..(n - u) /\ ~(i <= j)  BY <1>4, <2>1
    <2>. QED  BY <2>2, <2>3, <2>4
  <1>13. \A i \in 1..z : r[i] = IF i < j THEN q[i] ELSE IF i = j THEN k ELSE q[i - 1]
    <2>. SUFFICES ASSUME NEW i \in 1..z
                  PROVE  r[i] = IF i < j THEN q[i] ELSE IF i = j THEN k ELSE q[i - 1]
      OBVIOUS
    <2>1. CASE i < j
      <3>1. i \in 1..u /\ i \in 1..j  BY <1>3, <1>4, <2>1
      <3>. QED  BY <1>10, <1>12, <2>1, <3>1
    <2>2. CASE i = j
      <3>1. j \in 1..j  OBVIOUS
      <3>. QED  BY <1>10, <1>12, <2>2, <3>1
    <2>3. CASE i > j
      <3>1. u + (i - j) = i - 1  BY <1>3, <1>4
      <3>. QED  BY <1>8, <1>12, <2>3, <3>1
    <2>. QED  BY <1>4, <2>1, <2>2, <2>3
  <1>14. r = [i \in 1..z |-> r[i]]  BY <1>12
  <1>15. r = [i \in 1..z |-> IF i < j THEN q[i] ELSE IF i = j THEN k ELSE q[i - 1]]
    BY <1>13, <1>14
  <1>16. InsertAt(q, j, k) = r  BY <1>1, <1>3, <1>5, <1>6, <1>9, <1>11 DEF InsertAt
  <1>. QED  BY <1>2, <1>15, <1>16 DEF Spliced

\* RemoveAt cuts its place out.
LEMMA RemoveCut ==
    ASSUME NEW n \in Nat, NEW q \in [1..n -> Keys], NEW j \in 1..n
    PROVE  RemoveAt(q, j) = Cut(q, n, j)
  <1>1. q \in Seq(Keys) /\ Len(q) = n  BY LineSeq
  <1>2. PICK z : z = n - 1  OBVIOUS
  <1>3. PICK u, v : u = j - 1 /\ v = j + 1  OBVIOUS
  <1>4. u \in Nat /\ u + 1 = j /\ z \in Nat /\ v \in Nat /\ v - 1 = j  BY <1>2, <1>3
  <1>5. PICK a : a = SubSeq(q, 1, u)  OBVIOUS
  <1>6. PICK c : c = SubSeq(q, v, n)  OBVIOUS
  <1>7. a \in Seq(Keys) /\ Len(a) = u /\ \A i \in 1..u : a[i] = q[i]
    <2>1. \A i \in 1..u : i \in 1..n /\ 1 + i - 1 = i  BY <1>3
    <2>. QED  BY <1>1, <1>4, <1>5, <2>1, SubSeqProperties
  <1>8. c \in Seq(Keys) /\ Len(c) = n - j /\ \A i \in 1..(n - j) : c[i] = q[j + i]
    <2>1. \A i \in v..n : i \in 1..n  BY <1>3
    <2>2. \A i \in 1..(n - j) : v + i - 1 = j + i  BY <1>4
    <2>3. n - v + 1 = n - j  BY <1>4
    <2>. QED  BY <1>1, <1>3, <1>4, <1>6, <2>1, <2>2, <2>3, SubSeqProperties
  <1>9. PICK r : r = a \o c  OBVIOUS
  <1>10. /\ r \in Seq(Keys) /\ Len(r) = z
         /\ \A i \in 1..u : r[i] = a[i]
         /\ \A i \in 1..z : i > u => i - u \in 1..(n - j) /\ r[i] = c[i - u]
    <2>1. u + (n - j) = z /\ n - j \in Nat  BY <1>2, <1>3
    <2>2. /\ r \in Seq(Keys) /\ Len(r) = z
          /\ \A i \in 1..z : r[i] = IF i <= u THEN a[i] ELSE c[i - u]
      <3>1. /\ a \o c \in Seq(Keys) /\ Len(a \o c) = Len(a) + Len(c)
            /\ \A i \in 1..(Len(a) + Len(c)) : (a \o c)[i] = IF i <= Len(a) THEN a[i] ELSE c[i - Len(a)]
        BY <1>7, <1>8, ConcatProperties
      <3>2. Len(a) = u /\ Len(c) = n - j /\ Len(a) + Len(c) = z  BY <1>7, <1>8, <2>1
      <3>. QED  BY <1>9, <3>1, <3>2
    <2>3. \A i \in 1..u : i \in 1..z /\ i <= u  BY <1>4, <2>1
    <2>4. \A i \in 1..z : i > u => i - u \in 1..(n - j) /\ ~(i <= u)  BY <1>4, <2>1
    <2>. QED  BY <2>2, <2>3, <2>4
  <1>11. \A i \in 1..z : r[i] = IF i < j THEN q[i] ELSE q[i + 1]
    <2>. SUFFICES ASSUME NEW i \in 1..z PROVE r[i] = IF i < j THEN q[i] ELSE q[i + 1]  OBVIOUS
    <2>1. CASE i < j
      <3>1. i \in 1..u  BY <1>3, <1>4, <2>1
      <3>. QED  BY <1>7, <1>10, <2>1, <3>1
    <2>2. CASE i >= j
      <3>1. i > u /\ j + (i - u) = i + 1 /\ ~(i < j)  BY <1>3, <1>4, <2>2
      <3>. QED  BY <1>8, <1>10, <3>1
    <2>. QED  BY <1>4, <2>1, <2>2
  <1>12. r = [i \in 1..z |-> r[i]]  BY <1>10
  <1>13. r = [i \in 1..z |-> IF i < j THEN q[i] ELSE q[i + 1]]  BY <1>11, <1>12
  <1>14. RemoveAt(q, j) = r  BY <1>1, <1>3, <1>5, <1>6, <1>9 DEF RemoveAt
  <1>. QED  BY <1>2, <1>13, <1>14 DEF Cut

\* to_vec gives the keys in line.
LEMMA KeysAlong ==
    ASSUME NEW n, NEW s, NEW q, NEW sl, NEW m, NEW h, NEW t, Strung(n, s, q, sl, m, h, t),
           NEW w, w = Along([x \in DOMAIN sl |-> sl[x].next], h)
    PROVE  [i \in DOMAIN w |-> sl[w[i]].key] = q
  <1>1. w = s
    <2>1. PICK f : f = [x \in DOMAIN sl |-> sl[x].next]  OBVIOUS
    <2>2. PICK g : g = [x \in DOMAIN sl |-> sl[x].prev]  OBVIOUS
    <2>3. PICK r : r = [i \in 1..n |-> s[n + 1 - i]]  OBVIOUS
    <2>4. Along(f, h) = s  BY <2>1, <2>2, <2>3, StrungWalks
    <2>. QED  BY <2>1, <2>4
  <1>2. n \in Nat /\ s \in [1..n -> Sids] /\ q \in [1..n -> Keys]  BY DEF Strung
  <1>3. ASSUME NEW i \in 1..n PROVE sl[s[i]].key = q[i]
    <2>1. sl[s[i]] = [key |-> q[i], next |-> Node(s, n, i + 1), prev |-> Node(s, n, i - 1)]
      BY DEF Strung
    <2>. QED  BY <2>1
  <1>. QED  BY <1>1, <1>2, <1>3

\* to_vec reads the line.
LEMMA LineNow ==
    ASSUME NEW n, NEW s, NEW q, ListNow(n, s, q)
    PROVE  to_vec = q
  BY KeysAlong DEF ListNow, to_vec, Forward

\* to_vec reads the line after the step.
LEMMA LineNext ==
    ASSUME NEW n, NEW s, NEW q, ListNext(n, s, q)
    PROVE  to_vec' = q
  <1>1. PICK sl, h : sl = slab' /\ h = head'  OBVIOUS
  <1>2. PICK w : w = Along([x \in DOMAIN sl |-> sl[x].next], h)  OBVIOUS
  <1>3. [i \in DOMAIN w |-> sl[w[i]].key] = q  BY <1>1, <1>2, KeysAlong DEF ListNext
  <1>. QED  BY <1>1, <1>2, <1>3 DEF to_vec, Forward

-----------------------------------------------------------------------------

\* The new list is an empty line.
LEMMA LInitOK ==
    ASSUME LInit
    PROVE  LInv /\ to_vec = <<>>
  <1>1. PICK e : e = <<>>  OBVIOUS
  <1>2. PICK n : n = 0  OBVIOUS
  <1>3. 1..n = {} /\ e \in [1..n -> Sids] /\ e \in [1..n -> Keys] /\ n \in Nat  BY <1>1, <1>2
  <1>4. DOMAIN slab = {} /\ DOMAIN key_to_sid = {} /\ head = Nil /\ tail = Nil  BY DEF LInit
  <1>5. ListNow(n, e, e)  BY <1>3, <1>4 DEF ListNow, Strung, Node
  <1>6. LInv  BY <1>5 DEF LInv, ListNow
  <1>7. to_vec = e  BY <1>5, LineNow
  <1>. QED  BY <1>1, <1>6, <1>7

\* Every operation leaves a line.
LEMMA LStepOK ==
    ASSUME LInv, LNext
    PROVE  LInv'
  <1>1. PICK n, s, q : ListNow(n, s, q)  BY DEF LInv, ListNow
  <1>2. ListStep(n, s, q)  BY <1>1, ListSteps
  <1>3. \E z, r, p : ListNext(z, r, p)  BY <1>2 DEF ListStep, Refused, Added, Removed
  <1>. QED  BY <1>3 DEF LInv, ListNext

\* A step that changes nothing leaves the line.
LEMMA LStutterOK ==
    ASSUME LInv, UNCHANGED lvars
    PROVE  LInv'
  BY DEF LInv, lvars

\* The list is a line at all times.
LEMMA LInvHolds == LSpec => []LInv
  <1>1. LInit => LInv  BY LInitOK
  <1>2. LInv /\ [LNext]_lvars => LInv'  BY LStepOK, LStutterOK
  <1>. QED  BY <1>1, <1>2, PTL DEF LSpec

\* LinkedList: whatever is inserted, removed and reused, next and prev string
\* the same nodes, all that the slab holds, and the map finds each key's node.
THEOREM ListLinksAgree == LSpec => []LinksAgree
  <1>1. ASSUME LInv PROVE LinksAgree
    <2>1. PICK n, s, q : ListNow(n, s, q)  BY <1>1 DEF LInv, ListNow
    <2>2. Strung(n, s, q, slab, key_to_sid, head, tail)  BY <2>1 DEF ListNow
    <2>3. Forward = s /\ Backward = [i \in 1..n |-> s[n + 1 - i]]
      <3>1. PICK f : f = [x \in DOMAIN slab |-> slab[x].next]  OBVIOUS
      <3>2. PICK g : g = [x \in DOMAIN slab |-> slab[x].prev]  OBVIOUS
      <3>3. PICK r : r = [i \in 1..n |-> s[n + 1 - i]]  OBVIOUS
      <3>4. Along(f, head) = s /\ Along(g, tail) = r  BY <2>2, <3>1, <3>2, <3>3, StrungWalks
      <3>. QED  BY <3>1, <3>2, <3>3, <3>4 DEF Forward, Backward
    <2>4. n \in Nat /\ s \in [1..n -> Sids]  BY <2>2 DEF Strung
    <2>5. DOMAIN s = 1..n /\ Len(s) = n /\ Len(Backward) = n  BY <2>3, <2>4
    <2>6. \A i \in 1..n : n + 1 - i \in 1..n /\ n + 1 - (n + 1 - i) = i  BY <2>4
    <2>7. \A i \in DOMAIN Forward : Forward[i] = Backward[Len(Backward) + 1 - i]
      BY <2>3, <2>5, <2>6
    <2>8. Len(Forward) = Cardinality(DOMAIN slab)  BY <2>2, <2>3, <2>5, StrungCounts
    <2>9. \A i \in 1..n : slab[s[i]].key = q[i] /\ key_to_sid[q[i]] = s[i]
      <3>. SUFFICES ASSUME NEW i \in 1..n PROVE slab[s[i]].key = q[i] /\ key_to_sid[q[i]] = s[i]
        OBVIOUS
      <3>1. slab[s[i]] = [key |-> q[i], next |-> Node(s, n, i + 1), prev |-> Node(s, n, i - 1)]
        BY <2>2 DEF Strung
      <3>2. key_to_sid[q[i]] = s[i]  BY <2>2 DEF Strung
      <3>. QED  BY <3>1, <3>2
    <2>10. DOMAIN slab = {s[i] : i \in 1..n} /\ DOMAIN key_to_sid = {q[i] : i \in 1..n}
      BY <2>2 DEF Strung
    <2>11. {<<k, key_to_sid[k]>> : k \in DOMAIN key_to_sid} = {<<q[i], s[i]>> : i \in 1..n}
      BY <2>9, <2>10
    <2>12. {<<slab[x].key, x>> : x \in DOMAIN slab} = {<<q[i], s[i]>> : i \in 1..n}
      BY <2>9, <2>10
    <2>. QED  BY <2>3, <2>5, <2>7, <2>8, <2>11, <2>12 DEF LinksAgree
  <1>. QED  BY <1>1, LInvHolds, PTL

\* A step of the list is a step of the queue of keys.
LEMMA QueueStep ==
    ASSUME LInv, LNext
    PROVE  Queue!KNext
  <1>1. PICK n, s, q : ListNow(n, s, q)  BY DEF LInv, ListNow
  <1>2. ListStep(n, s, q) /\ to_vec = q  BY <1>1, ListSteps, LineNow
  <1>3. /\ n \in Nat /\ q \in [1..n -> Keys] /\ \A i, j \in 1..n : q[i] = q[j] => i = j
    BY <1>1 DEF ListNow, Strung
  <1>4. q \in Seq(Keys) /\ Len(q) = n /\ DOMAIN q = 1..n /\ ToSet(q) = {q[i] : i \in 1..n}
    BY <1>3, LineSeq
  <1>5. CASE Refused(n, s, q)
    <2>1. to_vec' = to_vec /\ result' = FALSE  BY <1>2, <1>5, LineNext DEF Refused
    <2>2. CASE \E k \in Keys : k \in ToSet(to_vec)
      BY <2>1, <2>2 DEF Queue!KNext, Queue!PushBack, Queue!ToSet, ToSet
    <2>3. CASE \E k \in Keys : k \notin ToSet(to_vec)
      BY <2>1, <2>3 DEF Queue!KNext, Queue!RemoveNode, Queue!ToSet, ToSet
    <2>4. CASE n = 0
      <3>1. to_vec = <<>>  BY <1>2, <1>4, <2>4
      <3>. QED  BY <2>1, <3>1 DEF Queue!KNext, Queue!RemoveFront
    <2>5. (\E k \in Keys : TRUE) \/ n = 0  BY <1>3
    <2>. QED  BY <2>2, <2>3, <2>4, <2>5
  <1>6. CASE \E k \in Keys : Added(n, q, n + 1, k)
    <2>1. PICK k \in Keys : Added(n, q, n + 1, k)  BY <1>6
    <2>2. PICK r : ListNext(n + 1, r, Spliced(q, n, n + 1, k))  BY <2>1 DEF Added
    <2>3. to_vec' = Spliced(q, n, n + 1, k)  BY <2>2, LineNext
    <2>4. to_vec' = Append(to_vec, k)  BY <1>2, <1>3, <2>3, AppendSpliced
    <2>5. k \notin ToSet(to_vec) /\ result' = TRUE  BY <1>2, <1>4, <2>1 DEF Added
    <2>. QED  BY <2>4, <2>5 DEF Queue!KNext, Queue!PushBack, Queue!ToSet, ToSet
  <1>7. CASE \E k \in Keys : \E j \in 1..n : Added(n, q, j, k)
    <2>1. PICK k \in Keys, j \in 1..n : Added(n, q, j, k)  BY <1>7
    <2>2. PICK r : ListNext(n + 1, r, Spliced(q, n, j, k))  BY <2>1 DEF Added
    <2>3. to_vec' = Spliced(q, n, j, k)  BY <2>2, LineNext
    <2>4. InsertAt(q, j, k) = Spliced(q, n, j, k)  BY <1>3, <2>1, InsertSpliced
    <2>5. PICK b : b = q[j]  OBVIOUS
    <2>6. b \in Keys /\ b \in ToSet(to_vec)  BY <1>2, <1>3, <1>4, <2>5
    <2>7. Queue!At(b) = j  BY <1>2, <1>3, <1>4, <2>5 DEF Queue!At
    <2>8. to_vec' = InsertAt(to_vec, Queue!At(b), k)  BY <1>2, <2>3, <2>4, <2>7
    <2>9. k \notin ToSet(to_vec) /\ result' = TRUE  BY <1>2, <1>4, <2>1 DEF Added
    <2>10. Queue!InsertBefore(b, k)  BY <2>6, <2>8, <2>9 DEF Queue!InsertBefore, Queue!ToSet, ToSet, Queue!InsertAt, InsertAt
    <2>. QED  BY <2>6, <2>10 DEF Queue!KNext
  <1>8. CASE \E j \in 1..n : Removed(n, q, j)
    <2>1. PICK j \in 1..n : Removed(n, q, j)  BY <1>8
    <2>2. PICK r : ListNext(n - 1, r, Cut(q, n, j))  BY <2>1 DEF Removed
    <2>3. to_vec' = Cut(q, n, j)  BY <2>2, LineNext
    <2>4. RemoveAt(q, j) = Cut(q, n, j)  BY <1>3, <2>1, RemoveCut
    <2>5. PICK b : b = q[j]  OBVIOUS
    <2>6. b \in Keys /\ b \in ToSet(to_vec)  BY <1>2, <1>3, <1>4, <2>5
    <2>7. Queue!At(b) = j  BY <1>2, <1>3, <1>4, <2>5 DEF Queue!At
    <2>8. to_vec' = RemoveAt(to_vec, Queue!At(b))  BY <1>2, <2>3, <2>4, <2>7
    <2>9. result' = TRUE  BY <2>1 DEF Removed
    <2>10. Queue!RemoveNode(b)  BY <2>6, <2>8, <2>9 DEF Queue!RemoveNode, Queue!ToSet, ToSet, Queue!RemoveAt, RemoveAt
    <2>. QED  BY <2>6, <2>10 DEF Queue!KNext
  <1>. QED  BY <1>2, <1>5, <1>6, <1>7, <1>8 DEF ListStep

\* The slab list is the sequence of distinct keys that OrderBook takes a level
\* for: push_back appends, insert_before inserts, remove_node and remove_front
\* take out one key and leave the others in line.
THEOREM ListImplementsQueue == LSpec => ImplementsQueue
  <1>1. LInit => Queue!KInit
    <2>. SUFFICES ASSUME LInit PROVE Queue!KInit  OBVIOUS
    <2>1. to_vec = <<>> /\ result = TRUE  BY LInitOK DEF LInit
    <2>. QED  BY <2>1 DEF Queue!KInit
  <1>2. LInv /\ [LNext]_lvars => [Queue!KNext]_<<to_vec, result>>
    <2>1. ASSUME UNCHANGED lvars PROVE UNCHANGED <<to_vec, result>>
      BY <2>1 DEF lvars, to_vec, Forward
    <2>. QED  BY <2>1, QueueStep
  <1>. QED  BY <1>1, <1>2, LInvHolds, PTL DEF LSpec, ImplementsQueue, Queue!KSpec

=============================================================================
