------------------------- MODULE BlockApply_proofs --------------------------
(***************************************************************************)
(* Proofs about BlockApply for every set of coins, every bound on prices   *)
(* and sizes and every number of orders and blocks: books loaded from a    *)
(* snapshot and advanced by blocks that lost no event are the node's, and  *)
(* an audit raises an alarm exactly when they are not.                     *)
(*                                                                         *)
(* ChainInv says that the diffs of a block lead from the view of one block *)
(* to that of the next; ServerInv says how far along that way the books    *)
(* are.                                                                    *)
(***************************************************************************)
EXTENDS BookViews_proofs

-----------------------------------------------------------------------------
(* What the changes of the node do to its view *)

\* n has another side r of coin c.
SideTurned(n, c, s, r, m) == m = [n EXCEPT ![c] = [n[c] EXCEPT ![s] = r]]

\* Another side of the node's book with one other queue: one lane of its view turns.
LEMMA LaneTurns ==
    ASSUME NEW n, IsNode(n), NEW c \in DOMAIN n, NEW s \in Sides, NEW r, NEW m, SideTurned(n, c, s, r, m),
           NEW p \in Pxs, NEW w, AtPrice(r, p) = w,
           \A x \in Pxs : x # p => AtPrice(r, x) = AtPrice(n[c][s], x)
    PROVE  View(m) = [View(n) EXCEPT ![<<c, s, p>>] = w] /\ <<c, s, p>> \in Lanes
  <1>1. c \in Coins /\ IsSnapshot(n[c], c)  BY DEF IsNode
  <1>2. DOMAIN n[c] = Sides  BY <1>1 DEF IsSnapshot
  <1>3. /\ DOMAIN m = DOMAIN n /\ m[c][s] = r
        /\ \A t \in Sides : t # s => m[c][t] = n[c][t]
        /\ \A d \in DOMAIN n : d # c => m[d] = n[d]
    BY <1>2 DEF SideTurned
  <1>4. PICK k : k = <<c, s, p>>  OBVIOUS
  <1>5. k \in Lanes  BY <1>1, <1>4 DEF Lanes
  <1>6. DOMAIN View(n) = Lanes /\ DOMAIN View(m) = Lanes  BY DEF View
  <1>7. ASSUME NEW l \in Lanes PROVE View(m)[l] = IF l = k THEN w ELSE View(n)[l]
    <2>1. l = <<l[1], l[2], l[3]>> /\ l[2] \in Sides /\ l[3] \in Pxs  BY DEF Lanes
    <2>2. View(m)[l] = IF l[1] \in DOMAIN m THEN AtPrice(m[l[1]][l[2]], l[3]) ELSE <<>>  BY DEF View
    <2>3. View(n)[l] = IF l[1] \in DOMAIN n THEN AtPrice(n[l[1]][l[2]], l[3]) ELSE <<>>  BY DEF View
    <2>4. CASE l = k
      <3>1. l[1] = c /\ l[2] = s /\ l[3] = p  BY <1>4, <2>4
      <3>. QED  BY <1>3, <2>2, <2>4, <3>1
    <2>5. CASE l # k /\ l[1] = c /\ l[2] = s
      <3>1. l[3] # p  BY <1>4, <2>1, <2>5
      <3>. QED  BY <1>3, <2>1, <2>2, <2>3, <2>5, <3>1
    <2>6. CASE l[1] = c /\ l[2] # s
      <3>1. l # k  BY <1>4, <2>6
      <3>. QED  BY <1>3, <2>1, <2>2, <2>3, <2>6, <3>1
    <2>7. CASE l[1] # c
      <3>1. l # k  BY <1>4, <2>7
      <3>2. CASE l[1] \in DOMAIN n
        <4>1. m[l[1]] = n[l[1]] /\ l[1] \in DOMAIN m  BY <1>3, <2>7, <3>2
        <4>. QED  BY <2>2, <2>3, <3>1, <3>2, <4>1
      <3>3. CASE l[1] \notin DOMAIN n
        <4>1. l[1] \notin DOMAIN m  BY <1>3, <3>3
        <4>. QED  BY <2>2, <2>3, <3>1, <3>3, <4>1
      <3>. QED  BY <3>2, <3>3
    <2>. QED  BY <2>4, <2>5, <2>6, <2>7
  <1>8. View(m) = [l \in Lanes |-> View(m)[l]]  BY DEF View
  <1>9. View(m) = [View(n) EXCEPT ![k] = w]  BY <1>5, <1>6, <1>7, <1>8
  <1>. QED  BY <1>4, <1>5, <1>9

\* The same parts make the same sequence.
LEMMA SameParts ==
    ASSUME NEW a, NEW b, NEW e, NEW q, NEW r
    PROVE  /\ IsConcat(q, a, b) /\ IsConcat(r, a, b) => q = r
           /\ IsSpliced(q, a, e, b) /\ IsSpliced(r, a, e, b) => q = r
  BY Zenon DEF IsConcat, IsSpliced

\* Order e is in queue u between A and B.
AmidQueue(u, A, e, B) ==
    /\ A \in Seq(Orders) /\ B \in Seq(Orders) /\ IsSpliced(u, A, e, B)
    /\ u \in Queues /\ Len(A) + 1 \in DOMAIN u /\ u[Len(A) + 1] = e
    /\ Position(u, e.oid) = Len(A) + 1 /\ Holds(u, e.oid)
    /\ IsConcat(RemoveAt(u, Len(A) + 1), A, B)
    /\ \A f \in Orders : IsSpliced([u EXCEPT ![Len(A) + 1] = f], A, f, B)

\* An order in the middle of a side is at the same place of its price.
LEMMA PlaceAtPrice ==
    ASSUME NEW c \in Coins, NEW x, IsSnapshot(x, c), NEW s \in Sides, NEW i \in DOMAIN x[s],
           NEW a \in Seq(Orders), NEW b \in Seq(Orders), IsSpliced(x[s], a, x[s][i], b),
           NEW p, p = x[s][i].px, NEW e, e = x[s][i]
    PROVE  AmidQueue(AtPrice(x[s], p), AtPrice(a, p), e, AtPrice(b, p))
  <1>1. PICK u, A, B : u = AtPrice(x[s], p) /\ A = AtPrice(a, p) /\ B = AtPrice(b, p)  OBVIOUS
  <1>2. e \in Orders /\ u \in Queues  BY <1>1, SnapshotSide
  <1>3. A \in Seq(Orders) /\ B \in Seq(Orders) /\ IsSpliced(u, A, e, B)
    BY <1>1, <1>2, AtPriceSpliced
  <1>4. Amid(Orders, u, A, e, B)  BY <1>2, <1>3, Apart1
  <1>5. /\ u \in Seq(Orders) /\ Len(A) + 1 \in 1..Len(u) /\ u[Len(A) + 1] = e
        /\ IsConcat(RemoveAt(u, Len(A) + 1), A, B)
        /\ \A f \in Orders : IsSpliced([u EXCEPT ![Len(A) + 1] = f], A, f, B)
    BY <1>4 DEF Amid
  <1>6. Len(A) + 1 \in DOMAIN u  BY <1>5
  <1>7. Position(u, e.oid) = Len(A) + 1  BY <1>2, <1>5, <1>6, PositionFacts
  <1>8. Holds(u, e.oid)  BY <1>5, <1>6 DEF Holds
  <1>11. AmidQueue(u, A, e, B)  BY <1>2, <1>3, <1>5, <1>6, <1>7, <1>8 DEF AmidQueue
  <1>. QED  BY <1>1, <1>11

\* A Remove diff moves the view as the order that leaves the node's book does.
LEMMA RemovedMoves ==
    ASSUME NEW n, IsNode(n), NEW c \in DOMAIN n, NEW s \in Sides, NEW i \in DOMAIN n[c][s],
           NEW m, SideTurned(n, c, s, RemoveAt(n[c][s], i), m),
           NEW d, d.kind = "Remove", d.coin = c, d.oid = n[c][s][i].oid, NEW om
    PROVE  Moves(View(n), d, om, View(m))
  <1>1. c \in Coins /\ IsSnapshot(n[c], c)  BY DEF IsNode
  <1>2. PICK q, e : q = n[c][s] /\ e = q[i]  OBVIOUS
  <1>3. q \in Seq(Orders) /\ i \in 1..Len(q) /\ e \in Orders /\ e.px \in Pxs  BY <1>1, <1>2, SnapshotSide
  <1>4. PICK a, b \in Seq(Orders) : Piece(Orders, q, i, a, b)  BY <1>3, Pieces
  <1>5. PICK r : r = RemoveAt(q, i)  OBVIOUS
  <1>6. IsSpliced(q, a, e, b) /\ IsConcat(r, a, b)  BY <1>2, <1>4, <1>5 DEF Piece, IsSpliced, IsConcat
  <1>7. PICK p, A, B : p = e.px /\ A = AtPrice(a, p) /\ B = AtPrice(b, p)  OBVIOUS
  <1>8. PICK u : u = AtPrice(q, p)  OBVIOUS
  <1>20. AmidQueue(u, A, e, B)  BY <1>1, <1>2, <1>4, <1>6, <1>7, <1>8, PlaceAtPrice
  <1>9. /\ Position(u, e.oid) = Len(A) + 1 /\ Holds(u, e.oid) /\ IsConcat(RemoveAt(u, Len(A) + 1), A, B)
    BY <1>20 DEF AmidQueue
  <1>10. IsConcat(AtPrice(r, p), A, B)  BY <1>4, <1>6, <1>7, AtPriceConcat
  <1>11. ASSUME NEW x \in Pxs, x # p PROVE AtPrice(r, x) = AtPrice(q, x)
    <2>1. IsConcat(AtPrice(r, x), AtPrice(a, x), AtPrice(b, x))  BY <1>4, <1>6, AtPriceConcat
    <2>2. IsConcat(AtPrice(q, x), AtPrice(a, x), AtPrice(b, x))
      BY <1>3, <1>4, <1>6, <1>7, <1>11, AtPriceSpliced
    <2>. QED  BY <2>1, <2>2, SameParts
  <1>12. SideTurned(n, c, s, r, m)  BY <1>2, <1>5
  <1>13. PICK w : w = RemoveAt(u, Position(u, e.oid))  OBVIOUS
  <1>14. AtPrice(r, p) = w  BY <1>9, <1>10, <1>13, SameParts
  <1>15. View(m) = [View(n) EXCEPT ![<<c, s, p>>] = w] /\ <<c, s, p>> \in Lanes
    BY <1>2, <1>3, <1>7, <1>11, <1>12, <1>14, LaneTurns
  <1>16. View(n)[<<c, s, p>>] = u  BY <1>1, <1>2, <1>3, <1>7, <1>8, ViewAt
  <1>17. DOMAIN View(n) = Lanes  BY DEF View
  <1>18. Affects(View(n), d, om, View(m), <<d.coin, s, p>>)
    BY <1>2, <1>9, <1>13, <1>15, <1>16 DEF Affects
  <1>. QED  BY <1>3, <1>7, <1>17, <1>18 DEF Moves

\* An Update diff moves the view as the order that changes size does.
LEMMA ResizedMoves ==
    ASSUME NEW n, IsNode(n), NEW c \in DOMAIN n, NEW s \in Sides, NEW i \in DOMAIN n[c][s],
           NEW z \in Szs, NEW f, f = [n[c][s][i] EXCEPT !.sz = z],
           NEW m, SideTurned(n, c, s, [n[c][s] EXCEPT ![i] = f], m),
           NEW d, d.kind = "Update", d.coin = c, d.oid = n[c][s][i].oid, d.sz = z, NEW om
    PROVE  Moves(View(n), d, om, View(m))
  <1>1. c \in Coins /\ IsSnapshot(n[c], c)  BY DEF IsNode
  <1>2. PICK q, e : q = n[c][s] /\ e = q[i]  OBVIOUS
  <1>3. q \in Seq(Orders) /\ i \in 1..Len(q) /\ e \in Orders /\ e.px \in Pxs  BY <1>1, <1>2, SnapshotSide
  <1>4. PICK a, b \in Seq(Orders) : Piece(Orders, q, i, a, b)  BY <1>3, Pieces
  <1>0. f \in Orders /\ f.px = e.px  BY <1>2, <1>3 DEF Orders
  <1>5. PICK r : r = [q EXCEPT ![i] = f]  OBVIOUS
  <1>6. IsSpliced(q, a, e, b) /\ IsSpliced(r, a, f, b)  BY <1>0, <1>2, <1>4, <1>5 DEF Piece, IsSpliced
  <1>7. PICK p, A, B : p = e.px /\ A = AtPrice(a, p) /\ B = AtPrice(b, p)  OBVIOUS
  <1>8. PICK u : u = AtPrice(q, p)  OBVIOUS
  <1>20. AmidQueue(u, A, e, B)  BY <1>1, <1>2, <1>4, <1>6, <1>7, <1>8, PlaceAtPrice
  <1>9. /\ Position(u, e.oid) = Len(A) + 1 /\ Holds(u, e.oid) /\ u[Len(A) + 1] = e
        /\ IsSpliced([u EXCEPT ![Len(A) + 1] = f], A, f, B)
    BY <1>0, <1>20 DEF AmidQueue
  <1>10. IsSpliced(AtPrice(r, p), A, f, B)  BY <1>0, <1>4, <1>6, <1>7, AtPriceSpliced
  <1>11. ASSUME NEW x \in Pxs, x # p PROVE AtPrice(r, x) = AtPrice(q, x)
    <2>1. IsConcat(AtPrice(r, x), AtPrice(a, x), AtPrice(b, x))
      BY <1>0, <1>4, <1>6, <1>7, <1>11, AtPriceSpliced
    <2>2. IsConcat(AtPrice(q, x), AtPrice(a, x), AtPrice(b, x))
      BY <1>3, <1>4, <1>6, <1>7, <1>11, AtPriceSpliced
    <2>. QED  BY <2>1, <2>2, SameParts
  <1>12. SideTurned(n, c, s, r, m)  BY <1>2, <1>5
  <1>13. PICK w : w = Resized(u, Position(u, e.oid), z)  OBVIOUS
  <1>14. w = [u EXCEPT ![Len(A) + 1] = f]
    <2>1. w = [u EXCEPT ![Len(A) + 1] = [u[Len(A) + 1] EXCEPT !.sz = z]]  BY <1>9, <1>13 DEF Resized
    <2>. QED  BY <1>2, <1>9, <2>1
  <1>15. AtPrice(r, p) = w
    <2>1. PICK g : g = [u EXCEPT ![Len(A) + 1] = f]  OBVIOUS
    <2>2. IsSpliced(g, A, f, B) /\ w = g  BY <1>9, <1>14, <2>1
    <2>. QED  BY <1>10, <2>2, SameParts
  <1>16. View(m) = [View(n) EXCEPT ![<<c, s, p>>] = w] /\ <<c, s, p>> \in Lanes
    BY <1>2, <1>3, <1>7, <1>11, <1>12, <1>15, LaneTurns
  <1>17. View(n)[<<c, s, p>>] = u  BY <1>1, <1>2, <1>3, <1>7, <1>8, ViewAt
  <1>18. DOMAIN View(n) = Lanes  BY DEF View
  <1>19. Affects(View(n), d, om, View(m), <<d.coin, s, p>>)
    BY <1>2, <1>9, <1>13, <1>16, <1>17 DEF Affects
  <1>. QED  BY <1>3, <1>7, <1>18, <1>19 DEF Moves

\* Place i of a side is right for an order: behind those that are better and in
\* front of those that are worse.
FitsAt(q, s, e, i) ==
    /\ i \in 1..(Len(q) + 1)
    /\ \A j \in DOMAIN q : q[j].px # e.px => (j < i <=> Crosses(Other(s), q[j].px, e.px))

\* An order joins its queue where the diff's `before' says.
LEMMA InsertedLane ==
    ASSUME NEW c \in Coins, NEW x, IsSnapshot(x, c), NEW s \in Sides, NEW e \in Orders, NEW i,
           FitsAt(x[s], s, e, i), \A j \in DOMAIN x[s] : x[s][j].oid # e.oid,
           NEW before, before = IF i =< Len(x[s]) /\ x[s][i].px = e.px THEN x[s][i].oid ELSE NoOid,
           NEW r, r = InsertAt(x[s], i, e)
    PROVE  /\ CanPlace(AtPrice(x[s], e.px), e.oid, before)
           /\ AtPrice(r, e.px) = Placed(AtPrice(x[s], e.px), e, before)
           /\ \A p \in Pxs : p # e.px => AtPrice(r, p) = AtPrice(x[s], p)
  <1>1. PICK q, p : q = x[s] /\ p = e.px  OBVIOUS
  <1>2. /\ q \in Seq(Orders) /\ InLine(s, q) /\ Distinct(q) /\ i \in 1..(Len(q) + 1)
        /\ \A j \in DOMAIN q : q[j] \in Orders
    BY <1>1, SnapshotSide DEF FitsAt
  <1>3. PICK a, b \in Seq(Orders) : SlotAt(Orders, q, i, a, b)  BY <1>2, Slot
  <1>4. /\ IsConcat(q, a, b) /\ Len(a) = i - 1 /\ Len(b) = Len(q) - i + 1 /\ IsSpliced(r, a, e, b)
        /\ \A j \in 1..(i - 1) : a[j] = q[j]
        /\ \A j \in 1..(Len(q) - i + 1) : b[j] = q[j + (i - 1)]
    BY <1>1, <1>3 DEF SlotAt, IsConcat, IsSpliced
  <1>5. PICK A, B, u : A = AtPrice(a, p) /\ B = AtPrice(b, p) /\ u = AtPrice(q, p)  OBVIOUS
  <1>6. /\ A \in Seq(Orders) /\ B \in Seq(Orders) /\ IsConcat(u, A, B) /\ IsSpliced(AtPrice(r, p), A, e, B)
    BY <1>1, <1>3, <1>4, <1>5, AtPriceConcat, AtPriceSpliced
  <1>7. ASSUME NEW y \in Pxs, y # p PROVE AtPrice(r, y) = AtPrice(q, y)
    <2>1. IsConcat(AtPrice(q, y), AtPrice(a, y), AtPrice(b, y))  BY <1>3, <1>4, AtPriceConcat
    <2>2. IsConcat(AtPrice(r, y), AtPrice(a, y), AtPrice(b, y))
      BY <1>1, <1>3, <1>4, <1>7, AtPriceSpliced
    <2>. QED  BY <2>1, <2>2, SameParts
  <1>8. u \in Queues  BY <1>1, <1>5, SnapshotSide
  <1>9. ~Holds(u, e.oid)
    <2>1. ~\E j \in DOMAIN q : q[j].oid = e.oid /\ q[j].px = p  BY <1>1
    <2>. QED  BY <1>2, <1>5, <2>1, HoldsAtPrice
  <1>10. Position(u, e.oid) = 0  BY <1>8, <1>9, PositionFacts
  <1>11. CASE i =< Len(q) /\ q[i].px = p
    <2>1. before = q[i].oid /\ i \in 1..Len(q)  BY <1>1, <1>2, <1>11
    <2>2. PICK a1, b1 \in Seq(Orders) : Piece(Orders, q, i, a1, b1)  BY <1>2, <2>1, Pieces
    <2>3. IsSpliced(q, a1, q[i], b1) /\ Len(a1) = i - 1 /\ \A j \in 1..(i - 1) : a1[j] = q[j]
      BY <2>2 DEF Piece, IsSpliced
    <2>4. a1 = a
      <3>1. /\ DOMAIN a1 = 1..(i - 1) /\ DOMAIN a = 1..(i - 1)
            /\ \A j \in 1..(i - 1) : a1[j] = a[j]
        BY <1>4, <2>3
      <3>2. a1 = [j \in DOMAIN a1 |-> a1[j]] /\ a = [j \in DOMAIN a |-> a[j]]  OBVIOUS
      <3>. QED  BY <3>1, <3>2
    <2>5. i \in DOMAIN q  BY <1>2, <2>1
    <2>6. PICK f : f = q[i]  OBVIOUS
    <2>7. Position(u, f.oid) = Len(A) + 1
      <3>1. AmidQueue(u, A, f, AtPrice(b1, p))
        BY <1>1, <1>5, <1>11, <2>2, <2>3, <2>4, <2>5, <2>6, PlaceAtPrice
      <3>. QED  BY <3>1 DEF AmidQueue
    <2>8. before \in Oids /\ before # NoOid
      <3>1. f.oid \in Oids  BY <1>1, <2>5, <2>6, SnapshotSide
      <3>. QED  BY <2>1, <2>6, <3>1, BookAssumption
    <2>9. Position(u, before) = Len(A) + 1 /\ Position(u, before) # 0
      <3>1. Len(A) \in Nat  BY <1>6
      <3>. QED  BY <2>1, <2>6, <2>7, <3>1
    <2>10. Placed(u, e, before) = InsertAt(u, Len(A) + 1, e)  BY <2>8, <2>9 DEF Placed
    <2>11. IsSpliced(InsertAt(u, Len(A) + 1, e), A, e, B)  BY <1>6, Apart2
    <2>12. CanPlace(u, e.oid, before)  BY <1>10, <2>9 DEF CanPlace
    <2>. QED  BY <1>1, <1>5, <1>6, <1>7, <2>10, <2>11, <2>12, SameParts
  <1>12. CASE ~(i =< Len(q) /\ q[i].px = p)
    <2>1. before = NoOid  BY <1>1, <1>12
    <2>2. ASSUME NEW k \in DOMAIN q, k >= i PROVE q[k].px # p
      <3>0. k \in 1..Len(q) /\ i \in Nat /\ Len(q) \in Nat  BY <1>2
      <3>1. i =< Len(q) /\ i \in DOMAIN q /\ q[i].px # p  BY <1>2, <1>12, <2>2, <3>0
      <3>2. ~Crosses(Other(s), q[i].px, p)
        <4>1. ~(i < i)  BY <3>0
        <4>. QED  BY <1>1, <3>1, <4>1 DEF FitsAt
      <3>3. CASE k = i  BY <3>1, <3>3
      <3>4. CASE k # i
        <4>1. i < k  BY <2>2, <3>0, <3>4
        <4>2. Crosses(Other(s), q[i].px, q[k].px)  BY <1>2, <3>1, <4>1 DEF InLine
        <4>. QED  BY <3>2, <4>2
      <3>. QED  BY <3>3, <3>4
    <2>3. ASSUME NEW j \in DOMAIN b PROVE b[j].px # p
      <3>1. j \in 1..(Len(q) - i + 1)  BY <1>4
      <3>2. j + (i - 1) \in 1..Len(q) /\ j + (i - 1) >= i  BY <1>2, <3>1
      <3>3. j + (i - 1) \in DOMAIN q  BY <1>2, <3>2
      <3>. QED  BY <1>4, <2>2, <3>1, <3>2, <3>3
    <2>4. B = <<>>  BY <1>5, <2>3, AtPriceAll
    <2>5. u = A /\ AtPrice(r, p) = Append(A, e)
      <3>1. A \o <<>> = A /\ A \o <<e>> = Append(A, e)  BY <1>6
      <3>2. (A \o <<e>>) \o <<>> = A \o <<e>>  BY <1>6
      <3>3. u = A \o B /\ AtPrice(r, p) = (A \o <<e>>) \o B  BY <1>6 DEF IsConcat, IsSpliced, Splice
      <3>. QED  BY <2>4, <3>1, <3>2, <3>3
    <2>6. Placed(u, e, before) = Append(u, e)  BY <1>10, <2>1 DEF Placed
    <2>7. CanPlace(u, e.oid, before)  BY <2>1 DEF CanPlace
    <2>. QED  BY <1>1, <1>5, <1>6, <1>7, <2>5, <2>6, <2>7
  <1>. QED  BY <1>11, <1>12

\* A New diff moves the view as the order that joins the node's book does.
LEMMA InsertedMoves ==
    ASSUME NEW n, IsNode(n), NEW c \in DOMAIN n, NEW s \in Sides, NEW e \in Orders, e.coin = c, e.side = s,
           e.sz > 0, NEW i, FitsAt(n[c][s], s, e, i), \A j \in DOMAIN n[c][s] : n[c][s][j].oid # e.oid,
           \A j \in DOMAIN n[c][Other(s)] : ~Crosses(s, n[c][Other(s)][j].px, e.px),
           NEW m, SideTurned(n, c, s, InsertAt(n[c][s], i, e), m),
           NEW d, d.kind = "New", d.coin = c, NEW om, d.oid \in DOMAIN om, Rests(om[d.oid], d) = e,
           d.before = IF i =< Len(n[c][s]) /\ n[c][s][i].px = e.px THEN n[c][s][i].oid ELSE NoOid
    PROVE  Moves(View(n), d, om, View(m))
  <1>1. c \in Coins /\ IsSnapshot(n[c], c)  BY DEF IsNode
  <1>2. PICK q, p, r : q = n[c][s] /\ p = e.px /\ r = InsertAt(q, i, e)  OBVIOUS
  <1>3. p \in Pxs  BY <1>2 DEF Orders
  <1>4. PICK u, before : u = AtPrice(q, p) /\ before = d.before  OBVIOUS
  <1>5. before = IF i =< Len(q) /\ q[i].px = p THEN q[i].oid ELSE NoOid  BY <1>2, <1>4
  <1>6. /\ CanPlace(u, e.oid, before) /\ AtPrice(r, p) = Placed(u, e, before)
        /\ \A x \in Pxs : x # p => AtPrice(r, x) = AtPrice(q, x)
    BY <1>1, <1>2, <1>4, <1>5, InsertedLane
  <1>7. SideTurned(n, c, s, r, m)  BY <1>2
  <1>8. PICK w : w = Placed(u, e, before)  OBVIOUS
  <1>9. View(m) = [View(n) EXCEPT ![<<c, s, p>>] = w] /\ <<c, s, p>> \in Lanes
    BY <1>2, <1>3, <1>6, <1>7, <1>8, LaneTurns
  <1>10. View(n)[<<c, s, p>>] = u  BY <1>1, <1>2, <1>3, <1>4, ViewAt
  <1>11. NoneCross(View(n), e)
    <2>. SUFFICES ASSUME NEW x \in Pxs, View(n)[<<c, Other(s), x>>] # <<>> PROVE ~Crosses(s, x, p)
      BY <1>2 DEF NoneCross
    <2>1. PICK o : o = n[c][Other(s)]  OBVIOUS
    <2>2. View(n)[<<c, Other(s), x>>] = AtPrice(o, x)  BY <1>1, <2>1, OtherSide, ViewAt
    <2>3. o \in Seq(Orders)  BY <1>1, <2>1, OtherSide, SnapshotSide
    <2>4. PICK j \in DOMAIN o : o[j].px = x  BY <2>2, <2>3, AtPriceAll
    <2>. QED  BY <1>2, <2>1, <2>4
  <1>12. Lane(e) = <<c, s, p>>  BY <1>2 DEF Lane
  <1>13. Joins(View(n), e, d.before, View(m), <<c, s, p>>)
    BY <1>4, <1>6, <1>8, <1>9, <1>10, <1>11, <1>12 DEF Joins
  <1>14. Affects(View(n), d, om, View(m), <<d.coin, s, p>>)  BY <1>13 DEF Affects
  <1>15. DOMAIN View(n) = Lanes  BY DEF View
  <1>. QED  BY <1>3, <1>14, <1>15 DEF Moves

\* A coin without orders is as good as none.
LEMMA RelistView ==
    ASSUME NEW n, IsNode(n), NEW c \in Coins, NEW m,
           \/ c \notin DOMAIN n /\ m = With(n, c, EmptySnap)
           \/ c \in DOMAIN n /\ n[c] = EmptySnap /\ m = Without(n, {c})
    PROVE  View(m) = View(n) /\ IsNode(m) /\ IdsIn(m) \subseteq IdsIn(n)
  <1>1. \A s \in Sides : EmptySnap[s] = <<>>  BY DEF EmptySnap
  <1>2. \A k \in Lanes : k[2] \in Sides  BY DEF Lanes
  <1>3. CASE c \notin DOMAIN n /\ m = With(n, c, EmptySnap)
    <2>1. DOMAIN m = DOMAIN n \union {c} /\ m[c] = EmptySnap /\ \A d \in DOMAIN n : m[d] = n[d]
      BY <1>3 DEF With
    <2>2. ASSUME NEW k \in Lanes
          PROVE  (IF k[1] \in DOMAIN m THEN AtPrice(m[k[1]][k[2]], k[3]) ELSE <<>>)
                 = (IF k[1] \in DOMAIN n THEN AtPrice(n[k[1]][k[2]], k[3]) ELSE <<>>)
      BY <1>1, <1>2, <1>3, <2>1, AtPriceNone
    <2>3. View(m) = View(n)  BY <2>2 DEF View
    <2>4. IsNode(m)  BY <2>1, EmptySnapFacts DEF IsNode
    <2>5. IdsIn(m) \subseteq IdsIn(n)
      <3>1. ASSUME NEW d \in DOMAIN m, NEW s \in Sides, NEW i \in DOMAIN m[d][s]
            PROVE  d \in DOMAIN n /\ m[d][s] = n[d][s]
        BY <1>1, <2>1
      <3>. QED  BY <3>1 DEF IdsIn
    <2>. QED  BY <2>3, <2>4, <2>5
  <1>4. CASE c \in DOMAIN n /\ n[c] = EmptySnap /\ m = Without(n, {c})
    <2>1. DOMAIN m = DOMAIN n \ {c} /\ \A d \in DOMAIN m : m[d] = n[d]  BY <1>4 DEF Without
    <2>2. ASSUME NEW k \in Lanes
          PROVE  (IF k[1] \in DOMAIN m THEN AtPrice(m[k[1]][k[2]], k[3]) ELSE <<>>)
                 = (IF k[1] \in DOMAIN n THEN AtPrice(n[k[1]][k[2]], k[3]) ELSE <<>>)
      BY <1>1, <1>2, <1>4, <2>1, AtPriceNone
    <2>3. View(m) = View(n)  BY <2>2 DEF View
    <2>4. IsNode(m)  BY <2>1 DEF IsNode
    <2>5. IdsIn(m) \subseteq IdsIn(n)  BY <2>1 DEF IdsIn
    <2>. QED  BY <2>3, <2>4, <2>5
  <1>. QED  BY <1>3, <1>4

-----------------------------------------------------------------------------
(* The node's books, before and after a change *)

\* The id of an order of the node is among its ids.
LEMMA IdAt ==
    ASSUME NEW n, NEW c \in DOMAIN n, NEW s \in Sides, NEW i \in DOMAIN n[c][s]
    PROVE  n[c][s][i].oid \in IdsIn(n)
  BY DEF IdsIn

\* The ids of a node with another side of one coin.
LEMMA IdsTurned ==
    ASSUME NEW n, IsNode(n), NEW c \in DOMAIN n, NEW s \in Sides, NEW r, NEW m, SideTurned(n, c, s, r, m),
           NEW X, \A i \in DOMAIN r : r[i].oid \in X, IdsIn(n) \subseteq X
    PROVE  IdsIn(m) \subseteq X /\ DOMAIN m = DOMAIN n
  <1>1. c \in Coins /\ IsSnapshot(n[c], c)  BY DEF IsNode
  <1>2. DOMAIN n[c] = Sides  BY <1>1 DEF IsSnapshot
  <1>3. /\ DOMAIN m = DOMAIN n /\ m[c][s] = r
        /\ \A t \in Sides : t # s => m[c][t] = n[c][t]
        /\ \A d \in DOMAIN n : d # c => m[d] = n[d]
    BY <1>2 DEF SideTurned
  <1>4. ASSUME NEW d \in DOMAIN m, NEW t \in Sides, NEW i \in DOMAIN m[d][t] PROVE m[d][t][i].oid \in X
    <2>1. CASE d = c /\ t = s  BY <1>3, <1>4, <2>1
    <2>2. CASE ~(d = c /\ t = s)
      <3>1. m[d][t] = n[d][t] /\ d \in DOMAIN n  BY <1>3, <2>2
      <3>2. n[d][t][i].oid \in IdsIn(n)  BY <3>1, IdAt
      <3>. QED  BY <3>1, <3>2
    <2>. QED  BY <2>1, <2>2
  <1>5. IdsIn(m) \subseteq X  BY <1>4 DEF IdsIn
  <1>. QED  BY <1>3, <1>5

\* A node with another snapshot of one coin is a node.
LEMMA NodeTurned ==
    ASSUME NEW n, IsNode(n), NEW c \in DOMAIN n, NEW s \in Sides, NEW r, NEW m, SideTurned(n, c, s, r, m),
           NEW y, y = [n[c] EXCEPT ![s] = r], IsSnapshot(y, c)
    PROVE  IsNode(m)
  <1>1. m = [n EXCEPT ![c] = y]  BY DEF SideTurned
  <1>. QED  BY <1>1 DEF IsNode

\* From n to m the node's books change as the diff says, given the statuses.
Changes(n, d, om, m, X) ==
    /\ IsNode(m) /\ DOMAIN m = DOMAIN n /\ IdsIn(m) \subseteq IdsIn(n) \union X
    /\ d \in Diffs /\ Moves(View(n), d, om, View(m))

\* An order leaves the node's book, with a Remove diff.
LEMMA LeaveNode ==
    ASSUME NEW n, IsNode(n), NEW c \in DOMAIN n, NEW s \in Sides, NEW i \in DOMAIN n[c][s],
           NEW m, SideTurned(n, c, s, RemoveAt(n[c][s], i), m),
           NEW d \in Diffs, d.kind = "Remove", d.coin = c, d.oid = n[c][s][i].oid, NEW om
    PROVE  Changes(n, d, om, m, {})
  <1>1. c \in Coins /\ IsSnapshot(n[c], c)  BY DEF IsNode
  <1>2. PICK q, r, y : q = n[c][s] /\ r = RemoveAt(q, i) /\ y = [n[c] EXCEPT ![s] = r]  OBVIOUS
  <1>3. IsSnapshot(y, c)  BY <1>1, <1>2, SnapshotRemoved
  <1>4. SideTurned(n, c, s, r, m)  BY <1>2
  <1>5. IsNode(m)  BY <1>2, <1>3, <1>4, NodeTurned
  <1>6. q \in Seq(RestingOrders(c, s)) /\ i \in DOMAIN q  BY <1>1, <1>2, SnapshotPlaces
  <1>7. /\ r \in Seq(RestingOrders(c, s)) /\ Len(r) = Len(q) - 1
        /\ \A j \in 1..(Len(q) - 1) : r[j] = IF j < i THEN q[j] ELSE q[j + 1]
    BY <1>2, <1>6, RemovedOne
  <1>8. ASSUME NEW j \in DOMAIN r PROVE r[j].oid \in IdsIn(n)
    <2>1. j \in 1..(Len(q) - 1) /\ Len(q) \in Nat /\ DOMAIN q = 1..Len(q)  BY <1>6, <1>7
    <2>2. j \in DOMAIN q /\ j + 1 \in DOMAIN q  BY <2>1
    <2>. QED  BY <1>2, <1>7, <2>1, <2>2, IdAt
  <1>9. PICK X : X = IdsIn(n)  OBVIOUS
  <1>10. IdsIn(m) \subseteq X /\ DOMAIN m = DOMAIN n  BY <1>4, <1>8, <1>9, IdsTurned
  <1>11. Moves(View(n), d, om, View(m))  BY RemovedMoves
  <1>. QED  BY <1>5, <1>9, <1>10, <1>11 DEF Changes

\* An order of the node changes size, with an Update diff.
LEMMA ResizeNode ==
    ASSUME NEW n, IsNode(n), NEW c \in DOMAIN n, NEW s \in Sides, NEW i \in DOMAIN n[c][s],
           NEW z \in Szs \ {0}, NEW f, f = [n[c][s][i] EXCEPT !.sz = z],
           NEW m, SideTurned(n, c, s, [n[c][s] EXCEPT ![i] = f], m),
           NEW d \in Diffs, d.kind = "Update", d.coin = c, d.oid = n[c][s][i].oid, d.sz = z, NEW om
    PROVE  Changes(n, d, om, m, {})
  <1>1. c \in Coins /\ IsSnapshot(n[c], c)  BY DEF IsNode
  <1>2. PICK q, r, y : q = n[c][s] /\ r = [q EXCEPT ![i] = f] /\ y = [n[c] EXCEPT ![s] = r]  OBVIOUS
  <1>3. IsSnapshot(y, c)
    <2>1. y = [n[c] EXCEPT ![s] = [n[c][s] EXCEPT ![i] = [n[c][s][i] EXCEPT !.sz = z]]]  BY <1>2
    <2>. QED  BY <1>1, <2>1, SnapshotResized
  <1>4. SideTurned(n, c, s, r, m)  BY <1>2
  <1>5. IsNode(m)  BY <1>2, <1>3, <1>4, NodeTurned
  <1>6. q \in Seq(RestingOrders(c, s)) /\ i \in DOMAIN q /\ q[i] \in RestingOrders(c, s)
    BY <1>1, <1>2, SnapshotPlaces
  <1>7. f.oid = q[i].oid  BY <1>2, <1>6 DEF RestingOrders
  <1>8. ASSUME NEW j \in DOMAIN r PROVE r[j].oid \in IdsIn(n)
    <2>1. j \in DOMAIN q /\ r[j] = IF j = i THEN f ELSE q[j]  BY <1>2, <1>6
    <2>. QED  BY <1>2, <1>7, <2>1, IdAt
  <1>9. PICK X : X = IdsIn(n)  OBVIOUS
  <1>10. IdsIn(m) \subseteq X /\ DOMAIN m = DOMAIN n  BY <1>4, <1>8, <1>9, IdsTurned
  <1>11. Moves(View(n), d, om, View(m))  BY ResizedMoves
  <1>. QED  BY <1>5, <1>9, <1>10, <1>11 DEF Changes

\* Order e comes to rest at place i.
JoinsAt(n, e, i) ==
    /\ e.coin \in DOMAIN n /\ FitsAt(n[e.coin][e.side], e.side, e, i)
    /\ \A j \in DOMAIN n[e.coin][Other(e.side)] :
          ~Crosses(e.side, n[e.coin][Other(e.side)][j].px, e.px)

\* An order joins the node's book, with a New diff.
LEMMA JoinNode ==
    ASSUME NEW n, IsNode(n), NEW c \in Coins, NEW s \in Sides, NEW e \in RestingOrders(c, s), NEW i,
           JoinsAt(n, e, i), e.oid \notin IdsIn(n),
           NEW m, SideTurned(n, c, s, InsertAt(n[c][s], i, e), m),
           NEW d \in Diffs, d.kind = "New", d.coin = c, NEW om, d.oid \in DOMAIN om, Rests(om[d.oid], d) = e,
           d.before = IF i =< Len(n[c][s]) /\ n[c][s][i].px = e.px THEN n[c][s][i].oid ELSE NoOid
    PROVE  Changes(n, d, om, m, {e.oid})
  <1>1. /\ e.coin = c /\ e.side = s /\ e \in Orders /\ e.sz > 0
    <2>1. /\ e \in [coin : {c}, oid : Oids, side : {s}, px : Pxs, sz : Szs \ {0},
                    is_trigger : {FALSE}, timestamp : Nat]
      BY DEF RestingOrders
    <2>2. e.coin = c /\ e.side = s /\ e.sz \in Szs \ {0}  BY <2>1
    <2>3. e \in [coin : Coins, oid : Oids, side : Sides, px : Pxs, sz : Szs,
                 is_trigger : BOOLEAN, timestamp : Nat]
      BY <2>1
    <2>4. e.sz > 0  BY <2>2 DEF Szs
    <2>. QED  BY <2>2, <2>3, <2>4 DEF Orders
  <1>2. c \in DOMAIN n /\ IsSnapshot(n[c], c)  BY <1>1 DEF IsNode, JoinsAt
  <1>3. PICK q, r, y : q = n[c][s] /\ r = InsertAt(q, i, e) /\ y = [n[c] EXCEPT ![s] = r]  OBVIOUS
  <1>4. /\ FitsAt(q, s, e, i)
        /\ \A j \in DOMAIN n[c][Other(s)] : ~Crosses(s, n[c][Other(s)][j].px, e.px)
    BY <1>1, <1>3 DEF JoinsAt
  <1>5. \A t \in Sides : \A j \in DOMAIN n[c][t] : n[c][t][j].oid # e.oid  BY <1>2, IdAt
  <1>6. IsSnapshot(y, c)
    <2>1. /\ i \in 1..(Len(n[c][s]) + 1)
          /\ \A j \in DOMAIN n[c][s] :
                n[c][s][j].px # e.px => (j < i <=> Crosses(Other(s), n[c][s][j].px, e.px))
      BY <1>3, <1>4 DEF FitsAt
    <2>2. y = [n[c] EXCEPT ![s] = InsertAt(n[c][s], i, e)]  BY <1>3
    <2>. QED  BY <1>2, <1>4, <1>5, <2>1, <2>2, SnapshotInserted
  <1>7. SideTurned(n, c, s, r, m)  BY <1>3
  <1>8. IsNode(m)  BY <1>2, <1>3, <1>6, <1>7, NodeTurned
  <1>9. q \in Seq(RestingOrders(c, s)) /\ i \in 1..(Len(q) + 1)
    BY <1>2, <1>3, <1>4, SnapshotPlaces DEF FitsAt
  <1>10. PICK S : S = RestingOrders(c, s)  OBVIOUS
  <1>11. WithOne(S, q, i, e, r)  BY <1>3, <1>9, <1>10, InsertedOne
  <1>12. PICK X : X = IdsIn(n) \union {e.oid}  OBVIOUS
  <1>13. ASSUME NEW j \in DOMAIN r PROVE r[j].oid \in X
    <2>1. /\ j \in 1..(Len(q) + 1) /\ Len(q) \in Nat /\ DOMAIN q = 1..Len(q)
          /\ r[j] = IF j < i THEN q[j] ELSE IF j = i THEN e ELSE q[j - 1]
      BY <1>9, <1>10, <1>11 DEF WithOne
    <2>2. CASE j < i
      <3>1. j \in DOMAIN q  BY <1>9, <2>1, <2>2
      <3>. QED  BY <1>2, <1>3, <1>12, <2>1, <2>2, <3>1, IdAt
    <2>3. CASE j = i  BY <1>9, <1>12, <2>1, <2>3
    <2>4. CASE j > i
      <3>1. j - 1 \in DOMAIN q /\ ~(j < i) /\ j # i  BY <1>9, <2>1, <2>4
      <3>. QED  BY <1>2, <1>3, <1>12, <2>1, <3>1, IdAt
    <2>5. j < i \/ j = i \/ j > i  BY <1>9, <2>1
    <2>. QED  BY <2>2, <2>3, <2>4, <2>5
  <1>14. IdsIn(m) \subseteq X /\ DOMAIN m = DOMAIN n  BY <1>2, <1>7, <1>12, <1>13, IdsTurned
  <1>15. Moves(View(n), d, om, View(m))
    <2>1. \A j \in DOMAIN n[c][s] : n[c][s][j].oid # e.oid  BY <1>5
    <2>2. FitsAt(n[c][s], s, e, i)  BY <1>3, <1>4
    <2>. QED  BY <1>1, <1>2, <1>4, <2>1, <2>2, InsertedMoves
  <1>. QED  BY <1>8, <1>12, <1>14, <1>15 DEF Changes

-----------------------------------------------------------------------------
(* The chain *)

Blocks == [statuses : Seq(Statuses), diffs : Seq(Diffs)]

\* The ids of the orders that are new in ds; no order is new twice.
NewIds(ds) == {ds[i].oid : i \in {j \in DOMAIN ds : ds[j].kind = "New"}}
Once(ds) == \A i, j \in DOMAIN ds :
               ds[i].kind = "New" /\ ds[j].kind = "New" /\ ds[i].oid = ds[j].oid => i = j

\* The ids that no order can come to rest under any more: all that were issued
\* but those of the triggers.
Spent == {x \in 1..issued : \A o \in triggers : o.oid # x}

\* The ids of the node's orders at height h, and of those new in block h.
Born(h) == IdsIn(past[h]) \union NewIds(blocks[h].diffs)

NodeOK ==
    /\ issued \in Nat /\ IsNode(node) /\ IdsIn(node) \subseteq Spent
    /\ triggers \subseteq FullOrders
    /\ \A o \in triggers : o.is_trigger /\ o.coin \in DOMAIN node /\ o.oid \in 1..issued
    /\ \A o, p \in triggers : o.oid = p.oid => o = p

PastOK ==
    /\ blocks \in Seq(Blocks) /\ (\E S : past \in Seq(S)) /\ Len(past) = Len(blocks) /\ blocks # <<>>
    /\ \A h \in DOMAIN past : IsNode(past[h]) /\ Once(blocks[h].diffs)
    /\ \A g, h \in DOMAIN past : g < h => NewIds(blocks[h].diffs) \intersect Born(g) = {}
    /\ \A h \in DOMAIN past : h > 1 /\ h \notin lossy =>
          Leads(View(past[h - 1]), blocks[h].diffs, OrderMap(blocks[h].statuses), View(past[h]))

BlockOK ==
    /\ block \in Blocks /\ Once(block.diffs)
    /\ \A h \in DOMAIN past : NewIds(block.diffs) \intersect Born(h) = {}
    /\ Leads(View(past[Len(past)]), block.diffs, OrderMap(block.statuses), View(node))

SpentOK ==
    /\ NewIds(block.diffs) \subseteq Spent
    /\ \A h \in DOMAIN past : Born(h) \subseteq Spent

ChainInv == NodeOK /\ PastOK /\ BlockOK /\ SpentOK

\* A New diff adds an id, and no other diff does.
LEMMA NewIdsAppend ==
    ASSUME NEW ds \in Seq(Diffs), NEW d \in Diffs
    PROVE  /\ d.kind # "New" => NewIds(Append(ds, d)) = NewIds(ds)
           /\ d.kind = "New" => NewIds(Append(ds, d)) = NewIds(ds) \union {d.oid}
           /\ Once(ds) /\ (d.kind = "New" => d.oid \notin NewIds(ds)) => Once(Append(ds, d))
  <1>1. PICK es, n : es = Append(ds, d) /\ n = Len(ds)  OBVIOUS
  <1>2. /\ n \in Nat /\ DOMAIN ds = 1..n /\ DOMAIN es = 1..(n + 1) /\ es[n + 1] = d
        /\ \A i \in 1..n : es[i] = ds[i]
    BY <1>1
  <1>3. \A i : i \in 1..(n + 1) <=> i \in 1..n \/ i = n + 1  BY <1>2
  <1>4. \A x : x \in NewIds(es) <=> x \in NewIds(ds) \/ (d.kind = "New" /\ x = d.oid)
    BY <1>2, <1>3 DEF NewIds
  <1>5. ASSUME Once(ds), d.kind = "New" => d.oid \notin NewIds(ds) PROVE Once(es)
    <2>. SUFFICES ASSUME NEW i \in DOMAIN es, NEW j \in DOMAIN es, es[i].kind = "New", es[j].kind = "New",
                         es[i].oid = es[j].oid
                  PROVE  i = j
      BY DEF Once
    <2>1. CASE i \in 1..n /\ j \in 1..n  BY <1>2, <1>5, <2>1 DEF Once
    <2>2. CASE i \in 1..n /\ j = n + 1  BY <1>2, <1>5, <2>2 DEF NewIds
    <2>3. CASE i = n + 1 /\ j \in 1..n  BY <1>2, <1>5, <2>3 DEF NewIds
    <2>. QED  BY <1>2, <1>3, <2>1, <2>2, <2>3
  <1>. QED  BY <1>1, <1>4, <1>5

\* Nothing appended, and one element appended.
LEMMA SeqEnds ==
    ASSUME NEW S, NEW q \in Seq(S), NEW e \in S
    PROVE  q \o <<>> = q /\ q \o <<e>> = Append(q, e) /\ Append(q, e) \in Seq(S)
  OBVIOUS

\* More statuses change nothing for the diffs that are there, as long as they
\* are not about orders that are new in them.
LEMMA StatusesGrow ==
    ASSUME NEW t \in Seq(Statuses), NEW s \in Statuses, NEW ds \in Seq(Diffs), NEW v, NEW w,
           Leads(v, ds, OrderMap(t), w),
           is_inserted_into_book(s) => s.order.oid \notin NewIds(ds)
    PROVE  Leads(v, ds, OrderMap(Append(t, s)), w)
  <1>1. PICK om, om2 : om = OrderMap(t) /\ om2 = OrderMap(Append(t, s))  OBVIOUS
  <1>2. /\ ~is_inserted_into_book(s) => om2 = om
        /\ \A o \in DOMAIN om : o # s.order.oid => o \in DOMAIN om2 /\ om2[o] = om[o]
    BY <1>1, OrderMapAppend
  <1>3. \A i \in 1..Len(ds) : ds[i].kind = "New" => ds[i].oid \in NewIds(ds)  BY DEF NewIds
  <1>4. Serves(om, om2, ds)  BY <1>2, <1>3 DEF Serves
  <1>. QED  BY <1>1, <1>4, LeadsMap

-----------------------------------------------------------------------------
(* A change of the node *)

\* What the node's steps have in common.
LEMMA ChangeKeeps ==
    ASSUME ChainInv, NEW ss, NEW ds, Change(ss, ds), NodeOK', Spent \subseteq Spent',
           NEW t, NEW es, t = block.statuses \o ss, es = block.diffs \o ds,
           t \in Seq(Statuses), es \in Seq(Diffs), Once(es),
           NEW F, NewIds(es) \subseteq NewIds(block.diffs) \union F, F \intersect Spent = {},
           F \subseteq Spent',
           Leads(View(past[Len(past)]), es, OrderMap(t), View(node'))
    PROVE  ChainInv'
  <1>1. /\ block' = [statuses |-> t, diffs |-> es]
        /\ blocks' = blocks /\ past' = past /\ lossy' = lossy
    BY DEF Change, chainVars
  <1>2. block'.statuses = t /\ block'.diffs = es /\ block' \in Blocks  BY <1>1 DEF Blocks
  <1>3. \A h : Born(h)' = Born(h)  BY <1>1 DEF Born
  <1>4. PastOK'  BY <1>1, <1>3 DEF ChainInv, PastOK
  <1>5. \A h \in DOMAIN past : NewIds(es) \intersect Born(h) = {}
    BY DEF ChainInv, BlockOK, SpentOK
  <1>6. BlockOK'  BY <1>1, <1>2, <1>3, <1>5 DEF BlockOK
  <1>7. SpentOK'
    <2>1. NewIds(es) \subseteq Spent'  BY DEF ChainInv, SpentOK
    <2>2. \A h \in DOMAIN past : Born(h) \subseteq Spent'  BY DEF ChainInv, SpentOK
    <2>. QED  BY <1>1, <1>2, <1>3, <2>1, <2>2 DEF SpentOK
  <1>. QED  BY <1>4, <1>6, <1>7 DEF ChainInv

\* A status, or none, that puts nothing into a book.
Idles(ss) == ss = <<>> \/ \E s \in Statuses : ss = <<s>> /\ ~is_inserted_into_book(s)

\* Statuses that put no order into the book leave order_map.
LEMMA IdleStatuses ==
    ASSUME NEW t \in Seq(Statuses), NEW ss, Idles(ss)
    PROVE  t \o ss \in Seq(Statuses) /\ OrderMap(t \o ss) = OrderMap(t)
  <1>1. CASE ss = <<>>  BY <1>1
  <1>2. CASE \E s \in Statuses : ss = <<s>> /\ ~is_inserted_into_book(s)
    <2>1. PICK s \in Statuses : ss = <<s>> /\ ~is_inserted_into_book(s)  BY <1>2
    <2>2. t \o ss = Append(t, s) /\ Append(t, s) \in Seq(Statuses)  BY <2>1, SeqEnds
    <2>. QED  BY <2>1, <2>2, OrderMapAppend
  <1>. QED  BY <1>1, <1>2 DEF Idles

\* No book changes.
LEMMA QuietKeeps ==
    ASSUME ChainInv, NEW ss, Idles(ss), Change(ss, <<>>), NodeOK', Spent \subseteq Spent',
           View(node') = View(node)
    PROVE  ChainInv'
  <1>1. block.statuses \in Seq(Statuses) /\ block.diffs \in Seq(Diffs) /\ Once(block.diffs)
        /\ Leads(View(past[Len(past)]), block.diffs, OrderMap(block.statuses), View(node))
    BY DEF ChainInv, BlockOK, Blocks
  <1>2. PICK t, es : t = block.statuses \o ss /\ es = block.diffs \o <<>>  OBVIOUS
  <1>3. t \in Seq(Statuses) /\ OrderMap(t) = OrderMap(block.statuses)  BY <1>1, <1>2, IdleStatuses
  <1>4. es = block.diffs  BY <1>1, <1>2
  <1>5. Leads(View(past[Len(past)]), es, OrderMap(t), View(node'))  BY <1>1, <1>3, <1>4
  <1>6. PICK F : F = {}  OBVIOUS
  <1>7. NewIds(es) \subseteq NewIds(block.diffs) \union F /\ F \intersect Spent = {} /\ F \subseteq Spent'
    BY <1>4, <1>6
  <1>. QED  BY <1>1, <1>2, <1>3, <1>4, <1>5, <1>7, ChangeKeeps

\* An order of the book shrinks or leaves.
LEMMA LessKeeps ==
    ASSUME ChainInv, NEW ss, Idles(ss), NEW d, d.kind # "New", Change(ss, <<d>>),
           \A om : Changes(node, d, om, node', {}), triggers' = triggers, issued' = issued
    PROVE  ChainInv'
  <1>1. block.statuses \in Seq(Statuses) /\ block.diffs \in Seq(Diffs) /\ Once(block.diffs)
        /\ Leads(View(past[Len(past)]), block.diffs, OrderMap(block.statuses), View(node))
    BY DEF ChainInv, BlockOK, Blocks
  <1>2. PICK t, es : t = block.statuses \o ss /\ es = block.diffs \o <<d>>  OBVIOUS
  <1>3. t \in Seq(Statuses) /\ OrderMap(t) = OrderMap(block.statuses)  BY <1>1, <1>2, IdleStatuses
  <1>4. Changes(node, d, OrderMap(t), node', {})  OBVIOUS
  <1>5. /\ IsNode(node') /\ DOMAIN node' = DOMAIN node /\ IdsIn(node') \subseteq IdsIn(node)
        /\ d \in Diffs /\ Moves(View(node), d, OrderMap(t), View(node'))
    BY <1>4 DEF Changes
  <1>6. es = Append(block.diffs, d) /\ es \in Seq(Diffs)  BY <1>1, <1>2, <1>5, SeqEnds
  <1>7. Leads(View(past[Len(past)]), es, OrderMap(t), View(node'))
    BY <1>1, <1>3, <1>5, <1>6, LeadsAppend
  <1>8. NewIds(es) = NewIds(block.diffs) /\ Once(es)  BY <1>1, <1>5, <1>6, NewIdsAppend
  <1>9. Spent' = Spent  BY DEF Spent
  <1>10. NodeOK'  BY <1>5, <1>9 DEF ChainInv, NodeOK
  <1>11. PICK F : F = {}  OBVIOUS
  <1>12. NewIds(es) \subseteq NewIds(block.diffs) \union F /\ F \intersect Spent = {} /\ F \subseteq Spent'
    BY <1>8, <1>11
  <1>. QED  BY <1>2, <1>3, <1>6, <1>7, <1>8, <1>9, <1>10, <1>12, ChangeKeeps

\* A new order comes to rest: its id was not spent.
LEMMA MoreKeeps ==
    ASSUME ChainInv, NEW s \in Statuses, is_inserted_into_book(s), NEW d \in Diffs, d.kind = "New",
           s.order.oid = d.oid, Change(<<s>>, <<d>>), NEW e, Rests(s, d) = e, e.oid = d.oid,
           \A om : d.oid \in DOMAIN om /\ Rests(om[d.oid], d) = e => Changes(node, d, om, node', {d.oid}),
           d.oid \notin Spent, d.oid \in Spent', Spent \subseteq Spent', NodeOK'
    PROVE  ChainInv'
  <1>1. block.statuses \in Seq(Statuses) /\ block.diffs \in Seq(Diffs) /\ Once(block.diffs)
        /\ Leads(View(past[Len(past)]), block.diffs, OrderMap(block.statuses), View(node))
        /\ NewIds(block.diffs) \subseteq Spent
    BY DEF ChainInv, BlockOK, Blocks, SpentOK
  <1>2. PICK t, es : t = block.statuses \o <<s>> /\ es = block.diffs \o <<d>>  OBVIOUS
  <1>3. /\ t = Append(block.statuses, s) /\ t \in Seq(Statuses)
        /\ es = Append(block.diffs, d) /\ es \in Seq(Diffs)
    BY <1>1, <1>2, SeqEnds
  <1>4. d.oid \in DOMAIN OrderMap(t) /\ OrderMap(t)[d.oid] = s  BY <1>1, <1>3, OrderMapAppend
  <1>5. Changes(node, d, OrderMap(t), node', {d.oid})  BY <1>4
  <1>6. Moves(View(node), d, OrderMap(t), View(node'))  BY <1>5 DEF Changes
  <1>7. d.oid \notin NewIds(block.diffs)  BY <1>1
  <1>8. Leads(View(past[Len(past)]), block.diffs, OrderMap(t), View(node))
    BY <1>1, <1>3, <1>7, StatusesGrow
  <1>9. Leads(View(past[Len(past)]), es, OrderMap(t), View(node'))
    BY <1>1, <1>3, <1>6, <1>8, LeadsAppend
  <1>10. NewIds(es) = NewIds(block.diffs) \union {d.oid} /\ Once(es)  BY <1>1, <1>3, <1>7, NewIdsAppend
  <1>11. PICK F : F = {d.oid}  OBVIOUS
  <1>12. NewIds(es) \subseteq NewIds(block.diffs) \union F /\ F \intersect Spent = {} /\ F \subseteq Spent'
    BY <1>10, <1>11
  <1>. QED  BY <1>2, <1>3, <1>9, <1>10, <1>12, ChangeKeeps, ZenonT(60)

-----------------------------------------------------------------------------
(* The steps of the node *)

\* What ChainInv says of the node's state.
LEMMA ChainTypes ==
    ASSUME ChainInv
    PROVE  /\ Now \in Nat /\ Now = Len(blocks) + 1 /\ issued \in Nat /\ IsNode(node)
           /\ IdsIn(node) \subseteq Spent /\ Spent \subseteq 1..issued
           /\ triggers \subseteq FullOrders
           /\ \A o \in triggers : o.is_trigger /\ o.coin \in DOMAIN node /\ o.oid \in 1..issued
                                  /\ o.oid \notin Spent
  BY DEF ChainInv, NodeOK, PastOK, Now, Spent

\* What an order and the events about it are.
LEMMA EventTypes ==
    ASSUME ChainInv, NEW order \in FullOrders
    PROVE  /\ \A x \in {"open", "triggered", "filled", "canceled"}, t \in {"Gtc", "Ioc"} :
                 /\ Status(order, x, t) \in Statuses /\ Status(order, x, t).order = order
                 /\ Status(order, x, t).status = x /\ Status(order, x, t).tif = t
                 /\ Status(order, x, t).time = Now
           /\ \A k \in {"New", "Update", "Remove"}, b \in Oids \union {NoOid} :
                 /\ Diff(order, k, b) \in Diffs /\ Diff(order, k, b).kind = k
                 /\ Diff(order, k, b).coin = order.coin /\ Diff(order, k, b).oid = order.oid
                 /\ Diff(order, k, b).px = order.px /\ Diff(order, k, b).sz = order.sz
                 /\ Diff(order, k, b).before = b
  <1>1. Now \in Nat  BY ChainTypes
  <1>2. ASSUME NEW x \in {"open", "triggered", "filled", "canceled"}, NEW t \in {"Gtc", "Ioc"}
        PROVE  /\ Status(order, x, t) \in Statuses /\ Status(order, x, t).order = order
               /\ Status(order, x, t).status = x /\ Status(order, x, t).tif = t
               /\ Status(order, x, t).time = Now
    BY <1>1, <1>2 DEF Status, Statuses
  <1>3. /\ order.coin \in Coins /\ order.oid \in Oids /\ order.px \in Pxs /\ order.sz \in Szs
    BY DEF FullOrders
  <1>4. ASSUME NEW k \in {"New", "Update", "Remove"}, NEW b \in Oids \union {NoOid}
        PROVE  /\ Diff(order, k, b) \in Diffs /\ Diff(order, k, b).kind = k
               /\ Diff(order, k, b).coin = order.coin /\ Diff(order, k, b).oid = order.oid
               /\ Diff(order, k, b).px = order.px /\ Diff(order, k, b).sz = order.sz
               /\ Diff(order, k, b).before = b
    BY <1>3, <1>4 DEF Diff, Diffs
  <1>. QED  BY <1>2, <1>4

\* A resting order with all its fields.
LEMMA RestingFull ==
    ASSUME NEW c \in Coins, NEW s \in Sides, NEW e \in RestingOrders(c, s)
    PROVE  /\ e \in FullOrders /\ e.coin = c /\ e.side = s /\ e.sz \in Szs \ {0} /\ ~e.is_trigger
           /\ e.px \in Pxs /\ e.oid \in Oids
  <1>1. e \in [coin : {c}, oid : Oids, side : {s}, px : Pxs, sz : Szs \ {0},
               is_trigger : {FALSE}, timestamp : Nat]
    BY DEF RestingOrders
  <1>2. e.coin = c /\ e.side = s /\ e.sz \in Szs \ {0} /\ ~e.is_trigger /\ e.px \in Pxs /\ e.oid \in Oids
    BY <1>1
  <1>3. e \in [coin : Coins, oid : Oids, side : Sides, px : Pxs, sz : Szs,
               is_trigger : BOOLEAN, timestamp : Nat]
    BY <1>1
  <1>. QED  BY <1>2, <1>3 DEF FullOrders

\* An order comes to rest at the node.
LEMMA JoinKeeps ==
    ASSUME ChainInv, NEW c \in Coins, NEW s \in Sides, NEW e \in RestingOrders(c, s), NEW i,
           c \in DOMAIN node, CanRest(e, i), ComesToRest(e, i),
           NEW st \in Statuses, is_inserted_into_book(st), st.order.oid = e.oid,
           NEW d, d = Diff(e, "New", InFrontOf(e, i)), Rests(st, d) = e, Change(<<st>>, <<d>>),
           e.oid \notin Spent, e.oid \in Spent', Spent \subseteq Spent',
           IsNode(node') /\ DOMAIN node' = DOMAIN node /\ IdsIn(node') \subseteq Spent' => NodeOK'
    PROVE  ChainInv'
  <1>1. e \in FullOrders /\ e.coin = c /\ e.side = s /\ e.sz \in Szs \ {0}  BY RestingFull
  <1>2. IsNode(node) /\ IsSnapshot(node[c], c) /\ IdsIn(node) \subseteq Spent
    BY ChainTypes DEF IsNode
  <1>3. node[c][s] \in Seq(RestingOrders(c, s))  BY <1>2, SnapshotPlaces
  <1>4. JoinsAt(node, e, i)  BY <1>1 DEF JoinsAt, FitsAt, CanRest
  <1>5. InFrontOf(e, i) = IF i =< Len(node[c][s]) /\ node[c][s][i].px = e.px THEN node[c][s][i].oid ELSE NoOid
    BY <1>1 DEF InFrontOf
  <1>6. InFrontOf(e, i) \in Oids \union {NoOid}
    <2>1. i \in 1..(Len(node[c][s]) + 1)  BY <1>1 DEF CanRest
    <2>2. CASE i =< Len(node[c][s])
      <3>1. i \in DOMAIN node[c][s]  BY <1>3, <2>1, <2>2
      <3>2. node[c][s][i] \in RestingOrders(c, s)  BY <1>3, <3>1
      <3>3. node[c][s][i].oid \in Oids  BY <3>2, RestingFull
      <3>. QED  BY <1>5, <3>3
    <2>. QED  BY <1>5, <2>2
  <1>7. /\ d \in Diffs /\ d.kind = "New" /\ d.coin = c /\ d.oid = e.oid /\ d.before = InFrontOf(e, i)
    BY <1>1, <1>6, EventTypes
  <1>8. SideTurned(node, c, s, InsertAt(node[c][s], i, e), node')
    BY <1>1 DEF ComesToRest, SideTurned
  <1>9. e.oid \notin IdsIn(node)  BY <1>2
  <1>10. ASSUME NEW om, d.oid \in DOMAIN om, Rests(om[d.oid], d) = e
         PROVE  Changes(node, d, om, node', {d.oid})
    <2>1. d.before = IF i =< Len(node[c][s]) /\ node[c][s][i].px = e.px THEN node[c][s][i].oid ELSE NoOid
      BY <1>5, <1>7
    <2>2. Changes(node, d, om, node', {e.oid})
      BY <1>2, <1>4, <1>7, <1>8, <1>9, <1>10, <2>1, JoinNode
    <2>. QED  BY <1>7, <2>2
  <1>11. PICK om : d.oid \in DOMAIN om /\ om[d.oid] = st
    <2>1. d.oid \in DOMAIN [x \in {d.oid} |-> st] /\ [x \in {d.oid} |-> st][d.oid] = st  OBVIOUS
    <2>. QED  BY <2>1
  <1>12. Changes(node, d, om, node', {d.oid})  BY <1>10, <1>11
  <1>13. NodeOK'
    <2>1. IsNode(node') /\ DOMAIN node' = DOMAIN node /\ IdsIn(node') \subseteq IdsIn(node) \union {d.oid}
      BY <1>12 DEF Changes
    <2>2. IdsIn(node') \subseteq Spent'  BY <1>2, <1>7, <2>1
    <2>. QED  BY <2>1, <2>2
  <1>. QED  BY <1>7, <1>10, <1>13, MoreKeeps

\* The order that the node issues next.
LEMMA OrderTypes ==
    ASSUME ChainInv, NEW p \in Listed, NEW trigger \in BOOLEAN, Issue
    PROVE  LET o == Order(p, trigger) IN
           /\ p.coin \in DOMAIN node /\ p.coin \in Coins /\ p.side \in Sides
           /\ o \in FullOrders /\ o.coin = p.coin /\ o.side = p.side /\ o.oid = issued + 1
           /\ o.px = p.px /\ o.sz = p.sz /\ o.is_trigger = trigger /\ o.timestamp = Now
           /\ ~trigger => o \in RestingOrders(p.coin, p.side)
  <1>1. p \in [coin : Coins, side : Sides, px : Pxs, sz : Szs \ {0}] /\ p.coin \in DOMAIN node
    BY BlockAssumption DEF Listed
  <1>2. p.coin \in Coins /\ p.side \in Sides /\ p.px \in Pxs /\ p.sz \in Szs \ {0}  BY <1>1
  <1>3. Now \in Nat /\ issued + 1 \in Oids  BY ChainTypes DEF Issue
  <1>4. DEFINE o == Order(p, trigger)
  <1>5. o.coin = p.coin /\ o.side = p.side /\ o.oid = issued + 1 /\ o.px = p.px /\ o.sz = p.sz
        /\ o.is_trigger = trigger /\ o.timestamp = Now
    BY DEF Order
  <1>6. o \in FullOrders  BY <1>2, <1>3 DEF Order, FullOrders
  <1>7. ~trigger => o \in RestingOrders(p.coin, p.side)  BY <1>2, <1>3 DEF Order, RestingOrders
  <1>. QED  BY <1>1, <1>2, <1>5, <1>6, <1>7

\* The next id, and what it does to the ids that are spent.
LEMMA IssueSpends ==
    ASSUME ChainInv, Issue
    PROVE  /\ issued + 1 \notin Spent /\ issued' = issued + 1 /\ issued' \in Nat
           /\ triggers' = triggers => issued + 1 \in Spent' /\ Spent \subseteq Spent'
           /\ \A o : o.oid = issued + 1 /\ triggers' = triggers \union {o} => Spent \subseteq Spent'
  BY ChainTypes DEF Issue, Spent

\* An order that rests keeps the chain.
LEMMA OpenKeeps ==
    ASSUME ChainInv, NEW p \in Listed, NEW i, Open(Order(p, FALSE), i)
    PROVE  ChainInv'
  <1>1. PICK e : e = Order(p, FALSE)  OBVIOUS
  <1>2. Issue /\ CanRest(e, i) /\ ComesToRest(e, i) /\ triggers' = triggers  BY <1>1 DEF Open
  <1>3. PICK st, d : st = Status(e, "open", "Gtc") /\ d = Diff(e, "New", InFrontOf(e, i))  OBVIOUS
  <1>4. Change(<<st>>, <<d>>)  BY <1>1, <1>3 DEF Open
  <1>5. /\ p.coin \in DOMAIN node /\ p.coin \in Coins /\ p.side \in Sides
        /\ e \in FullOrders /\ e.oid = issued + 1 /\ ~e.is_trigger /\ e \in RestingOrders(p.coin, p.side)
    BY <1>1, <1>2, OrderTypes
  <1>6. st \in Statuses /\ st.order = e /\ st.status = "open" /\ st.tif = "Gtc" /\ st.time = Now
    BY <1>3, <1>5, EventTypes
  <1>7. is_inserted_into_book(st)  BY <1>5, <1>6 DEF is_inserted_into_book
  <1>8. Rests(st, d) = e
    <2>1. d.px = e.px /\ d.sz = e.sz  BY <1>3 DEF Diff
    <2>2. [e EXCEPT !.px = e.px, !.sz = e.sz] = e  BY <1>5 DEF FullOrders
    <2>. QED  BY <1>5, <1>6, <2>1, <2>2 DEF Rests, convert_trigger
  <1>9. /\ issued + 1 \notin Spent /\ issued' = issued + 1 /\ issued' \in Nat
        /\ issued + 1 \in Spent' /\ Spent \subseteq Spent'
    BY <1>2, IssueSpends
  <1>10. IsNode(node') /\ DOMAIN node' = DOMAIN node /\ IdsIn(node') \subseteq Spent' => NodeOK'
    BY <1>2, <1>9 DEF ChainInv, NodeOK
  <1>. QED  BY <1>2, <1>3, <1>4, <1>5, <1>6, <1>7, <1>8, <1>9, <1>10, JoinKeeps

\* A trigger order that rests keeps the chain.
LEMMA FireKeeps ==
    ASSUME ChainInv, NEW order \in triggers, NEW px \in Pxs, NEW sz \in Szs \ {0}, NEW i,
           Fire(order, px, sz, i)
    PROVE  ChainInv'
  <1>1. PICK e : e = [order EXCEPT !.px = px, !.sz = sz, !.is_trigger = FALSE, !.timestamp = Now]  OBVIOUS
  <1>2. CanRest(e, i) /\ ComesToRest(e, i) /\ triggers' = triggers \ {order} /\ issued' = issued
    BY <1>1 DEF Fire
  <1>3. PICK st, d : st = Status(order, "triggered", "Gtc") /\ d = Diff(e, "New", InFrontOf(e, i))  OBVIOUS
  <1>4. Change(<<st>>, <<d>>)  BY <1>1, <1>3 DEF Fire
  <1>5. /\ Now \in Nat /\ order \in FullOrders /\ order.is_trigger /\ order.coin \in DOMAIN node
        /\ order.oid \in 1..issued /\ order.oid \notin Spent /\ IsNode(node)
    BY ChainTypes
  <1>6. order.coin \in Coins /\ order.side \in Sides /\ order.oid \in Oids  BY <1>5 DEF FullOrders
  <1>7. e \in RestingOrders(order.coin, order.side) /\ e.oid = order.oid /\ e.px = px /\ e.sz = sz
    BY <1>1, <1>5, <1>6 DEF FullOrders, RestingOrders
  <1>8. st \in Statuses /\ st.order = order /\ st.status = "triggered" /\ st.time = Now
    BY <1>3, <1>5, EventTypes
  <1>9. is_inserted_into_book(st)  BY <1>5, <1>8 DEF is_inserted_into_book
  <1>10. Rests(st, d) = e
    <2>1. d.px = px /\ d.sz = sz  BY <1>3, <1>7 DEF Diff
    <2>2. [order EXCEPT !.px = px, !.sz = sz].is_trigger  BY <1>5 DEF FullOrders
    <2>3. e = [[order EXCEPT !.px = px, !.sz = sz] EXCEPT !.is_trigger = FALSE, !.timestamp = Now]
      BY <1>1, <1>5 DEF FullOrders
    <2>. QED  BY <1>8, <2>1, <2>2, <2>3 DEF Rests, convert_trigger
  <1>11. \A o \in triggers : o.oid = order.oid => o = order  BY DEF ChainInv, NodeOK
  <1>12. order.oid \in Spent' /\ Spent \subseteq Spent'  BY <1>2, <1>5, <1>11 DEF Spent
  <1>13. IsNode(node') /\ DOMAIN node' = DOMAIN node /\ IdsIn(node') \subseteq Spent' => NodeOK'
    BY <1>2 DEF ChainInv, NodeOK
  <1>. QED  BY <1>2, <1>3, <1>4, <1>5, <1>6, <1>7, <1>8, <1>9, <1>10, <1>12, <1>13, JoinKeeps

\* An order that is not to rest keeps the chain: it leaves no diff.
LEMMA OpenIocKeeps ==
    ASSUME ChainInv, NEW p \in Listed, OpenIoc(Order(p, FALSE))
    PROVE  ChainInv'
  <1>1. PICK e : e = Order(p, FALSE)  OBVIOUS
  <1>2. PICK st, ss : st = Status(e, "open", "Ioc") /\ ss = <<st>>  OBVIOUS
  <1>3. Issue /\ Change(ss, <<>>) /\ node' = node /\ triggers' = triggers  BY <1>1, <1>2 DEF OpenIoc
  <1>4. e \in FullOrders /\ ~e.is_trigger  BY <1>1, <1>3, OrderTypes
  <1>5. st \in Statuses /\ st.order = e /\ st.tif = "Ioc"  BY <1>2, <1>4, EventTypes
  <1>6. Idles(ss)  BY <1>2, <1>4, <1>5 DEF Idles, is_inserted_into_book
  <1>7. issued' = issued + 1 /\ issued' \in Nat /\ Spent \subseteq Spent'  BY <1>3, IssueSpends
  <1>8. NodeOK'  BY <1>3, <1>7 DEF ChainInv, NodeOK
  <1>9. View(node') = View(node)  BY <1>3
  <1>. QED  BY <1>3, <1>6, <1>7, <1>8, <1>9, QuietKeeps

\* A trigger order that waits keeps the chain: it has a status and no diff.
LEMMA OpenTriggerKeeps ==
    ASSUME ChainInv, NEW p \in Listed, OpenTrigger(Order(p, TRUE))
    PROVE  ChainInv'
  <1>1. PICK e : e = Order(p, TRUE)  OBVIOUS
  <1>2. PICK st, ss : st = Status(e, "open", "Gtc") /\ ss = <<st>>  OBVIOUS
  <1>3. Issue /\ Change(ss, <<>>) /\ node' = node /\ triggers' = triggers \union {e}
    BY <1>1, <1>2 DEF OpenTrigger
  <1>4. e \in FullOrders /\ e.is_trigger /\ e.oid = issued + 1 /\ e.coin \in DOMAIN node
    BY <1>1, <1>3, OrderTypes
  <1>5. st \in Statuses /\ st.order = e /\ st.status = "open"  BY <1>2, <1>4, EventTypes
  <1>6. Idles(ss)  BY <1>2, <1>4, <1>5 DEF Idles, is_inserted_into_book
  <1>7. issued' = issued + 1 /\ issued' \in Nat /\ Spent \subseteq Spent'
    BY <1>3, <1>4, IssueSpends
  <1>8. NodeOK'  BY <1>3, <1>4, <1>7, ChainTypes DEF ChainInv, NodeOK
  <1>9. View(node') = View(node)  BY <1>3
  <1>. QED  BY <1>3, <1>6, <1>7, <1>8, <1>9, QuietKeeps

\* The first element of a sequence, replaced and removed.
LEMMA HeadTail ==
    ASSUME NEW S, NEW q \in Seq(S), q # <<>>, NEW f \in S
    PROVE  /\ 1 \in DOMAIN q /\ Head(q) = q[1] /\ q[1] \in S /\ RemoveAt(q, 1) = Tail(q)
           /\ <<f>> \o Tail(q) = [q EXCEPT ![1] = f]
  <1>1. PICK n, t : n = Len(q) /\ t = Tail(q)  OBVIOUS
  <1>2. /\ n \in Nat /\ n >= 1 /\ DOMAIN q = 1..n /\ t \in Seq(S) /\ Len(t) = n - 1 /\ DOMAIN t = 1..(n - 1)
        /\ \A j \in 1..(n - 1) : t[j] = q[j + 1]
    BY <1>1
  <1>3. 1 \in DOMAIN q /\ Head(q) = q[1] /\ q[1] \in S  BY <1>2
  <1>4. RemoveAt(q, 1) = t
    <2>1. PICK r : r = RemoveAt(q, 1)  OBVIOUS
    <2>2. /\ r \in Seq(S) /\ Len(r) = Len(q) - 1
          /\ \A j \in 1..(Len(q) - 1) : r[j] = IF j < 1 THEN q[j] ELSE q[j + 1]
      BY <1>3, <2>1, RemovedOne
    <2>3. Len(r) = n - 1 /\ \A j \in 1..(n - 1) : r[j] = t[j]  BY <1>1, <1>2, <2>2
    <2>. QED  BY <1>2, <2>1, <2>2, <2>3
  <1>5. <<f>> \o t = [q EXCEPT ![1] = f]
    <2>1. PICK r, u : r = <<f>> \o t /\ u = [q EXCEPT ![1] = f]  OBVIOUS
    <2>2. r \in Seq(S) /\ Len(r) = n /\ r[1] = f /\ \A j \in 2..n : r[j] = t[j - 1]
      BY <1>2, <2>1
    <2>3. u \in Seq(S) /\ Len(u) = n /\ u[1] = f /\ \A j \in 2..n : u[j] = q[j]
      BY <1>1, <1>2, <2>1
    <2>4. \A j \in 2..n : j - 1 \in 1..(n - 1) /\ t[j - 1] = q[j]  BY <1>2
    <2>5. \A j \in 1..n : j = 1 \/ j \in 2..n  BY <1>2
    <2>6. \A j \in 1..n : r[j] = u[j]  BY <2>2, <2>3, <2>4, <2>5
    <2>. QED  BY <2>1, <2>2, <2>3, <2>6
  <1>. QED  BY <1>1, <1>3, <1>4, <1>5

\* A cancellation keeps the chain.
LEMMA CancelKeeps ==
    ASSUME ChainInv, NEW c \in DOMAIN node, NEW s \in Sides, NEW i, Cancel(c, s, i)
    PROVE  ChainInv'
  <1>1. PICK e : e = node[c][s][i]  OBVIOUS
  <1>2. PICK st, ss, d : st = Status(e, "canceled", "Gtc") /\ ss = <<st>> /\ d = Diff(e, "Remove", NoOid)
    OBVIOUS
  <1>3. /\ i \in DOMAIN node[c][s] /\ Change(ss, <<d>>) /\ triggers' = triggers /\ issued' = issued
        /\ node' = [node EXCEPT ![c][s] = RemoveAt(node[c][s], i)]
    BY <1>1, <1>2 DEF Cancel
  <1>4. IsNode(node) /\ c \in Coins /\ IsSnapshot(node[c], c)  BY ChainTypes DEF IsNode
  <1>5. e \in RestingOrders(c, s)  BY <1>1, <1>3, <1>4, SnapshotPlaces
  <1>6. e \in FullOrders /\ e.coin = c /\ ~e.is_trigger  BY <1>4, <1>5, RestingFull
  <1>7. st \in Statuses /\ st.order = e /\ st.status = "canceled"  BY <1>2, <1>6, EventTypes
  <1>8. Idles(ss)  BY <1>2, <1>6, <1>7 DEF Idles, is_inserted_into_book
  <1>9. d \in Diffs /\ d.kind = "Remove" /\ d.coin = c /\ d.oid = node[c][s][i].oid
    BY <1>1, <1>2, <1>6, EventTypes
  <1>10. SideTurned(node, c, s, RemoveAt(node[c][s], i), node')  BY <1>3 DEF SideTurned
  <1>11. \A om : Changes(node, d, om, node', {})  BY <1>3, <1>4, <1>9, <1>10, LeaveNode
  <1>. QED  BY <1>3, <1>8, <1>9, <1>11, LessKeeps

\* A trade with the best maker of a side keeps the chain.
LEMMA TradeKeeps ==
    ASSUME ChainInv, NEW c \in DOMAIN node, NEW s \in Sides, Trade(c, s)
    PROVE  ChainInv'
  <1>1. PICK q, z : q = node[c][s] /\ z = q[1].sz - 1  OBVIOUS
  <1>2. PICK left : left = [q[1] EXCEPT !.sz = z]  OBVIOUS
  <1>3. IsNode(node) /\ c \in Coins /\ IsSnapshot(node[c], c)  BY ChainTypes DEF IsNode
  <1>4. q \in Seq(RestingOrders(c, s)) /\ q # <<>>  BY <1>1, <1>3, SnapshotPlaces DEF Trade
  <1>5. 1 \in DOMAIN q /\ Head(q) = q[1] /\ q[1] \in RestingOrders(c, s) /\ RemoveAt(q, 1) = Tail(q)
    <2>1. Head(q) \in RestingOrders(c, s)  BY <1>4
    <2>. QED  BY <1>4, <2>1, HeadTail
  <1>6. /\ q[1] \in FullOrders /\ q[1].coin = c /\ q[1].sz \in Szs \ {0} /\ ~q[1].is_trigger
    BY <1>3, <1>5, RestingFull
  <1>7. z \in Szs  BY <1>1, <1>6, BookAssumption DEF Szs
  <1>8. /\ left \in FullOrders /\ left.coin = c /\ left.sz = z /\ ~left.is_trigger /\ left.oid = q[1].oid
    BY <1>2, <1>6, <1>7 DEF FullOrders
  <1>9. left = [Head(q) EXCEPT !.sz = @ - 1]  BY <1>1, <1>2, <1>5
  <1>10. triggers' = triggers /\ issued' = issued  BY DEF Trade
  <1>11. CASE z = 0
    <2>1. PICK st, ss, d : st = Status(left, "filled", "Gtc") /\ ss = <<st>> /\ d = Diff(left, "Remove", NoOid)
      OBVIOUS
    <2>2. Change(ss, <<d>>) /\ node' = [node EXCEPT ![c][s] = Tail(q)]
      BY <1>1, <1>8, <1>9, <1>11, <2>1 DEF Trade
    <2>3. st \in Statuses /\ st.order = left /\ st.status = "filled"  BY <1>8, <2>1, EventTypes
    <2>4. Idles(ss)  BY <1>8, <2>1, <2>3 DEF Idles, is_inserted_into_book
    <2>5. d \in Diffs /\ d.kind = "Remove" /\ d.coin = c /\ d.oid = node[c][s][1].oid
      BY <1>1, <1>8, <2>1, EventTypes
    <2>6. SideTurned(node, c, s, RemoveAt(node[c][s], 1), node')
      BY <1>1, <1>5, <2>2 DEF SideTurned
    <2>7. 1 \in DOMAIN node[c][s]  BY <1>1, <1>5
    <2>8. \A om : Changes(node, d, om, node', {})  BY <1>3, <2>5, <2>6, <2>7, LeaveNode
    <2>. QED  BY <1>10, <2>2, <2>4, <2>5, <2>8, LessKeeps
  <1>12. CASE z # 0
    <2>1. PICK ss, d : ss = <<>> /\ d = Diff(left, "Update", NoOid)  OBVIOUS
    <2>2. Change(ss, <<d>>) /\ node' = [node EXCEPT ![c][s] = <<left>> \o Tail(q)]
      BY <1>1, <1>8, <1>9, <1>12, <2>1 DEF Trade
    <2>3. Idles(ss)  BY <2>1 DEF Idles
    <2>4. d \in Diffs /\ d.kind = "Update" /\ d.coin = c /\ d.oid = node[c][s][1].oid /\ d.sz = z
      BY <1>1, <1>8, <2>1, EventTypes
    <2>5. left \in RestingOrders(c, s)  BY <1>2, <1>5, <1>7, <1>12 DEF RestingOrders
    <2>6. <<left>> \o Tail(q) = [q EXCEPT ![1] = left]  BY <1>4, <2>5, HeadTail
    <2>7. SideTurned(node, c, s, [node[c][s] EXCEPT ![1] = left], node')
      BY <1>1, <2>2, <2>6 DEF SideTurned
    <2>8. 1 \in DOMAIN node[c][s] /\ left = [node[c][s][1] EXCEPT !.sz = z]  BY <1>1, <1>2, <1>5
    <2>9. z \in Szs \ {0}  BY <1>7, <1>12
    <2>10. \A om : Changes(node, d, om, node', {})
      BY <1>3, <2>4, <2>7, <2>8, <2>9, ResizeNode
    <2>. QED  BY <1>10, <2>2, <2>3, <2>4, <2>10, LessKeeps
  <1>. QED  BY <1>11, <1>12

\* A new listing keeps the chain: its book is empty.
LEMMA RelistKeeps ==
    ASSUME ChainInv, NEW c \in Coins, Relist(c)
    PROVE  ChainInv'
  <1>1. IsNode(node) /\ IdsIn(node) \subseteq Spent  BY ChainTypes
  <1>2. /\ \/ c \notin DOMAIN node /\ node' = With(node, c, EmptySnap)
           \/ c \in DOMAIN node /\ node[c] = EmptySnap /\ node' = Without(node, {c})
        /\ triggers' = triggers /\ issued' = issued /\ Change(<<>>, <<>>)
        /\ \A o \in triggers : o.coin \in DOMAIN node => o.coin \in DOMAIN node'
    BY DEF Relist, With, Without
  <1>3. View(node') = View(node) /\ IsNode(node') /\ IdsIn(node') \subseteq IdsIn(node)
    BY <1>1, <1>2, RelistView
  <1>4. Spent' = Spent  BY <1>2 DEF Spent
  <1>5. NodeOK'  BY <1>1, <1>2, <1>3, <1>4 DEF ChainInv, NodeOK
  <1>6. Idles(<<>>)  BY DEF Idles
  <1>. QED  BY <1>2, <1>3, <1>4, <1>5, <1>6, QuietKeeps

\* A block as it is written has at most the new orders of the block.
LEMMA WrittenFacts ==
    ASSUME ChainInv, NEW b \in Written
    PROVE  b \in Blocks /\ Once(b.diffs) /\ NewIds(b.diffs) \subseteq NewIds(block.diffs)
  <1>1. block \in Blocks /\ Once(block.diffs)  BY DEF ChainInv, BlockOK
  <1>2. block.statuses \in Seq(Statuses) /\ block.diffs \in Seq(Diffs)  BY <1>1 DEF Blocks
  <1>3. CASE b = block  BY <1>1, <1>3
  <1>4. CASE \E i \in DOMAIN block.statuses : b = [block EXCEPT !.statuses = RemoveAt(@, i)]
    <2>1. PICK i \in DOMAIN block.statuses : b = [block EXCEPT !.statuses = RemoveAt(block.statuses, i)]
      BY <1>4
    <2>2. RemoveAt(block.statuses, i) \in Seq(Statuses)  BY <1>2, RemovedOne
    <2>3. b \in Blocks /\ b.diffs = block.diffs  BY <1>1, <2>1, <2>2 DEF Blocks
    <2>. QED  BY <1>1, <2>3
  <1>5. CASE \E i \in DOMAIN block.diffs : b = [block EXCEPT !.diffs = RemoveAt(@, i)]
    <2>1. PICK i \in DOMAIN block.diffs : b = [block EXCEPT !.diffs = RemoveAt(block.diffs, i)]  BY <1>5
    <2>2. PICK q, r, n : q = block.diffs /\ r = RemoveAt(block.diffs, i) /\ n = Len(q)  OBVIOUS
    <2>3. /\ r \in Seq(Diffs) /\ Len(r) = n - 1
          /\ \A j \in 1..(n - 1) : r[j] = IF j < i THEN q[j] ELSE q[j + 1]
      BY <1>2, <2>2, RemovedOne
    <2>4. b \in Blocks /\ b.diffs = r  BY <1>1, <2>1, <2>2, <2>3 DEF Blocks
    <2>5. n \in Nat /\ DOMAIN q = 1..n /\ i \in 1..n /\ DOMAIN r = 1..(n - 1)  BY <1>2, <2>2, <2>3
    <2>6. PICK at : at = [j \in 1..(n - 1) |-> IF j < i THEN j ELSE j + 1]  OBVIOUS
    <2>7. /\ \A j \in DOMAIN r : at[j] \in DOMAIN q /\ r[j] = q[at[j]]
          /\ \A j, k \in DOMAIN r : at[j] = at[k] => j = k
      BY <2>3, <2>5, <2>6
    <2>8. NewIds(r) \subseteq NewIds(q)  BY <2>7 DEF NewIds
    <2>9. Once(r)  BY <1>1, <2>2, <2>7 DEF Once
    <2>. QED  BY <2>2, <2>4, <2>8, <2>9
  <1>. QED  BY <1>3, <1>4, <1>5 DEF Written

\* A block without events has no diffs.
LEMMA NothingNew ==
    /\ <<>> \in Seq(Diffs) /\ <<>> \in Seq(Statuses) /\ NoEvents \in Blocks
    /\ NewIds(<<>>) = {} /\ Once(<<>>)
  BY DEF NoEvents, Blocks, NewIds, Once

\* A sealed block leads from the view before it to the node's, and starts the next.
LEMMA SealKeeps ==
    ASSUME ChainInv, NEW b \in Written, Seal(b)
    PROVE  ChainInv'
  <1>1. PICK n : n = Len(blocks)  OBVIOUS
  <1>2. /\ blocks \in Seq(Blocks) /\ Len(past) = n /\ n \in Nat /\ n >= 1
        /\ DOMAIN past = 1..n /\ DOMAIN blocks = 1..n
    BY <1>1 DEF ChainInv, PastOK
  <1>3. PICK S : past \in Seq(S)  BY DEF ChainInv, PastOK
  <1>4. b \in Blocks /\ Once(b.diffs) /\ NewIds(b.diffs) \subseteq NewIds(block.diffs)  BY WrittenFacts
  <1>5. PICK T : T = S \union {node}  OBVIOUS
  <1>6. past \in Seq(T)  BY <1>3, <1>5
  <1>7. /\ blocks' = Append(blocks, b) /\ past' = Append(past, node) /\ block' = NoEvents
        /\ node' = node /\ triggers' = triggers /\ issued' = issued
        /\ lossy \subseteq lossy'
        /\ b # block => n + 1 \in lossy'
    BY <1>1 DEF Seal, Now
  <1>8. /\ blocks' \in Seq(Blocks) /\ past' \in Seq(T) /\ Len(past') = n + 1 /\ Len(blocks') = n + 1
        /\ DOMAIN past' = 1..(n + 1) /\ blocks'[n + 1] = b /\ past'[n + 1] = node
        /\ \A h \in 1..n : blocks'[h] = blocks[h] /\ past'[h] = past[h]
    BY <1>1, <1>2, <1>4, <1>5, <1>6, <1>7
  <1>9. \A h \in 1..(n + 1) : h \in 1..n \/ h = n + 1  BY <1>2
  <1>10. Spent' = Spent  BY <1>7 DEF Spent
  <1>11. /\ \A h \in 1..n : Born(h)' = Born(h)
         /\ Born(n + 1)' = IdsIn(node) \union NewIds(b.diffs)
    BY <1>8 DEF Born
  <1>12. NodeOK'  BY <1>7, <1>10 DEF ChainInv, NodeOK
  <1>13. PastOK'
    <2>1. blocks' # <<>>  BY <1>2, <1>8
    <2>2. \A h \in DOMAIN past' : IsNode(past'[h]) /\ Once(blocks'[h].diffs)
      BY <1>2, <1>4, <1>8, <1>9 DEF ChainInv, PastOK, NodeOK
    <2>3. ASSUME NEW g \in DOMAIN past', NEW h \in DOMAIN past', g < h
          PROVE  NewIds(blocks'[h].diffs) \intersect Born(g)' = {}
      <3>1. g \in 1..n  BY <1>2, <1>8, <2>3
      <3>2. CASE h \in 1..n  BY <1>2, <1>8, <1>11, <2>3, <3>1, <3>2 DEF ChainInv, PastOK
      <3>3. CASE h = n + 1
        <4>1. NewIds(block.diffs) \intersect Born(g) = {}  BY <1>2, <3>1 DEF ChainInv, BlockOK
        <4>. QED  BY <1>4, <1>8, <1>11, <3>1, <3>3, <4>1
      <3>. QED  BY <1>8, <1>9, <3>2, <3>3
    <2>4. ASSUME NEW h \in DOMAIN past', h > 1, h \notin lossy'
          PROVE  Leads(View(past'[h - 1]), blocks'[h].diffs, OrderMap(blocks'[h].statuses), View(past'[h]))
      <3>1. h - 1 \in 1..n /\ past'[h - 1] = past[h - 1]  BY <1>2, <1>8, <2>4
      <3>2. CASE h \in 1..n  BY <1>2, <1>7, <1>8, <2>4, <3>1, <3>2 DEF ChainInv, PastOK
      <3>3. CASE h = n + 1
        <4>1. b = block  BY <1>7, <2>4, <3>3
        <4>2. Leads(View(past[n]), b.diffs, OrderMap(b.statuses), View(node))
          BY <1>2, <4>1 DEF ChainInv, BlockOK
        <4>3. h - 1 = n  BY <1>2, <3>3
        <4>. QED  BY <1>8, <3>1, <3>3, <4>2, <4>3
      <3>. QED  BY <1>8, <1>9, <3>2, <3>3
    <2>. QED  BY <1>8, <2>1, <2>2, <2>3, <2>4 DEF PastOK
  <1>14. BlockOK'
    <2>1. block'.diffs = <<>> /\ block'.statuses = <<>> /\ block' \in Blocks  BY <1>7, NothingNew DEF NoEvents
    <2>2. PICK v, om : v = View(node) /\ om = OrderMap(<<>>)  OBVIOUS
    <2>3. Leads(v, <<>>, om, v)  BY LeadsNone
    <2>4. Leads(View(past'[Len(past')]), block'.diffs, OrderMap(block'.statuses), View(node'))
      BY <1>7, <1>8, <2>1, <2>2, <2>3
    <2>5. NewIds(block'.diffs) = {} /\ Once(block'.diffs)  BY <2>1, NothingNew
    <2>. QED  BY <2>1, <2>4, <2>5 DEF BlockOK
  <1>15. SpentOK'
    <2>1. NewIds(block'.diffs) = {}  BY <1>7, NothingNew DEF NoEvents
    <2>2. /\ \A h \in 1..n : Born(h) \subseteq Spent
          /\ IdsIn(node) \subseteq Spent /\ NewIds(b.diffs) \subseteq Spent
      BY <1>2, <1>4 DEF ChainInv, SpentOK, NodeOK
    <2>3. \A h \in DOMAIN past' : Born(h)' \subseteq Spent'  BY <1>8, <1>9, <1>10, <1>11, <2>2
    <2>. QED  BY <2>1, <2>3 DEF SpentOK
  <1>. QED  BY <1>12, <1>13, <1>14, <1>15 DEF ChainInv

\* The chain is sound at the start.
LEMMA ChainInit == Init => ChainInv
  <1>. SUFFICES ASSUME Init PROVE ChainInv  OBVIOUS
  <1>1. /\ IsNode(node) /\ IsFiniteSet(IdsIn(node)) /\ IdsIn(node) \subseteq 1..issued
        /\ issued = Cardinality(IdsIn(node)) /\ triggers = {} /\ block = NoEvents
        /\ blocks = <<NoEvents>> /\ past = <<node>>
    BY BlockAssumption DEF Init
  <1>2. issued \in Nat  BY <1>1, FS_CardinalityType
  <1>3. Spent = 1..issued  BY <1>1 DEF Spent
  <1>4. NodeOK  BY <1>1, <1>2, <1>3 DEF NodeOK
  <1>5. /\ DOMAIN past = {1} /\ past[1] = node /\ blocks[1] = NoEvents /\ Len(past) = 1 /\ Len(blocks) = 1
        /\ blocks \in Seq(Blocks) /\ past \in Seq({node}) /\ blocks # <<>>
    BY <1>1, NothingNew
  <1>6. blocks[1].diffs = <<>> /\ block.diffs = <<>> /\ block.statuses = <<>>  BY <1>1, <1>5 DEF NoEvents
  <1>7. Born(1) \subseteq Spent  BY <1>1, <1>3, <1>5, <1>6, NothingNew DEF Born
  <1>8. PastOK
    <2>1. \A h \in DOMAIN past : IsNode(past[h]) /\ Once(blocks[h].diffs)
      BY <1>1, <1>5, <1>6, NothingNew
    <2>2. \A h \in DOMAIN past : ~(h > 1)  BY <1>5
    <2>3. \A g, h \in DOMAIN past : ~(g < h)  BY <1>5
    <2>. QED  BY <1>5, <2>1, <2>2, <2>3 DEF PastOK
  <1>9. BlockOK
    <2>1. PICK v, om : v = View(node) /\ om = OrderMap(<<>>)  OBVIOUS
    <2>2. Leads(v, <<>>, om, v)  BY LeadsNone
    <2>3. Leads(View(past[Len(past)]), block.diffs, OrderMap(block.statuses), View(node))
      BY <1>5, <1>6, <2>1, <2>2
    <2>. QED  BY <1>1, <1>6, <2>3, NothingNew DEF BlockOK
  <1>10. SpentOK  BY <1>5, <1>6, <1>7, NothingNew DEF SpentOK
  <1>. QED  BY <1>4, <1>8, <1>9, <1>10 DEF ChainInv

\* Every step of the node keeps the chain.
LEMMA NodeKeeps == ChainInv /\ NodeNext => ChainInv'
  <1>. SUFFICES ASSUME ChainInv, NodeNext PROVE ChainInv'  OBVIOUS
  <1>1. CASE \E p \in Listed, i \in 1..MaxOps : Open(Order(p, FALSE), i)  BY <1>1, OpenKeeps
  <1>2. CASE \E p \in Listed \intersect Unrested : OpenIoc(Order(p, FALSE)) \/ OpenTrigger(Order(p, TRUE))
    BY <1>2, OpenIocKeeps, OpenTriggerKeeps
  <1>3. CASE \E order \in triggers, px \in Pxs, sz \in Szs \ {0}, i \in 1..MaxOps : Fire(order, px, sz, i)
    BY <1>3, FireKeeps
  <1>4. CASE \E coin \in DOMAIN node, side \in Sides : Trade(coin, side)  BY <1>4, TradeKeeps
  <1>5. CASE \E coin \in DOMAIN node, side \in Sides, i \in 1..MaxOps : Cancel(coin, side, i)
    BY <1>5, CancelKeeps
  <1>6. CASE \E coin \in Coins : Relist(coin)  BY <1>6, RelistKeeps
  <1>7. CASE \E b \in Written : Seal(b)  BY <1>7, SealKeeps
  <1>. QED  BY <1>1, <1>2, <1>3, <1>4, <1>5, <1>6, <1>7 DEF NodeNext

\* The server takes no part in it.
LEMMA ServerKeeps == ChainInv /\ UNCHANGED <<nodeVars, chainVars>> => ChainInv'
  <1>. SUFFICES ASSUME ChainInv, UNCHANGED <<nodeVars, chainVars>> PROVE ChainInv'  OBVIOUS
  <1>1. /\ node' = node /\ triggers' = triggers /\ issued' = issued /\ block' = block
        /\ blocks' = blocks /\ past' = past /\ lossy' = lossy
    BY DEF nodeVars, chainVars
  <1>2. Spent' = Spent /\ \A h : Born(h)' = Born(h)  BY <1>1 DEF Spent, Born
  <1>. QED  BY <1>1, <1>2 DEF ChainInv, NodeOK, PastOK, BlockOK, SpentOK

-----------------------------------------------------------------------------
(* The books are built from a snapshot *)

\* A snapshot of the node has no trailing triggers.
LEMMA TriggersNone ==
    ASSUME NEW c \in Coins, NEW x, IsSnapshot(x, c)
    PROVE  AddedInOrder(x) = x["Bid"] \o x["Ask"] /\ x["Bid"] \in Seq(Orders) /\ x["Ask"] \in Seq(Orders)
  <1>1. x["Bid"] \in Seq(Orders) /\ x["Ask"] \in Seq(Orders)  BY SnapshotSide DEF Sides
  <1>2. DEFINE ids(side)  == {x[side][i].oid : i \in DOMAIN x[side]}
               both       == ids("Bid") \intersect ids("Ask")
               kept(side) == {i \in DOMAIN x[side] : x[side][i].oid \notin both}
  <1>3. both = {}  BY DEF IsSnapshot, Sides
  <1>4. ASSUME NEW s \in Sides PROVE SubSeq(x[s], 1, IF kept(s) = {} THEN 0 ELSE Max(kept(s))) = x[s]
    <2>1. PICK q, n : q = x[s] /\ n = Len(q)  OBVIOUS
    <2>2. q \in Seq(Orders) /\ n \in Nat /\ DOMAIN q = 1..n  BY <1>1, <2>1 DEF Sides
    <2>3. kept(s) = 1..n  BY <1>3, <2>1, <2>2
    <2>4. SubSeq(q, 1, n) = q  BY <2>1, <2>2
    <2>5. CASE n = 0
      <3>1. kept(s) = {}  BY <2>3, <2>5
      <3>. QED  BY <2>1, <2>4, <2>5, <3>1
    <2>6. CASE n # 0
      <3>1. n \in 1..n /\ 1..n # {}  BY <2>2, <2>6
      <3>2. Max(1..n) = n  BY <2>2, <3>1, InitialSegment
      <3>3. kept(s) # {} /\ Max(kept(s)) = n  BY <2>3, <3>1, <3>2
      <3>. QED  BY <2>1, <2>4, <3>3
    <2>. QED  BY <2>5, <2>6
  <1>5. remove_triggers(x) = [s \in Sides |-> SubSeq(x[s], 1, IF kept(s) = {} THEN 0 ELSE Max(kept(s)))]
    BY DEF remove_triggers
  <1>6. \A s \in Sides : remove_triggers(x)[s] = x[s]
    <2>. HIDE DEF kept
    <2>. QED  BY <1>4, <1>5
  <1>7. "Bid" \in Sides /\ "Ask" \in Sides  BY DEF Sides
  <1>. QED  BY <1>1, <1>6, <1>7 DEF AddedInOrder

Chained(S, a, b, q, k, l) ==
    /\ k \in Nat /\ l \in Nat /\ q \in Seq(S) /\ Len(q) = k + l
    /\ \A j \in 1..k : q[j] = a[j]
    /\ \A j \in 1..l : q[k + j] = b[j]

\* The elements of two sequences in a row.
LEMMA ConcatFacts ==
    ASSUME NEW S, NEW a \in Seq(S), NEW b \in Seq(S)
    PROVE  Chained(S, a, b, a \o b, Len(a), Len(b))
  BY DEF Chained

\* An element inserted behind the last is appended.
LEMMA InsertLast ==
    ASSUME NEW S, NEW u \in Seq(S), NEW e \in S
    PROVE  InsertAt(u, Len(u) + 1, e) = Append(u, e) /\ Len(u) + 1 \in 1..(Len(u) + 1)
  <1>1. PICK n, i, r, t : n = Len(u) /\ i = Len(u) + 1 /\ r = InsertAt(u, i, e) /\ t = Append(u, e)  OBVIOUS
  <1>2. n \in Nat /\ i \in 1..(Len(u) + 1) /\ i = n + 1  BY <1>1
  <1>3. /\ r \in Seq(S) /\ DOMAIN r = 1..(n + 1)
        /\ \A j \in 1..(n + 1) : r[j] = IF j < i THEN u[j] ELSE IF j = i THEN e ELSE u[j - 1]
    <2>1. WithOne(S, u, i, e, r)  BY <1>1, <1>2, InsertedOne
    <2>. QED  BY <1>1, <2>1 DEF WithOne
  <1>4. t \in Seq(S) /\ DOMAIN t = 1..(n + 1) /\ t[n + 1] = e /\ \A j \in 1..n : t[j] = u[j]  BY <1>1
  <1>5. \A j \in 1..(n + 1) : (j < i /\ j \in 1..n) \/ j = i  BY <1>2
  <1>6. ASSUME NEW j \in 1..(n + 1) PROVE r[j] = t[j]
    <2>1. CASE j < i /\ j \in 1..n
      <3>1. r[j] = u[j]  BY <1>3, <2>1
      <3>2. t[j] = u[j]  BY <1>4, <2>1
      <3>. QED  BY <3>1, <3>2
    <2>2. CASE j = i
      <3>1. ~(j < i)  BY <1>2, <2>2
      <3>2. r[j] = e  BY <1>3, <2>2, <3>1
      <3>3. t[j] = e  BY <1>2, <1>4, <2>2
      <3>. QED  BY <3>2, <3>3
    <2>. QED  BY <1>5, <2>1, <2>2
  <1>7. Len(r) = n + 1 /\ Len(t) = n + 1  BY <1>2, <1>3, <1>4
  <1>8. r = t  BY <1>3, <1>4, <1>6, <1>7
  <1>. QED  BY <1>1, <1>2, <1>8

\* u goes on in q with h, and then t, which are the first element of a and the rest.
NextIn(S, q, u, a, h, t) ==
    /\ h \in S /\ t \in Seq(S) /\ IsSpliced(q, u, h, t) /\ IsConcat(q, Append(u, h), t)
    /\ \A b \in Seq(S) : Head(a \o b) = h /\ Tail(a \o b) = t \o b

\* The next element of what is to come.
LEMMA NextOf ==
    ASSUME NEW S, NEW u \in Seq(S), NEW a \in Seq(S), a # <<>>, NEW q, IsConcat(q, u, a),
           NEW h, NEW t, h = Head(a), t = Tail(a)
    PROVE  NextIn(S, q, u, a, h, t)
  <1>1. PICK n, k : n = Len(u) /\ k = Len(a)  OBVIOUS
  <1>2. /\ n \in Nat /\ k \in Nat /\ k >= 1 /\ h \in S /\ h = a[1] /\ t \in Seq(S) /\ Len(t) = k - 1
        /\ \A j \in 1..(k - 1) : t[j] = a[j + 1]
    BY <1>1
  <1>3. /\ q \in Seq(S) /\ Len(q) = n + k /\ \A j \in 1..n : q[j] = u[j]
        /\ \A j \in 1..k : q[n + j] = a[j]
    BY <1>1 DEF IsConcat
  <1>4. PICK w : w = Append(u, h)  OBVIOUS
  <1>5. w \in Seq(S) /\ Len(w) = n + 1 /\ w[n + 1] = h /\ \A j \in 1..n : w[j] = u[j]
    BY <1>1, <1>2, <1>4
  <1>6. q = w \o t
    <2>1. PICK r : r = w \o t  OBVIOUS
    <2>2. /\ r \in Seq(S) /\ Len(r) = n + k /\ \A j \in 1..(n + 1) : r[j] = w[j]
          /\ \A j \in 1..(k - 1) : r[(n + 1) + j] = t[j]
      <3>1. PICK n1, k1 : n1 = Len(w) /\ k1 = Len(t)  OBVIOUS
      <3>2. /\ r \in Seq(S) /\ Len(r) = n1 + k1 /\ (\A j \in 1..n1 : r[j] = w[j])
            /\ \A j \in 1..k1 : r[n1 + j] = t[j]
        <4>1. Chained(S, w, t, r, n1, k1)  BY <1>2, <1>5, <2>1, <3>1, ConcatFacts
        <4>. QED  BY <4>1 DEF Chained
      <3>3. n1 = n + 1 /\ k1 = k - 1 /\ n1 + k1 = n + k  BY <1>2, <1>5, <3>1
      <3>. QED  BY <3>2, <3>3
    <2>3. ASSUME NEW j \in 1..(n + k) PROVE q[j] = r[j]
      <3>1. CASE j \in 1..n  BY <1>2, <1>3, <1>5, <2>2, <3>1
      <3>2. CASE j = n + 1  BY <1>2, <1>3, <1>5, <2>2, <3>2
      <3>3. CASE j > n + 1
        <4>1. PICK i : i = j - (n + 1)  OBVIOUS
        <4>2. i \in 1..(k - 1) /\ i + 1 \in 1..k /\ j = (n + 1) + i /\ j = n + (i + 1)
          BY <1>2, <2>3, <3>3, <4>1
        <4>3. q[j] = a[i + 1] /\ r[j] = t[i]  BY <1>3, <2>2, <4>2
        <4>. QED  BY <1>2, <4>2, <4>3
      <3>. QED  BY <1>2, <3>1, <3>2, <3>3
    <2>. QED  BY <1>3, <2>1, <2>2, <2>3
  <1>7. u \o <<h>> = w  BY <1>2, <1>4, SeqEnds
  <1>8. ASSUME NEW b \in Seq(S) PROVE Head(a \o b) = h /\ Tail(a \o b) = t \o b
    <2>1. PICK r, f, g : r = a \o b /\ f = Tail(r) /\ g = t \o b  OBVIOUS
    <2>2. PICK l : l = Len(b)  OBVIOUS
    <2>3. /\ l \in Nat /\ r \in Seq(S) /\ Len(r) = k + l /\ (\A j \in 1..k : r[j] = a[j])
          /\ \A j \in 1..l : r[k + j] = b[j]
      <3>1. Chained(S, a, b, r, k, l)  BY <1>1, <2>1, <2>2, ConcatFacts
      <3>. QED  BY <3>1 DEF Chained
    <2>4. /\ f \in Seq(S) /\ Len(f) = (k + l) - 1 /\ \A j \in 1..((k + l) - 1) : f[j] = r[j + 1]
      BY <1>2, <2>1, <2>3
    <2>5. /\ g \in Seq(S) /\ Len(g) = (k - 1) + l /\ (\A j \in 1..(k - 1) : g[j] = t[j])
          /\ \A j \in 1..l : g[(k - 1) + j] = b[j]
      <3>1. PICK k1 : k1 = Len(t)  OBVIOUS
      <3>2. /\ g \in Seq(S) /\ Len(g) = k1 + l /\ (\A j \in 1..k1 : g[j] = t[j])
            /\ \A j \in 1..l : g[k1 + j] = b[j]
        <4>1. Chained(S, t, b, g, k1, l)  BY <1>2, <2>1, <2>2, <3>1, ConcatFacts
        <4>. QED  BY <4>1 DEF Chained
      <3>3. k1 = k - 1  BY <1>2, <3>1
      <3>. QED  BY <3>2, <3>3
    <2>6. ASSUME NEW j \in 1..((k + l) - 1) PROVE f[j] = g[j]
      <3>1. CASE j \in 1..(k - 1)
        <4>1. j + 1 \in 1..k  BY <1>2, <3>1
        <4>. QED  BY <1>2, <2>3, <2>4, <2>5, <2>6, <3>1, <4>1
      <3>2. CASE j > k - 1
        <4>1. PICK i : i = j - (k - 1)  OBVIOUS
        <4>2. i \in 1..l /\ j = (k - 1) + i /\ j + 1 = k + i  BY <1>2, <2>3, <2>6, <3>2, <4>1
        <4>3. g[j] = b[i] /\ f[j] = r[j + 1]  BY <2>4, <2>5, <2>6, <4>2
        <4>4. r[j + 1] = b[i]  BY <2>3, <4>2
        <4>. QED  BY <4>3, <4>4
      <3>. QED  BY <1>2, <2>3, <3>1, <3>2
    <2>7. f = g
      <3>1. (k + l) - 1 = (k - 1) + l  BY <1>2, <2>3
      <3>2. Len(f) = Len(g) /\ Len(f) = (k + l) - 1  BY <2>4, <2>5, <3>1
      <3>3. \A j \in 1..Len(f) : f[j] = g[j]  BY <2>6, <3>2
      <3>4. f \in Seq(S) /\ g \in Seq(S)  BY <2>4, <2>5
      <3>. QED  BY <3>2, <3>3, <3>4, SeqEqual
    <2>8. Head(r) = h
      <3>1. r # <<>> /\ 1 \in 1..k  BY <1>2, <2>3
      <3>2. Head(r) = r[1]  BY <2>3, <3>1
      <3>. QED  BY <1>2, <2>3, <3>1, <3>2
    <2>. QED  BY <2>1, <2>7, <2>8
  <1>. QED  BY <1>2, <1>4, <1>6, <1>7, <1>8 DEF IsSpliced, IsConcat, Splice, NextIn

-----------------------------------------------------------------------------

\* Snapshot x has what y has, then e, on side s, and more on the other side.
LEMMA NextFits ==
    ASSUME NEW c \in Coins, NEW x, IsSnapshot(x, c), NEW y, IsSnapshot(y, c), NEW s \in Sides,
           NEW e \in Orders, NEW t \in Seq(Orders), NEW b \in Seq(Orders),
           IsSpliced(x[s], y[s], e, t), IsConcat(x[Other(s)], y[Other(s)], b)
    PROVE  /\ e \in RestingOrders(c, s) /\ FitsAt(y[s], s, e, Len(y[s]) + 1)
           /\ \A r \in Sides : \A j \in DOMAIN y[r] : y[r][j].oid # e.oid
           /\ \A j \in DOMAIN y[Other(s)] : ~Crosses(s, y[Other(s)][j].px, e.px)
           /\ \E j \in DOMAIN x[s] : x[s][j] = e
  <1>1. PICK q, u, n, z, v : q = x[s] /\ u = y[s] /\ n = Len(u) /\ z = x[Other(s)] /\ v = y[Other(s)]
    OBVIOUS
  <1>2. u \in Seq(Orders) /\ v \in Seq(Orders)  BY <1>1, OtherSide, SnapshotSide
  <1>3. q = Splice(u, e, t)  BY <1>1 DEF IsSpliced
  <1>4. Spliced1(Orders, u, e, t, q)  BY <1>2, <1>3, SpliceFacts
  <1>5. /\ q \in Seq(Orders) /\ n \in Nat /\ n + 1 \in DOMAIN q /\ q[n + 1] = e
        /\ \A j \in 1..n : j \in DOMAIN q /\ q[j] = u[j]
        /\ DOMAIN u = 1..n
    <2>1. PICK l : l = Len(t)  OBVIOUS
    <2>2. n \in Nat /\ l \in Nat /\ DOMAIN u = 1..n  BY <1>1, <1>2, <2>1
    <2>3. /\ q \in Seq(Orders) /\ Len(q) = n + 1 + l
          /\ \A j \in 1..(n + 1 + l) : q[j] = IF j =< n THEN u[j] ELSE IF j = n + 1 THEN e ELSE t[j - (n + 1)]
      BY <1>1, <1>4, <2>1 DEF Spliced1
    <2>4. DOMAIN q = 1..(n + 1 + l)  BY <2>3
    <2>5. \A j \in 1..n : j \in 1..(n + 1 + l) /\ j =< n  BY <2>2
    <2>6. n + 1 \in 1..(n + 1 + l) /\ ~(n + 1 =< n)  BY <2>2
    <2>. QED  BY <2>2, <2>3, <2>4, <2>5, <2>6
  <1>6. \A j \in DOMAIN v : j \in DOMAIN z /\ z[j] = v[j]  BY <1>1, <1>2 DEF IsConcat
  <1>7. /\ \A i, j \in DOMAIN q : i < j => Crosses(Other(s), q[i].px, q[j].px)
        /\ \A i \in DOMAIN q, j \in DOMAIN z : ~Crosses(s, z[j].px, q[i].px)
        /\ \A i, j \in DOMAIN q : q[i].oid = q[j].oid => i = j
        /\ \A i \in DOMAIN q, j \in DOMAIN z : q[i].oid # z[j].oid
        /\ \A i \in DOMAIN q : q[i] \in RestingOrders(c, s)
    BY <1>1, SnapshotPlaces
  <1>8. e \in RestingOrders(c, s)  BY <1>5, <1>7
  <1>9. FitsAt(u, s, e, n + 1)
    <2>1. \A j \in 1..n : j < n + 1 /\ j \in DOMAIN q  BY <1>5
    <2>2. \A j \in 1..n : Crosses(Other(s), u[j].px, e.px)  BY <1>5, <1>7, <2>1
    <2>3. n + 1 \in 1..(Len(u) + 1)  BY <1>1, <1>5
    <2>. QED  BY <1>5, <2>1, <2>2, <2>3 DEF FitsAt
  <1>10. \A j \in DOMAIN u : u[j].oid # e.oid
    <2>1. \A j \in 1..n : j # n + 1  BY <1>5
    <2>. QED  BY <1>5, <1>7, <2>1
  <1>11. \A j \in DOMAIN v : v[j].oid # e.oid /\ ~Crosses(s, v[j].px, e.px)  BY <1>5, <1>6, <1>7
  <1>12. \A r \in Sides : r = s \/ r = Other(s)  BY DEF Sides, Other
  <1>. QED  BY <1>1, <1>5, <1>8, <1>9, <1>10, <1>11, <1>12

\* It is added to the book.
LEMMA LoadedNext ==
    ASSUME Calm, NEW m, IsNode(m), NEW c \in DOMAIN m, Tracks(View(m), Coins),
           NEW x, IsSnapshot(x, c), NEW s \in Sides,
           NEW e \in Orders, NEW t \in Seq(Orders), NEW b \in Seq(Orders),
           IsSpliced(x[s], m[c][s], e, t), IsConcat(x[Other(s)], m[c][Other(s)], b), AddOrder(e, NoOid),
           NEW w, SideTurned(m, c, s, Append(m[c][s], e), w)
    PROVE  /\ IsNode(w) /\ Tracks(View(w), Coins)' /\ ~Known(e.coin, e.oid)
           /\ \E j \in DOMAIN x[s] : x[s][j] = e
  <1>1. c \in Coins /\ IsSnapshot(m[c], c)  BY DEF IsNode
  <1>2. /\ e \in RestingOrders(c, s) /\ FitsAt(m[c][s], s, e, Len(m[c][s]) + 1)
        /\ \A r \in Sides : \A j \in DOMAIN m[c][r] : m[c][r][j].oid # e.oid
        /\ \A j \in DOMAIN m[c][Other(s)] : ~Crosses(s, m[c][Other(s)][j].px, e.px)
        /\ \E j \in DOMAIN x[s] : x[s][j] = e
    BY <1>1, NextFits
  <1>3. e \in FullOrders /\ e.coin = c /\ e.side = s /\ e.sz \in Szs \ {0} /\ ~e.is_trigger
    BY <1>1, <1>2, RestingFull
  <1>4. m[c][s] \in Seq(RestingOrders(c, s)) /\ m[c][s] \in Seq(Orders)
    BY <1>1, SnapshotPlaces, SnapshotSide
  <1>5. PICK i : i = Len(m[c][s]) + 1  OBVIOUS
  <1>6. InsertAt(m[c][s], i, e) = Append(m[c][s], e) /\ i \in 1..(Len(m[c][s]) + 1)
    BY <1>4, <1>5, InsertLast
  <1>7. SideTurned(m, c, s, InsertAt(m[c][s], i, e), w)  BY <1>6
  <1>8. IsNode(w)
    <2>1. PICK y : y = [m[c] EXCEPT ![s] = InsertAt(m[c][s], i, e)]  OBVIOUS
    <2>2. \A j \in DOMAIN m[c][s] :
             m[c][s][j].px # e.px => (j < i <=> Crosses(Other(s), m[c][s][j].px, e.px))
      BY <1>2, <1>5 DEF FitsAt
    <2>3. IsSnapshot(y, c)  BY <1>1, <1>2, <1>6, <2>1, <2>2, SnapshotInserted
    <2>. QED  BY <1>7, <2>1, <2>3, NodeTurned
  <1>9. ~Known(e.coin, e.oid)
    <2>1. call = Idle  BY DEF AddOrder
    <2>. SUFFICES ASSUME Known(c, e.oid) PROVE FALSE  BY <1>3
    <2>2. PICK r \in Sides, p \in Pxs : Holds(BookView[<<c, r, p>>], e.oid)  BY <1>1, <2>1, KnownHeld
    <2>3. <<c, r, p>> \in Lanes /\ <<c, r, p>>[1] \in Coins  BY <1>1 DEF Lanes
    <2>4. View(m)[<<c, r, p>>] = BookView[<<c, r, p>>]  BY <2>1, <2>3, IdleView
    <2>5. View(m)[<<c, r, p>>] = AtPrice(m[c][r], p)  BY <1>1, ViewAt
    <2>6. m[c][r] \in Seq(Orders)  BY <1>1, SnapshotSide
    <2>7. \E j \in DOMAIN m[c][r] : m[c][r][j].oid = e.oid  BY <2>2, <2>4, <2>5, <2>6, HoldsAtPrice, SMTT(30)
    <2>. QED  BY <1>2, <2>7
  <1>10. Tracks(View(w), Coins)'
    <2>1. PICK st, d : st = [order |-> e, status |-> "open", tif |-> "Gtc", time |-> 0]
                       /\ d = [coin |-> c, oid |-> e.oid, px |-> e.px, kind |-> "New", sz |-> e.sz,
                               before |-> NoOid]
      OBVIOUS
    <2>2. PICK om : om = [o \in {e.oid} |-> st]  OBVIOUS
    <2>3. d \in Diffs  BY <1>1, <1>3, <2>1 DEF Diffs, FullOrders
    <2>4. /\ d.kind = "New" /\ d.coin = c /\ d.oid = e.oid /\ d.px = e.px /\ d.sz = e.sz /\ d.before = NoOid
          /\ st.order = e /\ d.oid \in DOMAIN om /\ om[d.oid] = st
      BY <2>1, <2>2
    <2>5. Rests(om[d.oid], d) = e
      <3>1. [e EXCEPT !.px = e.px, !.sz = e.sz] = e  BY <1>3 DEF FullOrders
      <3>. QED  BY <1>3, <2>4, <3>1 DEF Rests, convert_trigger
    <2>6. d.before = IF i =< Len(m[c][s]) /\ m[c][s][i].px = e.px THEN m[c][s][i].oid ELSE NoOid
      BY <1>4, <1>5, <2>4
    <2>7. e.sz > 0  BY <1>3 DEF Szs
    <2>8. \A j \in DOMAIN m[c][s] : m[c][s][j].oid # e.oid  BY <1>2
    <2>9. FitsAt(m[c][s], s, e, i)  BY <1>2, <1>5
    <2>10. Moves(View(m), d, om, View(w))
      BY <1>2, <1>3, <1>7, <2>4, <2>5, <2>6, <2>7, <2>8, <2>9, InsertedMoves, SMTT(30)
    <2>11. AddOrder(e, d.before)  BY <2>4
    <2>12. PICK v, u : v = View(m) /\ u = View(w)  OBVIOUS
    <2>13. Tracks(v, Coins) /\ Moves(v, d, om, u)  BY <2>10, <2>12
    <2>14. Tracks(u, Coins)'  BY <1>1, <1>9, <2>3, <2>4, <2>5, <2>11, <2>13, NewFollows
    <2>. QED  BY <2>12, <2>14
  <1>. QED  BY <1>2, <1>8, <1>9, <1>10

-----------------------------------------------------------------------------
(* The server *)

\* The coins that are followed; no event was lost from the snapshot to block h.
Watched == {c \in Coins : ~Skipped(c)}
Unspoilt(h) == lossy \intersect (origin + 1)..h = {}

\* No order that the books have, or are about to, is new in a block after h.
Fresh(h) == \A o : Has(o) => \A j \in DOMAIN past : j > h => o \notin NewIds(blocks[j].diffs)

\* Of snapshot x the books have y, and todo is to come.
Halfway(y, todo, x) ==
    \E a, b \in Seq(Orders) : /\ IsConcat(x["Bid"], y["Bid"], a) /\ IsConcat(x["Ask"], y["Ask"], b)
                              /\ IsConcat(todo, a, b)

\* m is what is loaded of node n's books.
Loads(m, todo, coins, n) ==
    /\ IsNode(m) /\ DOMAIN m = DOMAIN n \ coins
    /\ \/ todo = <<>> /\ \A x \in DOMAIN m : m[x] = n[x]
       \/ \E c \in DOMAIN m : /\ Halfway(m[c], todo, n[c])
                              /\ \A x \in DOMAIN m : x # c => m[x] = n[x]

NoneOK == work = NoState /\ call = Idle

LoadingAt(h, coins, todo, m) ==
    /\ work = [phase |-> "loading", height |-> h, coins |-> coins, todo |-> todo]
    /\ h \in DOMAIN past /\ coins \subseteq DOMAIN past[h] /\ Loads(m, todo, coins, past[h])
    /\ Tracks(View(m), Coins)
    /\ \A o : Has(o) => o \in IdsIn(past[h])

ReadyOK ==
    /\ work = Ready /\ call = Idle /\ height \in DOMAIN past /\ Fresh(height)
    /\ Unspoilt(height) => Tracks(View(past[height]), Watched)

\* Of block height + 1 these diffs are still to be applied.
ApplyingAt(todo, om) ==
    /\ work = [phase |-> "applying", todo |-> todo, order_map |-> om]
    /\ height \in DOMAIN past /\ height + 1 \in DOMAIN past /\ Fresh(height + 1)
    /\ todo \in Seq(Diffs) /\ Once(todo) /\ NewIds(todo) \subseteq NewIds(blocks[height + 1].diffs)
    /\ \A o \in DOMAIN om : om[o] \in Statuses /\ om[o].order.oid = o
    /\ \A o : Has(o) => o \notin NewIds(todo)
    /\ Unspoilt(height + 1) =>
          \E v : Tracks(v, Watched) /\ Leads(v, todo, om, View(past[height + 1]))

LoadingOK == \E h, coins, todo, m : LoadingAt(h, coins, todo, m)
ApplyingOK == \E todo, om : ApplyingAt(todo, om)

Bounds == height \in Nat /\ origin \in Nat /\ origin =< height

ServerInv ==
    /\ Calm /\ Bounds
    /\ work.phase # "none" => Len(blocks) = MaxHeight
    /\ NoneOK \/ LoadingOK \/ ReadyOK \/ ApplyingOK

\* What ServerInv says in each phase of the server's work.
LEMMA Phases ==
    ASSUME ServerInv
    PROVE  /\ work.phase \in {"none", "loading", "ready", "applying"}
           /\ work.phase = "none" => NoneOK
           /\ work.phase = "loading" => LoadingOK
           /\ work.phase = "ready" => ReadyOK
           /\ work.phase = "applying" => ApplyingOK
  <1>1. NoneOK => work.phase = "none"  BY DEF NoneOK, NoState
  <1>2. LoadingOK => work.phase = "loading"  BY DEF LoadingOK, LoadingAt
  <1>3. ReadyOK => work.phase = "ready"  BY DEF ReadyOK, Ready
  <1>4. ApplyingOK => work.phase = "applying"  BY DEF ApplyingOK, ApplyingAt
  <1>. QED  BY <1>1, <1>2, <1>3, <1>4 DEF ServerInv

\* What ChainInv says of the snapshots and of the blocks.
LEMMA PastFacts ==
    ASSUME ChainInv
    PROVE  /\ Len(past) \in Nat /\ DOMAIN past = 1..Len(past) /\ DOMAIN blocks = DOMAIN past
           /\ Len(blocks) = Len(past)
           /\ \A h \in DOMAIN past : /\ IsNode(past[h]) /\ Once(blocks[h].diffs) /\ h \in Nat /\ h >= 1
                                     /\ blocks[h] \in Blocks
                                     /\ blocks[h].diffs \in Seq(Diffs) /\ blocks[h].statuses \in Seq(Statuses)
           /\ \A g, h \in DOMAIN past : g < h => NewIds(blocks[h].diffs) \intersect Born(g) = {}
  <1>1. blocks \in Seq(Blocks) /\ Len(past) = Len(blocks)  BY DEF ChainInv, PastOK
  <1>2. PICK S : past \in Seq(S)  BY DEF ChainInv, PastOK
  <1>3. PICK n : n = Len(past)  OBVIOUS
  <1>4. n \in Nat /\ DOMAIN past = 1..n /\ DOMAIN blocks = 1..n /\ \A h \in 1..n : blocks[h] \in Blocks
    BY <1>1, <1>2, <1>3
  <1>5. \A h \in 1..n : h \in Nat /\ h >= 1  BY <1>4
  <1>6. \A b \in Blocks : b.diffs \in Seq(Diffs) /\ b.statuses \in Seq(Statuses)  BY DEF Blocks
  <1>7. \A h \in DOMAIN past : IsNode(past[h]) /\ Once(blocks[h].diffs)  BY DEF ChainInv, PastOK
  <1>8. \A g, h \in DOMAIN past : g < h => NewIds(blocks[h].diffs) \intersect Born(g) = {}
    BY DEF ChainInv, PastOK
  <1>. QED  BY <1>1, <1>3, <1>4, <1>5, <1>6, <1>7, <1>8

\* What a node's books have at height h is not new later.
LEMMA OldFresh ==
    ASSUME ChainInv, NEW h \in DOMAIN past, \A o : Has(o) => o \in IdsIn(past[h])
    PROVE  Fresh(h)
  <1>1. IdsIn(past[h]) \subseteq Born(h)  BY DEF Born
  <1>2. \A j \in DOMAIN past : j > h => h < j  BY PastFacts
  <1>. QED  BY <1>1, <1>2, PastFacts DEF Fresh

-----------------------------------------------------------------------------

\* A load starts with empty books, and every coin is still to come.
LEMMA StartLoads ==
    ASSUME ChainInv, NEW h \in DOMAIN past, StartLoading(h), past' = past
    PROVE  Calm' /\ LoadingOK'
  <1>1. /\ order_books' = Empty /\ call' = Idle
        /\ work' = [phase |-> "loading", height |-> h, coins |-> DOMAIN past[h], todo |-> <<>>]
    BY DEF StartLoading
  <1>2. Calm' /\ (\A o : ~Has(o)') /\ BookView' = [k \in Lanes |-> <<>>]  BY <1>1, EmptyCalm
  <1>3. PICK m : m = [x \in {} |-> EmptySnap]  OBVIOUS
  <1>4. DOMAIN m = {} /\ IsNode(m)  BY <1>3 DEF IsNode
  <1>5. PICK v : v = View(m)  OBVIOUS
  <1>6. \A k \in Lanes : v[k] = BookView'[k]  BY <1>2, <1>4, <1>5 DEF View
  <1>7. Tracks(v, Coins)'  BY <1>1, <1>6, IdleTracks
  <1>8. Loads(m, <<>>, DOMAIN past[h], past[h])  BY <1>4 DEF Loads
  <1>9. LoadingAt(h, DOMAIN past[h], <<>>, m)'  BY <1>1, <1>2, <1>5, <1>7, <1>8 DEF LoadingAt
  <1>10. LoadingOK'  BY <1>9 DEF LoadingOK
  <1>. QED  BY <1>2, <1>10

\* Load keeps ServerInv.
LEMMA LoadServes ==
    ASSUME ChainInv, ServerInv, NEW h \in DOMAIN past, Load(h)
    PROVE  ServerInv'
  <1>1. /\ StartLoading(h) /\ past' = past /\ blocks' = blocks /\ Len(blocks) = MaxHeight
        /\ height' = height /\ origin' = origin
    BY DEF Load, chainVars
  <1>2. Calm' /\ LoadingOK'  BY <1>1, StartLoads
  <1>. QED  BY <1>1, <1>2 DEF ServerInv, Bounds

\* A step that leaves the books leaves their view.
LEMMA SameCalm ==
    ASSUME Calm, UNCHANGED bookVars
    PROVE  /\ Calm' /\ BookView' = BookView /\ \A o : Has(o)' <=> Has(o)
           /\ \A v, D : Tracks(v, D)' <=> Tracks(v, D)
  <1>1. order_books' = order_books /\ call' = call  BY DEF bookVars
  <1>2. BookInv'  BY BookInvStep DEF Calm
  <1>3. BookView' = BookView  BY <1>1 DEF BookView, Book, QueueAt
  <1>4. InCall' = InCall /\ Taker' = Taker  BY <1>1 DEF InCall, Taker
  <1>5. Future' = Future /\ Crossed' = Crossed
    BY <1>1, <1>3, <1>4 DEF Future, Crossed, Book
  <1>6. \A o : Has(o)' <=> Has(o)  BY <1>3, <1>4 DEF Has, Held
  <1>7. \A v, D : Tracks(v, D)' <=> Tracks(v, D)  BY <1>1, <1>3, <1>4, <1>5 DEF Tracks, Smooth
  <1>8. ViewFiled(BookView')  BY <1>3 DEF Calm
  <1>. QED  BY <1>2, <1>3, <1>6, <1>7, <1>8 DEF Calm

\* Audit keeps ServerInv.
LEMMA AuditServes ==
    ASSUME ChainInv, ServerInv, Audit
    PROVE  ServerInv'
  <1>1. work.phase = "ready" /\ ReadyOK  BY Phases DEF Audit
  <1>2. /\ past' = past /\ blocks' = blocks /\ lossy' = lossy /\ height' = height /\ origin' = origin
        /\ Len(blocks) = MaxHeight
    BY <1>1 DEF Audit, chainVars, ServerInv
  <1>3. CASE order_books' = order_books /\ call' = call /\ work' = work
    <2>1. /\ Calm' /\ (\A o : Has(o)' <=> Has(o)) /\ \A v, D : Tracks(v, D)' <=> Tracks(v, D)
      BY <1>3, SameCalm DEF ServerInv, bookVars
    <2>2. Bounds'  BY <1>2 DEF ServerInv, Bounds
    <2>3. Fresh(height)'  BY <1>1, <1>2, <2>1 DEF ReadyOK, Fresh
    <2>4. PICK v : v = View(past[height])  OBVIOUS
    <2>5. Unspoilt(height)' => Tracks(v, Watched)'
      BY <1>1, <1>2, <2>1, <2>4 DEF ReadyOK, Unspoilt
    <2>6. ReadyOK'  BY <1>1, <1>2, <1>3, <2>3, <2>4, <2>5 DEF ReadyOK
    <2>. QED  BY <1>2, <2>1, <2>2, <2>6 DEF ServerInv
  <1>4. CASE StartLoading(height)
    <2>1. height \in DOMAIN past  BY <1>1 DEF ReadyOK
    <2>2. Calm' /\ LoadingOK'  BY <1>2, <1>4, <2>1, StartLoads
    <2>. QED  BY <1>2, <2>2 DEF ServerInv, Bounds
  <1>. QED  BY <1>3, <1>4 DEF Audit, bookVars

\* Nothing is to come.
LEMMA HalfwayDone ==
    ASSUME NEW m, IsNode(m), NEW n, IsNode(n), NEW c \in DOMAIN m, c \in DOMAIN n, Halfway(m[c], <<>>, n[c])
    PROVE  m[c] = n[c]
  <1>1. c \in Coins /\ IsSnapshot(m[c], c) /\ IsSnapshot(n[c], c)  BY DEF IsNode
  <1>2. PICK a \in Seq(Orders), b \in Seq(Orders) :
           /\ IsConcat(n[c]["Bid"], m[c]["Bid"], a) /\ IsConcat(n[c]["Ask"], m[c]["Ask"], b)
           /\ IsConcat(<<>>, a, b)
    BY DEF Halfway
  <1>3. a = <<>> /\ b = <<>>
    <2>1. a \o b = <<>>  BY <1>2 DEF IsConcat
    <2>. QED  BY <2>1, ConcatEqualIffEmpty
  <1>4. m[c]["Bid"] \in Seq(Orders) /\ m[c]["Ask"] \in Seq(Orders)  BY <1>1, SnapshotSide DEF Sides
  <1>5. n[c]["Bid"] = m[c]["Bid"] \o <<>> /\ n[c]["Ask"] = m[c]["Ask"] \o <<>>  BY <1>2, <1>3 DEF IsConcat
  <1>6. \A q \in Seq(Orders) : q \o <<>> = q  OBVIOUS
  <1>7. \A s \in Sides : n[c][s] = m[c][s]  BY <1>4, <1>5, <1>6 DEF Sides
  <1>8. m[c] = [s \in Sides |-> m[c][s]] /\ n[c] = [s \in Sides |-> n[c][s]]  BY <1>1 DEF IsSnapshot
  <1>. QED  BY <1>7, <1>8

\* When no coin is left to load, the books are the snapshot's.
LEMMA LoadsAll ==
    ASSUME NEW m, NEW n, IsNode(n), NEW coins, Loads(m, <<>>, coins, n)
    PROVE  \A y \in DOMAIN m : m[y] = n[y]
  <1>1. CASE \A y \in DOMAIN m : m[y] = n[y]  BY <1>1
  <1>2. CASE \E d \in DOMAIN m : /\ Halfway(m[d], <<>>, n[d])
                                 /\ \A y \in DOMAIN m : y # d => m[y] = n[y]
    <2>1. PICK d \in DOMAIN m : Halfway(m[d], <<>>, n[d]) /\ \A y \in DOMAIN m : y # d => m[y] = n[y]
      BY <1>2
    <2>2. IsNode(m) /\ d \in DOMAIN n  BY DEF Loads
    <2>3. m[d] = n[d]  BY <2>1, <2>2, HalfwayDone
    <2>. QED  BY <2>1, <2>3
  <1>. QED  BY <1>1, <1>2 DEF Loads

\* LoadCoin keeps ServerInv: the orders of the coin are to come, bids first.
LEMMA LoadCoinServes ==
    ASSUME ChainInv, ServerInv, NEW c \in Coins, LoadCoin(c)
    PROVE  ServerInv'
  <1>1. work.phase = "loading" /\ LoadingOK /\ Calm  BY Phases DEF LoadCoin, ServerInv
  <1>2. PICK h, coins, todo, m : LoadingAt(h, coins, todo, m)  BY <1>1 DEF LoadingOK
  <1>3. /\ work = [phase |-> "loading", height |-> h, coins |-> coins, todo |-> todo]
        /\ h \in DOMAIN past /\ coins \subseteq DOMAIN past[h] /\ Loads(m, todo, coins, past[h])
        /\ Tracks(View(m), Coins) /\ \A o : Has(o) => o \in IdsIn(past[h])
    BY <1>2 DEF LoadingAt
  <1>4. PICK n, x, rest : n = past[h] /\ x = n[c] /\ rest = AddedInOrder(x)  OBVIOUS
  <1>5. /\ todo = <<>> /\ call = Idle /\ c \in coins /\ order_books' = With(order_books, c, new) /\ call' = Idle
        /\ work' = [phase |-> "loading", height |-> h, coins |-> coins \ {c}, todo |-> rest]
        /\ past' = past /\ blocks' = blocks /\ height' = height /\ origin' = origin
    BY <1>3, <1>4 DEF LoadCoin, chainVars
  <1>6. /\ Calm' /\ (\A o : Has(o)' => Has(o))
        /\ BookView' = [k \in Lanes |-> IF k[1] = c THEN <<>> ELSE BookView[k]]
    BY <1>1, <1>5, NewBookCalm
  <1>7. IsNode(n) /\ IsSnapshot(x, c) /\ c \in DOMAIN n  BY <1>3, <1>4, <1>5, PastFacts DEF IsNode
  <1>8. /\ IsNode(m) /\ DOMAIN m = DOMAIN n \ coins /\ c \notin DOMAIN m
    BY <1>3, <1>4, <1>5 DEF Loads
  <1>9. \A y \in DOMAIN m : m[y] = n[y]  BY <1>3, <1>4, <1>5, <1>7, LoadsAll
  <1>10. PICK w : w = With(m, c, EmptySnap)  OBVIOUS
  <1>11. View(w) = View(m) /\ IsNode(w)  BY <1>8, <1>10, RelistView
  <1>12. DOMAIN w = DOMAIN m \union {c} /\ w[c] = EmptySnap /\ \A y \in DOMAIN m : y # c => w[y] = m[y]
    BY <1>10 DEF With
  <1>13. Halfway(EmptySnap, rest, x)
    <2>1. /\ rest = x["Bid"] \o x["Ask"] /\ x["Bid"] \in Seq(Orders) /\ x["Ask"] \in Seq(Orders)
      BY <1>4, <1>7, TriggersNone
    <2>2. EmptySnap["Bid"] = <<>> /\ EmptySnap["Ask"] = <<>>  BY DEF EmptySnap, Sides
    <2>3. \A q \in Seq(Orders) : <<>> \o q = q  OBVIOUS
    <2>. QED  BY <2>1, <2>2, <2>3 DEF Halfway, IsConcat
  <1>14. Loads(w, rest, coins \ {c}, n)
    <2>1. DOMAIN w = DOMAIN n \ (coins \ {c})  BY <1>5, <1>7, <1>8, <1>12
    <2>2. Halfway(w[c], rest, n[c]) /\ c \in DOMAIN w  BY <1>4, <1>12, <1>13
    <2>3. \A y \in DOMAIN w : y # c => w[y] = n[y]  BY <1>9, <1>12
    <2>. QED  BY <1>11, <2>1, <2>2, <2>3 DEF Loads
  <1>15. PICK v : v = View(w)  OBVIOUS
  <1>16. Tracks(v, Coins)'
    <2>1. \A k \in Lanes : k[1] \in Coins => v[k] = BookView[k]  BY <1>1, <1>3, <1>5, <1>11, <1>15, IdleView
    <2>2. \A k \in Lanes : k[1] = c => v[k] = <<>>  BY <1>8, <1>11, <1>15 DEF View
    <2>3. \A k \in Lanes : k[1] \in Coins => v[k] = BookView'[k]  BY <1>6, <2>1, <2>2
    <2>. QED  BY <1>5, <2>3, IdleTracks
  <1>17. LoadingAt(h, coins \ {c}, rest, w)'
    BY <1>3, <1>4, <1>5, <1>6, <1>14, <1>15, <1>16 DEF LoadingAt
  <1>18. LoadingOK'  BY <1>17 DEF LoadingOK
  <1>. QED  BY <1>1, <1>5, <1>6, <1>18 DEF ServerInv, Bounds

\* The next order of a snapshot is added.
LoadsOn(m, w, c, todo, x) ==
    /\ IsNode(w) /\ DOMAIN w = DOMAIN m /\ Halfway(w[c], todo, x)
    /\ \A y \in DOMAIN m : y # c => w[y] = m[y]

Gained(m, c, s, e, w) ==
    /\ IsNode(w) /\ DOMAIN w = DOMAIN m
    /\ w[c][s] = Append(m[c][s], e) /\ w[c][Other(s)] = m[c][Other(s)]
    /\ \A y \in DOMAIN m : y # c => w[y] = m[y]

\* The next order of a side of the snapshot rests last at its price.
LEMMA SideLoaded ==
    ASSUME Calm, NEW m, IsNode(m), NEW c \in DOMAIN m, Tracks(View(m), Coins),
           NEW n, IsNode(n), c \in DOMAIN n, NEW s \in Sides,
           NEW e \in Orders, NEW t \in Seq(Orders), NEW b \in Seq(Orders),
           IsSpliced(n[c][s], m[c][s], e, t), IsConcat(n[c][Other(s)], m[c][Other(s)], b),
           AddOrder(e, NoOid)
    PROVE  /\ ~Known(e.coin, e.oid) /\ e.oid \in IdsIn(n)
           /\ \E w : Gained(m, c, s, e, w) /\ Tracks(View(w), Coins)'
  <1>1. IsSnapshot(n[c], c) /\ IsSnapshot(m[c], c)  BY DEF IsNode
  <1>2. PICK w : w = [m EXCEPT ![c] = [m[c] EXCEPT ![s] = Append(m[c][s], e)]]  OBVIOUS
  <1>3. SideTurned(m, c, s, Append(m[c][s], e), w)  BY <1>2 DEF SideTurned
  <1>4. PICK x : x = n[c]  OBVIOUS
  <1>5. /\ IsNode(w) /\ Tracks(View(w), Coins)' /\ ~Known(e.coin, e.oid)
        /\ \E j \in DOMAIN x[s] : x[s][j] = e
    <2>1. IsSpliced(x[s], m[c][s], e, t) /\ IsConcat(x[Other(s)], m[c][Other(s)], b) /\ IsSnapshot(x, c)
      BY <1>1, <1>4
    <2>. QED  BY <1>3, <2>1, LoadedNext
  <1>6. e.oid \in IdsIn(n)  BY <1>4, <1>5, IdAt
  <1>7. DOMAIN m[c] = Sides  BY <1>1 DEF IsSnapshot
  <1>8. /\ DOMAIN w = DOMAIN m /\ w[c][s] = Append(m[c][s], e) /\ w[c][Other(s)] = m[c][Other(s)]
        /\ \A y \in DOMAIN m : y # c => w[y] = m[y]
    BY <1>2, <1>7, OtherSide
  <1>. QED  BY <1>5, <1>6, <1>8 DEF Gained

\* One order more of the snapshot is in the books.
LEMMA HalfwayNext ==
    ASSUME Calm, NEW m, IsNode(m), NEW c \in DOMAIN m, Tracks(View(m), Coins),
           NEW n, IsNode(n), c \in DOMAIN n, NEW todo, todo # <<>>, Halfway(m[c], todo, n[c]),
           NEW e, e = Head(todo), NEW rest, rest = Tail(todo), AddOrder(e, NoOid)
    PROVE  /\ e \in Orders /\ ~Known(e.coin, e.oid) /\ e.oid \in IdsIn(n)
           /\ \E w : LoadsOn(m, w, c, rest, n[c]) /\ Tracks(View(w), Coins)'
  <1>1. PICK x, y : x = n[c] /\ y = m[c]  OBVIOUS
  <1>2. IsSnapshot(x, c) /\ IsSnapshot(y, c) /\ c \in Coins  BY <1>1 DEF IsNode
  <1>3. y["Bid"] \in Seq(Orders) /\ y["Ask"] \in Seq(Orders)  BY <1>2, SnapshotSide DEF Sides
  <1>4. PICK a \in Seq(Orders), b \in Seq(Orders) :
           /\ IsConcat(x["Bid"], y["Bid"], a) /\ IsConcat(x["Ask"], y["Ask"], b) /\ IsConcat(todo, a, b)
    BY <1>1 DEF Halfway
  <1>5. /\ "Bid" \in Sides /\ "Ask" \in Sides /\ Other("Bid") = "Ask" /\ Other("Ask") = "Bid"
    BY DEF Sides, Other
  <1>6. CASE a # <<>>
    <2>1. PICK t : t = Tail(a)  OBVIOUS
    <2>2. PICK f : f = Head(a)  OBVIOUS
    <2>3. /\ f \in Orders /\ t \in Seq(Orders) /\ IsSpliced(x["Bid"], y["Bid"], f, t)
          /\ IsConcat(x["Bid"], Append(y["Bid"], f), t)
          /\ \A u \in Seq(Orders) : Head(a \o u) = f /\ Tail(a \o u) = t \o u
      <3>1. NextIn(Orders, x["Bid"], y["Bid"], a, f, t)  BY <1>3, <1>4, <1>6, <2>1, <2>2, NextOf
      <3>. QED  BY <3>1 DEF NextIn
    <2>4. e = f /\ rest = t \o b  BY <1>4, <2>3 DEF IsConcat
    <2>5. /\ IsSpliced(n[c]["Bid"], m[c]["Bid"], e, t)
          /\ IsConcat(n[c][Other("Bid")], m[c][Other("Bid")], b)
      BY <1>1, <1>4, <1>5, <2>3, <2>4
    <2>6. /\ ~Known(e.coin, e.oid) /\ e.oid \in IdsIn(n)
          /\ \E w : Gained(m, c, "Bid", e, w) /\ Tracks(View(w), Coins)'
      BY <1>5, <2>3, <2>4, <2>5, SideLoaded
    <2>7. PICK w : /\ IsNode(w) /\ DOMAIN w = DOMAIN m /\ Tracks(View(w), Coins)'
                   /\ w[c]["Bid"] = Append(m[c]["Bid"], e) /\ w[c][Other("Bid")] = m[c][Other("Bid")]
                   /\ \A z \in DOMAIN m : z # c => w[z] = m[z]
      BY <2>6 DEF Gained
    <2>8. Halfway(w[c], rest, x)
      <3>1. IsConcat(x["Bid"], w[c]["Bid"], t) /\ IsConcat(x["Ask"], w[c]["Ask"], b)
        BY <1>1, <1>4, <1>5, <2>3, <2>4, <2>7
      <3>2. IsConcat(rest, t, b)  BY <2>4 DEF IsConcat
      <3>. QED  BY <2>3, <3>1, <3>2 DEF Halfway
    <2>9. LoadsOn(m, w, c, rest, n[c])  BY <1>1, <2>7, <2>8 DEF LoadsOn
    <2>. QED  BY <2>3, <2>4, <2>6, <2>7, <2>9
  <1>7. CASE a = <<>>
    <2>1. todo = b /\ b # <<>>
      <3>1. \A q \in Seq(Orders) : <<>> \o q = q  OBVIOUS
      <3>. QED  BY <1>4, <1>7, <3>1 DEF IsConcat
    <2>2. /\ e \in Orders /\ rest \in Seq(Orders) /\ IsSpliced(x["Ask"], y["Ask"], e, rest)
          /\ IsConcat(x["Ask"], Append(y["Ask"], e), rest)
      <3>1. NextIn(Orders, x["Ask"], y["Ask"], b, e, rest)  BY <1>3, <1>4, <2>1, NextOf
      <3>. QED  BY <3>1 DEF NextIn
    <2>3. /\ IsSpliced(n[c]["Ask"], m[c]["Ask"], e, rest)
          /\ IsConcat(n[c][Other("Ask")], m[c][Other("Ask")], a)
      BY <1>1, <1>4, <1>5, <2>2
    <2>4. /\ ~Known(e.coin, e.oid) /\ e.oid \in IdsIn(n)
          /\ \E w : Gained(m, c, "Ask", e, w) /\ Tracks(View(w), Coins)'
      BY <1>5, <2>2, <2>3, SideLoaded
    <2>5. PICK w : /\ IsNode(w) /\ DOMAIN w = DOMAIN m /\ Tracks(View(w), Coins)'
                   /\ w[c]["Ask"] = Append(m[c]["Ask"], e) /\ w[c][Other("Ask")] = m[c][Other("Ask")]
                   /\ \A z \in DOMAIN m : z # c => w[z] = m[z]
      BY <2>4 DEF Gained
    <2>6. Halfway(w[c], rest, x)
      <3>1. IsConcat(x["Bid"], w[c]["Bid"], a) /\ IsConcat(x["Ask"], w[c]["Ask"], rest)
        BY <1>1, <1>4, <1>5, <2>2, <2>5
      <3>2. \A q \in Seq(Orders) : q = <<>> \o q  OBVIOUS
      <3>3. IsConcat(rest, a, rest)  BY <1>7, <2>2, <3>2 DEF IsConcat
      <3>. QED  BY <2>2, <3>1, <3>3 DEF Halfway
    <2>7. LoadsOn(m, w, c, rest, n[c])  BY <1>1, <2>5, <2>6 DEF LoadsOn
    <2>. QED  BY <2>2, <2>4, <2>5, <2>7
  <1>. QED  BY <1>6, <1>7

\* LoadOrder keeps ServerInv.
LEMMA LoadOrderServes ==
    ASSUME ChainInv, ServerInv, LoadOrder
    PROVE  ServerInv'
  <1>1. work.phase = "loading" /\ LoadingOK /\ Calm  BY Phases DEF LoadOrder, ServerInv
  <1>2. PICK h, coins, todo, m : LoadingAt(h, coins, todo, m)  BY <1>1 DEF LoadingOK
  <1>3. /\ work = [phase |-> "loading", height |-> h, coins |-> coins, todo |-> todo]
        /\ h \in DOMAIN past /\ coins \subseteq DOMAIN past[h] /\ Loads(m, todo, coins, past[h])
        /\ Tracks(View(m), Coins) /\ \A o : Has(o) => o \in IdsIn(past[h])
    BY <1>2 DEF LoadingAt
  <1>4. PICK n, e, rest : n = past[h] /\ e = Head(todo) /\ rest = Tail(todo)  OBVIOUS
  <1>5. /\ todo # <<>> /\ AddOrder(e, NoOid)
        /\ work' = [phase |-> "loading", height |-> h, coins |-> coins, todo |-> rest]
        /\ past' = past /\ blocks' = blocks /\ height' = height /\ origin' = origin
    BY <1>3, <1>4 DEF LoadOrder, chainVars
  <1>6. IsNode(n) /\ IsNode(m) /\ DOMAIN m = DOMAIN n \ coins  BY <1>3, <1>4, PastFacts DEF Loads
  <1>7. PICK c \in DOMAIN m : /\ Halfway(m[c], todo, n[c])
                              /\ \A y \in DOMAIN m : y # c => m[y] = n[y]
    BY <1>3, <1>4, <1>5 DEF Loads
  <1>8. /\ e \in Orders /\ ~Known(e.coin, e.oid) /\ e.oid \in IdsIn(n)
        /\ \E w : LoadsOn(m, w, c, rest, n[c]) /\ Tracks(View(w), Coins)'
    BY <1>1, <1>3, <1>4, <1>5, <1>6, <1>7, HalfwayNext
  <1>9. PICK w : LoadsOn(m, w, c, rest, n[c]) /\ Tracks(View(w), Coins)'  BY <1>8
  <1>10. Loads(w, rest, coins, n)  BY <1>6, <1>7, <1>9 DEF LoadsOn, Loads
  <1>11. Calm' /\ \A o : Has(o)' => Has(o) \/ o = e.oid  BY <1>1, <1>5, <1>8, AddCalm
  <1>12. LoadingAt(h, coins, rest, w)'  BY <1>3, <1>4, <1>5, <1>8, <1>9, <1>10, <1>11 DEF LoadingAt
  <1>13. LoadingOK'  BY <1>12 DEF LoadingOK
  <1>. QED  BY <1>1, <1>5, <1>11, <1>13 DEF ServerInv, Bounds

\* Loaded keeps ServerInv: the books are the snapshot's.
LEMMA LoadedServes ==
    ASSUME ChainInv, ServerInv, Loaded
    PROVE  ServerInv'
  <1>1. work.phase = "loading" /\ LoadingOK /\ Calm  BY Phases DEF Loaded, ServerInv
  <1>2. PICK h, coins, todo, m : LoadingAt(h, coins, todo, m)  BY <1>1 DEF LoadingOK
  <1>3. /\ work = [phase |-> "loading", height |-> h, coins |-> coins, todo |-> todo]
        /\ h \in DOMAIN past /\ coins \subseteq DOMAIN past[h] /\ Loads(m, todo, coins, past[h])
        /\ Tracks(View(m), Coins) /\ \A o : Has(o) => o \in IdsIn(past[h])
    BY <1>2 DEF LoadingAt
  <1>4. PICK n, v : n = past[h] /\ v = View(m)  OBVIOUS
  <1>5. /\ todo = <<>> /\ coins = {} /\ call = Idle /\ height' = h /\ origin' = h /\ work' = Ready
        /\ UNCHANGED bookVars /\ call' = Idle
        /\ past' = past /\ blocks' = blocks /\ lossy' = lossy
    BY <1>3 DEF Loaded, chainVars, bookVars
  <1>6. IsNode(n) /\ DOMAIN m = DOMAIN n /\ Loads(m, <<>>, {}, n)  BY <1>3, <1>4, <1>5, PastFacts DEF Loads
  <1>7. \A y \in DOMAIN m : m[y] = n[y]  BY <1>6, LoadsAll
  <1>8. v = View(n)  BY <1>4, <1>6, <1>7 DEF View
  <1>9. /\ Calm' /\ (\A o : Has(o)' <=> Has(o)) /\ \A u, D : Tracks(u, D)' <=> Tracks(u, D)
    BY <1>1, <1>5, SameCalm
  <1>10. Fresh(h)  BY <1>3, OldFresh
  <1>11. Fresh(h)'  BY <1>5, <1>9, <1>10 DEF Fresh
  <1>12. Tracks(v, Watched)
    <2>1. \A k \in Lanes : k[1] \in Coins => v[k] = BookView[k]  BY <1>1, <1>3, <1>4, <1>5, IdleView
    <2>2. \A k \in Lanes : k[1] \in Watched => v[k] = BookView[k]  BY <2>1 DEF Watched
    <2>. QED  BY <1>1, <1>5, <2>2, IdleView
  <1>13. Tracks(v, Watched)'  BY <1>9, <1>12
  <1>14. ReadyOK'  BY <1>3, <1>4, <1>5, <1>8, <1>11, <1>13 DEF ReadyOK
  <1>15. Bounds'  BY <1>3, <1>5, PastFacts DEF Bounds
  <1>. QED  BY <1>1, <1>5, <1>9, <1>14, <1>15 DEF ServerInv

-----------------------------------------------------------------------------
(* Blocks are applied *)

\* The steps of a call under way keep ServerInv.
LEMMA AddingServes ==
    ASSUME ChainInv, ServerInv, Adding
    PROVE  ServerInv'
  <1>1. /\ MatchOne \/ MatchDone \/ Rest
        /\ past' = past /\ blocks' = blocks /\ lossy' = lossy
        /\ height' = height /\ origin' = origin /\ work' = work
    BY DEF Adding, chainVars, stateVars
  <1>2. call # Idle
    <2>1. call.phase \in {"matching", "matched"}  BY <1>1 DEF MatchOne, MatchDone, Rest
    <2>2. Idle.phase = "idle"  BY DEF Idle
    <2>. QED  BY <2>1, <2>2
  <1>3. Calm  BY DEF ServerInv
  <1>4. Calm' /\ (\A o : Has(o)' => Has(o)) /\ \A v, D : Tracks(v, D) => Tracks(v, D)'
    BY <1>1, <1>3, AddingCalm
  <1>5. ASSUME LoadingOK PROVE LoadingOK'
    <2>1. PICK h, coins, todo, m : LoadingAt(h, coins, todo, m)  BY <1>5 DEF LoadingOK
    <2>2. PICK v : v = View(m)  OBVIOUS
    <2>3. LoadingAt(h, coins, todo, m)'  BY <1>1, <1>4, <2>1, <2>2 DEF LoadingAt
    <2>. QED  BY <2>3 DEF LoadingOK
  <1>6. ASSUME ApplyingOK PROVE ApplyingOK'
    <2>1. PICK todo, om : ApplyingAt(todo, om)  BY <1>6 DEF ApplyingOK
    <2>2. Fresh(height + 1)'  BY <1>1, <1>4, <2>1 DEF ApplyingAt, Fresh
    <2>3. PICK w : w = View(past[height + 1])  OBVIOUS
    <2>4. Unspoilt(height + 1)' => \E v : Tracks(v, Watched)' /\ Leads(v, todo, om, w)
      BY <1>1, <1>4, <2>1, <2>3 DEF ApplyingAt, Unspoilt
    <2>5. ApplyingAt(todo, om)'  BY <1>1, <1>4, <2>1, <2>2, <2>3, <2>4 DEF ApplyingAt
    <2>. QED  BY <2>5 DEF ApplyingOK
  <1>7. LoadingOK' \/ ApplyingOK'  BY <1>2, <1>5, <1>6 DEF ServerInv, NoneOK, ReadyOK
  <1>. QED  BY <1>1, <1>4, <1>7 DEF ServerInv, Bounds

\* An error drops the books, of which nothing is claimed then.
LEMMA ErrServes ==
    ASSUME Err
    PROVE  ServerInv'
  <1>1. Calm'  BY EmptyCalm DEF Err
  <1>2. NoneOK' /\ work'.phase = "none"  BY DEF Err, NoneOK, NoState
  <1>3. Bounds'  BY DEF Err, Bounds
  <1>. QED  BY <1>1, <1>2, <1>3 DEF ServerInv

\* A block is taken up: its diffs lead from the snapshot before it to its own.
LEMMA ApplyBlockServes ==
    ASSUME ChainInv, ServerInv, NEW g \in DOMAIN blocks, ApplyBlock(g)
    PROVE  ServerInv'
  <1>1. work.phase = "ready" /\ ReadyOK /\ Calm  BY Phases DEF ApplyBlock, ServerInv
  <1>2. past' = past /\ blocks' = blocks /\ lossy' = lossy  BY DEF ApplyBlock, chainVars
  <1>3. CASE Err  BY <1>3, ErrServes
  <1>4. CASE UNCHANGED <<bookVars, stateVars>>
    <2>1. UNCHANGED bookVars /\ call' = call /\ height' = height /\ origin' = origin /\ work' = work
      BY <1>4 DEF stateVars, bookVars
    <2>2. /\ Calm' /\ (\A o : Has(o)' <=> Has(o)) /\ \A v, D : Tracks(v, D)' <=> Tracks(v, D)
      BY <1>1, <2>1, SameCalm
    <2>3. Fresh(height)'  BY <1>1, <1>2, <2>1, <2>2 DEF ReadyOK, Fresh
    <2>4. PICK v : v = View(past[height])  OBVIOUS
    <2>5. Unspoilt(height)' => Tracks(v, Watched)'  BY <1>1, <1>2, <2>1, <2>2, <2>4 DEF ReadyOK, Unspoilt
    <2>6. ReadyOK'  BY <1>1, <1>2, <2>1, <2>3, <2>4, <2>5 DEF ReadyOK
    <2>. QED  BY <1>2, <2>1, <2>2, <2>6 DEF ServerInv, Bounds
  <1>5. CASE /\ Succeeds(g)
             /\ work' = [phase |-> "applying", todo |-> blocks[g].diffs,
                         order_map |-> OrderMap(blocks[g].statuses)]
             /\ UNCHANGED <<bookVars, height, origin>>
    <2>1. PICK todo, om : todo = blocks[g].diffs /\ om = OrderMap(blocks[g].statuses)  OBVIOUS
    <2>2. /\ g = height + 1 /\ UNCHANGED bookVars /\ height' = height /\ origin' = origin
          /\ work' = [phase |-> "applying", todo |-> todo, order_map |-> om]
      BY <1>5, <2>1 DEF Succeeds
    <2>3. /\ Calm' /\ (\A o : Has(o)' <=> Has(o)) /\ \A v, D : Tracks(v, D)' <=> Tracks(v, D)
      BY <1>1, <2>2, SameCalm
    <2>4. g \in DOMAIN past /\ height \in DOMAIN past /\ height \in Nat /\ height >= 1
      BY <1>1, PastFacts DEF ReadyOK
    <2>5. /\ todo \in Seq(Diffs) /\ Once(todo) /\ blocks[g].statuses \in Seq(Statuses)
      BY <2>1, <2>4, PastFacts
    <2>6. \A o \in DOMAIN om : om[o] \in Statuses /\ om[o].order.oid = o
      BY <2>1, <2>5, OrderMapFacts
    <2>7. Fresh(g)'  BY <1>1, <1>2, <2>2, <2>3, <2>4, PastFacts DEF ReadyOK, Fresh
    <2>8. \A o : Has(o) => o \notin NewIds(todo)
      <3>1. g > height  BY <2>2, <2>4
      <3>. QED  BY <1>1, <2>1, <2>4, <3>1 DEF ReadyOK, Fresh
    <2>9. PICK v, w : v = View(past[height]) /\ w = View(past[g])  OBVIOUS
    <2>10. ASSUME Unspoilt(g) PROVE Tracks(v, Watched) /\ Leads(v, todo, om, w)
      <3>1. origin \in Nat /\ origin =< height  BY DEF ServerInv, Bounds
      <3>2. g \in (origin + 1)..g /\ (origin + 1)..height \subseteq (origin + 1)..g  BY <2>2, <2>4, <3>1
      <3>3. g \notin lossy /\ Unspoilt(height)  BY <2>10, <3>2 DEF Unspoilt
      <3>4. g > 1 /\ g - 1 = height  BY <2>2, <2>4
      <3>5. Leads(View(past[g - 1]), blocks[g].diffs, OrderMap(blocks[g].statuses), View(past[g]))
        BY <2>4, <3>3, <3>4 DEF ChainInv, PastOK
      <3>6. Leads(v, todo, om, w)  BY <2>1, <2>9, <3>4, <3>5
      <3>. QED  BY <1>1, <2>9, <3>3, <3>6 DEF ReadyOK
    <2>11. Unspoilt(g)' => \E u : Tracks(u, Watched)' /\ Leads(u, todo, om, w)
      BY <1>2, <2>2, <2>3, <2>10 DEF Unspoilt
    <2>12. ApplyingAt(todo, om)'
      BY <1>2, <2>1, <2>2, <2>3, <2>4, <2>5, <2>6, <2>7, <2>8, <2>9, <2>11 DEF ApplyingAt
    <2>13. ApplyingOK'  BY <2>12 DEF ApplyingOK
    <2>. QED  BY <1>1, <1>2, <2>2, <2>3, <2>13 DEF ServerInv, Bounds
  <1>. QED  BY <1>3, <1>4, <1>5 DEF ApplyBlock

\* When no diff is left the books are those of the block.
LEMMA BlockDoneServes ==
    ASSUME ChainInv, ServerInv, BlockDone
    PROVE  ServerInv'
  <1>1. work.phase = "applying" /\ ApplyingOK /\ Calm  BY Phases DEF BlockDone, ServerInv
  <1>2. PICK todo, om : ApplyingAt(todo, om)  BY <1>1 DEF ApplyingOK
  <1>3. PICK g : g = height + 1  OBVIOUS
  <1>4. /\ todo = <<>> /\ call = Idle /\ call' = Idle /\ UNCHANGED bookVars /\ height' = g /\ work' = Ready
        /\ origin' = origin /\ past' = past /\ blocks' = blocks /\ lossy' = lossy
    BY <1>2, <1>3 DEF BlockDone, ApplyingAt, chainVars, bookVars
  <1>5. /\ Calm' /\ (\A o : Has(o)' <=> Has(o)) /\ \A v, D : Tracks(v, D)' <=> Tracks(v, D)
    BY <1>1, <1>4, SameCalm
  <1>6. g \in DOMAIN past /\ Fresh(g)  BY <1>2, <1>3 DEF ApplyingAt
  <1>7. Fresh(g)'  BY <1>4, <1>5, <1>6 DEF Fresh
  <1>8. PICK w : w = View(past[g])  OBVIOUS
  <1>9. Unspoilt(g) => Tracks(w, Watched)  BY <1>2, <1>3, <1>4, <1>8, LeadsNone DEF ApplyingAt
  <1>10. Unspoilt(g)' => Tracks(w, Watched)'  BY <1>4, <1>5, <1>9 DEF Unspoilt
  <1>11. ReadyOK'
    <2>1. Fresh(height)'  BY <1>4, <1>7 DEF Fresh
    <2>2. Unspoilt(height)' => Tracks(w, Watched)'  BY <1>4, <1>10 DEF Unspoilt
    <2>3. w = View(past[height])'  BY <1>4, <1>8
    <2>. QED  BY <1>4, <1>6, <2>1, <2>2, <2>3 DEF ReadyOK
  <1>12. Bounds'
    <2>1. height \in Nat /\ origin \in Nat /\ origin =< height  BY DEF ServerInv, Bounds
    <2>2. g \in Nat /\ origin =< g  BY <1>3, <2>1
    <2>. QED  BY <1>4, <2>1, <2>2 DEF Bounds
  <1>. QED  BY <1>1, <1>4, <1>5, <1>11, <1>12 DEF ServerInv

\* The new diffs after the first.
LEMMA NewIdsTail ==
    ASSUME NEW ds \in Seq(Diffs), ds # <<>>, Once(ds), NEW d, d = Head(ds), NEW rest, rest = Tail(ds)
    PROVE  /\ d \in Diffs /\ rest \in Seq(Diffs) /\ Once(rest) /\ NewIds(rest) \subseteq NewIds(ds)
           /\ d.kind = "New" => d.oid \in NewIds(ds) /\ d.oid \notin NewIds(rest)
  <1>1. PICK n : n = Len(ds)  OBVIOUS
  <1>2. /\ n \in Nat /\ n >= 1 /\ DOMAIN ds = 1..n /\ d = ds[1] /\ d \in Diffs /\ rest \in Seq(Diffs)
        /\ DOMAIN rest = 1..(n - 1) /\ \A j \in 1..(n - 1) : rest[j] = ds[j + 1]
    BY <1>1
  <1>3. 1 \in 1..n /\ \A j \in 1..(n - 1) : j + 1 \in 1..n /\ j + 1 # 1  BY <1>2
  <1>4. NewIds(rest) \subseteq NewIds(ds)  BY <1>2, <1>3 DEF NewIds
  <1>5. Once(rest)
    <2>. SUFFICES ASSUME NEW i \in 1..(n - 1), NEW j \in 1..(n - 1), rest[i].kind = "New", rest[j].kind = "New",
                         rest[i].oid = rest[j].oid
                  PROVE  i = j
      BY <1>2 DEF Once
    <2>1. i + 1 = j + 1  BY <1>2, <1>3 DEF Once
    <2>. QED  BY <1>2, <2>1
  <1>6. d.kind = "New" => d.oid \in NewIds(ds)  BY <1>2, <1>3 DEF NewIds
  <1>7. d.kind = "New" => d.oid \notin NewIds(rest)  BY <1>2, <1>3 DEF NewIds, Once
  <1>. QED  BY <1>2, <1>4, <1>5, <1>6, <1>7

\* The rest of the block when its next diff has been dealt with.
LEMMA DiffServes ==
    ASSUME ChainInv, ServerInv, NEW todo, NEW om, ApplyingAt(todo, om), todo # <<>>,
           NEW d, d = Head(todo), NEW rest, rest = Tail(todo), NEW om2,
           work' = [phase |-> "applying", todo |-> rest, order_map |-> om2],
           UNCHANGED <<nodeVars, chainVars, height, origin>>,
           om2 = om \/ (d.kind = "New" /\ om2 = Without(om, {d.oid})),
           Calm', \A o : Has(o)' => Has(o) \/ (d.kind = "New" /\ o = d.oid),
           \A v, w : Tracks(v, Watched) /\ Moves(v, d, om, w) => Tracks(w, Watched)'
    PROVE  ServerInv'
  <1>1. /\ past' = past /\ blocks' = blocks /\ lossy' = lossy /\ height' = height /\ origin' = origin
    BY DEF chainVars
  <1>2. PICK g : g = height + 1  OBVIOUS
  <1>3. /\ work.phase = "applying" /\ height \in DOMAIN past /\ g \in DOMAIN past /\ Fresh(g)
        /\ todo \in Seq(Diffs) /\ Once(todo) /\ NewIds(todo) \subseteq NewIds(blocks[g].diffs)
        /\ (\A o \in DOMAIN om : om[o] \in Statuses /\ om[o].order.oid = o)
        /\ \A o : Has(o) => o \notin NewIds(todo)
    BY <1>2 DEF ApplyingAt
  <1>4. /\ d \in Diffs /\ rest \in Seq(Diffs) /\ Once(rest) /\ NewIds(rest) \subseteq NewIds(todo)
        /\ d.kind = "New" => d.oid \in NewIds(todo) /\ d.oid \notin NewIds(rest)
    BY <1>3, NewIdsTail
  <1>5. \A o \in DOMAIN om2 : o \in DOMAIN om /\ om2[o] = om[o]  BY DEF Without
  <1>6. Fresh(g)'
    <2>1. ASSUME NEW o, Has(o)', NEW j \in DOMAIN past, j > g PROVE o \notin NewIds(blocks[j].diffs)
      <3>1. CASE Has(o)  BY <1>3, <2>1, <3>1 DEF Fresh
      <3>2. CASE d.kind = "New" /\ o = d.oid
        <4>1. o \in Born(g)  BY <1>3, <1>4, <3>2 DEF Born
        <4>2. g < j  BY <1>3, <2>1, PastFacts
        <4>. QED  BY <1>3, <4>1, <4>2, PastFacts
      <3>. QED  BY <2>1, <3>1, <3>2
    <2>. QED  BY <1>1, <2>1 DEF Fresh
  <1>7. \A o : Has(o)' => o \notin NewIds(rest)  BY <1>3, <1>4
  <1>8. PICK w : w = View(past[g])  OBVIOUS
  <1>9. ASSUME Unspoilt(g) PROVE \E u : Tracks(u, Watched)' /\ Leads(u, rest, om2, w)
    <2>1. PICK v : Tracks(v, Watched) /\ Leads(v, todo, om, w)  BY <1>2, <1>8, <1>9 DEF ApplyingAt
    <2>2. PICK u : Moves(v, d, om, u) /\ Leads(u, rest, om, w)  BY <1>3, <2>1, LeadsHead
    <2>3. Serves(om, om2, rest)
      <3>1. \A i \in 1..Len(rest) : rest[i].kind = "New" => rest[i].oid \in NewIds(rest)
        <4>1. rest \in Seq(Diffs)  BY <1>4
        <4>2. DOMAIN rest = 1..Len(rest)  BY <4>1
        <4>. QED  BY <4>2 DEF NewIds
      <3>. QED  BY <1>4, <3>1 DEF Serves, Without
    <2>4. Leads(u, rest, om2, w)  BY <2>2, <2>3, LeadsMap
    <2>. QED  BY <2>1, <2>2, <2>4
  <1>10. Unspoilt(g)' => \E u : Tracks(u, Watched)' /\ Leads(u, rest, om2, w)
    BY <1>1, <1>9 DEF Unspoilt
  <1>11. ApplyingAt(rest, om2)'
    BY <1>1, <1>2, <1>3, <1>4, <1>5, <1>6, <1>7, <1>8, <1>10 DEF ApplyingAt
  <1>12. ApplyingOK'  BY <1>11 DEF ApplyingOK
  <1>. QED  BY <1>1, <1>3, <1>12 DEF ServerInv, Bounds

\* A diff is applied, or refused.
LEMMA ApplyDiffServes ==
    ASSUME ChainInv, ServerInv, ApplyDiff
    PROVE  ServerInv'
  <1>1. work.phase = "applying" /\ ApplyingOK /\ Calm /\ call = Idle  BY Phases DEF ApplyDiff, ServerInv
  <1>2. PICK todo, om : ApplyingAt(todo, om)  BY <1>1 DEF ApplyingOK
  <1>3. work = [phase |-> "applying", todo |-> todo, order_map |-> om]  BY <1>2 DEF ApplyingAt
  <1>4. PICK d, rest : d = Head(todo) /\ rest = Tail(todo)  OBVIOUS
  <1>5. todo # <<>> /\ UNCHANGED <<nodeVars, chainVars, height, origin>>  BY <1>3 DEF ApplyDiff
  <1>6. todo \in Seq(Diffs) /\ Once(todo) /\ (\A o : Has(o) => o \notin NewIds(todo))
        /\ (\A o \in DOMAIN om : om[o] \in Statuses /\ om[o].order.oid = o)
    BY <1>2 DEF ApplyingAt
  <1>7. d \in Diffs /\ (d.kind = "New" => d.oid \in NewIds(todo))  BY <1>4, <1>5, <1>6, NewIdsTail
  <1>8. d.coin \in Coins /\ d.oid \in Oids /\ d.sz \in Szs /\ d.before \in Oids \union {NoOid}
    BY <1>7 DEF Diffs
  <1>9. [work EXCEPT !.todo = Tail(@)] = [phase |-> "applying", todo |-> rest, order_map |-> om]
    <2>1. work.todo = todo  BY <1>3
    <2>2. [work EXCEPT !.todo = rest] = [phase |-> "applying", todo |-> rest, order_map |-> om]  BY <1>3
    <2>. QED  BY <1>4, <2>1, <2>2
  <1>10. ASSUME d.kind = "New", NEW c \in Coins PROVE ~Known(c, d.oid)
    <2>1. ~Has(d.oid)  BY <1>6, <1>7, <1>10
    <2>2. \A s \in Sides, p \in Pxs : ~Holds(BookView[<<c, s, p>>], d.oid)
      BY <2>1 DEF Has, Held, Lanes
    <2>. QED  BY <1>1, <2>2, KnownHeld
  <1>11. CASE Skipped(d.coin) /\ work' = [work EXCEPT !.todo = Tail(@)] /\ UNCHANGED bookVars
    <2>1. /\ Calm' /\ (\A o : Has(o)' <=> Has(o)) /\ \A v, D : Tracks(v, D)' <=> Tracks(v, D)
      BY <1>1, <1>11, SameCalm
    <2>2. d.coin \notin Watched  BY <1>11 DEF Watched
    <2>3. \A v, w : Tracks(v, Watched) /\ Moves(v, d, om, w) => Tracks(w, Watched)'
      BY <2>1, <2>2, SkippedChange
    <2>4. PICK om2 : om2 = om  OBVIOUS
    <2>5. work' = [phase |-> "applying", todo |-> rest, order_map |-> om2]  BY <1>9, <1>11, <2>4
    <2>6. \A o : Has(o)' => Has(o) \/ (d.kind = "New" /\ o = d.oid)  BY <2>1
    <2>7. Calm'  BY <2>1
    <2>. QED  BY <1>2, <1>4, <1>5, <2>3, <2>4, <2>5, <2>6, <2>7, DiffServes
  <1>12. CASE /\ ~Skipped(d.coin) /\ d.kind = "New" /\ d.oid \in DOMAIN om
              /\ AddOrder(Rests(om[d.oid], d), d.before)
              /\ work' = [[work EXCEPT !.todo = Tail(@)] EXCEPT !.order_map = Without(@, {d.oid})]
    <2>1. PICK e : e = Rests(om[d.oid], d)  OBVIOUS
    <2>2. e \in Orders /\ e.coin \in Coins /\ e.oid = d.oid
      <3>1. om[d.oid] \in Statuses /\ om[d.oid].order.oid = d.oid  BY <1>6, <1>12
      <3>2. e \in Orders /\ e.coin = om[d.oid].order.coin /\ e.oid = d.oid
        BY <1>7, <2>1, <3>1, RestsFacts
      <3>3. om[d.oid].order.coin \in Coins  BY <3>1 DEF Statuses, FullOrders
      <3>. QED  BY <3>2, <3>3
    <2>3. ~Known(e.coin, e.oid)  BY <1>10, <1>12, <2>2
    <2>4. AddOrder(e, d.before)  BY <1>12, <2>1
    <2>5. Calm' /\ \A o : Has(o)' => Has(o) \/ o = e.oid  BY <1>1, <1>8, <2>2, <2>3, <2>4, AddCalm
    <2>6. d.coin \in Watched  BY <1>8, <1>12 DEF Watched
    <2>7. ASSUME NEW v, NEW w, Tracks(v, Watched), Moves(v, d, om, w) PROVE Tracks(w, Watched)'
      BY <1>1, <1>7, <1>12, <2>1, <2>3, <2>4, <2>6, <2>7, NewFollows
    <2>8. PICK om2 : om2 = Without(om, {d.oid})  OBVIOUS
    <2>9. work' = [phase |-> "applying", todo |-> rest, order_map |-> om2]  BY <1>9, <1>12, <2>8
    <2>10. Calm' /\ \A o : Has(o)' => Has(o) \/ (d.kind = "New" /\ o = d.oid)  BY <1>12, <2>2, <2>5
    <2>11. d.kind = "New" /\ om2 = Without(om, {d.oid})  BY <1>12, <2>8
    <2>. QED  BY <1>2, <1>4, <1>5, <2>7, <2>9, <2>10, <2>11, DiffServes
  <1>13. CASE /\ ~Skipped(d.coin) /\ d.kind = "New" /\ d.oid \notin DOMAIN om
              /\ call' = Failed /\ work' = [work EXCEPT !.todo = Tail(@)] /\ UNCHANGED order_books
    <2>1. ~Known(d.coin, d.oid)  BY <1>8, <1>10, <1>13
    <2>2. cancel_order(d.oid, d.coin)  BY <1>1, <1>13, <2>1 DEF cancel_order
    <2>3. Calm' /\ \A o : Has(o)' => Has(o)  BY <1>1, <1>8, <2>2, CancelCalm
    <2>4. \A v, w : ~Moves(v, d, om, w)  BY <1>13 DEF Moves, Affects
    <2>5. \A v, w : Tracks(v, Watched) /\ Moves(v, d, om, w) => Tracks(w, Watched)'  BY <2>4
    <2>6. PICK om2 : om2 = om  OBVIOUS
    <2>. QED  BY <1>2, <1>4, <1>5, <1>9, <1>13, <2>3, <2>5, <2>6, DiffServes, ZenonT(60)
  <1>14. CASE /\ ~Skipped(d.coin) /\ work' = [work EXCEPT !.todo = Tail(@)]
              /\ \/ d.kind = "Update" /\ modify_sz(d.oid, d.coin, d.sz)
                 \/ d.kind = "Remove" /\ cancel_order(d.oid, d.coin)
    <2>1. Calm' /\ \A o : Has(o)' => Has(o)  BY <1>1, <1>8, <1>14, CancelCalm, ModifyCalm
    <2>2. d.coin \in Watched  BY <1>8, <1>14 DEF Watched
    <2>3. ASSUME NEW v, NEW w, Tracks(v, Watched), Moves(v, d, om, w) PROVE Tracks(w, Watched)'
      BY <1>1, <1>7, <1>14, <2>2, <2>3, ChangeFollows
    <2>4. PICK om2 : om2 = om  OBVIOUS
    <2>. QED  BY <1>2, <1>4, <1>5, <1>9, <1>14, <2>1, <2>3, <2>4, DiffServes
  <1>15. Skipped(d.coin) <=> (d.coin \in Spot /\ IgnoreSpot)  BY DEF Skipped
  <1>. QED  BY <1>3, <1>4, <1>11, <1>12, <1>13, <1>14, <1>15 DEF ApplyDiff

-----------------------------------------------------------------------------
(* The theorems *)

\* The steps of the node keep ServerInv: none happens while the server works.
LEMMA NodeServes ==
    ASSUME ChainInv, ServerInv, NodeNext
    PROVE  ServerInv'
  <1>1. Len(blocks) < MaxHeight /\ UNCHANGED <<bookVars, stateVars>>
    BY ZenonT(60) DEF NodeNext, Open, OpenIoc, OpenTrigger, Fire, Trade, Cancel, Relist, Change, Seal
  <1>2. work.phase = "none"
    <2>1. Len(blocks) \in Nat  BY PastFacts
    <2>. QED  BY <1>1, <2>1, BlockAssumption DEF ServerInv
  <1>3. NoneOK /\ Calm /\ Bounds  BY <1>2, Phases DEF ServerInv
  <1>4. UNCHANGED bookVars /\ call' = call /\ height' = height /\ origin' = origin /\ work' = work
    BY <1>1 DEF stateVars, bookVars
  <1>5. Calm'  BY <1>3, <1>4, SameCalm
  <1>. QED  BY <1>2, <1>3, <1>4, <1>5 DEF ServerInv, NoneOK, Bounds

\* A step that changes nothing keeps ServerInv.
LEMMA StillServes ==
    ASSUME ChainInv, ServerInv, UNCHANGED vars
    PROVE  ServerInv'
  <1>1. /\ past' = past /\ blocks' = blocks /\ lossy' = lossy /\ height' = height /\ origin' = origin
        /\ work' = work /\ UNCHANGED bookVars /\ call' = call
    BY DEF vars, chainVars, stateVars, bookVars
  <1>2. /\ Calm' /\ (\A o : Has(o)' <=> Has(o)) /\ \A v, D : Tracks(v, D)' <=> Tracks(v, D)
    BY <1>1, SameCalm DEF ServerInv
  <1>3. NoneOK => NoneOK'  BY <1>1 DEF NoneOK
  <1>4. ASSUME LoadingOK PROVE LoadingOK'
    <2>1. PICK h, coins, todo, m : LoadingAt(h, coins, todo, m)  BY <1>4 DEF LoadingOK
    <2>2. PICK v : v = View(m)  OBVIOUS
    <2>3. LoadingAt(h, coins, todo, m)'  BY <1>1, <1>2, <2>1, <2>2 DEF LoadingAt
    <2>. QED  BY <2>3 DEF LoadingOK
  <1>5. ASSUME ApplyingOK PROVE ApplyingOK'
    <2>1. PICK todo, om : ApplyingAt(todo, om)  BY <1>5 DEF ApplyingOK
    <2>2. Fresh(height + 1)'  BY <1>1, <1>2, <2>1 DEF ApplyingAt, Fresh
    <2>3. PICK w : w = View(past[height + 1])  OBVIOUS
    <2>4. Unspoilt(height + 1)' => \E v : Tracks(v, Watched)' /\ Leads(v, todo, om, w)
      BY <1>1, <1>2, <2>1, <2>3 DEF ApplyingAt, Unspoilt
    <2>5. ApplyingAt(todo, om)'  BY <1>1, <1>2, <2>1, <2>2, <2>3, <2>4 DEF ApplyingAt
    <2>. QED  BY <2>5 DEF ApplyingOK
  <1>6. ASSUME ReadyOK PROVE ReadyOK'
    <2>1. Fresh(height)'  BY <1>1, <1>2, <1>6 DEF ReadyOK, Fresh
    <2>2. PICK v : v = View(past[height])  OBVIOUS
    <2>3. Unspoilt(height)' => Tracks(v, Watched)'  BY <1>1, <1>2, <1>6, <2>2 DEF ReadyOK, Unspoilt
    <2>. QED  BY <1>1, <1>6, <2>1, <2>2, <2>3 DEF ReadyOK
  <1>. QED  BY <1>1, <1>2, <1>3, <1>4, <1>5, <1>6 DEF ServerInv, Bounds

\* The server starts without books.
LEMMA ServerInit == Init => ServerInv
  <1>. SUFFICES ASSUME Init PROVE ServerInv  OBVIOUS
  <1>1. BookInv /\ order_books = Empty /\ call = Idle
    BY BookInvInit DEF Init, BookInit
  <1>2. BookView = [k \in Lanes |-> <<>>]
    <2>1. DOMAIN order_books = {}  BY <1>1 DEF Empty
    <2>2. \A c, p : \A s \in Sides : QueueAt(Book(c), s, p) = <<>>
      BY <2>1 DEF Book, new, Empty, QueueAt
    <2>. QED  BY <2>2 DEF BookView, Lanes
  <1>3. ViewFiled(BookView)  BY <1>2 DEF ViewFiled
  <1>4. NoneOK /\ Bounds /\ work.phase = "none"  BY <1>1 DEF Init, NoneOK, Bounds, NoState
  <1>. QED  BY <1>1, <1>3, <1>4 DEF ServerInv, Calm

\* Every step of the system keeps both invariants.
LEMMA ServerStep == ChainInv /\ ServerInv /\ [Next]_vars => ChainInv' /\ ServerInv'
  <1>. SUFFICES ASSUME ChainInv, ServerInv, [Next]_vars PROVE ChainInv' /\ ServerInv'  OBVIOUS
  <1>1. CASE NodeNext  BY <1>1, NodeKeeps, NodeServes
  <1>2. CASE \E h \in DOMAIN past : Load(h)  BY <1>2, LoadServes, ServerKeeps DEF Load
  <1>3. CASE \E c \in Coins : LoadCoin(c)  BY <1>3, LoadCoinServes, ServerKeeps DEF LoadCoin
  <1>4. CASE LoadOrder  BY <1>4, LoadOrderServes, ServerKeeps DEF LoadOrder
  <1>5. CASE Loaded  BY <1>5, LoadedServes, ServerKeeps DEF Loaded
  <1>6. CASE Adding  BY <1>6, AddingServes, ServerKeeps DEF Adding
  <1>7. CASE \E h \in DOMAIN blocks : ApplyBlock(h)  BY <1>7, ApplyBlockServes, ServerKeeps DEF ApplyBlock
  <1>8. CASE ApplyDiff  BY <1>8, ApplyDiffServes, ServerKeeps DEF ApplyDiff
  <1>9. CASE BlockRefused  BY <1>9, ErrServes, ServerKeeps DEF BlockRefused
  <1>10. CASE BlockDone  BY <1>10, BlockDoneServes, ServerKeeps DEF BlockDone
  <1>11. CASE Audit  BY <1>11, AuditServes, ServerKeeps DEF Audit
  <1>12. CASE UNCHANGED vars  BY <1>12, StillServes, ServerKeeps DEF vars
  <1>. QED
    BY <1>1, <1>2, <1>3, <1>4, <1>5, <1>6, <1>7, <1>8, <1>9, <1>10, <1>11, <1>12 DEF Next

\* Both invariants hold at all times.
LEMMA ServerInvHolds == Spec => [](ChainInv /\ ServerInv)
  <1>1. Init => ChainInv /\ ServerInv  BY ChainInit, ServerInit
  <1>2. (ChainInv /\ ServerInv) /\ [Next]_vars => (ChainInv /\ ServerInv)'  BY ServerStep
  <1>. QED  BY <1>1, <1>2, PTL DEF Spec

\* Books that have the view of a snapshot are the snapshot's.
LEMMA FollowsInv == ChainInv /\ ServerInv => FollowsNode
  <1>. SUFFICES ASSUME ChainInv, ServerInv PROVE FollowsNode  OBVIOUS
  <1>1. ASSUME work.phase = "ready", Intact PROVE SameBooks
    <2>1. ReadyOK /\ Calm  BY <1>1, Phases DEF ServerInv
    <2>2. /\ call = Idle /\ height \in DOMAIN past /\ Tracks(View(past[height]), Watched)
      BY <1>1, <2>1 DEF ReadyOK, Intact, Unspoilt
    <2>3. IsNode(past[height]) /\ BookInv  BY <2>1, <2>2, PastFacts DEF Calm
    <2>4. \A k \in Lanes : k[1] \in Watched => View(past[height])[k] = BookView[k]
      BY <2>1, <2>2, IdleView
    <2>5. ASSUME NEW c \in Coins, ~Skipped(c) PROVE Coincide(BookView, View(past[height]), c)
      <3>1. \A s \in Sides, p \in Pxs : <<c, s, p>> \in Lanes /\ <<c, s, p>>[1] \in Watched
        BY <2>5 DEF Lanes, Watched
      <3>. QED  BY <2>4, <3>1 DEF Coincide
    <2>. QED  BY <2>2, <2>3, <2>5, SameBooksViews
  <1>2. ASSUME call.phase = "failed" PROVE lossy \intersect (origin + 1)..(height + 1) # {}
    <2>1. call # Idle /\ call = Failed
      <3>1. Calm  BY DEF ServerInv
      <3>2. call \in Calls  BY <3>1 DEF Calm, BookInv, BookTypeOK
      <3>3. Idle.phase # "failed"  BY DEF Idle
      <3>. QED  BY <1>2, <3>2, <3>3 DEF Calls
    <2>2. \A v, D : ~Tracks(v, D)  BY <2>1 DEF Tracks, Smooth
    <2>3. ~NoneOK /\ ~ReadyOK /\ ~LoadingOK  BY <2>1, <2>2 DEF NoneOK, ReadyOK, LoadingOK, LoadingAt
    <2>4. PICK todo, om : ApplyingAt(todo, om)  BY <2>3 DEF ServerInv, ApplyingOK
    <2>. QED  BY <2>2, <2>4 DEF ApplyingAt, Unspoilt
  <1>. QED  BY <1>1, <1>2 DEF FollowsNode

\* The audit compares the books with a snapshot of their height.
LEMMA AuditInv == ChainInv /\ ServerInv => AuditExact
  <1>. SUFFICES ASSUME ChainInv, ServerInv, work.phase = "ready" PROVE Verdict # "Err" <=> SameBooks
    BY DEF AuditExact
  <1>1. ReadyOK /\ Calm  BY Phases DEF ServerInv
  <1>2. call = Idle /\ height \in DOMAIN past  BY <1>1 DEF ReadyOK
  <1>3. IsNode(past[height]) /\ BookInv /\ BooksFiled  BY <1>1, <1>2, PastFacts, ViewFiledBooks DEF Calm
  <1>. QED  BY <1>2, <1>3, AuditDecides

\* Whatever the bounds, the books the node begins with, the orders it opens and
\* the events that are lost: as long as none is lost the server's books are those
\* of the node, and a block is refused half-way only after a loss.
THEOREM ServerFollowsNode == Spec => []FollowsNode
  BY ServerInvHolds, FollowsInv, PTL

\* The audit raises an alarm exactly if the books differ, after any loss.
THEOREM AuditIsExact == Spec => []AuditExact
  BY ServerInvHolds, AuditInv, PTL

=============================================================================
