-------------------------- MODULE BookViews_proofs --------------------------
(***************************************************************************)
(* What the proofs of BlockApply need of the books, beyond OrderBook's     *)
(* invariant: what the snapshot of a book tells of it, when an audit       *)
(* raises an alarm, and what each call does to the queues.                 *)
(*                                                                         *)
(* A view is what a set of books has at every coin, side and price: the    *)
(* queue there.  The calls of the server, the diffs of a block and the     *)
(* changes of the node are all described by what they do to views.         *)
(***************************************************************************)
EXTENDS OrderBook_proofs

\* A set of numbers up to n that is not empty has a greatest element.
LEMMA MaxFacts ==
    ASSUME NEW n \in Nat, NEW s \in SUBSET (1..n), s # {}
    PROVE  Max(s) \in s /\ \A y \in s : Max(s) >= y
  <1>1. PICK T : T = {n - y : y \in s}  OBVIOUS
  <1>2. T \in SUBSET Nat /\ T # {}
    <2>1. \A y \in s : y \in 1..n /\ n - y \in Nat  OBVIOUS
    <2>. QED  BY <1>1, <2>1
  <1>3. PICK m \in T : \A x \in T : m =< x  BY <1>2, LeastExists
  <1>4. PICK z \in s : m = n - z  BY <1>1, <1>3
  <1>5. ASSUME NEW y \in s PROVE z >= y
    <2>1. n - y \in T  BY <1>1
    <2>. QED  BY <1>3, <1>4, <2>1
  <1>. QED  BY <1>4, <1>5 DEF Max

-----------------------------------------------------------------------------
(* Folds over a sequence *)

\* g is the fold, from base, of the places in s, for every s of places up to n.
Folds(n, A, base, step, g) ==
    /\ g \in [SUBSET (1..n) -> A] /\ g[{}] = base
    /\ \A s \in SUBSET (1..n) : s # {} => g[s] = step[<<Max(s), g[s \ {Max(s)}]>>]

\* A fold over the places up to n is a function of the number of places folded.
LEMMA FoldFunctionExists ==
    ASSUME NEW n \in Nat, NEW A, NEW base \in A, NEW step \in [(1..n) \X A -> A]
    PROVE  \E g : Folds(n, A, base, step, g)
  <1>1. PICK K : K = {k \in Nat : k =< n => \E g : Folds(k, A, base, step, g)}  OBVIOUS
  <1>2. 0 \in K
    <2>1. PICK g : g = [s \in SUBSET (1..0) |-> base]  OBVIOUS
    <2>2. \A s \in SUBSET (1..0) : s = {}  OBVIOUS
    <2>3. Folds(0, A, base, step, g)  BY <2>1, <2>2 DEF Folds
    <2>. QED  BY <1>1, <2>3
  <1>3. ASSUME NEW k \in K PROVE k + 1 \in K
    <2>1. k \in Nat  BY <1>1
    <2>. SUFFICES ASSUME k + 1 =< n PROVE \E g : Folds(k + 1, A, base, step, g)
      BY <1>1, <2>1
    <2>2. PICK g : Folds(k, A, base, step, g)  BY <1>1, <2>1
    <2>3. PICK m : m = k + 1  OBVIOUS
    <2>4. m \in 1..n /\ m \in Nat /\ m \notin 1..k  BY <2>1, <2>3
    <2>5. \A s \in SUBSET (1..m) : s \ {m} \in SUBSET (1..k)  BY <2>1, <2>3
    <2>6. PICK f : f = [s \in SUBSET (1..m) |-> IF m \in s THEN step[<<m, g[s \ {m}]>>] ELSE g[s]]
      OBVIOUS
    <2>7. ASSUME NEW s \in SUBSET (1..k) PROVE f[s] = g[s] /\ s \in SUBSET (1..m)
      <3>1. s \in SUBSET (1..m) /\ m \notin s  BY <2>1, <2>3
      <3>. QED  BY <2>6, <3>1
    <2>8. f \in [SUBSET (1..m) -> A]
      <3>. SUFFICES ASSUME NEW s \in SUBSET (1..m) PROVE f[s] \in A  BY <2>6
      <3>1. CASE m \in s
        <4>1. g[s \ {m}] \in A  BY <2>2, <2>5 DEF Folds
        <4>2. <<m, g[s \ {m}]>> \in (1..n) \X A  BY <2>4, <4>1
        <4>3. step[<<m, g[s \ {m}]>>] \in A  BY <4>2
        <4>. QED  BY <2>6, <3>1, <4>3
      <3>2. CASE m \notin s
        <4>1. s \in SUBSET (1..k)  BY <2>5, <3>2
        <4>2. g[s] \in A  BY <2>2, <4>1 DEF Folds
        <4>. QED  BY <2>6, <3>2, <4>2
      <3>. QED  BY <3>1, <3>2
    <2>9. f[{}] = base
      <3>1. {} \in SUBSET (1..k)  OBVIOUS
      <3>. QED  BY <2>2, <2>7, <3>1 DEF Folds
    <2>10. ASSUME NEW s \in SUBSET (1..m), s # {} PROVE f[s] = step[<<Max(s), f[s \ {Max(s)}]>>]
      <3>1. Max(s) \in s /\ \A y \in s : Max(s) >= y  BY <2>4, <2>10, MaxFacts
      <3>2. CASE m \in s
        <4>1. Max(s) = m
          <5>1. PICK x : x = Max(s)  OBVIOUS
          <5>2. x \in 1..m /\ x >= m  BY <3>1, <3>2, <5>1
          <5>. QED  BY <2>4, <5>1, <5>2
        <4>2. f[s \ {m}] = g[s \ {m}]  BY <2>5, <2>7
        <4>. QED  BY <2>6, <3>2, <4>1, <4>2
      <3>3. CASE m \notin s
        <4>1. s \in SUBSET (1..k) /\ s \ {Max(s)} \in SUBSET (1..k)  BY <2>5, <3>3
        <4>2. f[s] = g[s] /\ f[s \ {Max(s)}] = g[s \ {Max(s)}]  BY <2>7, <4>1
        <4>3. g[s] = step[<<Max(s), g[s \ {Max(s)}]>>]  BY <2>2, <2>10, <4>1 DEF Folds
        <4>. QED  BY <4>2, <4>3
      <3>. QED  BY <3>2, <3>3
    <2>11. Folds(m, A, base, step, f)  BY <2>8, <2>9, <2>10 DEF Folds
    <2>. QED  BY <2>3, <2>11
  <1>4. K \in SUBSET Nat  BY <1>1
  <1>5. n \in K  BY <1>2, <1>3, <1>4, AllNaturals
  <1>. QED  BY <1>1, <1>5

\* The fold of the first k places goes on from that of the first k - 1.
LEMMA InitialSegment ==
    ASSUME NEW n \in Nat, NEW k \in 1..n
    PROVE  1..k \in SUBSET (1..n) /\ 1..k # {} /\ Max(1..k) = k /\ (1..k) \ {k} = 1..(k - 1)
  <1>1. k \in Nat /\ k \in 1..k  OBVIOUS
  <1>2. 1..k \in SUBSET (1..n) /\ 1..k \in SUBSET (1..k) /\ 1..k # {}  BY <1>1
  <1>3. Max(1..k) \in 1..k /\ \A y \in 1..k : Max(1..k) >= y  BY <1>1, <1>2, MaxFacts
  <1>4. PICK x : x = Max(1..k)  OBVIOUS
  <1>5. x = k  BY <1>1, <1>3, <1>4
  <1>6. (1..k) \ {k} = 1..(k - 1)  BY <1>1
  <1>. QED  BY <1>2, <1>4, <1>5, <1>6

-----------------------------------------------------------------------------
(* The orders of one price *)

\* r[k] is what AtPrice has kept of the first k elements.
KeptOf(list, px, S, r) ==
    /\ r \in [0..Len(list) -> Seq(S)] /\ r[0] = <<>>
    /\ \A k \in 1..Len(list) :
          /\ list[k].px = px => r[k] = Append(r[k - 1], list[k])
          /\ list[k].px # px => r[k] = r[k - 1]

\* AtPrice goes along the list and keeps the orders of that price.
LEMMA AtPriceKept ==
    ASSUME NEW S, NEW list \in Seq(S), NEW px
    PROVE  \E r : KeptOf(list, px, S, r) /\ AtPrice(list, px) = r[Len(list)]
  <1>1. PICK n : n = Len(list)  OBVIOUS
  <1>2. n \in Nat /\ DOMAIN list = 1..n /\ \A k \in 1..n : list[k] \in S  BY <1>1
  <1>3. PICK A : A = Seq(S)  OBVIOUS
  <1>4. PICK step : step = [p \in (1..n) \X A |->
                              IF list[p[1]].px = px THEN Append(p[2], list[p[1]]) ELSE p[2]]
    OBVIOUS
  <1>5. step \in [(1..n) \X A -> A]
    <2>. SUFFICES ASSUME NEW p \in (1..n) \X A
                  PROVE  (IF list[p[1]].px = px THEN Append(p[2], list[p[1]]) ELSE p[2]) \in A
      BY <1>4
    <2>1. p[1] \in 1..n /\ p[2] \in A  OBVIOUS
    <2>. QED  BY <1>2, <1>3, <2>1
  <1>6. ASSUME NEW k \in 1..n, NEW a \in A
        PROVE  step[<<k, a>>] = IF list[k].px = px THEN Append(a, list[k]) ELSE a
    <2>1. PICK p : p = <<k, a>>  OBVIOUS
    <2>2. p \in (1..n) \X A /\ p[1] = k /\ p[2] = a  BY <2>1
    <2>. QED  BY <1>4, <2>1, <2>2
  <1>7. <<>> \in A  BY <1>3
  <1>8. PICK f : Folds(n, A, <<>>, step, f)  BY <1>2, <1>5, <1>7, FoldFunctionExists
  <1>. DEFINE Is(g) == g = [s \in SUBSET (1..n) |->
                              IF s = {} THEN <<>>
                              ELSE IF list[Max(s)].px = px
                                   THEN Append(g[s \ {Max(s)}], list[Max(s)]) ELSE g[s \ {Max(s)}]]
  <1>9. Is(f)
    <2>1. PICK h : h = [s \in SUBSET (1..n) |->
                          IF s = {} THEN <<>>
                          ELSE IF list[Max(s)].px = px
                               THEN Append(f[s \ {Max(s)}], list[Max(s)]) ELSE f[s \ {Max(s)}]]
      OBVIOUS
    <2>2. ASSUME NEW s \in SUBSET (1..n) PROVE f[s] = h[s]
      <3>1. CASE s = {}  BY <1>8, <2>1, <3>1 DEF Folds
      <3>2. CASE s # {}
        <4>1. Max(s) \in s  BY <1>2, <3>2, MaxFacts
        <4>2. Max(s) \in 1..n /\ s \ {Max(s)} \in SUBSET (1..n)  BY <4>1
        <4>3. f[s \ {Max(s)}] \in A  BY <1>8, <4>2 DEF Folds
        <4>4. f[s] = step[<<Max(s), f[s \ {Max(s)}]>>]  BY <1>8, <3>2 DEF Folds
        <4>5. PICK k \in 1..n : k = Max(s)  BY <4>2
        <4>6. PICK a \in A : a = f[s \ {Max(s)}]  BY <4>3
        <4>7. f[s] = IF list[k].px = px THEN Append(a, list[k]) ELSE a
          BY <1>6, <4>4, <4>5, <4>6
        <4>. QED  BY <2>1, <3>2, <4>5, <4>6, <4>7
      <3>. QED  BY <3>1, <3>2
    <2>3. DOMAIN f = SUBSET (1..n) /\ DOMAIN h = SUBSET (1..n)  BY <1>8, <2>1 DEF Folds
    <2>4. f = h  BY <1>8, <2>1, <2>2, <2>3 DEF Folds
    <2>. QED  BY <2>1, <2>4
  <1>10. PICK g : g = CHOOSE x : Is(x)  OBVIOUS
  <1>11. Is(g)  BY <1>9, <1>10
  <1>12. AtPrice(list, px) = g[1..n]
    <2>1. AtPrice(list, px)
            = (CHOOSE x : x = [s \in SUBSET (DOMAIN list) |->
                                 IF s = {} THEN <<>>
                                 ELSE IF list[Max(s)].px = px
                                      THEN Append(x[s \ {Max(s)}], list[Max(s)])
                                      ELSE x[s \ {Max(s)}]])[DOMAIN list]
      BY DEF AtPrice, FoldLeft, MapThenFoldSet
    <2>. QED  BY <1>2, <1>10, <2>1
  <1>13. ASSUME NEW k \in 1..n
         PROVE  g[1..k] = IF list[k].px = px THEN Append(g[1..(k - 1)], list[k]) ELSE g[1..(k - 1)]
    <2>1. 1..k \in SUBSET (1..n) /\ 1..k # {} /\ Max(1..k) = k /\ (1..k) \ {k} = 1..(k - 1)
      BY <1>2, InitialSegment
    <2>2. PICK s : s = 1..k  OBVIOUS
    <2>3. g[s] = IF list[Max(s)].px = px
                 THEN Append(g[s \ {Max(s)}], list[Max(s)]) ELSE g[s \ {Max(s)}]
      BY <1>11, <2>1, <2>2
    <2>. QED  BY <2>1, <2>2, <2>3
  <1>14. g[1..0] = <<>>
    <2>1. {} \in SUBSET (1..n) /\ 1..0 = {}  OBVIOUS
    <2>. QED  BY <1>11, <2>1
  <1>. HIDE DEF Is
  <1>15. \A k \in Nat : k =< n => g[1..k] \in Seq(S)
    <2>1. PICK K : K = {k \in Nat : k =< n => g[1..k] \in Seq(S)}  OBVIOUS
    <2>2. 0 \in K
      <3>1. <<>> \in Seq(S)  OBVIOUS
      <3>. QED  BY <1>14, <2>1, <3>1
    <2>3. ASSUME NEW k \in K PROVE k + 1 \in K
      <3>1. k \in Nat  BY <2>1
      <3>2. CASE k + 1 =< n
        <4>1. k + 1 \in 1..n /\ (k + 1) - 1 = k /\ k =< n  BY <1>2, <3>1, <3>2
        <4>2. g[1..k] \in Seq(S) /\ list[k + 1] \in S  BY <1>2, <2>1, <4>1
        <4>3. Append(g[1..k], list[k + 1]) \in Seq(S)  BY <4>2
        <4>4. g[1..(k + 1)] \in Seq(S)  BY <1>13, <4>1, <4>2, <4>3
        <4>. QED  BY <2>1, <3>1, <4>4
      <3>3. CASE ~(k + 1 =< n)  BY <2>1, <3>1, <3>3
      <3>. QED  BY <3>2, <3>3
    <2>4. K \in SUBSET Nat  BY <2>1
    <2>. QED  BY <2>1, <2>2, <2>3, <2>4, AllNaturals
  <1>16. PICK r : r = [k \in 0..n |-> g[1..k]]  OBVIOUS
  <1>17. r \in [0..n -> Seq(S)]
    <2>1. \A k \in 0..n : g[1..k] \in Seq(S)  BY <1>2, <1>15
    <2>. QED  BY <1>16, <2>1
  <1>18. r[0] = <<>> /\ r[n] = g[1..n]  BY <1>2, <1>14, <1>16
  <1>19. ASSUME NEW k \in 1..n
         PROVE  r[k] = IF list[k].px = px THEN Append(r[k - 1], list[k]) ELSE r[k - 1]
    <2>1. k \in 0..n /\ k - 1 \in 0..n  BY <1>2
    <2>. QED  BY <1>13, <1>16, <2>1
  <1>. QED  BY <1>1, <1>12, <1>17, <1>18, <1>19 DEF KeptOf

IsConcat(a, s, t) == a = s \o t
IsAppend(a, s, e) == a = Append(s, e)

\* What is appended to t is appended to s \o t.
LEMMA AppendConcat ==
    ASSUME NEW S, NEW s \in Seq(S), NEW t \in Seq(S), NEW e \in S,
           NEW st, NEW te, NEW a, NEW b,
           IsConcat(st, s, t), IsAppend(te, t, e), IsAppend(a, st, e), IsConcat(b, s, te)
    PROVE  a = b
  <1>. USE DEF IsConcat, IsAppend
  <1>1. PICK m, n : m = Len(s) /\ n = Len(t)  OBVIOUS
  <1>2. m \in Nat /\ n \in Nat  BY <1>1
  <1>3. te \in Seq(S) /\ Len(te) = n + 1 /\ te[n + 1] = e /\ \A i \in 1..n : te[i] = t[i]
    BY <1>1, <1>2
  <1>4. /\ st \in Seq(S) /\ Len(st) = m + n
        /\ \A i \in 1..(m + n) : st[i] = IF i =< m THEN s[i] ELSE t[i - m]
    BY <1>1, ConcatProperties
  <1>5. /\ b \in Seq(S) /\ Len(b) = Len(s) + Len(te)
        /\ \A i \in 1..(Len(s) + Len(te)) : b[i] = IF i =< Len(s) THEN s[i] ELSE te[i - Len(s)]
    BY <1>3, ConcatProperties
  <1>6. /\ Len(b) = m + (n + 1)
        /\ \A i \in 1..(m + (n + 1)) : b[i] = IF i =< m THEN s[i] ELSE te[i - m]
    BY <1>1, <1>3, <1>5
  <1>7. a \in Seq(S) /\ Len(a) = (m + n) + 1 /\ a[(m + n) + 1] = e /\ \A i \in 1..(m + n) : a[i] = st[i]
    BY <1>2, <1>4
  <1>8. Len(a) = Len(b)  BY <1>2, <1>6, <1>7
  <1>9. ASSUME NEW i \in 1..Len(a) PROVE a[i] = b[i]
    <2>1. i \in 1..(m + (n + 1))  BY <1>2, <1>7
    <2>2. CASE i = (m + n) + 1
      <3>1. ~(i =< m) /\ i - m = n + 1  BY <1>2, <2>2
      <3>. QED  BY <1>3, <1>6, <1>7, <2>1, <2>2, <3>1
    <2>3. CASE i # (m + n) + 1
      <3>1. i \in 1..(m + n)  BY <1>2, <2>1, <2>3
      <3>2. CASE i =< m  BY <1>4, <1>6, <1>7, <2>1, <3>1, <3>2
      <3>3. CASE ~(i =< m)
        <4>1. i - m \in 1..n  BY <1>2, <3>1, <3>3
        <4>. QED  BY <1>3, <1>4, <1>6, <1>7, <2>1, <3>1, <3>3, <4>1
      <3>. QED  BY <3>2, <3>3
    <2>. QED  BY <2>2, <2>3
  <1>. QED  BY <1>5, <1>7, <1>8, <1>9, SeqEqual

\* After j elements `list' goes on with the first n of `rest'.
GoesOn(list, rest, j, n) ==
    n =< Len(rest) /\ n + j =< Len(list) /\ \A k \in 1..n : rest[k] = list[k + j]

Joined(r, u, j, k) == r[k + j] = r[j] \o u[k]

\* What is kept of two lists in a row is what is kept of each, in a row.
LEMMA KeptGoesOn ==
    ASSUME NEW S, NEW list \in Seq(S), NEW rest \in Seq(S), NEW px, NEW r, NEW u,
           KeptOf(list, px, S, r), KeptOf(rest, px, S, u),
           NEW j \in Nat, NEW n \in Nat, GoesOn(list, rest, j, n)
    PROVE  Joined(r, u, j, n)
  <1>1. PICK K : K = {k \in Nat : k =< n => Joined(r, u, j, k)}  OBVIOUS
  <1>2. PICK a, b : a = Len(list) /\ b = Len(rest)  OBVIOUS
  <1>3. a \in Nat /\ b \in Nat /\ n =< b /\ n + j =< a  BY <1>2 DEF GoesOn
  <1>4. r \in [0..a -> Seq(S)] /\ u \in [0..b -> Seq(S)] /\ u[0] = <<>>  BY <1>2 DEF KeptOf
  <1>5. r[j] \in Seq(S)
    <2>1. j \in 0..a  BY <1>3
    <2>. QED  BY <1>4, <2>1
  <1>6. 0 \in K
    <2>1. r[j] \o u[0] = r[j]  BY <1>4, <1>5, ConcatEmptySeq
    <2>2. 0 + j = j  OBVIOUS
    <2>3. Joined(r, u, j, 0)  BY <2>1, <2>2 DEF Joined
    <2>. QED  BY <1>1, <2>3
  <1>7. ASSUME NEW k \in K PROVE k + 1 \in K
    <2>1. k \in Nat  BY <1>1
    <2>. SUFFICES ASSUME k + 1 =< n PROVE Joined(r, u, j, k + 1)  BY <1>1, <2>1
    <2>2. PICK x, y : x = k + 1 /\ y = (k + 1) + j  OBVIOUS
    <2>3. /\ x \in 1..n /\ x \in 1..b /\ y \in 1..a /\ x - 1 = k /\ y - 1 = k + j /\ y = x + j
          /\ k \in 0..b /\ k =< n
      BY <1>3, <2>1, <2>2
    <2>4. r[k + j] = r[j] \o u[k]  BY <1>1, <2>1, <2>3 DEF Joined
    <2>5. rest[x] = list[y] /\ rest[x] \in S
      <3>1. rest[x] \in S  BY <1>2, <2>3
      <3>. QED  BY <2>3, <3>1 DEF GoesOn
    <2>6. u[k] \in Seq(S)  BY <1>4, <2>3
    <2>7. /\ list[y].px = px => r[y] = Append(r[k + j], list[y])
          /\ list[y].px # px => r[y] = r[k + j]
      BY <1>2, <2>3 DEF KeptOf
    <2>8. /\ rest[x].px = px => u[x] = Append(u[k], rest[x])
          /\ rest[x].px # px => u[x] = u[k]
      BY <1>2, <2>3 DEF KeptOf
    <2>9. CASE list[y].px = px
      <3>1. PICK e \in S : e = list[y]  BY <2>5
      <3>2. r[y] = Append(r[j] \o u[k], e) /\ u[x] = Append(u[k], e)
        BY <2>4, <2>5, <2>7, <2>8, <2>9, <3>1
      <3>3. PICK v, w : v = r[j] /\ w = u[k]  OBVIOUS
      <3>4. v \in Seq(S) /\ w \in Seq(S)  BY <1>5, <2>6, <3>3
      <3>5. PICK vw, we : IsConcat(vw, v, w) /\ IsAppend(we, w, e)  BY DEF IsConcat, IsAppend
      <3>6. PICK a2, b2 : IsAppend(a2, vw, e) /\ IsConcat(b2, v, we)  BY DEF IsConcat, IsAppend
      <3>7. a2 = b2  BY <3>1, <3>4, <3>5, <3>6, AppendConcat
      <3>8. r[y] = a2 /\ u[x] = we  BY <3>2, <3>3, <3>5, <3>6 DEF IsConcat, IsAppend
      <3>. QED  BY <2>2, <3>3, <3>6, <3>7, <3>8 DEF Joined, IsConcat
    <2>10. CASE list[y].px # px  BY <2>2, <2>4, <2>5, <2>7, <2>8, <2>10 DEF Joined
    <2>. QED  BY <2>9, <2>10
  <1>8. K \in SUBSET Nat  BY <1>1
  <1>9. n \in K  BY <1>6, <1>7, <1>8, AllNaturals
  <1>. QED  BY <1>1, <1>9

\* Filtering by price distributes over concatenation.
LEMMA AtPriceConcat ==
    ASSUME NEW S, NEW s \in Seq(S), NEW t \in Seq(S), NEW px, NEW w, IsConcat(w, s, t)
    PROVE  /\ IsConcat(AtPrice(w, px), AtPrice(s, px), AtPrice(t, px))
           /\ AtPrice(s, px) \in Seq(S) /\ AtPrice(t, px) \in Seq(S)
  <1>. USE DEF IsConcat
  <1>1. PICK a, b : a = Len(s) /\ b = Len(t)  OBVIOUS
  <1>2. /\ w \in Seq(S) /\ a \in Nat /\ b \in Nat /\ Len(w) = a + b
        /\ \A k \in 1..(a + b) : w[k] = IF k =< a THEN s[k] ELSE t[k - a]
    BY <1>1, ConcatProperties
  <1>3. PICK r : KeptOf(w, px, S, r) /\ AtPrice(w, px) = r[Len(w)]  BY <1>2, AtPriceKept
  <1>4. PICK p : KeptOf(s, px, S, p) /\ AtPrice(s, px) = p[Len(s)]  BY AtPriceKept
  <1>5. PICK q : KeptOf(t, px, S, q) /\ AtPrice(t, px) = q[Len(t)]  BY AtPriceKept
  <1>6. r[a + 0] = r[0] \o p[a]
    <2>1. \A k \in 1..a : s[k] = w[k + 0]  BY <1>2
    <2>2. a =< Len(s) /\ a + 0 =< Len(w)  BY <1>1, <1>2
    <2>3. PICK z : z = 0  OBVIOUS
    <2>4. z \in Nat /\ GoesOn(w, s, z, a)  BY <2>1, <2>2, <2>3 DEF GoesOn
    <2>5. Joined(r, p, z, a)  BY <1>2, <1>3, <1>4, <2>4, KeptGoesOn
    <2>. QED  BY <2>3, <2>5 DEF Joined
  <1>7. r[b + a] = r[a] \o q[b]
    <2>1. \A k \in 1..b : t[k] = w[k + a]
      <3>. SUFFICES ASSUME NEW k \in 1..b PROVE t[k] = w[k + a]  OBVIOUS
      <3>1. PICK l : l = k + a  OBVIOUS
      <3>2. l \in 1..(a + b) /\ ~(l =< a) /\ l - a = k  BY <1>2, <3>1
      <3>. QED  BY <1>2, <3>1, <3>2
    <2>2. b =< Len(t) /\ b + a =< Len(w)  BY <1>1, <1>2
    <2>3. GoesOn(w, t, a, b)  BY <2>1, <2>2 DEF GoesOn
    <2>4. Joined(r, q, a, b)  BY <1>2, <1>3, <1>5, <2>3, KeptGoesOn
    <2>. QED  BY <2>4 DEF Joined
  <1>8. p[a] \in Seq(S)
    <2>1. a \in 0..a  BY <1>2
    <2>. QED  BY <1>1, <1>4, <2>1 DEF KeptOf
  <1>9. q[b] \in Seq(S)
    <2>1. b \in 0..b  BY <1>2
    <2>. QED  BY <1>1, <1>5, <2>1 DEF KeptOf
  <1>10. r[0] \o p[a] = p[a]
    <2>1. r[0] = <<>>  BY <1>3 DEF KeptOf
    <2>. QED  BY <1>8, <2>1, ConcatEmptySeq
  <1>11. a + 0 = a /\ b + a = Len(w)  BY <1>2
  <1>. QED  BY <1>1, <1>3, <1>4, <1>5, <1>6, <1>7, <1>8, <1>10, <1>11, <1>9

\* One element is kept or left out.
LEMMA AtPriceOne ==
    ASSUME NEW e, NEW px
    PROVE  /\ e.px = px => AtPrice(<<e>>, px) = <<e>>
           /\ e.px # px => AtPrice(<<e>>, px) = <<>>
  <1>1. PICK s : s = <<e>>  OBVIOUS
  <1>2. s \in Seq({e}) /\ Len(s) = 1 /\ s[1] = e  BY <1>1
  <1>3. PICK r : KeptOf(s, px, {e}, r) /\ AtPrice(s, px) = r[Len(s)]  BY <1>2, AtPriceKept
  <1>4. 1 \in 1..Len(s) /\ 1 - 1 = 0  BY <1>2
  <1>5. /\ e.px = px => r[1] = Append(<<>>, e)
        /\ e.px # px => r[1] = <<>>
    BY <1>2, <1>3, <1>4 DEF KeptOf
  <1>6. Append(<<>>, e) = <<e>>  OBVIOUS
  <1>. QED  BY <1>1, <1>2, <1>3, <1>5, <1>6

\* AtPrice gives elements of the list.
LEMMA AtPriceType ==
    ASSUME NEW S, NEW s \in Seq(S), NEW px
    PROVE  AtPrice(s, px) \in Seq(S)
  <1>1. PICK w : IsConcat(w, s, s)  BY DEF IsConcat
  <1>. QED  BY <1>1, AtPriceConcat

\* An empty list has nothing at any price.
LEMMA AtPriceNone ==
    ASSUME NEW px PROVE AtPrice(<<>>, px) = <<>>
  <1>1. PICK s : s = <<>>  OBVIOUS
  <1>2. s \in Seq({}) /\ Len(s) = 0  BY <1>1
  <1>3. PICK r : KeptOf(s, px, {}, r) /\ AtPrice(s, px) = r[Len(s)]  BY <1>2, AtPriceKept
  <1>. QED  BY <1>1, <1>2, <1>3 DEF KeptOf

-----------------------------------------------------------------------------
(* Sequences taken apart *)

\* q is a, e and b, one after the other.
Splice(a, e, b) == (a \o <<e>>) \o b

Spliced1(S, a, e, b, q) ==
    /\ q \in Seq(S) /\ Len(q) = Len(a) + 1 + Len(b) /\ Len(a) \in Nat /\ Len(b) \in Nat
    /\ \A j \in 1..(Len(a) + 1 + Len(b)) :
          q[j] = IF j =< Len(a) THEN a[j] ELSE IF j = Len(a) + 1 THEN e ELSE b[j - (Len(a) + 1)]

\* The elements of a splice.
LEMMA SpliceFacts ==
    ASSUME NEW S, NEW a \in Seq(S), NEW b \in Seq(S), NEW e \in S
    PROVE  Spliced1(S, a, e, b, Splice(a, e, b))
  <1>1. PICK m, n : m = Len(a) /\ n = Len(b)  OBVIOUS
  <1>2. m \in Nat /\ n \in Nat  BY <1>1
  <1>3. PICK c : c = a \o <<e>>  OBVIOUS
  <1>4. PICK o : o = <<e>>  OBVIOUS
  <1>5. o \in Seq(S) /\ Len(o) = 1 /\ o[1] = e  BY <1>4
  <1>6. /\ c \in Seq(S) /\ Len(c) = m + 1
        /\ \A i \in 1..(m + 1) : c[i] = IF i =< m THEN a[i] ELSE o[i - m]
    BY <1>1, <1>3, <1>4, <1>5, ConcatProperties
  <1>7. PICK q : q = c \o b  OBVIOUS
  <1>8. /\ q \in Seq(S) /\ Len(q) = m + 1 + n
        /\ \A i \in 1..(m + 1 + n) : q[i] = IF i =< m + 1 THEN c[i] ELSE b[i - (m + 1)]
    <2>1. /\ c \o b \in Seq(S) /\ Len(c \o b) = Len(c) + Len(b)
          /\ \A i \in 1..(Len(c) + Len(b)) : (c \o b)[i] = IF i =< Len(c) THEN c[i] ELSE b[i - Len(c)]
      BY <1>6, ConcatProperties
    <2>. QED  BY <1>1, <1>6, <1>7, <2>1
  <1>9. ASSUME NEW j \in 1..(m + 1 + n)
        PROVE  q[j] = IF j =< m THEN a[j] ELSE IF j = m + 1 THEN e ELSE b[j - (m + 1)]
    <2>1. CASE j =< m + 1
      <3>1. q[j] = c[j] /\ j \in 1..(m + 1)  BY <1>2, <1>8, <2>1
      <3>2. CASE j =< m  BY <1>6, <3>1, <3>2
      <3>3. CASE ~(j =< m)
        <4>1. j = m + 1 /\ j - m = 1  BY <1>2, <3>1, <3>3
        <4>. QED  BY <1>5, <1>6, <3>1, <3>3, <4>1
      <3>. QED  BY <3>2, <3>3
    <2>2. CASE ~(j =< m + 1)
      <3>1. ~(j =< m) /\ j # m + 1  BY <1>2, <2>2
      <3>. QED  BY <1>8, <2>2, <3>1
    <2>. QED  BY <2>1, <2>2
  <1>10. q = Splice(a, e, b)  BY <1>3, <1>7 DEF Splice
  <1>. QED  BY <1>1, <1>2, <1>8, <1>9, <1>10 DEF Spliced1

Parts(S, q, i, a, b) ==
    /\ a \in Seq(S) /\ Len(a) = i - 1 /\ \A j \in 1..(i - 1) : a[j] = q[j]
    /\ b \in Seq(S) /\ Len(b) = Len(q) - i + 1
    /\ \A j \in 1..(Len(q) - i + 1) : b[j] = q[j + (i - 1)]

CutAt(q, i, a, b) == i \in 1..(Len(q) + 1) /\ a = SubSeq(q, 1, i - 1) /\ b = SubSeq(q, i, Len(q))

\* The elements of a sequence that is cut at place i.
LEMMA PartsOf ==
    ASSUME NEW S, NEW q \in Seq(S), NEW i, NEW a, NEW b, CutAt(q, i, a, b)
    PROVE  Parts(S, q, i, a, b)
  <1>9. i \in 1..(Len(q) + 1) /\ a = SubSeq(q, 1, i - 1) /\ b = SubSeq(q, i, Len(q))
    BY DEF CutAt
  <1>1. PICK n : n = Len(q)  OBVIOUS
  <1>2. n \in Nat /\ i \in 1..(n + 1) /\ \A j \in 1..n : q[j] \in S  BY <1>1, <1>9
  <1>3. /\ a \in Seq(S) /\ Len(a) = (IF 1 =< i - 1 THEN (i - 1) - 1 + 1 ELSE 0)
        /\ \A j \in 1..((i - 1) - 1 + 1) : a[j] = q[1 + j - 1]
    <2>1. \A j \in 1..(i - 1) : q[j] \in S  BY <1>2
    <2>2. i - 1 \in Int /\ 1 \in Int  BY <1>2
    <2>. QED  BY <1>9, <2>1, <2>2, SubSeqProperties
  <1>4. /\ b \in Seq(S) /\ Len(b) = (IF i =< n THEN n - i + 1 ELSE 0)
        /\ \A j \in 1..(n - i + 1) : b[j] = q[i + j - 1]
    <2>1. \A j \in i..n : q[j] \in S  BY <1>2
    <2>2. i \in Int /\ n \in Int  BY <1>2
    <2>. QED  BY <1>1, <1>9, <2>1, <2>2, SubSeqProperties
  <1>5. Len(a) = i - 1  BY <1>2, <1>3
  <1>6. Len(b) = n - i + 1  BY <1>2, <1>4
  <1>7. ASSUME NEW j \in 1..(i - 1) PROVE a[j] = q[j]
    <2>1. j \in 1..((i - 1) - 1 + 1) /\ 1 + j - 1 = j  BY <1>2
    <2>. QED  BY <1>3, <2>1
  <1>8. ASSUME NEW j \in 1..(n - i + 1) PROVE b[j] = q[j + (i - 1)]
    <2>1. i + j - 1 = j + (i - 1)  BY <1>2
    <2>. QED  BY <1>4, <2>1
  <1>. QED  BY <1>1, <1>3, <1>4, <1>5, <1>6, <1>7, <1>8 DEF Parts

Piece(S, q, i, a, b) ==
    /\ q = Splice(a, q[i], b) /\ Len(a) = i - 1 /\ RemoveAt(q, i) = a \o b
    /\ \A e \in S : [q EXCEPT ![i] = e] = Splice(a, e, b)
    /\ \A j \in 1..(i - 1) : a[j] = q[j]

\* At each of its places a sequence comes apart, and can be changed there.
LEMMA Pieces ==
    ASSUME NEW S, NEW q \in Seq(S), NEW i \in 1..Len(q)
    PROVE  \E a, b \in Seq(S) : Piece(S, q, i, a, b)
  <1>1. PICK n : n = Len(q)  OBVIOUS
  <1>2. n \in Nat /\ i \in 1..(n + 1) /\ i + 1 \in 1..(n + 1) /\ (i + 1) - 1 = i /\ i \in 1..n
        /\ q[i] \in S
    BY <1>1
  <1>3. PICK a, b : a = SubSeq(q, 1, i - 1) /\ b = SubSeq(q, i + 1, n)  OBVIOUS
  <1>4. a \in Seq(S) /\ Len(a) = i - 1 /\ \A j \in 1..(i - 1) : a[j] = q[j]
    <2>1. PICK x : x = SubSeq(q, i, Len(q))  OBVIOUS
    <2>2. i \in 1..(Len(q) + 1)  BY <1>1, <1>2
    <2>3. Parts(S, q, i, a, x)  BY <1>3, <2>1, <2>2, PartsOf DEF CutAt
    <2>. QED  BY <2>3 DEF Parts
  <1>5. b \in Seq(S) /\ Len(b) = n - i /\ \A j \in 1..(n - i) : b[j] = q[j + i]
    <2>1. PICK k : k = i + 1  OBVIOUS
    <2>4. PICK x : x = SubSeq(q, 1, k - 1)  OBVIOUS
    <2>5. k \in 1..(Len(q) + 1) /\ b = SubSeq(q, k, Len(q))  BY <1>1, <1>2, <1>3, <2>1
    <2>6. Parts(S, q, k, x, b)  BY <2>4, <2>5, PartsOf DEF CutAt
    <2>2. b \in Seq(S) /\ Len(b) = n - k + 1 /\ \A j \in 1..(n - k + 1) : b[j] = q[j + (k - 1)]
      BY <1>1, <2>6 DEF Parts
    <2>3. n - k + 1 = n - i /\ k - 1 = i  BY <1>2, <2>1
    <2>. QED  BY <2>2, <2>3
  <1>6. ASSUME NEW e \in S, NEW r \in Seq(S), Len(r) = n,
               \A j \in 1..n : r[j] = IF j = i THEN e ELSE q[j]
        PROVE  r = Splice(a, e, b)
    <2>1. PICK t : t = Splice(a, e, b)  OBVIOUS
    <2>2. /\ t \in Seq(S) /\ Len(t) = Len(a) + 1 + Len(b)
          /\ \A j \in 1..(Len(a) + 1 + Len(b)) :
                t[j] = IF j =< Len(a) THEN a[j] ELSE IF j = Len(a) + 1 THEN e ELSE b[j - (Len(a) + 1)]
      <3>1. Spliced1(S, a, e, b, t)  BY <1>4, <1>5, <2>1, SpliceFacts
      <3>. QED  BY <3>1 DEF Spliced1
    <2>3. Len(a) + 1 = i /\ Len(a) + 1 + Len(b) = n  BY <1>2, <1>4, <1>5
    <2>4. ASSUME NEW j \in 1..n PROVE r[j] = t[j]
      <3>1. CASE j < i
        <4>1. j =< Len(a) /\ j \in 1..(i - 1) /\ j # i  BY <1>2, <1>4, <3>1
        <4>2. r[j] = q[j]  BY <1>6, <4>1
        <4>3. t[j] = a[j]  BY <2>2, <2>3, <4>1
        <4>. QED  BY <1>4, <4>1, <4>2, <4>3
      <3>2. CASE j = i
        <4>1. ~(j =< Len(a)) /\ j = Len(a) + 1  BY <1>2, <1>4, <3>2
        <4>. QED  BY <1>6, <2>2, <2>3, <3>2, <4>1
      <3>3. CASE j > i
        <4>1. ~(j =< Len(a)) /\ j # Len(a) + 1 /\ j - i \in 1..(n - i) /\ (j - i) + i = j /\ j # i
          BY <1>2, <1>4, <3>3
        <4>2. t[j] = b[j - i]  BY <2>2, <2>3, <4>1
        <4>3. r[j] = q[j]  BY <1>6, <4>1
        <4>. QED  BY <1>5, <4>1, <4>2, <4>3
      <3>. QED  BY <1>2, <3>1, <3>2, <3>3
    <2>5. r = t  BY <1>6, <2>2, <2>3, <2>4, SeqEqual
    <2>. QED  BY <2>1, <2>5
  <1>7. q = Splice(a, q[i], b)  BY <1>1, <1>2, <1>6
  <1>8. ASSUME NEW e \in S PROVE [q EXCEPT ![i] = e] = Splice(a, e, b)
    <2>1. PICK r : r = [q EXCEPT ![i] = e]  OBVIOUS
    <2>2. r \in Seq(S) /\ Len(r) = n /\ \A j \in 1..n : r[j] = IF j = i THEN e ELSE q[j]
      BY <1>1, <2>1, ExceptSeq
    <2>. QED  BY <1>6, <2>1, <2>2
  <1>9. RemoveAt(q, i) = a \o b  BY <1>1, <1>3 DEF RemoveAt
  <1>10. Piece(S, q, i, a, b)  BY <1>4, <1>7, <1>8, <1>9 DEF Piece
  <1>. QED  BY <1>4, <1>5, <1>10

SlotAt(S, q, i, a, b) ==
    /\ q = a \o b /\ Len(a) = i - 1 /\ Len(b) = Len(q) - i + 1
    /\ \A e : InsertAt(q, i, e) = Splice(a, e, b)
    /\ \A j \in 1..(i - 1) : a[j] = q[j]
    /\ \A j \in 1..(Len(q) - i + 1) : b[j] = q[j + (i - 1)]

\* A sequence is in two parts at every place one could insert at.
LEMMA Slot ==
    ASSUME NEW S, NEW q \in Seq(S), NEW i \in 1..(Len(q) + 1)
    PROVE  \E a, b \in Seq(S) : SlotAt(S, q, i, a, b)
  <1>1. PICK a, b : a = SubSeq(q, 1, i - 1) /\ b = SubSeq(q, i, Len(q))  OBVIOUS
  <1>2. /\ a \in Seq(S) /\ Len(a) = i - 1 /\ \A j \in 1..(i - 1) : a[j] = q[j]
        /\ b \in Seq(S) /\ Len(b) = Len(q) - i + 1
        /\ \A j \in 1..(Len(q) - i + 1) : b[j] = q[j + (i - 1)]
    <2>1. Parts(S, q, i, a, b)  BY <1>1, PartsOf DEF CutAt
    <2>. QED  BY <2>1 DEF Parts
  <1>3. q = a \o b
    <2>1. PICK r : r = a \o b  OBVIOUS
    <2>2. /\ r \in Seq(S) /\ Len(r) = Len(a) + Len(b)
          /\ \A j \in 1..(Len(a) + Len(b)) : r[j] = IF j =< Len(a) THEN a[j] ELSE b[j - Len(a)]
      <3>1. /\ a \o b \in Seq(S) /\ Len(a \o b) = Len(a) + Len(b)
            /\ \A j \in 1..(Len(a) + Len(b)) : (a \o b)[j] = IF j =< Len(a) THEN a[j] ELSE b[j - Len(a)]
        <4>1. a \in Seq(S) /\ b \in Seq(S)  BY <1>2
        <4>. QED  BY <4>1, ConcatProperties
      <3>. QED  BY <2>1, <3>1
    <2>3. Len(q) \in Nat /\ Len(a) + Len(b) = Len(q)  BY <1>2
    <2>4. ASSUME NEW j \in 1..Len(q) PROVE q[j] = r[j]
      <3>1. CASE j =< Len(a)
        <4>1. j \in 1..(i - 1)  BY <1>2, <3>1
        <4>. QED  BY <1>2, <2>2, <2>3, <3>1, <4>1
      <3>2. CASE ~(j =< Len(a))
        <4>1. j - (i - 1) \in 1..(Len(q) - i + 1) /\ (j - (i - 1)) + (i - 1) = j
          BY <1>2, <2>3, <3>2
        <4>2. r[j] = b[j - (i - 1)]  BY <1>2, <2>2, <2>3, <3>2
        <4>. QED  BY <1>2, <4>1, <4>2
      <3>. QED  BY <3>1, <3>2
    <2>. QED  BY <2>1, <2>2, <2>3, <2>4, SeqEqual
  <1>4. \A e : InsertAt(q, i, e) = Splice(a, e, b)  BY <1>1 DEF InsertAt, Splice
  <1>5. SlotAt(S, q, i, a, b)  BY <1>2, <1>3, <1>4 DEF SlotAt
  <1>. QED  BY <1>2, <1>5

\* Conversely, what is put together comes apart in the same place.
IsSpliced(q, a, e, b) == q = Splice(a, e, b)

Amid(S, q, a, e, b) ==
    /\ q \in Seq(S) /\ Len(a) + 1 \in 1..Len(q) /\ q[Len(a) + 1] = e
    /\ IsConcat(RemoveAt(q, Len(a) + 1), a, b)
    /\ \A f \in S : IsSpliced([q EXCEPT ![Len(a) + 1] = f], a, f, b)

\* The elements of a splice around the one in the middle.
LEMMA Apart1 ==
    ASSUME NEW S, NEW a \in Seq(S), NEW b \in Seq(S), NEW e \in S, NEW q, IsSpliced(q, a, e, b)
    PROVE  Amid(S, q, a, e, b)
  <1>1. PICK m, n, i : m = Len(a) /\ n = Len(b) /\ i = Len(a) + 1  OBVIOUS
  <1>2. /\ q \in Seq(S) /\ Len(q) = m + 1 + n /\ m \in Nat /\ n \in Nat
        /\ \A j \in 1..(m + 1 + n) :
              q[j] = IF j =< m THEN a[j] ELSE IF j = m + 1 THEN e ELSE b[j - (m + 1)]
    <2>1. Spliced1(S, a, e, b, q)  BY SpliceFacts DEF IsSpliced
    <2>. QED  BY <1>1, <2>1 DEF Spliced1
  <1>3. i \in 1..Len(q) /\ i = m + 1 /\ i - 1 = m /\ ~(i =< m)  BY <1>1, <1>2
  <1>4. q[i] = e  BY <1>2, <1>3
  <1>10. PICK c, d \in Seq(S) : Piece(S, q, i, c, d)  BY <1>2, <1>3, Pieces
  <1>5. /\ q = Splice(c, q[i], d) /\ Len(c) = i - 1 /\ RemoveAt(q, i) = c \o d
        /\ \A f \in S : [q EXCEPT ![i] = f] = Splice(c, f, d)
        /\ \A j \in 1..(i - 1) : c[j] = q[j]
    BY <1>10 DEF Piece
  <1>6. /\ Len(q) = Len(c) + 1 + Len(d) /\ Len(d) \in Nat
        /\ \A j \in 1..(Len(c) + 1 + Len(d)) :
              q[j] = IF j =< Len(c) THEN c[j] ELSE IF j = Len(c) + 1 THEN e ELSE d[j - (Len(c) + 1)]
    <2>1. q = Splice(c, e, d)  BY <1>4, <1>5
    <2>2. Spliced1(S, c, e, d, q)  BY <2>1, SpliceFacts
    <2>. QED  BY <2>2 DEF Spliced1
  <1>7. Len(c) = m /\ Len(d) = n  BY <1>2, <1>3, <1>5, <1>6
  <1>8. c = a
    <2>1. ASSUME NEW j \in 1..m PROVE c[j] = a[j]
      <3>1. j \in 1..(m + 1 + n) /\ j =< m /\ j \in 1..(i - 1)  BY <1>2, <1>3
      <3>. QED  BY <1>2, <1>5, <3>1
    <2>. QED  BY <1>1, <1>5, <1>7, <2>1, SeqEqual
  <1>9. d = b
    <2>1. ASSUME NEW j \in 1..n PROVE d[j] = b[j]
      <3>1. PICK k : k = j + (m + 1)  OBVIOUS
      <3>5. n \in Nat /\ m \in Nat  BY <1>2
      <3>2. k \in 1..(m + 1 + n) /\ ~(k =< m) /\ k # m + 1 /\ k - (m + 1) = j  BY <3>1, <3>5
      <3>3. q[k] = b[j]  BY <1>2, <3>2
      <3>4. q[k] = d[j]  BY <1>6, <1>7, <3>2
      <3>. QED  BY <3>3, <3>4
    <2>. QED  BY <1>1, <1>5, <1>7, <2>1, SeqEqual
  <1>. QED  BY <1>1, <1>2, <1>3, <1>4, <1>5, <1>8, <1>9 DEF Amid, IsConcat, IsSpliced

\* InsertAt splices the element in between two parts.
LEMMA Apart2 ==
    ASSUME NEW S, NEW a \in Seq(S), NEW b \in Seq(S), NEW e \in S, NEW q, IsConcat(q, a, b)
    PROVE  IsSpliced(InsertAt(q, Len(a) + 1, e), a, e, b)
  <1>1. PICK m, n, i : m = Len(a) /\ n = Len(b) /\ i = Len(a) + 1  OBVIOUS
  <1>2. /\ q \in Seq(S) /\ Len(q) = m + n /\ m \in Nat /\ n \in Nat
        /\ \A j \in 1..(m + n) : q[j] = IF j =< m THEN a[j] ELSE b[j - m]
    BY <1>1, ConcatProperties DEF IsConcat
  <1>3. i \in 1..(Len(q) + 1) /\ i - 1 = m  BY <1>1, <1>2
  <1>8. PICK c, d \in Seq(S) : SlotAt(S, q, i, c, d)  BY <1>2, <1>3, Slot
  <1>4. /\ q = c \o d /\ Len(c) = i - 1 /\ Len(d) = Len(q) - i + 1
        /\ \A f : InsertAt(q, i, f) = Splice(c, f, d)
        /\ \A j \in 1..(i - 1) : c[j] = q[j]
        /\ \A j \in 1..(Len(q) - i + 1) : d[j] = q[j + (i - 1)]
    BY <1>8 DEF SlotAt
  <1>5. Len(c) = m /\ Len(d) = n  BY <1>1, <1>2, <1>3, <1>4
  <1>6. c = a
    <2>1. ASSUME NEW j \in 1..m PROVE c[j] = a[j]
      <3>1. j \in 1..(m + n) /\ j =< m /\ j \in 1..(i - 1)  BY <1>2, <1>3
      <3>. QED  BY <1>2, <1>4, <3>1
    <2>. QED  BY <1>1, <1>4, <1>5, <2>1, SeqEqual
  <1>7. d = b
    <2>1. ASSUME NEW j \in 1..n PROVE d[j] = b[j]
      <3>1. PICK k : k = j + m  OBVIOUS
      <3>2. k \in 1..(m + n) /\ ~(k =< m) /\ k - m = j /\ j \in 1..(Len(q) - i + 1)
        BY <1>1, <1>2, <3>1
      <3>3. q[k] = b[j]  BY <1>2, <3>2
      <3>4. d[j] = q[j + (i - 1)]  BY <1>4, <3>2
      <3>5. j + (i - 1) = k  BY <1>3, <3>1
      <3>. QED  BY <3>3, <3>4, <3>5
    <2>. QED  BY <1>1, <1>4, <1>5, <2>1, SeqEqual
  <1>. QED  BY <1>1, <1>4, <1>6, <1>7 DEF IsSpliced

Distinct(q) == \A i, j \in DOMAIN q : q[i].oid = q[j].oid => i = j

\* s has the elements of that price among the first k of q, once each.
Picks(q, px, k, s) ==
    /\ \A x \in DOMAIN s : \E j \in 1..k : s[x] = q[j] /\ q[j].px = px
    /\ \A j \in 1..k : q[j].px = px => \E x \in DOMAIN s : s[x] = q[j]
    /\ Distinct(q) => Distinct(s)

\* One more element of the list is looked at.
LEMMA PicksNext ==
    ASSUME NEW S, NEW q \in Seq(S), NEW px, NEW k \in Nat, k + 1 \in 1..Len(q), NEW s \in Seq(S),
           Picks(q, px, k, s)
    PROVE  /\ q[k + 1].px = px => Picks(q, px, k + 1, Append(s, q[k + 1]))
           /\ q[k + 1].px # px => Picks(q, px, k + 1, s)
  <1>1. PICK n, m : n = Len(s) /\ m = k + 1  OBVIOUS
  <1>2. /\ n \in Nat /\ m \in 1..Len(q) /\ m \notin 1..k /\ \A j \in 1..m : j \in 1..k \/ j = m
        /\ DOMAIN q = 1..Len(q) /\ \A j \in 1..k : j \in DOMAIN q /\ j \in 1..m
    BY <1>1
  <1>3. CASE q[m].px = px
    <2>1. PICK t : t = Append(s, q[m])  OBVIOUS
    <2>2. q[m] \in S  BY <1>2
    <2>3. /\ DOMAIN s = 1..n /\ DOMAIN t = 1..(n + 1) /\ t[n + 1] = q[m]
          /\ \A x \in 1..n : t[x] = s[x] /\ x \in 1..(n + 1)
          /\ n + 1 \in 1..(n + 1)
      BY <1>1, <1>2, <2>1, <2>2
    <2>4. \A x \in 1..(n + 1) : x \in 1..n \/ x = n + 1  BY <1>2
    <2>5. \A x \in DOMAIN t : \E j \in 1..m : t[x] = q[j] /\ q[j].px = px
      <3>1. \A x \in 1..n : \E j \in 1..k : s[x] = q[j] /\ q[j].px = px  BY <2>3 DEF Picks
      <3>2. m \in 1..m  BY <1>2
      <3>. QED  BY <1>2, <1>3, <2>3, <2>4, <3>1, <3>2
    <2>6. \A j \in 1..m : q[j].px = px => \E x \in DOMAIN t : t[x] = q[j]
      <3>1. \A j \in 1..k : q[j].px = px => \E x \in 1..n : s[x] = q[j]  BY <2>3 DEF Picks
      <3>. QED  BY <1>2, <2>3, <3>1
    <2>7. ASSUME Distinct(q) PROVE Distinct(t)
      <3>1. ASSUME NEW x \in 1..n PROVE s[x].oid # q[m].oid
        <4>1. PICK j \in 1..k : s[x] = q[j]  BY <2>3 DEF Picks
        <4>. QED  BY <1>2, <2>7, <4>1 DEF Distinct
      <3>2. \A x, y \in 1..n : s[x].oid = s[y].oid => x = y  BY <2>3, <2>7 DEF Picks, Distinct
      <3>3. \A x, y \in 1..(n + 1) : t[x].oid = t[y].oid => x = y  BY <2>3, <2>4, <3>1, <3>2
      <3>. QED  BY <2>3, <3>3 DEF Distinct
    <2>8. Picks(q, px, m, t)  BY <2>5, <2>6, <2>7 DEF Picks
    <2>. QED  BY <1>1, <1>3, <2>1, <2>8
  <1>4. CASE q[m].px # px
    <2>1. Picks(q, px, m, s)  BY <1>2, <1>4 DEF Picks
    <2>. QED  BY <1>1, <1>4, <2>1
  <1>. QED  BY <1>1, <1>3, <1>4

\* AtPrice has the orders of that price, each once.
LEMMA AtPricePicks ==
    ASSUME NEW S, NEW q \in Seq(S), NEW px
    PROVE  Picks(q, px, Len(q), AtPrice(q, px))
  <1>1. PICK r : KeptOf(q, px, S, r) /\ AtPrice(q, px) = r[Len(q)]  BY AtPriceKept
  <1>2. PICK n : n = Len(q)  OBVIOUS
  <1>3. n \in Nat  BY <1>2
  <1>4. PICK K : K = {k \in Nat : k =< n => Picks(q, px, k, r[k])}  OBVIOUS
  <1>5. 0 \in K
    <2>1. r[0] = <<>> /\ DOMAIN <<>> = {} /\ 1..0 = {}  BY <1>1 DEF KeptOf
    <2>2. Picks(q, px, 0, r[0])  BY <2>1 DEF Picks, Distinct
    <2>. QED  BY <1>4, <2>2
  <1>6. ASSUME NEW k \in K PROVE k + 1 \in K
    <2>1. k \in Nat  BY <1>4
    <2>. SUFFICES ASSUME k + 1 =< n PROVE Picks(q, px, k + 1, r[k + 1])  BY <1>4, <2>1
    <2>2. k + 1 \in 1..Len(q) /\ k \in 0..Len(q) /\ (k + 1) - 1 = k /\ k =< n  BY <1>2, <1>3, <2>1
    <2>3. Picks(q, px, k, r[k]) /\ r[k] \in Seq(S)  BY <1>1, <1>4, <2>1, <2>2 DEF KeptOf
    <2>4. /\ q[k + 1].px = px => r[k + 1] = Append(r[k], q[k + 1])
          /\ q[k + 1].px # px => r[k + 1] = r[k]
      BY <1>1, <2>2 DEF KeptOf
    <2>5. /\ q[k + 1].px = px => Picks(q, px, k + 1, Append(r[k], q[k + 1]))
          /\ q[k + 1].px # px => Picks(q, px, k + 1, r[k])
      BY <2>1, <2>2, <2>3, PicksNext
    <2>. QED  BY <2>4, <2>5
  <1>7. K \in SUBSET Nat  BY <1>4
  <1>8. n \in K  BY <1>3, <1>5, <1>6, <1>7, AllNaturals
  <1>. QED  BY <1>1, <1>2, <1>3, <1>4, <1>8

\* An order that is spliced in shows at its own price only.
LEMMA AtPriceSpliced ==
    ASSUME NEW S, NEW a \in Seq(S), NEW b \in Seq(S), NEW e \in S, NEW q, IsSpliced(q, a, e, b), NEW px
    PROVE  /\ AtPrice(a, px) \in Seq(S) /\ AtPrice(b, px) \in Seq(S)
           /\ e.px = px => IsSpliced(AtPrice(q, px), AtPrice(a, px), e, AtPrice(b, px))
           /\ e.px # px => IsConcat(AtPrice(q, px), AtPrice(a, px), AtPrice(b, px))
  <1>1. PICK o, c : o = <<e>> /\ IsConcat(c, a, o) /\ IsConcat(q, c, b)
    BY DEF IsConcat, IsSpliced, Splice
  <1>2. o \in Seq(S)  BY <1>1
  <1>3. c \in Seq(S)  BY <1>1, <1>2, ConcatProperties DEF IsConcat
  <1>4. IsConcat(AtPrice(c, px), AtPrice(a, px), AtPrice(o, px)) /\ AtPrice(a, px) \in Seq(S)
    BY <1>1, <1>2, AtPriceConcat
  <1>5. IsConcat(AtPrice(q, px), AtPrice(c, px), AtPrice(b, px)) /\ AtPrice(b, px) \in Seq(S)
    BY <1>1, <1>3, AtPriceConcat
  <1>6. /\ e.px = px => AtPrice(o, px) = <<e>>
        /\ e.px # px => AtPrice(o, px) = <<>>
    BY <1>1, AtPriceOne
  <1>8. AtPrice(a, px) \o <<>> = AtPrice(a, px)  BY <1>4, ConcatEmptySeq
  <1>9. AtPrice(q, px) = (AtPrice(a, px) \o AtPrice(o, px)) \o AtPrice(b, px)
    BY <1>4, <1>5 DEF IsConcat
  <1>. QED  BY <1>4, <1>5, <1>6, <1>8, <1>9 DEF Splice, IsSpliced, IsConcat

\* The orders of a price in two lists in a row.
LEMMA AtPriceOfConcat ==
    ASSUME NEW S, NEW a \in Seq(S), NEW b \in Seq(S), NEW px
    PROVE  AtPrice(a \o b, px) = AtPrice(a, px) \o AtPrice(b, px)
  <1>1. PICK q : q = a \o b  OBVIOUS
  <1>2. IsConcat(q, a, b)  BY <1>1 DEF IsConcat
  <1>3. IsConcat(AtPrice(q, px), AtPrice(a, px), AtPrice(b, px))  BY <1>2, AtPriceConcat
  <1>. QED  BY <1>1, <1>3 DEF IsConcat

\* The orders of one price, and of one price only, if all have it or none.
LEMMA AtPriceAll ==
    ASSUME NEW S, NEW q \in Seq(S), NEW px
    PROVE  /\ (\A j \in DOMAIN q : q[j].px = px) => AtPrice(q, px) = q
           /\ (\A j \in DOMAIN q : q[j].px # px) => AtPrice(q, px) = <<>>
  <1>1. PICK r : KeptOf(q, px, S, r) /\ AtPrice(q, px) = r[Len(q)]  BY AtPriceKept
  <1>2. PICK n : n = Len(q)  OBVIOUS
  <1>3. n \in Nat /\ DOMAIN q = 1..n  BY <1>2
  <1>4. ASSUME \A j \in DOMAIN q : q[j].px # px PROVE AtPrice(q, px) = <<>>
    <2>1. PICK s : s = AtPrice(q, px)  OBVIOUS
    <2>2. Picks(q, px, n, s)  BY <1>2, <2>1, AtPricePicks
    <2>3. s \in Seq(S)  BY <2>1, AtPriceType
    <2>4. DOMAIN s = {}  BY <1>3, <1>4, <2>2 DEF Picks
    <2>. QED  BY <2>1, <2>3, <2>4
  <1>5. ASSUME \A j \in DOMAIN q : q[j].px = px PROVE AtPrice(q, px) = q
    <2>1. PICK K : K = {k \in Nat : k =< n => Len(r[k]) = k /\ \A i \in 1..k : r[k][i] = q[i]}
      OBVIOUS
    <2>2. 0 \in K
      <3>1. r[0] = <<>> /\ Len(<<>>) = 0  BY <1>1 DEF KeptOf
      <3>. QED  BY <2>1, <3>1
    <2>3. ASSUME NEW k \in K PROVE k + 1 \in K
      <3>1. k \in Nat  BY <2>1
      <3>2. CASE k + 1 =< n
        <4>1. PICK m : m = k + 1  OBVIOUS
        <4>2. m \in 1..n /\ m - 1 = k /\ k \in 0..n /\ k =< n /\ m \in Nat  BY <1>3, <3>1, <3>2, <4>1
        <4>3. PICK s : s = r[k]  OBVIOUS
        <4>4. s \in Seq(S) /\ Len(s) = k /\ \A i \in 1..k : s[i] = q[i]
          BY <1>1, <1>2, <2>1, <4>2, <4>3 DEF KeptOf
        <4>5. r[m] = Append(s, q[m]) /\ q[m] \in S
          <5>1. q[m] \in S /\ q[m].px = px /\ m \in 1..Len(q)  BY <1>2, <1>3, <1>5, <4>2
          <5>. QED  BY <1>1, <4>2, <4>3, <5>1 DEF KeptOf
        <4>6. Len(r[m]) = m /\ \A i \in 1..m : r[m][i] = q[i]
          <5>1. \A i \in 1..m : i \in 1..k \/ i = k + 1  BY <3>1, <4>1
          <5>. QED  BY <3>1, <4>1, <4>4, <4>5, <5>1
        <4>. QED  BY <2>1, <4>1, <4>2, <4>6
      <3>3. CASE ~(k + 1 =< n)  BY <2>1, <3>1, <3>3
      <3>. QED  BY <3>2, <3>3
    <2>4. K \in SUBSET Nat  BY <2>1
    <2>5. n \in K  BY <1>3, <2>2, <2>3, <2>4, AllNaturals
    <2>6. PICK s : s = r[n]  OBVIOUS
    <2>7. s \in Seq(S)  BY <1>1, <1>2, <2>6, AtPriceType
    <2>8. Len(s) = n /\ \A i \in 1..n : s[i] = q[i]  BY <1>3, <2>1, <2>5, <2>6
    <2>9. s = q  BY <1>2, <2>7, <2>8, SeqEqual
    <2>. QED  BY <1>1, <1>2, <2>6, <2>9
  <1>. QED  BY <1>4, <1>5

-----------------------------------------------------------------------------
(* Orders in line: the best price first *)

InLine(s, q) == \A i, j \in DOMAIN q : i < j => Crosses(Other(s), q[i].px, q[j].px)

SameAtPrices(q, r) == \A p \in Pxs : AtPrice(q, p) = AtPrice(r, p)

\* A sequence that is not empty is another one and a last element.
LEMMA LastPiece ==
    ASSUME NEW S, NEW q \in Seq(S), q # <<>>
    PROVE  \E f \in Seq(S), x \in S : q = Append(f, x) /\ Len(f) = Len(q) - 1 /\ Len(q) \in Nat \ {0}
                                      /\ x = q[Len(q)] /\ \A i \in 1..(Len(q) - 1) : f[i] = q[i]
  <1>1. PICK n : n = Len(q)  OBVIOUS
  <1>2. n \in Nat \ {0} /\ q[n] \in S /\ \A i \in 1..n : q[i] \in S  BY <1>1
  <1>3. PICK f : f = [i \in 1..(n - 1) |-> q[i]]  OBVIOUS
  <1>4. f \in Seq(S) /\ Len(f) = n - 1 /\ \A i \in 1..(n - 1) : f[i] = q[i]
    <2>1. n - 1 \in Nat /\ \A i \in 1..(n - 1) : q[i] \in S  BY <1>2
    <2>. QED  BY <1>3, <2>1
  <1>5. q = Append(f, q[n])
    <2>1. PICK r : r = Append(f, q[n])  OBVIOUS
    <2>2. r \in Seq(S) /\ Len(r) = n /\ \A i \in 1..n : r[i] = q[i]
      <3>1. r \in Seq(S) /\ Len(r) = (n - 1) + 1 /\ r[(n - 1) + 1] = q[n]
            /\ \A i \in 1..(n - 1) : r[i] = f[i]
        BY <1>2, <1>4, <2>1
      <3>2. (n - 1) + 1 = n /\ \A i \in 1..n : i \in 1..(n - 1) \/ i = n  BY <1>2
      <3>. QED  BY <1>4, <3>1, <3>2
    <2>. QED  BY <1>1, <2>1, <2>2, SeqEqual
  <1>. QED  BY <1>1, <1>2, <1>4, <1>5

\* An appended order shows at its own price only, and last.
LEMMA AtPriceAppend ==
    ASSUME NEW S, NEW f \in Seq(S), NEW x \in S, NEW px
    PROVE  /\ x.px = px => AtPrice(Append(f, x), px) = Append(AtPrice(f, px), x)
           /\ x.px # px => AtPrice(Append(f, x), px) = AtPrice(f, px)
           /\ AtPrice(f, px) \in Seq(S)
  <1>1. PICK o : o = <<x>>  OBVIOUS
  <1>2. o \in Seq(S) /\ Append(f, x) = f \o o  BY <1>1
  <1>3. AtPrice(f \o o, px) = AtPrice(f, px) \o AtPrice(o, px)  BY <1>2, AtPriceOfConcat
  <1>4. /\ x.px = px => AtPrice(o, px) = o
        /\ x.px # px => AtPrice(o, px) = <<>>
    BY <1>1, AtPriceOne
  <1>5. PICK t : t = AtPrice(f, px)  OBVIOUS
  <1>6. t \in Seq(S)  BY <1>5, AtPriceType
  <1>7. t \o <<>> = t  BY <1>6, ConcatEmptySeq
  <1>8. t \o o = Append(t, x)  BY <1>1, <1>6
  <1>. QED  BY <1>2, <1>3, <1>4, <1>5, <1>6, <1>7, <1>8

\* Two sequences that are equal end in the same element.
LEMMA AppendCancels ==
    ASSUME NEW S, NEW f \in Seq(S), NEW g \in Seq(S), NEW x \in S, NEW y \in S,
           NEW a, IsAppend(a, f, x), IsAppend(a, g, y)
    PROVE  f = g /\ x = y
  <1>1. PICK q, r : q = Append(f, x) /\ r = Append(g, y)  OBVIOUS
  <1>2. PICK m, n : m = Len(f) /\ n = Len(g)  OBVIOUS
  <1>3. /\ m \in Nat /\ n \in Nat /\ Len(q) = m + 1 /\ Len(r) = n + 1
        /\ q[m + 1] = x /\ r[n + 1] = y
        /\ \A i \in 1..m : q[i] = f[i]
        /\ \A i \in 1..n : r[i] = g[i]
    BY <1>1, <1>2
  <1>4. q = r  BY <1>1 DEF IsAppend
  <1>5. m = n  BY <1>3, <1>4
  <1>6. f = g  BY <1>2, <1>3, <1>4, <1>5, SeqEqual
  <1>. QED  BY <1>3, <1>4, <1>5, <1>6

\* Prices are numbers.
LEMMA OrdersPriced == \A o \in Orders : o.px \in Pxs /\ o.px \in Int
  BY BookAssumption DEF Orders, Pxs

\* The last in line has the price that no other is behind.
LEMMA LastPrice ==
    ASSUME NEW s \in Sides, NEW f \in Seq(Orders), NEW x \in Orders, InLine(s, Append(f, x)),
           NEW g \in Seq(Orders), NEW y \in Orders, InLine(s, Append(g, y)),
           SameAtPrices(Append(f, x), Append(g, y))
    PROVE  Crosses(Other(s), y.px, x.px)
  <1>1. PICK q, r : q = Append(f, x) /\ r = Append(g, y)  OBVIOUS
  <1>2. PICK m, n : m = Len(f) /\ n = Len(g)  OBVIOUS
  <1>3. /\ m \in Nat /\ n \in Nat /\ Len(q) = m + 1 /\ Len(r) = n + 1
        /\ q[m + 1] = x /\ r[n + 1] = y /\ q \in Seq(Orders) /\ r \in Seq(Orders)
    BY <1>1, <1>2
  <1>4. Picks(r, y.px, Len(r), AtPrice(r, y.px)) /\ Picks(q, y.px, Len(q), AtPrice(q, y.px))
    BY <1>3, AtPricePicks
  <1>5. AtPrice(r, y.px) = AtPrice(q, y.px)  BY <1>1, OrdersPriced DEF SameAtPrices
  <1>6. PICK z \in DOMAIN AtPrice(r, y.px) : AtPrice(r, y.px)[z] = y
    <2>1. n + 1 \in 1..Len(r) /\ r[n + 1].px = y.px  BY <1>3
    <2>. QED  BY <1>3, <1>4, <2>1 DEF Picks
  <1>7. PICK j \in 1..Len(q) : q[j] = y
    <2>1. PICK t : t = AtPrice(q, y.px)  OBVIOUS
    <2>2. Picks(q, y.px, Len(q), t) /\ z \in DOMAIN t /\ t[z] = y  BY <1>4, <1>5, <1>6, <2>1
    <2>3. \E j \in 1..Len(q) : t[z] = q[j]  BY <2>2 DEF Picks
    <2>. QED  BY <2>2, <2>3
  <1>8. CASE j < m + 1
    <2>1. j \in DOMAIN q /\ m + 1 \in DOMAIN q  BY <1>3
    <2>2. Crosses(Other(s), q[j].px, q[m + 1].px)  BY <1>1, <1>8, <2>1 DEF InLine
    <2>. QED  BY <1>3, <1>7, <2>2
  <1>9. CASE j = m + 1
    <2>1. x = y  BY <1>3, <1>7, <1>9
    <2>. QED  BY <2>1, OrdersPriced DEF Crosses
  <1>. QED  BY <1>3, <1>8, <1>9

\* Orders in line stay in line without the last of them.
LEMMA InLineFront ==
    ASSUME NEW s, NEW f \in Seq(Orders), NEW x \in Orders, InLine(s, Append(f, x))
    PROVE  InLine(s, f)
  <1>1. PICK q, m : q = Append(f, x) /\ m = Len(f)  OBVIOUS
  <1>2. m \in Nat /\ DOMAIN f = 1..m /\ DOMAIN q = 1..(m + 1) /\ \A i \in 1..m : q[i] = f[i]
    BY <1>1
  <1>3. \A i \in 1..m : i \in 1..(m + 1)  BY <1>2
  <1>. QED  BY <1>1, <1>2, <1>3 DEF InLine

\* Orders in line are told by what there is at each price.
LEMMA InLineUnique ==
    ASSUME NEW s \in Sides, NEW q \in Seq(Orders), NEW r \in Seq(Orders),
           InLine(s, q), InLine(s, r), SameAtPrices(q, r)
    PROVE  q = r
  <1>. DEFINE Agree(n) == \A v, w \in Seq(Orders) :
                             Len(v) = n /\ InLine(s, v) /\ InLine(s, w) /\ SameAtPrices(v, w) => v = w
  <1>1. PICK K : K = {n \in Nat : Agree(n)}  OBVIOUS
  <1>2. ASSUME NEW v \in Seq(Orders), NEW w \in Seq(Orders), SameAtPrices(v, w), v = <<>> PROVE w = <<>>
    <2>. SUFFICES ASSUME w # <<>> PROVE FALSE  OBVIOUS
    <2>1. w[1] \in Orders /\ 1 \in 1..Len(w)  OBVIOUS
    <2>2. PICK p : p = w[1].px  OBVIOUS
    <2>3. AtPrice(w, p) = AtPrice(v, p)  BY <1>2, <2>1, <2>2, OrdersPriced DEF SameAtPrices
    <2>4. AtPrice(v, p) = <<>>  BY <1>2, AtPriceNone
    <2>5. Picks(w, p, Len(w), AtPrice(w, p))  BY AtPricePicks
    <2>6. \E z \in DOMAIN <<>> : TRUE  BY <2>1, <2>2, <2>3, <2>4, <2>5 DEF Picks
    <2>. QED  BY <2>6
  <1>3. 0 \in K
    <2>1. ASSUME NEW v \in Seq(Orders), NEW w \in Seq(Orders), Len(v) = 0, SameAtPrices(v, w)
          PROVE  v = w
      <3>1. v = <<>>  BY <2>1
      <3>. QED  BY <1>2, <2>1, <3>1
    <2>. QED  BY <1>1, <2>1
  <1>4. ASSUME NEW n \in K PROVE n + 1 \in K
    <2>1. n \in Nat /\ Agree(n)  BY <1>1
    <2>2. ASSUME NEW v \in Seq(Orders), NEW w \in Seq(Orders), Len(v) = n + 1,
                 InLine(s, v), InLine(s, w), SameAtPrices(v, w)
          PROVE  v = w
      <3>1. v # <<>>  BY <2>1, <2>2
      <3>2. w # <<>>
        <4>1. SameAtPrices(w, v)  BY <2>2 DEF SameAtPrices
        <4>. QED  BY <1>2, <3>1, <4>1
      <3>3. PICK f \in Seq(Orders), x \in Orders : v = Append(f, x) /\ Len(f) = Len(v) - 1
        BY <3>1, LastPiece
      <3>4. PICK g \in Seq(Orders), y \in Orders : w = Append(g, y)  BY <3>2, LastPiece
      <3>5. Crosses(Other(s), y.px, x.px)
        BY <2>2, <3>3, <3>4, LastPrice
      <3>6. Crosses(Other(s), x.px, y.px)
        <4>1. SameAtPrices(w, v)  BY <2>2 DEF SameAtPrices
        <4>. QED  BY <2>2, <3>3, <3>4, <4>1, LastPrice
      <3>7. x.px = y.px  BY <3>5, <3>6, OrdersPriced DEF Crosses, Other, Sides
      <3>8. PICK p \in Pxs : p = x.px  BY OrdersPriced
      <3>9. Append(AtPrice(f, p), x) = Append(AtPrice(g, p), y)
            /\ AtPrice(f, p) \in Seq(Orders) /\ AtPrice(g, p) \in Seq(Orders)
        <4>1. AtPrice(v, p) = Append(AtPrice(f, p), x) /\ AtPrice(f, p) \in Seq(Orders)
          BY <3>3, <3>8, AtPriceAppend
        <4>2. AtPrice(w, p) = Append(AtPrice(g, p), y) /\ AtPrice(g, p) \in Seq(Orders)
          BY <3>4, <3>7, <3>8, AtPriceAppend
        <4>3. AtPrice(v, p) = AtPrice(w, p)  BY <2>2 DEF SameAtPrices
        <4>. QED  BY <4>1, <4>2, <4>3
      <3>10. AtPrice(f, p) = AtPrice(g, p) /\ x = y
        <4>1. PICK u, t : u = AtPrice(f, p) /\ t = AtPrice(g, p)  OBVIOUS
        <4>2. u \in Seq(Orders) /\ t \in Seq(Orders) /\ Append(u, x) = Append(t, y)  BY <3>9, <4>1
        <4>3. PICK a : IsAppend(a, u, x) /\ IsAppend(a, t, y)  BY <4>2 DEF IsAppend
        <4>4. u = t /\ x = y  BY <4>2, <4>3, AppendCancels
        <4>. QED  BY <4>1, <4>4
      <3>11. SameAtPrices(f, g)
        <4>. SUFFICES ASSUME NEW t \in Pxs PROVE AtPrice(f, t) = AtPrice(g, t)  BY DEF SameAtPrices
        <4>1. CASE t = p  BY <3>10, <4>1
        <4>2. CASE t # p
          <5>1. AtPrice(v, t) = AtPrice(f, t)  BY <3>3, <3>8, <4>2, AtPriceAppend
          <5>2. AtPrice(w, t) = AtPrice(g, t)  BY <3>4, <3>7, <3>8, <4>2, AtPriceAppend
          <5>. QED  BY <2>2, <5>1, <5>2 DEF SameAtPrices
        <4>. QED  BY <4>1, <4>2
      <3>12. InLine(s, f) /\ InLine(s, g)  BY <2>2, <3>3, <3>4, InLineFront
      <3>13. Len(f) = n  BY <2>1, <2>2, <3>3
      <3>14. f = g  BY <2>1, <3>11, <3>12, <3>13
      <3>. QED  BY <3>3, <3>4, <3>10, <3>14
    <2>3. Agree(n + 1)  BY <2>2
    <2>. QED  BY <1>1, <2>1, <2>3
  <1>5. K \in SUBSET Nat  BY <1>1
  <1>6. Len(q) \in K  BY <1>3, <1>4, <1>5, AllNaturals
  <1>7. Agree(Len(q))  BY <1>1, <1>6
  <1>. QED  BY <1>7

-----------------------------------------------------------------------------
(* to_snapshot *)

\* The k-th best price of a side.
PxAt(s, k) == IF s = "Bid" THEN MaxPx + 1 - k ELSE k

\* r[k] is the snapshot of the k best prices.
Snapshots(b, s, r) ==
    /\ r \in [0..MaxPx -> Seq(Orders)] /\ r[0] = <<>>
    /\ \A k \in Pxs : r[k] = r[k - 1] \o QueueAt(b, s, PxAt(s, k))

\* to_snapshot goes through the prices of a side, best first.
LEMMA SnapshotFolds ==
    ASSUME NEW b \in Books, NEW s \in Sides
    PROVE  \E r : Snapshots(b, s, r) /\ to_snapshot(b)[s] = r[MaxPx]
  <1>1. PICK n : n = MaxPx  OBVIOUS
  <1>2. n \in Nat /\ Pxs = 1..n  BY <1>1, BookAssumption DEF Pxs
  <1>3. PICK A : A = Seq(Orders)  OBVIOUS
  <1>4. PICK Q : Q = [k \in 1..n |-> QueueAt(b, s, PxAt(s, k))]  OBVIOUS
  <1>5. ASSUME NEW k \in 1..n PROVE Q[k] \in A /\ Q[k] = QueueAt(b, s, PxAt(s, k))
    <2>1. QueueAt(b, s, PxAt(s, k)) \in Queues  BY QueueFacts
    <2>. QED  BY <1>3, <1>4, <2>1 DEF Queues
  <1>6. PICK step : step = [p \in (1..n) \X A |-> p[2] \o Q[p[1]]]  OBVIOUS
  <1>7. step \in [(1..n) \X A -> A]
    <2>. SUFFICES ASSUME NEW p \in (1..n) \X A PROVE p[2] \o Q[p[1]] \in A  BY <1>6
    <2>1. PICK x, y : x = p[2] /\ y = Q[p[1]]  OBVIOUS
    <2>2. x \in A /\ y \in A  BY <1>5, <2>1
    <2>3. x \o y \in A  BY <1>3, <2>2, ConcatProperties
    <2>. QED  BY <2>1, <2>3
  <1>8. ASSUME NEW k \in 1..n, NEW a \in A PROVE step[<<k, a>>] = a \o Q[k]
    <2>1. PICK p : p = <<k, a>>  OBVIOUS
    <2>2. p \in (1..n) \X A /\ p[1] = k /\ p[2] = a  BY <2>1
    <2>. QED  BY <1>6, <2>1, <2>2
  <1>9. <<>> \in A  BY <1>3
  <1>10. PICK f : Folds(n, A, <<>>, step, f)  BY <1>2, <1>7, <1>9, FoldFunctionExists
  <1>11. PICK list : list = [i \in Pxs |-> IF s = "Bid" THEN MaxPx + 1 - i ELSE i]  OBVIOUS
  <1>12. DOMAIN list = 1..n /\ \A k \in 1..n : list[k] = PxAt(s, k)  BY <1>2, <1>11 DEF PxAt
  <1>. DEFINE Is(g) == g = [t \in SUBSET (1..n) |->
                              IF t = {} THEN <<>>
                              ELSE g[t \ {Max(t)}] \o QueueAt(b, s, list[Max(t)])]
  <1>13. Is(f)
    <2>1. PICK h : h = [t \in SUBSET (1..n) |->
                          IF t = {} THEN <<>>
                          ELSE f[t \ {Max(t)}] \o QueueAt(b, s, list[Max(t)])]
      OBVIOUS
    <2>2. ASSUME NEW t \in SUBSET (1..n) PROVE f[t] = h[t]
      <3>1. CASE t = {}  BY <1>10, <2>1, <3>1 DEF Folds
      <3>2. CASE t # {}
        <4>1. Max(t) \in t  BY <1>2, <3>2, MaxFacts
        <4>2. Max(t) \in 1..n /\ t \ {Max(t)} \in SUBSET (1..n)  BY <4>1
        <4>3. f[t \ {Max(t)}] \in A  BY <1>10, <4>2 DEF Folds
        <4>4. f[t] = step[<<Max(t), f[t \ {Max(t)}]>>]  BY <1>10, <3>2 DEF Folds
        <4>5. PICK k \in 1..n : k = Max(t)  BY <4>2
        <4>6. PICK a \in A : a = f[t \ {Max(t)}]  BY <4>3
        <4>7. f[t] = a \o Q[k]  BY <1>8, <4>4, <4>5, <4>6
        <4>8. Q[k] = QueueAt(b, s, list[Max(t)])  BY <1>5, <1>12, <4>5
        <4>9. h[t] = f[t \ {Max(t)}] \o QueueAt(b, s, list[Max(t)])  BY <2>1, <3>2
        <4>. QED  BY <4>6, <4>7, <4>8, <4>9
      <3>. QED  BY <3>1, <3>2
    <2>3. DOMAIN f = SUBSET (1..n) /\ DOMAIN h = SUBSET (1..n)  BY <1>10, <2>1 DEF Folds
    <2>4. f = h  BY <1>10, <2>1, <2>2, <2>3 DEF Folds
    <2>. QED  BY <2>1, <2>4
  <1>14. PICK g : g = CHOOSE x : Is(x)  OBVIOUS
  <1>15. Is(g)  BY <1>13, <1>14
  <1>16. to_snapshot(b)[s] = g[1..n]
    <2>1. to_snapshot(b)[s]
            = FoldLeft(LAMBDA orders, p : orders \o QueueAt(b, s, p), <<>>, list)
      BY <1>11 DEF to_snapshot
    <2>2. FoldLeft(LAMBDA orders, p : orders \o QueueAt(b, s, p), <<>>, list)
            = (CHOOSE x : x = [t \in SUBSET (DOMAIN list) |->
                                 IF t = {} THEN <<>>
                                 ELSE x[t \ {Max(t)}] \o QueueAt(b, s, list[Max(t)])])[DOMAIN list]
      BY DEF FoldLeft, MapThenFoldSet
    <2>. QED  BY <1>12, <1>14, <2>1, <2>2
  <1>17. ASSUME NEW k \in 1..n PROVE g[1..k] = g[1..(k - 1)] \o QueueAt(b, s, PxAt(s, k))
    <2>1. 1..k \in SUBSET (1..n) /\ 1..k # {} /\ Max(1..k) = k /\ (1..k) \ {k} = 1..(k - 1)
      BY <1>2, InitialSegment
    <2>2. PICK t : t = 1..k  OBVIOUS
    <2>3. g[t] = g[t \ {Max(t)}] \o QueueAt(b, s, list[Max(t)])  BY <1>15, <2>1, <2>2
    <2>4. list[k] = PxAt(s, k)  BY <1>12
    <2>. QED  BY <2>1, <2>2, <2>3, <2>4
  <1>18. g[1..0] = <<>>
    <2>1. {} \in SUBSET (1..n) /\ 1..0 = {}  OBVIOUS
    <2>. QED  BY <1>15, <2>1
  <1>. HIDE DEF Is
  <1>19. \A k \in Nat : k =< n => g[1..k] \in A
    <2>1. PICK K : K = {k \in Nat : k =< n => g[1..k] \in A}  OBVIOUS
    <2>2. 0 \in K  BY <1>9, <1>18, <2>1
    <2>3. ASSUME NEW k \in K PROVE k + 1 \in K
      <3>1. k \in Nat  BY <2>1
      <3>2. CASE k + 1 =< n
        <4>1. k + 1 \in 1..n /\ (k + 1) - 1 = k /\ k =< n  BY <1>2, <3>1, <3>2
        <4>2. PICK x, y : x = g[1..k] /\ y = Q[k + 1]  OBVIOUS
        <4>3. x \in A /\ y \in A /\ y = QueueAt(b, s, PxAt(s, k + 1))  BY <1>5, <2>1, <4>1, <4>2
        <4>4. x \o y \in A  BY <1>3, <4>3, ConcatProperties
        <4>5. g[1..(k + 1)] = g[1..((k + 1) - 1)] \o QueueAt(b, s, PxAt(s, k + 1))  BY <1>17, <4>1
        <4>6. g[1..(k + 1)] \in A  BY <4>1, <4>2, <4>3, <4>4, <4>5
        <4>. QED  BY <2>1, <3>1, <4>6
      <3>3. CASE ~(k + 1 =< n)  BY <2>1, <3>1, <3>3
      <3>. QED  BY <3>2, <3>3
    <2>4. K \in SUBSET Nat  BY <2>1
    <2>. QED  BY <2>1, <2>2, <2>3, <2>4, AllNaturals
  <1>20. PICK r : r = [k \in 0..n |-> g[1..k]]  OBVIOUS
  <1>21. r \in [0..n -> Seq(Orders)]
    <2>1. \A k \in 0..n : g[1..k] \in Seq(Orders)  BY <1>2, <1>3, <1>19
    <2>. QED  BY <1>20, <2>1
  <1>22. r[0] = <<>> /\ r[n] = g[1..n]  BY <1>2, <1>18, <1>20
  <1>23. ASSUME NEW k \in 1..n PROVE r[k] = r[k - 1] \o QueueAt(b, s, PxAt(s, k))
    <2>1. k \in 0..n /\ k - 1 \in 0..n  BY <1>2
    <2>2. r[k] = g[1..k] /\ r[k - 1] = g[1..(k - 1)]  BY <1>20, <2>1
    <2>. QED  BY <1>17, <2>2
  <1>. QED  BY <1>1, <1>2, <1>16, <1>21, <1>22, <1>23 DEF Snapshots

\* An order rests at its own price.
Filed(b, s) == \A p \in Pxs : \A i \in DOMAIN QueueAt(b, s, p) : QueueAt(b, s, p)[i].px = p

PxUpTo(s, k, w) == \A i \in DOMAIN w : \E j \in 1..k : w[i].px = PxAt(s, j)

\* The k-th best price: no two are the same, and a better one comes first.
LEMMA PxAtFacts ==
    ASSUME NEW s \in Sides
    PROVE  /\ \A k \in Pxs : PxAt(s, k) \in Pxs /\ PxAt(s, PxAt(s, k)) = k
           /\ \A j, k \in Pxs : j < k => /\ PxAt(s, j) # PxAt(s, k)
                                         /\ Crosses(Other(s), PxAt(s, j), PxAt(s, k))
           /\ \A k \in Pxs : Crosses(Other(s), PxAt(s, k), PxAt(s, k))
  BY BookAssumption DEF PxAt, Pxs, Crosses, Other, Sides

\* The orders of the next price come behind.
LEMMA InLineConcat ==
    ASSUME NEW s \in Sides, NEW k \in Nat, k + 1 \in Pxs, NEW v \in Seq(Orders), NEW w \in Seq(Orders),
           InLine(s, v), PxUpTo(s, k, v), \A i \in DOMAIN w : w[i].px = PxAt(s, k + 1)
    PROVE  InLine(s, v \o w) /\ PxUpTo(s, k + 1, v \o w) /\ v \o w \in Seq(Orders)
  <1>1. PICK m, n, u : m = Len(v) /\ n = Len(w) /\ u = v \o w  OBVIOUS
  <1>2. /\ u \in Seq(Orders) /\ Len(u) = m + n /\ m \in Nat /\ n \in Nat
        /\ \A i \in 1..(m + n) : u[i] = IF i =< m THEN v[i] ELSE w[i - m]
    BY <1>1, ConcatProperties
  <1>3. DOMAIN u = 1..(m + n) /\ DOMAIN v = 1..m /\ DOMAIN w = 1..n  BY <1>1, <1>2
  <1>4. ASSUME NEW i \in 1..(m + n)
        PROVE  \/ i \in 1..m /\ u[i] = v[i]
               \/ i > m /\ u[i].px = PxAt(s, k + 1)
    <2>1. CASE i =< m
      <3>1. i \in 1..m  BY <1>2, <2>1
      <3>. QED  BY <1>2, <2>1, <3>1
    <2>2. CASE ~(i =< m)
      <3>1. i - m \in 1..n /\ i > m  BY <1>2, <2>2
      <3>. QED  BY <1>2, <1>3, <2>2, <3>1
    <2>. QED  BY <2>1, <2>2
  <1>5. \A i \in 1..m : \E j \in 1..k : v[i].px = PxAt(s, j)  BY <1>3 DEF PxUpTo
  <1>6. k \in Nat /\ \A j \in 1..k : j \in Pxs /\ j < k + 1 /\ j \in 1..(k + 1)
    BY BookAssumption DEF Pxs
  <1>7. ASSUME NEW i \in 1..(m + n), NEW j \in 1..(m + n), i < j
        PROVE  Crosses(Other(s), u[i].px, u[j].px)
    <2>1. CASE j \in 1..m /\ u[j] = v[j]
      <3>1. i \in 1..m /\ u[i] = v[i]  BY <1>2, <1>4, <1>7, <2>1
      <3>. QED  BY <1>3, <1>7, <2>1, <3>1 DEF InLine
    <2>2. CASE j > m /\ u[j].px = PxAt(s, k + 1)
      <3>1. CASE i \in 1..m /\ u[i] = v[i]
        <4>1. PICK x \in 1..k : u[i].px = PxAt(s, x)  BY <1>5, <3>1
        <4>. QED  BY <1>6, <2>2, <4>1, PxAtFacts
      <3>2. CASE i > m /\ u[i].px = PxAt(s, k + 1)  BY <2>2, <3>2, PxAtFacts
      <3>. QED  BY <1>4, <3>1, <3>2
    <2>. QED  BY <1>4, <2>1, <2>2
  <1>8. ASSUME NEW i \in 1..(m + n) PROVE \E j \in 1..(k + 1) : u[i].px = PxAt(s, j)
    <2>1. k + 1 \in 1..(k + 1)  OBVIOUS
    <2>. QED  BY <1>4, <1>5, <1>6, <2>1
  <1>. QED  BY <1>1, <1>2, <1>3, <1>7, <1>8 DEF InLine, PxUpTo

\* The snapshot of a book is in line, with the queue of each price in its order.
LEMMA SnapshotFacts ==
    ASSUME NEW b \in Books, NEW s \in Sides, Filed(b, s)
    PROVE  /\ to_snapshot(b)[s] \in Seq(Orders) /\ InLine(s, to_snapshot(b)[s])
           /\ \A p \in Pxs : AtPrice(to_snapshot(b)[s], p) = QueueAt(b, s, p)
  <1>1. PICK r : Snapshots(b, s, r) /\ to_snapshot(b)[s] = r[MaxPx]  BY SnapshotFolds
  <1>2. PICK n : n = MaxPx  OBVIOUS
  <1>3. n \in Nat /\ Pxs = 1..n  BY <1>2, BookAssumption DEF Pxs
  <1>. DEFINE Upto(k) ==
         /\ InLine(s, r[k]) /\ PxUpTo(s, k, r[k])
         /\ \A j \in 1..n : /\ j =< k => AtPrice(r[k], PxAt(s, j)) = QueueAt(b, s, PxAt(s, j))
                            /\ j > k => AtPrice(r[k], PxAt(s, j)) = <<>>
  <1>4. PICK K : K = {k \in Nat : k =< n => Upto(k)}  OBVIOUS
  <1>5. 0 \in K
    <2>1. r[0] = <<>> /\ DOMAIN <<>> = {}  BY <1>1 DEF Snapshots
    <2>2. InLine(s, r[0]) /\ PxUpTo(s, 0, r[0])  BY <2>1 DEF InLine, PxUpTo
    <2>3. \A p : AtPrice(r[0], p) = <<>>  BY <2>1, AtPriceNone
    <2>4. \A j \in 1..n : ~(j =< 0)  OBVIOUS
    <2>5. Upto(0)  BY <2>2, <2>3, <2>4
    <2>. QED  BY <1>4, <2>5
  <1>6. ASSUME NEW k \in K PROVE k + 1 \in K
    <2>1. k \in Nat  BY <1>4
    <2>. SUFFICES ASSUME k + 1 =< n PROVE Upto(k + 1)  BY <1>4, <2>1
    <2>2. /\ k + 1 \in Pxs /\ (k + 1) - 1 = k /\ k \in 0..MaxPx /\ k =< n
          /\ k + 1 \in 1..n
      BY <1>2, <1>3, <2>1
    <2>3. Upto(k)  BY <1>4, <2>1, <2>2
    <2>4. PICK v, w, p : v = r[k] /\ p = PxAt(s, k + 1) /\ w = QueueAt(b, s, p)  OBVIOUS
    <2>5. r[k + 1] = v \o w /\ v \in Seq(Orders)  BY <1>1, <2>2, <2>4 DEF Snapshots
    <2>6. w \in Seq(Orders)  BY <2>4, QueueFacts DEF Queues
    <2>7. p \in Pxs /\ \A i \in DOMAIN w : w[i].px = p  BY <2>2, <2>4, PxAtFacts DEF Filed
    <2>8. InLine(s, v \o w) /\ PxUpTo(s, k + 1, v \o w)
      <3>1. InLine(s, v) /\ PxUpTo(s, k, v)  BY <2>3, <2>4
      <3>2. \A i \in DOMAIN w : w[i].px = PxAt(s, k + 1)  BY <2>4, <2>7
      <3>. QED  BY <2>1, <2>2, <2>5, <2>6, <3>1, <3>2, InLineConcat
    <2>9. ASSUME NEW j \in 1..n
          PROVE  /\ j =< k + 1 => AtPrice(r[k + 1], PxAt(s, j)) = QueueAt(b, s, PxAt(s, j))
                 /\ j > k + 1 => AtPrice(r[k + 1], PxAt(s, j)) = <<>>
      <3>1. PICK x, y : x = AtPrice(v, PxAt(s, j)) /\ y = AtPrice(w, PxAt(s, j))  OBVIOUS
      <3>2. AtPrice(r[k + 1], PxAt(s, j)) = x \o y
        <4>1. AtPrice(v \o w, PxAt(s, j)) = AtPrice(v, PxAt(s, j)) \o AtPrice(w, PxAt(s, j))
          BY <2>5, <2>6, AtPriceOfConcat
        <4>. QED  BY <2>5, <3>1, <4>1
      <3>3. x \in Seq(Orders) /\ y \in Seq(Orders)  BY <2>5, <2>6, <3>1, AtPriceType
      <3>4. CASE j = k + 1
        <4>1. x = <<>>  BY <2>1, <2>3, <2>4, <3>1, <3>4
        <4>2. y = w  BY <2>4, <2>6, <2>7, <3>1, <3>4, AtPriceAll
        <4>3. x \o y = y  BY <3>3, <4>1, ConcatEmptySeq
        <4>. QED  BY <2>4, <3>2, <3>4, <4>2, <4>3
      <3>5. CASE j # k + 1
        <4>1. PxAt(s, j) # p
          <5>1. j < k + 1 \/ k + 1 < j  BY <2>1, <3>5
          <5>. QED  BY <1>3, <2>2, <2>4, <5>1, PxAtFacts
        <4>2. y = <<>>
          <5>1. \A i \in DOMAIN w : w[i].px # PxAt(s, j)  BY <2>7, <4>1
          <5>. QED  BY <2>6, <3>1, <5>1, AtPriceAll
        <4>3. x \o y = x  BY <3>3, <4>2, ConcatEmptySeq
        <4>4. j =< k + 1 => j =< k  BY <2>1, <3>5
        <4>5. j > k + 1 => j > k  BY <2>1
        <4>. QED  BY <2>3, <2>4, <3>1, <3>2, <4>3, <4>4, <4>5
      <3>. QED  BY <3>4, <3>5
    <2>. QED  BY <2>5, <2>8, <2>9
  <1>7. K \in SUBSET Nat  BY <1>4
  <1>8. n \in K  BY <1>3, <1>5, <1>6, <1>7, AllNaturals
  <1>9. Upto(n)  BY <1>3, <1>4, <1>8
  <1>. HIDE DEF Upto
  <1>10. r[n] \in Seq(Orders)
    <2>1. n \in 0..MaxPx  BY <1>2, <1>3
    <2>. QED  BY <1>1, <2>1 DEF Snapshots
  <1>11. ASSUME NEW p \in Pxs PROVE AtPrice(r[n], p) = QueueAt(b, s, p)
    <2>1. PICK j : j = PxAt(s, p)  OBVIOUS
    <2>2. j \in 1..n /\ PxAt(s, j) = p /\ j =< n  BY <1>3, <2>1, PxAtFacts
    <2>. QED  BY <1>9, <2>2 DEF Upto
  <1>12. InLine(s, r[n])  BY <1>9 DEF Upto
  <1>. QED  BY <1>1, <1>2, <1>10, <1>11, <1>12

-----------------------------------------------------------------------------
(* The book a snapshot stands for *)

\* A book is told by its queues: the index says where they have what.
LEMMA BooksByQueues ==
    ASSUME NEW b \in Books, NEW d \in Books, Indexed(b, {}), Indexed(d, {}),
           \A s \in Sides, p \in Pxs : QueueAt(b, s, p) = QueueAt(d, s, p)
    PROVE  b = d
  <1>1. ASSUME NEW s \in Sides PROVE b.levels[s] = d.levels[s]
    <2>1. PICK m, n : m = b.levels[s] /\ n = d.levels[s]  OBVIOUS
    <2>2. /\ DOMAIN m \in SUBSET Pxs /\ DOMAIN n \in SUBSET Pxs
          /\ \A p : p \in DOMAIN m <=> QueueAt(b, s, p) # <<>>
          /\ \A p : p \in DOMAIN n <=> QueueAt(d, s, p) # <<>>
          /\ \A p \in DOMAIN m : m[p] = QueueAt(b, s, p)
          /\ \A p \in DOMAIN n : n[p] = QueueAt(d, s, p)
      BY <2>1, QueueFacts
    <2>3. DOMAIN m = DOMAIN n /\ \A p \in DOMAIN m : m[p] = n[p]  BY <2>2
    <2>4. m \in Levels /\ n \in Levels  BY <2>1 DEF Books
    <2>5. m = [p \in DOMAIN m |-> m[p]] /\ n = [p \in DOMAIN n |-> n[p]]  BY <2>4 DEF Levels
    <2>6. m = n  BY <2>3, <2>5
    <2>. QED  BY <2>1, <2>6
  <1>2. b.levels = d.levels
    <2>1. b.levels \in [Sides -> Levels] /\ d.levels \in [Sides -> Levels]  BY DEF Books
    <2>. QED  BY <1>1, <2>1
  <1>3. ASSUME NEW x \in Books, NEW y \in Books, Indexed(x, {}), Indexed(y, {}),
               \A s \in Sides, p \in Pxs : QueueAt(x, s, p) = QueueAt(y, s, p),
               NEW o \in DOMAIN x.oid_to_side_px
        PROVE  o \in DOMAIN y.oid_to_side_px /\ y.oid_to_side_px[o] = x.oid_to_side_px[o]
    <2>1. PICK w : w = x.oid_to_side_px[o]  OBVIOUS
    <2>2. o \in Oids /\ w \in Places
      <3>1. x.oid_to_side_px \in Indices  BY DEF Books
      <3>. QED  BY <2>1, <3>1 DEF Indices
    <2>3. w.side \in Sides /\ w.px \in Pxs /\ w = [side |-> w.side, px |-> w.px]  BY <2>2 DEF Places
    <2>4. Holds(QueueAt(x, w.side, w.px), o)  BY <1>3, <2>1 DEF Indexed
    <2>5. Holds(QueueAt(y, w.side, w.px), o)  BY <1>3, <2>3, <2>4
    <2>6. o \in DOMAIN y.oid_to_side_px /\ y.oid_to_side_px[o] = [side |-> w.side, px |-> w.px]
      BY <1>3, <2>2, <2>3, <2>5 DEF Indexed
    <2>. QED  BY <2>1, <2>3, <2>6
  <1>4. b.oid_to_side_px = d.oid_to_side_px
    <2>1. PICK m, n : m = b.oid_to_side_px /\ n = d.oid_to_side_px  OBVIOUS
    <2>2. m \in Indices /\ n \in Indices  BY <2>1 DEF Books
    <2>3. \A o \in DOMAIN m : o \in DOMAIN n /\ n[o] = m[o]  BY <1>3, <2>1
    <2>4. \A o \in DOMAIN n : o \in DOMAIN m /\ m[o] = n[o]
      <3>1. \A s \in Sides, p \in Pxs : QueueAt(d, s, p) = QueueAt(b, s, p)  OBVIOUS
      <3>. QED  BY <1>3, <2>1, <3>1
    <2>5. m = [o \in DOMAIN m |-> m[o]] /\ n = [o \in DOMAIN n |-> n[o]]  BY <2>2 DEF Indices
    <2>6. m = n  BY <2>3, <2>4, <2>5
    <2>. QED  BY <2>1, <2>6
  <1>. QED  BY <1>2, <1>4 DEF Books

\* What a snapshot of the node has on a side.
LEMMA SnapshotSide ==
    ASSUME NEW c \in Coins, NEW e, IsSnapshot(e, c), NEW s \in Sides
    PROVE  /\ e[s] \in Seq(Orders) /\ InLine(s, e[s]) /\ Distinct(e[s])
           /\ \A i \in DOMAIN e[s] : /\ e[s][i] \in RestingOrders(c, s) /\ e[s][i] \in Orders
                                     /\ e[s][i].oid \in Oids /\ e[s][i].side = s /\ e[s][i].px \in Pxs
           /\ \A p : AtPrice(e[s], p) \in Queues
  <1>1. PICK q : q = e[s]  OBVIOUS
  <1>2. q \in Seq(RestingOrders(c, s))  BY <1>1 DEF IsSnapshot
  <1>3. RestingOrders(c, s) \subseteq Orders
    <2>1. \A o \in RestingOrders(c, s) :
             o \in [coin : Coins, oid : Oids, side : Sides, px : Pxs, sz : Szs,
                    is_trigger : BOOLEAN, timestamp : Nat]
      BY DEF RestingOrders
    <2>. QED  BY <2>1 DEF Orders
  <1>4. q \in Seq(Orders)  BY <1>2, <1>3, SeqMonotonic
  <1>5. InLine(s, q) /\ Distinct(q)  BY <1>1 DEF IsSnapshot, InLine, Distinct
  <1>6. \A i \in DOMAIN q : q[i] \in RestingOrders(c, s) /\ q[i] \in Orders
    BY <1>2, <1>3
  <1>7. \A o \in RestingOrders(c, s) : o.oid \in Oids /\ o.side = s /\ o.px \in Pxs
    BY DEF RestingOrders
  <1>8. ASSUME NEW p PROVE AtPrice(q, p) \in Queues
    <2>1. AtPrice(q, p) \in Seq(Orders)  BY <1>4, AtPriceType
    <2>2. Picks(q, p, Len(q), AtPrice(q, p))  BY <1>4, AtPricePicks
    <2>. QED  BY <1>5, <2>1, <2>2 DEF Picks, Distinct, Queues
  <1>. QED  BY <1>1, <1>4, <1>5, <1>6, <1>7, <1>8

\* An order is held at a price if the list has it there.
LEMMA HoldsAtPrice ==
    ASSUME NEW q \in Seq(Orders), NEW p, NEW o
    PROVE  Holds(AtPrice(q, p), o) <=> \E i \in DOMAIN q : q[i].oid = o /\ q[i].px = p
  <1>1. PICK r : r = AtPrice(q, p)  OBVIOUS
  <1>2. Picks(q, p, Len(q), r) /\ DOMAIN q = 1..Len(q)  BY <1>1, AtPricePicks
  <1>3. ASSUME Holds(r, o) PROVE \E i \in DOMAIN q : q[i].oid = o /\ q[i].px = p
    BY <1>2, <1>3 DEF Picks, Holds
  <1>4. ASSUME NEW i \in DOMAIN q, q[i].oid = o, q[i].px = p PROVE Holds(r, o)
    <2>1. \E x \in DOMAIN r : r[x] = q[i]  BY <1>2, <1>4 DEF Picks
    <2>. QED  BY <1>4, <2>1 DEF Holds
  <1>. QED  BY <1>1, <1>3, <1>4

\* Its queues are the orders of each price, and its index knows them.
LEMMA BookOfFacts ==
    ASSUME NEW c \in Coins, NEW e, IsSnapshot(e, c)
    PROVE  /\ BookOf(e) \in Books /\ Indexed(BookOf(e), {})
           /\ \A s \in Sides, p \in Pxs : QueueAt(BookOf(e), s, p) = AtPrice(e[s], p)
  <1>1. PICK b : b = BookOf(e)  OBVIOUS
  <1>2. PICK orders : orders = UNION {ToSet(e[s]) : s \in Sides}  OBVIOUS
  <1>3. PICK lv : lv = [s \in Sides |-> [p \in {o.px : o \in ToSet(e[s])} |-> AtPrice(e[s], p)]]
    OBVIOUS
  <1>4. PICK ix : ix = [id \in {o.oid : o \in orders} |->
                          LET o == CHOOSE x \in orders : x.oid = id IN [side |-> o.side, px |-> o.px]]
    OBVIOUS
  <1>5. b = [levels |-> lv, oid_to_side_px |-> ix]  BY <1>1, <1>2, <1>3, <1>4 DEF BookOf
  <1>6. \A s \in Sides : ToSet(e[s]) = {e[s][i] : i \in DOMAIN e[s]}  BY DEF ToSet
  <1>7. ASSUME NEW s \in Sides, NEW p
        PROVE  p \in DOMAIN lv[s] <=> \E i \in DOMAIN e[s] : e[s][i].px = p
    <2>1. DOMAIN lv[s] = {o.px : o \in ToSet(e[s])}  BY <1>3
    <2>. QED  BY <1>6, <2>1
  <1>8. ASSUME NEW s \in Sides, NEW p \in DOMAIN lv[s]
        PROVE  lv[s][p] = AtPrice(e[s], p) /\ p \in Pxs /\ AtPrice(e[s], p) \in Queues \ {<<>>}
    <2>1. lv[s][p] = AtPrice(e[s], p)  BY <1>3
    <2>2. PICK i \in DOMAIN e[s] : e[s][i].px = p  BY <1>7
    <2>3. p \in Pxs /\ AtPrice(e[s], p) \in Queues /\ e[s] \in Seq(Orders)  BY <2>2, SnapshotSide
    <2>4. Holds(AtPrice(e[s], p), e[s][i].oid)  BY <2>2, <2>3, HoldsAtPrice
    <2>5. AtPrice(e[s], p) # <<>>  BY <2>4, TrivialOrder
    <2>. QED  BY <2>1, <2>3, <2>5
  <1>9. lv \in [Sides -> Levels]
    <2>1. ASSUME NEW s \in Sides PROVE lv[s] \in Levels
      <3>1. PICK m : m = lv[s]  OBVIOUS
      <3>2. m = [p \in DOMAIN m |-> m[p]]  BY <1>3, <3>1
      <3>3. DOMAIN m \in SUBSET Pxs /\ \A p \in DOMAIN m : m[p] \in Queues \ {<<>>}  BY <1>8, <3>1
      <3>4. m \in [DOMAIN m -> Queues \ {<<>>}]  BY <3>2, <3>3
      <3>. QED  BY <3>1, <3>3, <3>4 DEF Levels
    <2>. QED  BY <1>3, <2>1
  <1>10. \A o : o \in orders <=> \E s \in Sides : \E i \in DOMAIN e[s] : o = e[s][i]
    <2>1. \A o : o \in orders <=> \E s \in Sides : o \in ToSet(e[s])  BY <1>2
    <2>2. \A s \in Sides : \A o : o \in ToSet(e[s]) <=> \E i \in DOMAIN e[s] : o = e[s][i]  BY <1>6
    <2>. SUFFICES ASSUME NEW o
                  PROVE  o \in orders <=> \E s \in Sides : \E i \in DOMAIN e[s] : o = e[s][i]
      OBVIOUS
    <2>3. ASSUME o \in orders PROVE \E s \in Sides : \E i \in DOMAIN e[s] : o = e[s][i]
      <3>1. PICK s \in Sides : o \in ToSet(e[s])  BY <2>1, <2>3
      <3>2. \E i \in DOMAIN e[s] : o = e[s][i]  BY <2>2, <3>1
      <3>. QED  BY <3>2
    <2>4. ASSUME NEW s \in Sides, \E i \in DOMAIN e[s] : o = e[s][i] PROVE o \in orders
      <3>1. o \in ToSet(e[s])  BY <2>2, <2>4
      <3>. QED  BY <2>1, <3>1
    <2>. QED  BY <2>3, <2>4
  <1>11. \A o : o \in DOMAIN ix <=> \E s \in Sides : \E i \in DOMAIN e[s] : o = e[s][i].oid
    <2>1. DOMAIN ix = {o.oid : o \in orders}  BY <1>4
    <2>. QED  BY <1>10, <2>1
  <1>12. ASSUME NEW s \in Sides, NEW i \in DOMAIN e[s]
         PROVE  /\ e[s][i].oid \in DOMAIN ix /\ e[s][i].oid \in Oids
                /\ ix[e[s][i].oid] = [side |-> s, px |-> e[s][i].px] /\ e[s][i].px \in Pxs
    <2>1. PICK x : x = CHOOSE y \in orders : y.oid = e[s][i].oid  OBVIOUS
    <2>2. e[s][i] \in orders  BY <1>10
    <2>3. x \in orders /\ x.oid = e[s][i].oid  BY <2>1, <2>2
    <2>4. PICK t \in Sides : \E j \in DOMAIN e[t] : x = e[t][j]  BY <1>10, <2>3
    <2>5. PICK j \in DOMAIN e[t] : x = e[t][j]  BY <2>4
    <2>6. s = t /\ i = j
      <3>1. e[s][i].oid = e[t][j].oid  BY <2>3, <2>5
      <3>. QED  BY <3>1 DEF IsSnapshot
    <2>7. x = e[s][i]  BY <2>5, <2>6
    <2>8. e[s][i].oid \in DOMAIN ix  BY <1>11
    <2>9. ix[e[s][i].oid] = [side |-> x.side, px |-> x.px]  BY <1>4, <2>1, <2>8
    <2>10. x.side = s /\ x.px \in Pxs /\ x.oid \in Oids  BY <2>7, SnapshotSide
    <2>. QED  BY <2>7, <2>8, <2>9, <2>10
  <1>13. ix \in Indices
    <2>1. ASSUME NEW o \in DOMAIN ix PROVE o \in Oids /\ ix[o] \in Places
      <3>1. PICK s \in Sides : \E i \in DOMAIN e[s] : o = e[s][i].oid  BY <1>11
      <3>2. PICK i \in DOMAIN e[s] : o = e[s][i].oid  BY <3>1
      <3>3. o \in Oids /\ ix[o] = [side |-> s, px |-> e[s][i].px] /\ e[s][i].px \in Pxs
        BY <1>12, <3>2
      <3>. QED  BY <3>3 DEF Places
    <2>2. ix = [o \in DOMAIN ix |-> ix[o]]  BY <1>4
    <2>3. ix \in [DOMAIN ix -> Places] /\ DOMAIN ix \in SUBSET Oids  BY <2>1, <2>2
    <2>. QED  BY <2>3 DEF Indices
  <1>14. b \in Books  BY <1>5, <1>9, <1>13 DEF Books
  <1>15. ASSUME NEW s \in Sides, NEW p PROVE QueueAt(b, s, p) = AtPrice(e[s], p)
    <2>1. b.levels = lv  BY <1>5
    <2>2. CASE p \in DOMAIN lv[s]  BY <1>8, <2>1, <2>2 DEF QueueAt
    <2>3. CASE p \notin DOMAIN lv[s]
      <3>1. \A i \in DOMAIN e[s] : e[s][i].px # p  BY <1>7, <2>3
      <3>2. AtPrice(e[s], p) = <<>>  BY <3>1, SnapshotSide, AtPriceAll
      <3>. QED  BY <2>1, <2>3, <3>2 DEF QueueAt
    <2>. QED  BY <2>2, <2>3
  <1>16. Indexed(b, {})
    <2>1. b.oid_to_side_px = ix  BY <1>5
    <2>2. ASSUME NEW s \in Sides, NEW p \in Pxs, NEW o \in Oids, Holds(QueueAt(b, s, p), o)
          PROVE  o \in DOMAIN ix /\ ix[o] = [side |-> s, px |-> p]
      <3>1. Holds(AtPrice(e[s], p), o) /\ e[s] \in Seq(Orders)  BY <1>15, <2>2, SnapshotSide
      <3>2. PICK i \in DOMAIN e[s] : e[s][i].oid = o /\ e[s][i].px = p  BY <3>1, HoldsAtPrice
      <3>. QED  BY <1>12, <3>2
    <2>3. ASSUME NEW o \in DOMAIN ix PROVE Holds(QueueAt(b, ix[o].side, ix[o].px), o)
      <3>1. PICK s \in Sides : \E i \in DOMAIN e[s] : o = e[s][i].oid  BY <1>11
      <3>2. PICK i \in DOMAIN e[s] : o = e[s][i].oid  BY <3>1
      <3>6. ix[o] = [side |-> s, px |-> e[s][i].px]  BY <1>12, <3>2
      <3>3. ix[o].side = s /\ ix[o].px = e[s][i].px  BY <3>6
      <3>4. e[s] \in Seq(Orders)  BY SnapshotSide
      <3>5. Holds(AtPrice(e[s], e[s][i].px), o)  BY <3>2, <3>4, HoldsAtPrice
      <3>. QED  BY <1>15, <3>3, <3>5
    <2>. QED  BY <2>1, <2>2, <2>3 DEF Indexed
  <1>. QED  BY <1>1, <1>14, <1>15, <1>16

-----------------------------------------------------------------------------
(* The audit *)

\* The snapshot without orders is a snapshot.
LEMMA EmptySnapFacts == \A c \in Coins : IsSnapshot(EmptySnap, c)
  <1>1. DOMAIN EmptySnap = Sides /\ \A s \in Sides : EmptySnap[s] = <<>>  BY DEF EmptySnap
  <1>2. "Bid" \in Sides /\ "Ask" \in Sides  BY DEF Sides
  <1>3. DOMAIN <<>> = {} /\ \A S : <<>> \in Seq(S)  OBVIOUS
  <1>4. \A s \in Sides : DOMAIN EmptySnap[s] = {}  BY <1>1, <1>3
  <1>5. EmptySnap = [s \in Sides |-> EmptySnap[s]]  BY DEF EmptySnap
  <1>. SUFFICES ASSUME NEW c \in Coins PROVE IsSnapshot(EmptySnap, c)  OBVIOUS
  <1>6. \A s \in Sides : EmptySnap[s] \in Seq(RestingOrders(c, s))  BY <1>1, <1>3
  <1>. QED  BY <1>2, <1>4, <1>5, <1>6 DEF IsSnapshot

\* A book's snapshot is this one exactly if their queues are the same.
LEMMA SnapshotsAgree ==
    ASSUME NEW b \in Books, \A s \in Sides : Filed(b, s), NEW c \in Coins, NEW e, IsSnapshot(e, c)
    PROVE  (\A s \in Sides : to_snapshot(b)[s] = e[s])
           <=> (\A s \in Sides, p \in Pxs : QueueAt(b, s, p) = AtPrice(e[s], p))
  <1>1. ASSUME NEW s \in Sides, to_snapshot(b)[s] = e[s], NEW p \in Pxs
        PROVE  QueueAt(b, s, p) = AtPrice(e[s], p)
    BY <1>1, SnapshotFacts
  <1>2. ASSUME NEW s \in Sides, \A p \in Pxs : QueueAt(b, s, p) = AtPrice(e[s], p)
        PROVE  to_snapshot(b)[s] = e[s]
    <2>1. PICK q, r : q = to_snapshot(b)[s] /\ r = e[s]  OBVIOUS
    <2>2. /\ q \in Seq(Orders) /\ InLine(s, q)
          /\ \A p \in Pxs : AtPrice(q, p) = QueueAt(b, s, p)
      BY <2>1, SnapshotFacts
    <2>3. r \in Seq(Orders) /\ InLine(s, r)  BY <2>1, SnapshotSide
    <2>4. SameAtPrices(q, r)  BY <1>2, <2>1, <2>2 DEF SameAtPrices
    <2>5. q = r  BY <2>2, <2>3, <2>4, InLineUnique
    <2>. QED  BY <2>1, <2>5
  <1>. QED  BY <1>1, <1>2

\* A lane is a coin's side and a price; a view has the queue of each.
Lanes == Coins \X Sides \X Pxs
View(n) == [k \in Lanes |-> IF k[1] \in DOMAIN n THEN AtPrice(n[k[1]][k[2]], k[3]) ELSE <<>>]
BookView == [k \in Lanes |-> QueueAt(Book(k[1]), k[2], k[3])]

Skipped(c) == IgnoreSpot /\ c \in Spot

Coincide(v, w, c) == \A s \in Sides, p \in Pxs : v[<<c, s, p>>] = w[<<c, s, p>>]

\* What a view has at one coin, side and price.
LEMMA ViewAt ==
    ASSUME NEW n, NEW c \in Coins, NEW s \in Sides, NEW p \in Pxs
    PROVE  /\ <<c, s, p>> \in Lanes
           /\ c \in DOMAIN n => View(n)[<<c, s, p>>] = AtPrice(n[c][s], p)
           /\ c \notin DOMAIN n => View(n)[<<c, s, p>>] = <<>>
           /\ BookView[<<c, s, p>>] = QueueAt(Book(c), s, p)
  <1>1. PICK k : k = <<c, s, p>>  OBVIOUS
  <1>2. k \in Lanes /\ k[1] = c /\ k[2] = s /\ k[3] = p  BY <1>1 DEF Lanes
  <1>. QED  BY <1>1, <1>2 DEF View, BookView

\* Book for book, being that of the node is having the same queues.
LEMMA SameBook ==
    ASSUME NEW b \in Books, Indexed(b, {}), NEW c \in Coins, NEW n, IsNode(n)
    PROVE  b = (IF c \in DOMAIN n THEN BookOf(n[c]) ELSE new)
           <=> \A s \in Sides, p \in Pxs : QueueAt(b, s, p) = View(n)[<<c, s, p>>]
  <1>1. CASE c \in DOMAIN n
    <2>1. PICK e : e = n[c]  OBVIOUS
    <2>2. IsSnapshot(e, c)  BY <1>1, <2>1 DEF IsNode
    <2>3. /\ BookOf(e) \in Books /\ Indexed(BookOf(e), {})
          /\ \A s \in Sides, p \in Pxs : QueueAt(BookOf(e), s, p) = AtPrice(e[s], p)
      BY <2>2, BookOfFacts
    <2>4. \A s \in Sides, p \in Pxs : View(n)[<<c, s, p>>] = AtPrice(e[s], p)
      BY <1>1, <2>1, ViewAt
    <2>5. (\A s \in Sides, p \in Pxs : QueueAt(b, s, p) = QueueAt(BookOf(e), s, p)) => b = BookOf(e)
      BY <2>3, BooksByQueues
    <2>. QED  BY <1>1, <2>1, <2>3, <2>4, <2>5, ZenonT(60)
  <1>2. CASE c \notin DOMAIN n
    <2>1. \A s \in Sides, p \in Pxs : View(n)[<<c, s, p>>] = <<>>  BY <1>2, ViewAt
    <2>2. \A s \in Sides, p \in Pxs : QueueAt(new, s, p) = <<>>  BY DEF QueueAt, new, Empty
    <2>3. new \in Books /\ Indexed(new, {})  BY NewFacts
    <2>4. (\A s \in Sides, p \in Pxs : QueueAt(b, s, p) = QueueAt(new, s, p)) => b = new
      BY <2>3, BooksByQueues
    <2>. QED  BY <1>2, <2>1, <2>2, <2>4
  <1>. QED  BY <1>1, <1>2

BooksFiled == \A c \in Coins, s \in Sides : Filed(Book(c), s)

\* The books are the same if the views coincide at every coin that is not skipped.
LEMMA SameBooksViews ==
    ASSUME BookInv, call = Idle, IsNode(past[height])
    PROVE  SameBooks <=> \A c \in Coins : ~Skipped(c) => Coincide(BookView, View(past[height]), c)
  <1>1. PICK n : n = past[height]  OBVIOUS
  <1>2. ASSUME NEW c \in Coins PROVE Book(c) = NodeBook(c) <=> Coincide(BookView, View(n), c)
    <2>1. Book(c) \in Books /\ Indexed(Book(c), {})  BY IdleFacts DEF Sound
    <2>2. NodeBook(c) = IF c \in DOMAIN n THEN BookOf(n[c]) ELSE new  BY <1>1 DEF NodeBook
    <2>3. Book(c) = NodeBook(c)
          <=> \A s \in Sides, p \in Pxs : QueueAt(Book(c), s, p) = View(n)[<<c, s, p>>]
      BY <1>1, <2>1, <2>2, SameBook
    <2>4. \A s \in Sides, p \in Pxs : BookView[<<c, s, p>>] = QueueAt(Book(c), s, p)  BY ViewAt
    <2>. QED  BY <2>3, <2>4 DEF Coincide
  <1>. QED  BY <1>1, <1>2 DEF SameBooks, Skipped

\* What validate_snapshot_consistency finds in a coin.
LEMMA CoinAudit ==
    ASSUME BookInv, call = Idle, BooksFiled, NEW n, IsNode(n), NEW c \in Coins
    PROVE  Coincide(BookView, View(n), c) <=>
             CASE c \in DOMAIN order_books /\ c \in DOMAIN n -> SameOrders(to_snapshots[c], n[c])
               [] c \in DOMAIN order_books /\ c \notin DOMAIN n -> to_snapshots[c] = EmptySnap
               [] c \notin DOMAIN order_books /\ c \in DOMAIN n -> n[c] = EmptySnap
               [] OTHER -> TRUE
  <1>1. /\ Book(c) \in Books /\ Indexed(Book(c), {})
        /\ c \in DOMAIN order_books => Book(c) = order_books[c]
    BY IdleFacts, BookAt DEF Sound
  <1>2. \A s \in Sides : Filed(Book(c), s)  BY DEF BooksFiled
  <1>3. PICK e : e = to_snapshot(Book(c))  OBVIOUS
  <1>4. c \in DOMAIN order_books => to_snapshots[c] = e  BY <1>1, <1>3 DEF to_snapshots
  <1>5. DOMAIN e = Sides /\ e = [s \in Sides |-> e[s]]  BY <1>3 DEF to_snapshot
  <1>6. \A s \in Sides, p \in Pxs : BookView[<<c, s, p>>] = QueueAt(Book(c), s, p)  BY ViewAt
  <1>7. PICK x : x = IF c \in DOMAIN n THEN n[c] ELSE EmptySnap  OBVIOUS
  <1>8. IsSnapshot(x, c)  BY <1>7, EmptySnapFacts DEF IsNode
  <1>9. \A s \in Sides, p \in Pxs : View(n)[<<c, s, p>>] = AtPrice(x[s], p)
    <2>1. CASE c \in DOMAIN n  BY <1>7, <2>1, ViewAt
    <2>2. CASE c \notin DOMAIN n
      <3>1. \A s \in Sides : x[s] = <<>>  BY <1>7, <2>2 DEF EmptySnap
      <3>. QED  BY <2>2, <3>1, ViewAt, AtPriceNone
    <2>. QED  BY <2>1, <2>2
  <1>10. Coincide(BookView, View(n), c) <=> \A s \in Sides : e[s] = x[s]
    <2>1. (\A s \in Sides : e[s] = x[s])
           <=> (\A s \in Sides, p \in Pxs : QueueAt(Book(c), s, p) = AtPrice(x[s], p))
      BY <1>1, <1>2, <1>3, <1>8, SnapshotsAgree
    <2>2. ASSUME NEW s \in Sides, NEW p \in Pxs
          PROVE  BookView[<<c, s, p>>] = View(n)[<<c, s, p>>] <=> QueueAt(Book(c), s, p) = AtPrice(x[s], p)
      BY <1>6, <1>9
    <2>3. Coincide(BookView, View(n), c)
            <=> (\A s \in Sides, p \in Pxs : QueueAt(Book(c), s, p) = AtPrice(x[s], p))
      BY <2>2 DEF Coincide
    <2>. QED  BY <2>1, <2>3
  <1>11. CASE c \in DOMAIN order_books /\ c \in DOMAIN n
    <2>1. x = n[c] /\ to_snapshots[c] = e  BY <1>4, <1>7, <1>11
    <2>2. ASSUME NEW s \in Sides
          PROVE  e[s] = x[s] <=> /\ Len(e[s]) = Len(x[s])
                                 /\ \A i \in DOMAIN e[s] : e[s][i] = x[s][i]
      <3>1. e[s] \in Seq(Orders) /\ x[s] \in Seq(Orders)
        BY <1>1, <1>2, <1>3, <1>8, SnapshotFacts, SnapshotSide
      <3>2. DOMAIN e[s] = 1..Len(e[s])  BY <3>1
      <3>3. Len(e[s]) = Len(x[s]) /\ (\A i \in 1..Len(e[s]) : e[s][i] = x[s][i]) => e[s] = x[s]
        BY <3>1, SeqEqual
      <3>. QED  BY <3>2, <3>3
    <2>3. (\A s \in Sides : e[s] = x[s]) <=> SameOrders(e, x)  BY <2>2 DEF SameOrders
    <2>. QED  BY <1>10, <1>11, <2>1, <2>3
  <1>12. ASSUME NEW y, DOMAIN y = Sides, y = [s \in Sides |-> y[s]]
         PROVE  (\A s \in Sides : y[s] = EmptySnap[s]) <=> y = EmptySnap
    BY <1>12 DEF EmptySnap
  <1>13. CASE c \in DOMAIN order_books /\ c \notin DOMAIN n
    <2>1. x = EmptySnap /\ to_snapshots[c] = e  BY <1>4, <1>7, <1>13
    <2>2. (\A s \in Sides : e[s] = EmptySnap[s]) <=> e = EmptySnap  BY <1>5, <1>12
    <2>. QED  BY <1>10, <1>13, <2>1, <2>2
  <1>14. CASE c \notin DOMAIN order_books
    <2>1. Book(c) = new  BY <1>14 DEF Book
    <2>2. \A s \in Sides, p \in Pxs : QueueAt(Book(c), s, p) = <<>>  BY <2>1 DEF QueueAt, new, Empty
    <2>3. \A s \in Sides : e[s] = <<>>
      <3>1. \A s \in Sides : EmptySnap[s] = <<>>  BY DEF EmptySnap
      <3>2. \A s \in Sides, p \in Pxs : QueueAt(Book(c), s, p) = AtPrice(EmptySnap[s], p)
        BY <2>2, <3>1, AtPriceNone
      <3>3. \A s \in Sides : e[s] = EmptySnap[s]
        BY <1>1, <1>2, <1>3, <3>2, EmptySnapFacts, SnapshotsAgree
      <3>. QED  BY <3>1, <3>3
    <2>4. \A s \in Sides : EmptySnap[s] = <<>>  BY DEF EmptySnap
    <2>5. Coincide(BookView, View(n), c) <=> \A s \in Sides : x[s] = EmptySnap[s]
      BY <1>10, <2>3, <2>4
    <2>6. CASE c \in DOMAIN n
      <3>1. x = n[c] /\ DOMAIN x = Sides  BY <1>7, <1>8, <2>6 DEF IsSnapshot
      <3>2. (\A s \in Sides : x[s] = EmptySnap[s]) => x = EmptySnap
        <4>1. DOMAIN EmptySnap = Sides  BY DEF EmptySnap
        <4>2. x = [s \in Sides |-> x[s]]  BY <1>8 DEF IsSnapshot
        <4>. QED  BY <3>1, <4>1, <4>2 DEF EmptySnap
      <3>. QED  BY <1>14, <2>5, <2>6, <3>1, <3>2
    <2>7. CASE c \notin DOMAIN n  BY <1>7, <1>14, <2>5, <2>7
    <2>. QED  BY <2>6, <2>7
  <1>. QED  BY <1>11, <1>13, <1>14

\* The audit raises an alarm exactly if a book differs.
LEMMA AuditDecides ==
    ASSUME BookInv, call = Idle, BooksFiled, IsNode(past[height])
    PROVE  Verdict # "Err" <=> SameBooks
  <1>1. PICK n : n = past[height]  OBVIOUS
  <1>2. PICK snap : snap = to_snapshots  OBVIOUS
  <1>3. DOMAIN snap = DOMAIN order_books /\ DOMAIN order_books \in SUBSET Coins /\ DOMAIN n \in SUBSET Coins
    BY <1>1, <1>2, IdleFacts, BookAt DEF to_snapshots, IsNode
  <1>. DEFINE Bad1 == \E c \in Audited(snap) : IF c \in DOMAIN n THEN ~SameOrders(snap[c], n[c])
                                               ELSE snap[c] # EmptySnap
              Bad2 == \E c \in Audited(n) \ DOMAIN snap : n[c] # EmptySnap
  <1>4. Verdict = "Err" <=> Bad1 \/ Bad2
    <2>1. Verdict = validate_snapshot_consistency(snap, n)  BY <1>1, <1>2 DEF Verdict
    <2>2. "Equal" # "Err" /\ "EmptyBooksAdded" # "Err"  OBVIOUS
    <2>3. ASSUME Bad1 PROVE Verdict = "Err"  BY <2>1, <2>3 DEF validate_snapshot_consistency
    <2>4. ASSUME Bad2 PROVE Verdict = "Err"  BY <2>1, <2>4 DEF validate_snapshot_consistency
    <2>5. ASSUME ~Bad1, ~Bad2 PROVE Verdict # "Err"
      BY <2>1, <2>2, <2>5 DEF validate_snapshot_consistency
    <2>. QED  BY <2>3, <2>4, <2>5
  <1>5. ASSUME NEW c \in Coins
        PROVE  Coincide(BookView, View(n), c) <=>
                 CASE c \in DOMAIN order_books /\ c \in DOMAIN n -> SameOrders(snap[c], n[c])
                   [] c \in DOMAIN order_books /\ c \notin DOMAIN n -> snap[c] = EmptySnap
                   [] c \notin DOMAIN order_books /\ c \in DOMAIN n -> n[c] = EmptySnap
                   [] OTHER -> TRUE
    BY <1>1, <1>2, CoinAudit
  <1>6. SameBooks <=> \A c \in Coins : ~Skipped(c) => Coincide(BookView, View(n), c)
    BY <1>1, SameBooksViews
  <1>7. \A c : c \in Audited(snap) <=> c \in DOMAIN order_books /\ ~Skipped(c)
    BY <1>3 DEF Audited, Skipped
  <1>8. \A c : c \in Audited(n) \ DOMAIN snap <=> c \in DOMAIN n /\ c \notin DOMAIN order_books /\ ~Skipped(c)
    BY <1>3 DEF Audited, Skipped
  <1>9. ASSUME SameBooks PROVE ~Bad1 /\ ~Bad2
    <2>1. ASSUME NEW c \in Audited(snap)
          PROVE  IF c \in DOMAIN n THEN SameOrders(snap[c], n[c]) ELSE snap[c] = EmptySnap
      <3>1. c \in Coins /\ c \in DOMAIN order_books /\ Coincide(BookView, View(n), c)
        BY <1>3, <1>6, <1>7, <1>9
      <3>. QED  BY <1>5, <3>1
    <2>2. ASSUME NEW c \in Audited(n) \ DOMAIN snap PROVE n[c] = EmptySnap
      <3>1. c \in Coins /\ c \in DOMAIN n /\ c \notin DOMAIN order_books /\ Coincide(BookView, View(n), c)
        BY <1>3, <1>6, <1>8, <1>9
      <3>. QED  BY <1>5, <3>1
    <2>. QED  BY <2>1, <2>2
  <1>10. ASSUME ~Bad1, ~Bad2 PROVE SameBooks
    <2>. SUFFICES ASSUME NEW c \in Coins, ~Skipped(c) PROVE Coincide(BookView, View(n), c)  BY <1>6
    <2>1. CASE c \in DOMAIN order_books
      <3>1. c \in Audited(snap)  BY <1>7, <2>1
      <3>. QED  BY <1>5, <1>10, <2>1, <3>1
    <2>2. CASE c \notin DOMAIN order_books /\ c \in DOMAIN n
      <3>1. c \in Audited(n) \ DOMAIN snap  BY <1>8, <2>2
      <3>. QED  BY <1>5, <1>10, <2>2, <3>1
    <2>3. CASE c \notin DOMAIN order_books /\ c \notin DOMAIN n  BY <1>5, <2>3
    <2>. QED  BY <2>1, <2>2, <2>3
  <1>. QED  BY <1>4, <1>9, <1>10

-----------------------------------------------------------------------------
(* Queues and the orders they may come to have *)

Grown(q, r, e) == \A i \in DOMAIN r : Alike(r[i], e) \/ \E j \in DOMAIN q : Alike(r[i], q[j])

\* A queue in which an order is placed holds that order and what it held.
LEMMA PlacedGrown ==
    ASSUME NEW q \in Queues, NEW e \in Orders, NEW before, CanPlace(q, e.oid, before)
    PROVE  Grown(q, Placed(q, e, before), e)
  <1>1. q \in Seq(Orders) /\ DOMAIN q = 1..Len(q) /\ Len(q) \in Nat  BY DEF Queues
  <1>2. \A x : Alike(x, x)  BY DEF Alike
  <1>3. CASE before # NoOid
    <2>1. PICK i : i = Position(q, before)  OBVIOUS
    <2>2. i \in 1..Len(q) /\ Placed(q, e, before) = InsertAt(q, i, e)
      BY <1>1, <1>3, <2>1, PositionFacts DEF CanPlace, Placed
    <2>3. i \in 1..(Len(q) + 1)  BY <1>1, <2>2
    <2>4. PICK a, b \in Seq(Orders) : SlotAt(Orders, q, i, a, b)  BY <1>1, <2>3, Slot
    <2>5. PICK r : r = Splice(a, e, b)  OBVIOUS
    <2>6. Spliced1(Orders, a, e, b, r)  BY <2>5, SpliceFacts
    <2>7. InsertAt(q, i, e) = r  BY <2>4, <2>5 DEF SlotAt
    <2>8. ASSUME NEW x \in DOMAIN r PROVE r[x] = e \/ \E j \in DOMAIN q : r[x] = q[j]
      <3>1. /\ Len(a) = i - 1 /\ Len(b) = Len(q) - i + 1
            /\ \A j \in 1..(i - 1) : a[j] = q[j]
            /\ \A j \in 1..(Len(q) - i + 1) : b[j] = q[j + (i - 1)]
        BY <2>4 DEF SlotAt
      <3>2. /\ r \in Seq(Orders) /\ Len(r) = (i - 1) + 1 + (Len(q) - i + 1)
            /\ \A j \in 1..((i - 1) + 1 + (Len(q) - i + 1)) :
                  r[j] = IF j =< i - 1 THEN a[j] ELSE IF j = (i - 1) + 1 THEN e ELSE b[j - ((i - 1) + 1)]
        BY <2>6, <3>1 DEF Spliced1
      <3>3. x \in 1..(Len(q) + 1) /\ x \in 1..((i - 1) + 1 + (Len(q) - i + 1))
        BY <1>1, <2>2, <3>2
      <3>4. CASE x =< i - 1
        <4>1. x \in 1..(i - 1) /\ x \in 1..Len(q)  BY <1>1, <2>2, <3>3, <3>4
        <4>. QED  BY <1>1, <3>1, <3>2, <3>3, <3>4, <4>1
      <3>5. CASE x = i
        <4>1. ~(x =< i - 1) /\ x = (i - 1) + 1  BY <2>2, <3>5
        <4>. QED  BY <3>2, <3>3, <4>1
      <3>7. /\ x \in Int /\ i \in Int /\ Len(q) \in Int
            /\ 1 =< i /\ i =< Len(q) /\ 1 =< x /\ x =< Len(q) + 1
        BY <1>1, <2>2, <3>3
      <3>6. CASE x > i
        <4>1. ~(x =< i - 1) /\ x # (i - 1) + 1 /\ x - ((i - 1) + 1) = x - i  BY <3>6, <3>7
        <4>2. x - i \in 1..(Len(q) - i + 1) /\ (x - i) + (i - 1) = x - 1 /\ x - 1 \in 1..Len(q)
          BY <3>6, <3>7, SMTT(30)
        <4>3. r[x] = b[x - i]  BY <3>2, <3>3, <4>1
        <4>. QED  BY <1>1, <3>1, <4>2, <4>3
      <3>. QED  BY <3>4, <3>5, <3>6, <3>7
    <2>. QED  BY <1>2, <2>2, <2>7, <2>8 DEF Grown
  <1>4. CASE before = NoOid /\ Position(q, e.oid) = 0
    <2>1. PICK r : r = Append(q, e)  OBVIOUS
    <2>2. Placed(q, e, before) = r  BY <1>4, <2>1 DEF Placed
    <2>3. DOMAIN r = 1..(Len(q) + 1) /\ r[Len(q) + 1] = e /\ \A i \in 1..Len(q) : r[i] = q[i]
      BY <1>1, <2>1
    <2>4. \A x \in 1..(Len(q) + 1) : x \in 1..Len(q) \/ x = Len(q) + 1  BY <1>1
    <2>. QED  BY <1>1, <1>2, <2>2, <2>3, <2>4 DEF Grown
  <1>5. CASE before = NoOid /\ Position(q, e.oid) # 0  BY <1>2, <1>5 DEF Placed, Grown
  <1>. QED  BY <1>3, <1>4, <1>5

\* A queue that one order leaves holds nothing new.
LEMMA RemovedAlikes ==
    ASSUME NEW q \in Queues, NEW i \in DOMAIN q
    PROVE  Alikes(q, RemoveAt(q, i))
  <1>1. q \in Seq(Orders) /\ DOMAIN q = 1..Len(q) /\ Len(q) \in Nat /\ i \in 1..Len(q)
    BY DEF Queues
  <1>2. PICK a, b \in Seq(Orders) : Piece(Orders, q, i, a, b)  BY <1>1, Pieces
  <1>3. /\ q = Splice(a, q[i], b) /\ RemoveAt(q, i) = a \o b /\ Len(a) = i - 1
    BY <1>2 DEF Piece
  <1>4. q[i] \in Orders  BY <1>1
  <1>5. Spliced1(Orders, a, q[i], b, q)  BY <1>3, <1>4, SpliceFacts
  <1>6. PICK m, n : m = Len(a) /\ n = Len(b)  OBVIOUS
  <1>7. /\ Len(q) = m + 1 + n /\ m \in Nat /\ n \in Nat
        /\ \A j \in 1..(m + 1 + n) :
              q[j] = IF j =< m THEN a[j] ELSE IF j = m + 1 THEN q[i] ELSE b[j - (m + 1)]
    BY <1>5, <1>6 DEF Spliced1
  <1>8. PICK r : r = a \o b  OBVIOUS
  <1>9. Len(r) = m + n /\ r \in Seq(Orders) /\ \A j \in 1..(m + n) : r[j] = IF j =< m THEN a[j] ELSE b[j - m]
    BY <1>6, <1>8, ConcatProperties
  <1>10. ASSUME NEW x \in 1..(m + n) PROVE \E j \in DOMAIN q : r[x] = q[j]
    <2>1. CASE x =< m
      <3>1. x \in 1..(m + 1 + n)  BY <1>7, <2>1
      <3>2. r[x] = q[x]  BY <1>7, <1>9, <2>1, <3>1
      <3>. QED  BY <1>1, <1>7, <3>1, <3>2
    <2>2. CASE ~(x =< m)
      <3>1. PICK y : y = x + 1  OBVIOUS
      <3>2. y \in 1..(m + 1 + n) /\ ~(y =< m) /\ y # m + 1 /\ y - (m + 1) = x - m  BY <1>7, <2>2, <3>1
      <3>3. q[y] = b[x - m]  BY <1>7, <3>2
      <3>4. r[x] = b[x - m]  BY <1>9, <2>2
      <3>. QED  BY <1>1, <1>7, <3>2, <3>3, <3>4
    <2>. QED  BY <2>1, <2>2
  <1>11. DOMAIN r = 1..(m + n)  BY <1>9
  <1>12. \A x \in DOMAIN r : \E j \in DOMAIN q : Alike(r[x], q[j])  BY <1>10, <1>11 DEF Alike
  <1>. QED  BY <1>3, <1>8, <1>12 DEF Alikes

\* A queue with one order of another size holds nothing new.
LEMMA ResizedAlikes ==
    ASSUME NEW q \in Queues, NEW i \in DOMAIN q, NEW z \in Szs
    PROVE  Alikes(q, Resized(q, i, z)) /\ Resized(q, i, z) = [q EXCEPT ![i] = [q[i] EXCEPT !.sz = z]]
  <1>1. q \in Seq(Orders) /\ q[i] \in Orders  BY DEF Queues
  <1>2. PICK e : e = [q[i] EXCEPT !.sz = z]  OBVIOUS
  <1>3. Alike(e, q[i])  BY <1>1, <1>2 DEF Orders, Alike
  <1>4. PICK r : r = Resized(q, i, z)  OBVIOUS
  <1>5. r = [q EXCEPT ![i] = e]  BY <1>2, <1>4 DEF Resized
  <1>6. DOMAIN r = DOMAIN q /\ r[i] = e /\ \A j \in DOMAIN q : j # i => r[j] = q[j]  BY <1>5
  <1>7. \A x \in DOMAIN r : Alike(r[x], q[x])  BY <1>3, <1>6 DEF Alike
  <1>. QED  BY <1>2, <1>4, <1>5, <1>6, <1>7 DEF Alikes

-----------------------------------------------------------------------------
(* What a step of a call does to the view *)

Lane(o) == <<o.coin, o.side, o.px>>

\* A step that turns one queue changes one lane of the view.
LEMMA TurnsView ==
    ASSUME NEW c \in Coins, NEW s \in Sides, NEW p \in Pxs, NEW r, Turns(c, s, p, r)
    PROVE  BookView' = [BookView EXCEPT ![<<c, s, p>>] = r]
  <1>1. PICK l : l = <<c, s, p>>  OBVIOUS
  <1>2. l \in Lanes  BY <1>1 DEF Lanes
  <1>3. ASSUME NEW k \in Lanes PROVE BookView'[k] = IF k = l THEN r ELSE BookView[k]
    <2>1. k[1] \in Coins /\ k[2] \in Sides /\ k[3] \in Pxs /\ k = <<k[1], k[2], k[3]>>  BY DEF Lanes
    <2>2. BookView[k] = QueueAt(Book(k[1]), k[2], k[3])  BY DEF BookView
    <2>3. BookView'[k] = QueueAt(Book(k[1])', k[2], k[3])  BY DEF BookView
    <2>4. CASE k = l
      <3>1. k[1] = c /\ k[2] = s /\ k[3] = p  BY <1>1, <2>4
      <3>. QED  BY <2>3, <2>4, <3>1 DEF Turns
    <2>5. CASE k # l
      <3>1. k[1] # c \/ k[2] # s \/ k[3] # p  BY <1>1, <2>1, <2>5
      <3>. QED  BY <2>1, <2>2, <2>3, <2>5, <3>1 DEF Turns
    <2>. QED  BY <2>4, <2>5
  <1>4. DOMAIN BookView' = Lanes /\ DOMAIN BookView = Lanes  BY DEF BookView
  <1>5. BookView' = [k \in Lanes |-> BookView'[k]]  BY DEF BookView
  <1>. QED  BY <1>1, <1>2, <1>3, <1>4, <1>5

\* A step that changes no queue leaves the view.
LEMMA StaysView == ASSUME Stays PROVE BookView' = BookView
  <1>1. ASSUME NEW k \in Lanes PROVE QueueAt(Book(k[1])', k[2], k[3]) = QueueAt(Book(k[1]), k[2], k[3])
    <2>1. k[1] \in Coins /\ k[2] \in Sides /\ k[3] \in Pxs  BY DEF Lanes
    <2>. QED  BY <2>1 DEF Stays
  <1>. QED  BY <1>1 DEF BookView

\* Orders rest at their own price.
ViewFiled(v) == \A k \in Lanes : \A i \in DOMAIN v[k] : v[k][i].px = k[3]

\* The order has been seen: it rests, or is being added.
Held(v, o) == \E k \in Lanes : Holds(v[k], o)
Has(o) == Held(BookView, o) \/ (InCall /\ Taker.oid = o)

\* Every queue of a filed view holds orders of its own price.
LEMMA ViewFiledBooks == ViewFiled(BookView) => BooksFiled
  <1>. SUFFICES ASSUME ViewFiled(BookView), NEW c \in Coins, NEW s \in Sides, NEW p \in Pxs,
                       NEW i \in DOMAIN QueueAt(Book(c), s, p)
                PROVE  QueueAt(Book(c), s, p)[i].px = p
    BY DEF BooksFiled, Filed
  <1>1. PICK k : k = <<c, s, p>>  OBVIOUS
  <1>2. k \in Lanes /\ BookView[k] = QueueAt(Book(c), s, p) /\ k[3] = p  BY <1>1, ViewAt
  <1>. QED  BY <1>2 DEF ViewFiled

\* A lane that loses orders, or gains one of its price.
LEMMA GrownView ==
    ASSUME NEW v, DOMAIN v = Lanes, ViewFiled(v), NEW k \in Lanes, NEW r, NEW w, w = [v EXCEPT ![k] = r]
    PROVE  /\ Alikes(v[k], r) => ViewFiled(w) /\ \A o : Held(w, o) => Held(v, o)
           /\ \A e : e.px = k[3] /\ Grown(v[k], r, e)
                       => ViewFiled(w) /\ \A o : Held(w, o) => Held(v, o) \/ o = e.oid
  <1>1. w[k] = r /\ \A l \in Lanes : l # k => w[l] = v[l]  OBVIOUS
  <1>2. ASSUME NEW e, e.px = k[3], Grown(v[k], r, e)
        PROVE  ViewFiled(w) /\ \A o : Held(w, o) => Held(v, o) \/ o = e.oid
    <2>1. \A i \in DOMAIN r : (r[i].px = e.px /\ r[i].oid = e.oid)
                              \/ \E j \in DOMAIN v[k] : r[i].px = v[k][j].px /\ r[i].oid = v[k][j].oid
      BY <1>2 DEF Grown, Alike
    <2>2. \A i \in DOMAIN r : r[i].px = k[3]  BY <1>2, <2>1 DEF ViewFiled
    <2>3. ViewFiled(w)  BY <1>1, <2>2 DEF ViewFiled
    <2>4. \A o : Holds(r, o) => Holds(v[k], o) \/ o = e.oid  BY <2>1 DEF Holds
    <2>5. \A o : Held(w, o) => Held(v, o) \/ o = e.oid  BY <1>1, <2>4 DEF Held
    <2>. QED  BY <2>3, <2>5
  <1>3. ASSUME Alikes(v[k], r) PROVE ViewFiled(w) /\ \A o : Held(w, o) => Held(v, o)
    <2>1. \A i \in DOMAIN r : \E j \in DOMAIN v[k] : r[i].px = v[k][j].px /\ r[i].oid = v[k][j].oid
      BY <1>3 DEF Alikes, Alike
    <2>2. \A i \in DOMAIN r : r[i].px = k[3]  BY <2>1 DEF ViewFiled
    <2>3. ViewFiled(w)  BY <1>1, <2>2 DEF ViewFiled
    <2>4. \A o : Holds(r, o) => Holds(v[k], o)  BY <2>1 DEF Holds
    <2>5. \A o : Held(w, o) => Held(v, o)  BY <1>1, <2>4 DEF Held
    <2>. QED  BY <2>3, <2>5
  <1>. QED  BY <1>2, <1>3

-----------------------------------------------------------------------------
(* Calls that go smoothly *)

\* The view once the call under way has ended, if nothing trades.
Future == [k \in Lanes |-> IF InCall /\ k = Lane(Taker) THEN Placed(BookView[k], Taker, call.before)
                           ELSE BookView[k]]

\* The call trades with nobody and will be able to place the order.
Smooth(D) ==
    /\ call # Failed
    /\ InCall => /\ Taker.coin \in D /\ Taker.sz > 0 /\ Crossed = {}
                 /\ CanPlace(BookView[Lane(Taker)], Taker.oid, call.before)

\* On the coins of D the books are, or will be after the call, those of v.
Tracks(v, D) == Smooth(D) /\ \A k \in Lanes : k[1] \in D => v[k] = Future[k]

\* The lane that the order of the call under way would rest in.
LEMMA TakerLane ==
    ASSUME BookTypeOK, InCall
    PROVE  /\ Taker \in Orders /\ Taker.coin \in Coins /\ Taker.side \in Sides /\ Taker.px \in Pxs
           /\ Taker.oid \in Oids /\ Lane(Taker) \in Lanes /\ Lane(Taker)[3] = Taker.px
           /\ BookView[Lane(Taker)] = QueueAt(Book(Taker.coin), Taker.side, Taker.px)
           /\ BookView[Lane(Taker)] \in Queues
           /\ call.before \in Oids \union {NoOid}
  <1>1. Taker \in Orders /\ call.before \in Oids \union {NoOid}  BY CallFacts
  <1>2. Taker.coin \in Coins /\ Taker.side \in Sides /\ Taker.px \in Pxs /\ Taker.oid \in Oids
    BY <1>1 DEF Orders
  <1>3. Lane(Taker) = <<Taker.coin, Taker.side, Taker.px>>  BY DEF Lane
  <1>4. Lane(Taker) \in Lanes /\ BookView[Lane(Taker)] = QueueAt(Book(Taker.coin), Taker.side, Taker.px)
    BY <1>2, <1>3, ViewAt
  <1>5. BookView[Lane(Taker)] \in Queues  BY <1>2, <1>4, BookAt, QueueFacts
  <1>. QED  BY <1>1, <1>2, <1>3, <1>4, <1>5

\* The view and the one to come have every lane.
LEMMA ViewDomain == DOMAIN BookView = Lanes /\ DOMAIN Future = Lanes  BY DEF BookView, Future

Calm == BookInv /\ ViewFiled(BookView)

\* A call that trades was not a smooth one, and gives the books no new order.
LEMMA MatchOneCalm ==
    ASSUME Calm, MatchOne
    PROVE  Calm' /\ (\A o : Has(o)' => Has(o)) /\ \A D : ~Smooth(D)
  <1>1. BookInv /\ ViewFiled(BookView) /\ BookTypeOK  BY DEF Calm, BookInv
  <1>2. InCall  BY DEF InCall, MatchOne
  <1>3. BookInv' /\ (InCall' => Taker'.oid = Taker.oid)  BY <1>1, StepMatchOne
  <1>4. PICK s \in Sides, p \in Pxs, r \in Queues :
            Turns(Taker.coin, s, p, r) /\ Alikes(QueueAt(Book(Taker.coin), s, p), r)
    BY <1>1, StepMatchOne
  <1>5. Taker.coin \in Coins  BY <1>1, <1>2, TakerLane
  <1>6. PICK k : k = <<Taker.coin, s, p>>  OBVIOUS
  <1>7. k \in Lanes /\ BookView[k] = QueueAt(Book(Taker.coin), s, p)  BY <1>5, <1>6, ViewAt
  <1>8. BookView' = [BookView EXCEPT ![k] = r]  BY <1>4, <1>5, <1>6, TurnsView
  <1>9. PICK v, w : v = BookView /\ w = BookView'  OBVIOUS
  <1>10. DOMAIN v = Lanes /\ ViewFiled(v) /\ w = [v EXCEPT ![k] = r] /\ Alikes(v[k], r)
    BY <1>1, <1>4, <1>7, <1>8, <1>9, ViewDomain
  <1>11. ViewFiled(w) /\ \A o : Held(w, o) => Held(v, o)  BY <1>7, <1>10, GrownView
  <1>12. ViewFiled(BookView)'  BY <1>9, <1>11
  <1>13. ASSUME NEW o, Has(o)' PROVE Has(o)
    <2>1. CASE Held(BookView, o)'  BY <1>9, <1>11, <2>1 DEF Has
    <2>2. CASE InCall' /\ Taker'.oid = o  BY <1>2, <1>3, <2>2 DEF Has
    <2>. QED  BY <1>13, <2>1, <2>2 DEF Has
  <1>14. \A D : ~Smooth(D)  BY <1>2 DEF Smooth, MatchOne
  <1>. QED  BY <1>3, <1>12, <1>13, <1>14 DEF Calm

\* A call that has no more to trade with takes its makers out of the index.
LEMMA MatchDoneCalm ==
    ASSUME Calm, MatchDone
    PROVE  Calm' /\ (\A o : Has(o)' => Has(o)) /\ \A v, D : Tracks(v, D) => Tracks(v, D)'
  <1>1. BookInv /\ ViewFiled(BookView) /\ BookTypeOK  BY DEF Calm, BookInv
  <1>2. InCall  BY DEF InCall, MatchDone
  <1>3. BookInv' /\ Stays /\ Taker' = Taker  BY <1>1, StepMatchDone
  <1>4. BookView' = BookView  BY <1>3, StaysView
  <1>5. InCall' /\ call'.before = call.before /\ call' # Failed
    <2>1. call \in [phase : {"matching", "matched"}, order : Orders,
                    before : Oids \union {NoOid}, filled : SUBSET Oids]
      BY <1>1, <1>2, CallFacts
    <2>2. call' = [call EXCEPT !.phase = "matched"]  BY DEF MatchDone
    <2>3. call'.phase = "matched" /\ call'.before = call.before  BY <2>1, <2>2
    <2>4. call' # Failed  BY <2>3 DEF Failed
    <2>. QED  BY <2>3, <2>4 DEF InCall
  <1>6. Crossed' = {}  BY <1>3 DEF MatchDone, Crossed, Book
  <1>7. Future' = Future  BY <1>2, <1>3, <1>4, <1>5 DEF Future
  <1>8. ASSUME NEW v, NEW D, Tracks(v, D) PROVE Tracks(v, D)'
    <2>1. Smooth(D)'  BY <1>2, <1>3, <1>4, <1>5, <1>6, <1>8 DEF Smooth, Tracks
    <2>2. \A k \in Lanes : k[1] \in D => v[k] = Future[k]  BY <1>8 DEF Tracks
    <2>3. \A k \in Lanes : k[1] \in D => v[k] = Future'[k]  BY <1>7, <2>2
    <2>. QED  BY <2>1, <2>3 DEF Tracks
  <1>9. ASSUME NEW o, Has(o)' PROVE Has(o)  BY <1>2, <1>3, <1>4, <1>9 DEF Has
  <1>. QED  BY <1>1, <1>3, <1>4, <1>8, <1>9 DEF Calm

ViewGrows(v, w, x) == ViewFiled(w) /\ \A o : Held(w, o) => Held(v, o) \/ o = x

\* A view grows by the order that one of its lanes gains.
LEMMA GrownViewOne ==
    ASSUME NEW v, DOMAIN v = Lanes, ViewFiled(v), NEW k \in Lanes, NEW r, NEW w, w = [v EXCEPT ![k] = r],
           NEW e, e.px = k[3], Grown(v[k], r, e)
    PROVE  ViewGrows(v, w, e.oid)
  <1>1. ViewFiled(w) /\ \A o : Held(w, o) => Held(v, o) \/ o = e.oid  BY GrownView, Zenon
  <1>. QED  BY <1>1 DEF ViewGrows

\* The order comes to rest, and the view is the one that was to come.
LEMMA RestCalm ==
    ASSUME Calm, Rest
    PROVE  /\ Calm' /\ (\A o : Has(o)' => Has(o)) /\ call' \in {Idle, Failed}
           /\ \A v, D : Tracks(v, D) => Tracks(v, D)'
  <1>1. BookInv /\ ViewFiled(BookView) /\ BookTypeOK  BY DEF Calm, BookInv
  <1>2. InCall  BY DEF InCall, Rest
  <1>3. PICK q, l : q = BookView[l] /\ l = Lane(Taker)  OBVIOUS
  <1>4. /\ Taker \in Orders /\ Taker.coin \in Coins /\ Taker.side \in Sides /\ Taker.px \in Pxs
        /\ l \in Lanes /\ l[3] = Taker.px /\ call.before \in Oids \union {NoOid}
        /\ q = QueueAt(Book(Taker.coin), Taker.side, Taker.px) /\ q \in Queues
        /\ l = <<Taker.coin, Taker.side, Taker.px>>
    BY <1>1, <1>2, <1>3, TakerLane DEF Lane
  <1>5. PICK places : places = (Taker.sz > 0 /\ CanPlace(q, Taker.oid, call.before))  OBVIOUS
  <1>6. /\ BookInv' /\ call' \in {Idle, Failed}
        /\ places => /\ Turns(Taker.coin, Taker.side, Taker.px, Placed(q, Taker, call.before))
                     /\ call' = Idle
        /\ ~places => Stays
    BY <1>1, <1>4, <1>5, StepRest
  <1>7. ~InCall'  BY <1>6 DEF InCall, Idle, Failed
  <1>8. CASE places
    <2>1. PICK r : r = Placed(q, Taker, call.before)  OBVIOUS
    <2>2. BookView' = [BookView EXCEPT ![l] = r]  BY <1>4, <1>6, <1>8, <2>1, TurnsView
    <2>3. PICK v, w : v = BookView /\ w = BookView'  OBVIOUS
    <2>4. DOMAIN v = Lanes /\ ViewFiled(v) /\ w = [v EXCEPT ![l] = r] /\ v[l] = q
      BY <1>1, <1>3, <2>2, <2>3, ViewDomain
    <2>5. Grown(v[l], r, Taker)  BY <1>4, <1>5, <1>8, <2>1, <2>4, PlacedGrown
    <2>6. PICK e : e = Taker  OBVIOUS
    <2>7. e.px = l[3] /\ Grown(v[l], r, e)  BY <1>4, <2>5, <2>6
    <2>8. ViewFiled(w) /\ \A o : Held(w, o) => Held(v, o) \/ o = e.oid
      <3>1. DOMAIN v = Lanes /\ ViewFiled(v) /\ l \in Lanes /\ w = [v EXCEPT ![l] = r]  BY <1>4, <2>4
      <3>2. ViewGrows(v, w, e.oid)  BY <2>7, <3>1, GrownViewOne
      <3>. QED  BY <3>2 DEF ViewGrows
    <2>9. ViewFiled(BookView)'  BY <2>3, <2>8
    <2>10. ASSUME NEW o, Has(o)' PROVE Has(o)
      <3>1. Held(w, o)  BY <1>7, <2>3, <2>10 DEF Has
      <3>. QED  BY <1>2, <2>3, <2>6, <2>8, <3>1 DEF Has
    <2>11. Future' = Future
      <3>1. Future' = BookView'  BY <1>7 DEF Future, BookView
      <3>2. \A k \in Lanes : Future[k] = IF k = l THEN r ELSE BookView[k]
        BY <1>2, <1>3, <2>1 DEF Future
      <3>3. \A k \in Lanes : BookView'[k] = Future[k]  BY <2>2, <3>2, ViewDomain
      <3>4. DOMAIN BookView' = Lanes /\ BookView' = [k \in Lanes |-> BookView'[k]]  BY DEF BookView
      <3>5. Future = [k \in Lanes |-> Future[k]]  BY DEF Future
      <3>. QED  BY <3>1, <3>3, <3>4, <3>5
    <2>12. ASSUME NEW x, NEW D, Tracks(x, D) PROVE Tracks(x, D)'
      <3>1. call' # Failed  BY <1>6, <1>8 DEF Idle, Failed
      <3>2. Smooth(D)'  BY <1>7, <3>1 DEF Smooth
      <3>3. \A k \in Lanes : k[1] \in D => x[k] = Future'[k]  BY <2>11, <2>12 DEF Tracks
      <3>. QED  BY <3>2, <3>3 DEF Tracks
    <2>. QED  BY <1>6, <2>9, <2>10, <2>12 DEF Calm
  <1>9. CASE ~places
    <2>1. BookView' = BookView  BY <1>6, <1>9, StaysView
    <2>2. ASSUME NEW o, Has(o)' PROVE Has(o)  BY <1>7, <2>1, <2>2 DEF Has
    <2>3. \A D : ~Smooth(D)  BY <1>2, <1>3, <1>5, <1>9 DEF Smooth
    <2>. QED  BY <1>1, <1>6, <2>1, <2>2, <2>3 DEF Calm, Tracks
  <1>. QED  BY <1>8, <1>9

\* The call goes on: what it tracks it keeps tracking.
LEMMA AddingCalm ==
    ASSUME Calm, MatchOne \/ MatchDone \/ Rest
    PROVE  Calm' /\ (\A o : Has(o)' => Has(o)) /\ \A v, D : Tracks(v, D) => Tracks(v, D)'
  BY MatchOneCalm, MatchDoneCalm, RestCalm DEF Tracks

-----------------------------------------------------------------------------
(* Calls begin and end *)

\* Between calls the books have the view they are to have.
LEMMA IdleView ==
    ASSUME Calm, call = Idle
    PROVE  /\ BookInv /\ ViewFiled(BookView) /\ BookTypeOK /\ ~InCall /\ Future = BookView
           /\ \A o : Has(o) <=> Held(BookView, o)
           /\ \A D : Smooth(D)
           /\ \A v, D : Tracks(v, D) <=> \A k \in Lanes : k[1] \in D => v[k] = BookView[k]
           /\ \A c \in Coins : Sound(Book(c), {})
  <1>1. BookInv /\ ViewFiled(BookView) /\ BookTypeOK  BY DEF Calm, BookInv
  <1>2. ~InCall /\ call # Failed  BY DEF InCall, Idle, Failed
  <1>3. Future = BookView  BY <1>2 DEF Future, BookView
  <1>. QED  BY <1>1, <1>2, <1>3, IdleFacts DEF Has, Smooth, Tracks

\* What the index knows is in a queue, and it knows what is in a queue.
LEMMA KnownHeld ==
    ASSUME Calm, call = Idle, NEW c \in Coins, NEW o
    PROVE  /\ Known(c, o) => \E s \in Sides, p \in Pxs : Holds(BookView[<<c, s, p>>], o)
           /\ o \in Oids => \A s \in Sides, p \in Pxs : Holds(BookView[<<c, s, p>>], o) =>
                 Known(c, o) /\ Book(c).oid_to_side_px[o] = [side |-> s, px |-> p]
  <1>1. Sound(Book(c), {})  BY IdleView
  <1>2. Book(c) \in Books /\ Indexed(Book(c), {})  BY <1>1 DEF Sound
  <1>3. \A s \in Sides, p \in Pxs : BookView[<<c, s, p>>] = QueueAt(Book(c), s, p)  BY ViewAt
  <1>4. ASSUME Known(c, o) PROVE \E s \in Sides, p \in Pxs : Holds(BookView[<<c, s, p>>], o)
    <2>1. PICK ix : ix = Book(c).oid_to_side_px  OBVIOUS
    <2>2. ix \in Indices /\ o \in DOMAIN ix  BY <1>2, <1>4, <2>1 DEF Books, Known
    <2>3. ix[o] \in Places  BY <2>2, WithoutFacts
    <2>4. ix[o].side \in Sides /\ ix[o].px \in Pxs  BY <2>3 DEF Places
    <2>5. Holds(QueueAt(Book(c), ix[o].side, ix[o].px), o)  BY <1>2, <2>1, <2>2 DEF Indexed
    <2>. QED  BY <1>3, <2>4, <2>5
  <1>5. ASSUME o \in Oids, NEW s \in Sides, NEW p \in Pxs, Holds(BookView[<<c, s, p>>], o)
        PROVE  Known(c, o) /\ Book(c).oid_to_side_px[o] = [side |-> s, px |-> p]
    <2>1. Holds(QueueAt(Book(c), s, p), o)  BY <1>3, <1>5
    <2>. QED  BY <1>2, <1>5, <2>1 DEF Indexed, Known
  <1>. QED  BY <1>4, <1>5

\* No order of the other side would trade with this one.
NoneCross(v, e) ==
    \A x \in Pxs : v[<<e.coin, Other(e.side), x>>] # <<>> => ~Crosses(e.side, x, e.px)

\* There are two sides.
LEMMA OtherSide == \A s \in Sides : Other(s) \in Sides /\ Other(Other(s)) = s /\ Other(s) # s
  BY DEF Other, Sides

\* A new order is taken up.
LEMMA AddCalm ==
    ASSUME Calm, NEW e \in Orders, NEW before \in Oids \union {NoOid}, ~Known(e.coin, e.oid),
           AddOrder(e, before)
    PROVE  /\ Calm' /\ BookView' = BookView /\ InCall'
           /\ \A o : Has(o)' => Has(o) \/ o = e.oid
           /\ \A v, D :
                /\ e.coin \in D /\ e.sz > 0 /\ NoneCross(BookView, e)
                /\ CanPlace(BookView[Lane(e)], e.oid, before)
                /\ \A k \in Lanes : k[1] \in D =>
                      v[k] = IF k = Lane(e) THEN Placed(BookView[k], e, before) ELSE BookView[k]
                => Tracks(v, D)'
  <1>1. BookInv /\ ViewFiled(BookView) /\ BookTypeOK /\ call = Idle  BY DEF Calm, BookInv, AddOrder
  <1>2. BookInv' /\ Stays  BY <1>1, StepAdd
  <1>3. BookView' = BookView  BY <1>2, StaysView
  <1>4. call' = [phase |-> "matching", order |-> e, before |-> before, filled |-> {}]  BY DEF AddOrder
  <1>5. InCall' /\ Taker' = e /\ call'.before = before /\ call' # Failed
    BY <1>4 DEF InCall, Taker, Failed
  <1>6. \A o : Has(o)' => Has(o) \/ o = e.oid  BY <1>3, <1>5 DEF Has
  <1>7. e.coin \in Coins /\ e.side \in Sides /\ e.px \in Pxs  BY DEF Orders
  <1>8. ASSUME NoneCross(BookView, e) PROVE Crossed' = {}
    <2>1. PICK b, t : b = Book(e.coin)' /\ t = Other(e.side)  OBVIOUS
    <2>2. b \in Books /\ t \in Sides
      <3>1. BookTypeOK'  BY <1>2 DEF BookInv
      <3>2. /\ DOMAIN order_books' \in SUBSET Coins
            /\ \A x \in DOMAIN order_books' : order_books'[x] \in Books
        BY <3>1 DEF BookTypeOK
      <3>3. b = IF e.coin \in DOMAIN order_books' THEN order_books'[e.coin] ELSE new
        BY <2>1 DEF Book
      <3>. QED  BY <1>7, <2>1, <3>2, <3>3, NewFacts, OtherSide
    <2>3. Crossed' = {p \in DOMAIN b.levels[t] : Crosses(e.side, p, e.px)}  BY <1>5, <2>1 DEF Crossed
    <2>4. ASSUME NEW p \in DOMAIN b.levels[t] PROVE ~Crosses(e.side, p, e.px)
      <3>1. p \in Pxs /\ QueueAt(b, t, p) # <<>>  BY <2>2, QueueFacts
      <3>2. QueueAt(b, t, p) = QueueAt(Book(e.coin), t, p)  BY <1>2, <1>7, <2>1, <2>2, <3>1 DEF Stays
      <3>3. BookView[<<e.coin, t, p>>] # <<>>  BY <1>7, <2>2, <3>1, <3>2, ViewAt
      <3>. QED  BY <1>8, <2>1, <3>1, <3>3 DEF NoneCross
    <2>. QED  BY <2>3, <2>4
  <1>9. ASSUME NEW v, NEW D, e.coin \in D, e.sz > 0, NoneCross(BookView, e),
               CanPlace(BookView[Lane(e)], e.oid, before),
               \A k \in Lanes : k[1] \in D =>
                      v[k] = IF k = Lane(e) THEN Placed(BookView[k], e, before) ELSE BookView[k]
        PROVE  Tracks(v, D)'
    <2>1. Smooth(D)'  BY <1>3, <1>5, <1>8, <1>9 DEF Smooth
    <2>2. \A k \in Lanes : Future'[k] = IF k = Lane(e) THEN Placed(BookView[k], e, before) ELSE BookView[k]
      BY <1>3, <1>5 DEF Future
    <2>3. \A k \in Lanes : k[1] \in D => v[k] = Future'[k]  BY <1>9, <2>2
    <2>. QED  BY <2>1, <2>3 DEF Tracks
  <1>10. ViewFiled(BookView)'  BY <1>1, <1>3
  <1>. QED  BY <1>2, <1>3, <1>5, <1>6, <1>9, <1>10 DEF Calm

-----------------------------------------------------------------------------
(* Cancellations, size changes and new books *)

\* A lane of the view gets another queue, of orders that it had already.
LEMMA ShrinkCalm ==
    ASSUME Calm, call = Idle, BookInv', call' \in {Idle, Failed}, NEW c \in Coins, NEW s \in Sides,
           NEW p \in Pxs, NEW r, Turns(c, s, p, r), Alikes(BookView[<<c, s, p>>], r)
    PROVE  /\ Calm' /\ BookView' = [BookView EXCEPT ![<<c, s, p>>] = r]
           /\ \A o : Has(o)' => Has(o)
  <1>1. PICK k : k = <<c, s, p>>  OBVIOUS
  <1>2. k \in Lanes  BY <1>1, ViewAt
  <1>3. BookView' = [BookView EXCEPT ![k] = r]  BY <1>1, TurnsView
  <1>4. PICK v, w : v = BookView /\ w = BookView'  OBVIOUS
  <1>5. DOMAIN v = Lanes /\ ViewFiled(v) /\ w = [v EXCEPT ![k] = r] /\ Alikes(v[k], r)
    BY <1>1, <1>3, <1>4, ViewDomain DEF Calm
  <1>6. ViewFiled(w) /\ \A o : Held(w, o) => Held(v, o)  BY <1>2, <1>5, GrownView
  <1>7. ~InCall'  BY DEF InCall, Idle, Failed
  <1>. QED  BY <1>1, <1>3, <1>4, <1>6, <1>7 DEF Calm, Has

\* A call that changes no queue keeps everything.
LEMMA StillCalm ==
    ASSUME Calm, call = Idle, BookInv', call' \in {Idle, Failed}, Stays
    PROVE  Calm' /\ BookView' = BookView /\ \A o : Has(o)' => Has(o)
  <1>1. BookView' = BookView  BY StaysView
  <1>2. ~InCall'  BY DEF InCall, Idle, Failed
  <1>. QED  BY <1>1, <1>2 DEF Calm, Has

\* What the view says of an order that rests.
LEMMA RestsThere ==
    ASSUME Calm, call = Idle, NEW c \in Coins, NEW o \in Oids
    PROVE  /\ Known(c, o) =>
                LET at == Book(c).oid_to_side_px[o]
                    q  == QueueAt(Book(c), at.side, at.px)
                IN  /\ at.side \in Sides /\ at.px \in Pxs /\ q \in Queues
                    /\ Position(q, o) \in DOMAIN q /\ q = BookView[<<c, at.side, at.px>>]
           /\ \A s \in Sides, p \in Pxs : Holds(BookView[<<c, s, p>>], o) =>
                 Known(c, o) /\ Book(c).oid_to_side_px[o] = [side |-> s, px |-> p]
  <1>1. ASSUME Known(c, o)
        PROVE  LET at == Book(c).oid_to_side_px[o]
                   q  == QueueAt(Book(c), at.side, at.px)
               IN  /\ at.side \in Sides /\ at.px \in Pxs /\ q \in Queues
                   /\ Position(q, o) \in DOMAIN q /\ q = BookView[<<c, at.side, at.px>>]
    <2>1. BookInv  BY DEF Calm
    <2>. QED  BY <1>1, <2>1, KnownFacts, ViewAt
  <1>. QED  BY <1>1, KnownHeld

\* A cancellation takes the order out of its lane, if it is there.
LEMMA CancelCalm ==
    ASSUME Calm, NEW oid \in Oids, NEW coin \in Coins, cancel_order(oid, coin)
    PROVE  /\ Calm' /\ (\A o : Has(o)' => Has(o)) /\ call' \in {Idle, Failed}
           /\ \A s \in Sides, p \in Pxs : Holds(BookView[<<coin, s, p>>], oid) =>
                 /\ call' = Idle
                 /\ BookView' = [BookView EXCEPT ![<<coin, s, p>>] =
                                    RemoveAt(BookView[<<coin, s, p>>], Position(BookView[<<coin, s, p>>], oid))]
  <1>1. BookInv /\ call = Idle  BY DEF Calm, cancel_order
  <1>2. BookInv' /\ call' \in {Idle, Failed} /\ (~Known(coin, oid) => Stays)  BY <1>1, StepCancel
  <1>3. CASE ~Known(coin, oid)
    <2>1. Stays  BY <1>2, <1>3
    <2>. QED  BY <1>1, <1>2, <1>3, <2>1, StillCalm, RestsThere
  <1>4. CASE Known(coin, oid)
    <2>1. PICK at, q : at = Book(coin).oid_to_side_px[oid] /\ q = QueueAt(Book(coin), at.side, at.px)
      OBVIOUS
    <2>2. /\ at.side \in Sides /\ at.px \in Pxs /\ q \in Queues
          /\ Position(q, oid) \in DOMAIN q /\ q = BookView[<<coin, at.side, at.px>>]
      BY <1>1, <1>4, <2>1, RestsThere
    <2>3. PICK r : r = RemoveAt(q, Position(q, oid))  OBVIOUS
    <2>4. Turns(coin, at.side, at.px, r) /\ call' = Idle  BY <1>1, <1>4, <2>1, <2>3, StepCancel
    <2>5. Alikes(q, r)  BY <2>2, <2>3, RemovedAlikes
    <2>6. /\ Calm' /\ BookView' = [BookView EXCEPT ![<<coin, at.side, at.px>>] = r]
          /\ \A o : Has(o)' => Has(o)
      BY <1>1, <1>2, <2>2, <2>4, <2>5, ShrinkCalm
    <2>7. ASSUME NEW s \in Sides, NEW p \in Pxs, Holds(BookView[<<coin, s, p>>], oid)
          PROVE  s = at.side /\ p = at.px
      <3>1. at = [side |-> s, px |-> p]  BY <1>1, <2>1, <2>7, RestsThere
      <3>. QED  BY <3>1
    <2>. QED  BY <1>2, <2>2, <2>3, <2>4, <2>6, <2>7
  <1>. QED  BY <1>3, <1>4

\* A size change gives the order in its lane that size, if it is there.
LEMMA ModifyCalm ==
    ASSUME Calm, NEW oid \in Oids, NEW coin \in Coins, NEW sz \in Szs, modify_sz(oid, coin, sz)
    PROVE  /\ Calm' /\ (\A o : Has(o)' => Has(o)) /\ call' \in {Idle, Failed}
           /\ \A s \in Sides, p \in Pxs : Holds(BookView[<<coin, s, p>>], oid) =>
                 /\ call' = Idle
                 /\ BookView' = [BookView EXCEPT ![<<coin, s, p>>] =
                                    Resized(BookView[<<coin, s, p>>], Position(BookView[<<coin, s, p>>], oid), sz)]
  <1>1. BookInv /\ call = Idle  BY DEF Calm, modify_sz
  <1>2. BookInv' /\ call' \in {Idle, Failed} /\ (~Known(coin, oid) => Stays)  BY <1>1, StepModify
  <1>3. CASE ~Known(coin, oid)
    <2>1. Stays  BY <1>2, <1>3
    <2>. QED  BY <1>1, <1>2, <1>3, <2>1, StillCalm, RestsThere
  <1>4. CASE Known(coin, oid)
    <2>1. PICK at, q : at = Book(coin).oid_to_side_px[oid] /\ q = QueueAt(Book(coin), at.side, at.px)
      OBVIOUS
    <2>2. /\ at.side \in Sides /\ at.px \in Pxs /\ q \in Queues
          /\ Position(q, oid) \in DOMAIN q /\ q = BookView[<<coin, at.side, at.px>>]
      BY <1>1, <1>4, <2>1, RestsThere
    <2>3. PICK r : r = Resized(q, Position(q, oid), sz)  OBVIOUS
    <2>4. Turns(coin, at.side, at.px, r) /\ call' = Idle  BY <1>1, <1>4, <2>1, <2>3, StepModify
    <2>5. Alikes(q, r)  BY <2>2, <2>3, ResizedAlikes
    <2>6. /\ Calm' /\ BookView' = [BookView EXCEPT ![<<coin, at.side, at.px>>] = r]
          /\ \A o : Has(o)' => Has(o)
      BY <1>1, <1>2, <2>2, <2>4, <2>5, ShrinkCalm
    <2>7. ASSUME NEW s \in Sides, NEW p \in Pxs, Holds(BookView[<<coin, s, p>>], oid)
          PROVE  s = at.side /\ p = at.px
      <3>1. at = [side |-> s, px |-> p]  BY <1>1, <2>1, <2>7, RestsThere
      <3>. QED  BY <3>1
    <2>. QED  BY <1>2, <2>2, <2>3, <2>4, <2>6, <2>7
  <1>. QED  BY <1>3, <1>4

\* The books are thrown away.
LEMMA EmptyCalm ==
    ASSUME order_books' = Empty, call' = Idle
    PROVE  Calm' /\ (\A o : ~Has(o)') /\ BookView' = [k \in Lanes |-> <<>>]
  <1>1. BookInit'  BY DEF BookInit
  <1>2. BookInv'  BY <1>1, BookInvInit, PTL
  <1>3. \A c : Book(c)' = new  BY DEF Book, Empty
  <1>4. BookView' = [k \in Lanes |-> <<>>]  BY <1>3 DEF BookView, QueueAt, new, Empty, Lanes
  <1>5. ~InCall'  BY DEF InCall, Idle
  <1>. QED  BY <1>2, <1>4, <1>5 DEF Calm, ViewFiled, Has, Held, Holds

\* A coin gets a new book.
LEMMA NewBookCalm ==
    ASSUME Calm, call = Idle, NEW c \in Coins, order_books' = With(order_books, c, new), call' = Idle
    PROVE  /\ Calm' /\ (\A o : Has(o)' => Has(o))
           /\ BookView' = [k \in Lanes |-> IF k[1] = c THEN <<>> ELSE BookView[k]]
  <1>1. BookInv /\ ViewFiled(BookView) /\ BookTypeOK  BY DEF Calm, BookInv
  <1>2. PICK D \in SUBSET Coins : order_books \in [D -> Books]  BY <1>1 DEF BookTypeOK
  <1>3. order_books' = [z \in D \union {c} |-> IF z = c THEN new ELSE order_books[z]]
    BY <1>2 DEF With
  <1>4. order_books' \in [D \union {c} -> Books] /\ D \union {c} \in SUBSET Coins  BY <1>2, <1>3, NewFacts
  <1>5. BookTypeOK'  BY <1>4 DEF BookTypeOK, Calls
  <1>6. Book(c)' = new /\ \A d : d # c => Book(d)' = Book(d)  BY <1>2, <1>3 DEF Book
  <1>7. ~InCall' /\ call'.phase # "matched"  BY DEF InCall, Idle
  <1>8. \A x \in Coins : Filled(x)' = {} /\ Filled(x) = {}  BY <1>1, <1>7, IdleFacts DEF Filled
  <1>9. \A x \in Coins : Indexed(Book(x), Filled(x))' /\ Apart(Book(x))'
    BY <1>1, <1>6, <1>8, NewFacts DEF BookInv
  <1>10. BookInv'  BY <1>5, <1>7, <1>9 DEF BookInv
  <1>11. BookView' = [k \in Lanes |-> IF k[1] = c THEN <<>> ELSE BookView[k]]
    <2>1. \A s \in Sides : \A p : QueueAt(new, s, p) = <<>>  BY DEF QueueAt, new, Empty
    <2>2. \A k \in Lanes : k[2] \in Sides  BY DEF Lanes
    <2>3. BookView' = [k \in Lanes |-> QueueAt(Book(k[1])', k[2], k[3])]  BY DEF BookView
    <2>4. ASSUME NEW k \in Lanes
          PROVE  QueueAt(Book(k[1])', k[2], k[3]) = IF k[1] = c THEN <<>> ELSE BookView[k]
      BY <1>6, <2>1, <2>2 DEF BookView
    <2>. QED  BY <2>3, <2>4
  <1>12. ViewFiled(BookView)' /\ \A o : Held(BookView, o)' => Held(BookView, o)
    BY <1>1, <1>11 DEF ViewFiled, Held, Holds
  <1>. QED  BY <1>7, <1>10, <1>11, <1>12 DEF Calm, Has

-----------------------------------------------------------------------------
(* What the diffs of a block do to a view *)

\* Order o comes to rest in lane k, in front of `before', and trades with nobody.
Joins(v, o, before, w, k) ==
    /\ o \in Orders /\ k = Lane(o) /\ o.sz > 0 /\ NoneCross(v, o)
    /\ CanPlace(v[k], o.oid, before) /\ w = [v EXCEPT ![k] = Placed(v[k], o, before)]

Affects(v, d, om, w, k) ==
    \/ /\ d.kind = "New" /\ d.oid \in DOMAIN om
       /\ Joins(v, Rests(om[d.oid], d), d.before, w, k)
    \/ /\ d.kind = "Update" /\ Holds(v[k], d.oid)
       /\ w = [v EXCEPT ![k] = Resized(v[k], Position(v[k], d.oid), d.sz)]
    \/ /\ d.kind = "Remove" /\ Holds(v[k], d.oid)
       /\ w = [v EXCEPT ![k] = RemoveAt(v[k], Position(v[k], d.oid))]

\* Diff d, with these statuses, turns view v into view w.
Moves(v, d, om, w) ==
    DOMAIN v = Lanes /\ \E s \in Sides, p \in Pxs : Affects(v, d, om, w, <<d.coin, s, p>>)

\* Diff by diff, ds turns view v into view w.
Leads(v, ds, om, w) ==
    \E trail : /\ trail[0] = v /\ trail[Len(ds)] = w
               /\ \A i \in 1..Len(ds) : Moves(trail[i - 1], ds[i], om, trail[i])

\* No diff leads from a view to itself.
LEMMA LeadsNone ==
    ASSUME NEW v, NEW om, NEW w PROVE Leads(v, <<>>, om, w) <=> v = w
  <1>1. Len(<<>>) = 0 /\ 1..0 = {}  OBVIOUS
  <1>2. ASSUME v = w PROVE Leads(v, <<>>, om, w)
    <2>1. PICK trail : trail = [i \in {0} |-> v]  OBVIOUS
    <2>2. trail[0] = v  BY <2>1
    <2>. QED  BY <1>1, <1>2, <2>2 DEF Leads
  <1>3. ASSUME Leads(v, <<>>, om, w) PROVE v = w  BY <1>1, <1>3 DEF Leads
  <1>. QED  BY <1>2, <1>3

\* One diff more leads one move further.
LEMMA LeadsAppend ==
    ASSUME NEW S, NEW ds \in Seq(S), NEW d \in S, NEW om, NEW u, NEW v, NEW w,
           Leads(u, ds, om, v), Moves(v, d, om, w)
    PROVE  Leads(u, Append(ds, d), om, w)
  <1>1. PICK trail : /\ trail[0] = u /\ trail[Len(ds)] = v
                     /\ \A i \in 1..Len(ds) : Moves(trail[i - 1], ds[i], om, trail[i])
    BY DEF Leads
  <1>2. PICK n, es : n = Len(ds) /\ es = Append(ds, d)  OBVIOUS
  <1>3. /\ n \in Nat /\ Len(es) = n + 1 /\ es[n + 1] = d /\ \A i \in 1..n : es[i] = ds[i]
    BY <1>2
  <1>4. PICK t : t = [i \in 0..(n + 1) |-> IF i = n + 1 THEN w ELSE trail[i]]  OBVIOUS
  <1>5. t[0] = u /\ t[n + 1] = w  BY <1>1, <1>3, <1>4
  <1>6. ASSUME NEW i \in 1..(n + 1) PROVE Moves(t[i - 1], es[i], om, t[i])
    <2>1. CASE i = n + 1
      <3>1. i - 1 = n /\ n \in 0..(n + 1) /\ n # n + 1  BY <1>3, <2>1
      <3>2. t[i - 1] = v /\ t[i] = w /\ es[i] = d  BY <1>1, <1>2, <1>3, <1>4, <2>1, <3>1
      <3>. QED  BY <3>2
    <2>2. CASE i # n + 1
      <3>1. i \in 1..n /\ i - 1 \in 0..(n + 1) /\ i \in 0..(n + 1) /\ i - 1 # n + 1  BY <1>3, <2>2
      <3>2. t[i - 1] = trail[i - 1] /\ t[i] = trail[i] /\ es[i] = ds[i]  BY <1>3, <1>4, <2>2, <3>1
      <3>. QED  BY <1>1, <1>2, <3>1, <3>2
    <2>. QED  BY <2>1, <2>2
  <1>7. Leads(u, es, om, w)  BY <1>3, <1>5, <1>6 DEF Leads
  <1>. QED  BY <1>2, <1>7

\* The first of the diffs is a move, and the others lead on from there.
LEMMA LeadsHead ==
    ASSUME NEW S, NEW ds \in Seq(S), ds # <<>>, NEW om, NEW v, NEW w, Leads(v, ds, om, w)
    PROVE  \E x : Moves(v, Head(ds), om, x) /\ Leads(x, Tail(ds), om, w)
  <1>1. PICK trail : /\ trail[0] = v /\ trail[Len(ds)] = w
                     /\ \A i \in 1..Len(ds) : Moves(trail[i - 1], ds[i], om, trail[i])
    BY DEF Leads
  <1>2. PICK n, es : n = Len(ds) /\ es = Tail(ds)  OBVIOUS
  <1>3. n \in Nat \ {0} /\ Len(es) = n - 1 /\ Head(ds) = ds[1] /\ \A i \in 1..(n - 1) : es[i] = ds[i + 1]
    BY <1>2
  <1>4. PICK t : t = [i \in 0..(n - 1) |-> trail[i + 1]]  OBVIOUS
  <1>5. 0 \in 0..(n - 1) /\ n - 1 \in 0..(n - 1) /\ (n - 1) + 1 = n /\ 0 + 1 = 1 /\ 1 \in 1..n /\ 1 - 1 = 0
    BY <1>3
  <1>6. t[0] = trail[1] /\ t[n - 1] = w  BY <1>1, <1>2, <1>4, <1>5
  <1>7. ASSUME NEW i \in 1..(n - 1) PROVE Moves(t[i - 1], es[i], om, t[i])
    <2>1. /\ i \in 0..(n - 1) /\ i - 1 \in 0..(n - 1) /\ (i - 1) + 1 = i /\ i + 1 \in 1..n
          /\ (i + 1) - 1 = i
      BY <1>3
    <2>2. t[i - 1] = trail[i] /\ t[i] = trail[i + 1] /\ es[i] = ds[i + 1]  BY <1>3, <1>4, <2>1
    <2>3. Moves(trail[(i + 1) - 1], ds[i + 1], om, trail[i + 1])  BY <1>1, <1>2, <2>1
    <2>. QED  BY <2>1, <2>2, <2>3
  <1>8. Leads(trail[1], es, om, w)  BY <1>3, <1>6, <1>7 DEF Leads
  <1>9. Moves(trail[1 - 1], ds[1], om, trail[1])  BY <1>1, <1>2, <1>5
  <1>10. Moves(v, Head(ds), om, trail[1])  BY <1>1, <1>3, <1>5, <1>9
  <1>. QED  BY <1>2, <1>8, <1>10

\* Only the statuses of the orders that are new matter.
Serves(om, om2, ds) ==
    \A i \in 1..Len(ds) : ds[i].kind = "New" /\ ds[i].oid \in DOMAIN om =>
        ds[i].oid \in DOMAIN om2 /\ om2[ds[i].oid] = om[ds[i].oid]

\* Diffs lead the same way under an order map that serves them as well.
LEMMA LeadsMap ==
    ASSUME NEW ds, NEW om, NEW om2, NEW v, NEW w, Leads(v, ds, om, w), Serves(om, om2, ds)
    PROVE  Leads(v, ds, om2, w)
  <1>1. ASSUME NEW i \in 1..Len(ds), NEW x, NEW y, NEW k, Affects(x, ds[i], om, y, k)
        PROVE  Affects(x, ds[i], om2, y, k)
    BY <1>1 DEF Affects, Serves
  <1>2. \A i \in 1..Len(ds) : \A x, y : Moves(x, ds[i], om, y) => Moves(x, ds[i], om2, y)
    BY <1>1 DEF Moves
  <1>. QED  BY <1>2 DEF Leads

-----------------------------------------------------------------------------
(* The books follow a view *)

Diffs == [coin : Coins, oid : Oids, px : Pxs, kind : {"New", "Update", "Remove"}, sz : Szs,
          before : Oids \union {NoOid}]

\* Tracking a view, once the call has ended.
LEMMA IdleTracks ==
    ASSUME call' = Idle, NEW v, NEW D
    PROVE  Tracks(v, D)' <=> \A k \in Lanes : k[1] \in D => v[k] = BookView'[k]
  <1>1. ~InCall' /\ call' # Failed  BY DEF InCall, Idle, Failed
  <1>2. Future' = BookView'  BY <1>1 DEF Future, BookView
  <1>. QED  BY <1>1, <1>2 DEF Tracks, Smooth

\* A change that is made to a lane of both.
LEMMA SameChange ==
    ASSUME Calm, call = Idle, call' = Idle, NEW v, NEW D, Tracks(v, D), DOMAIN v = Lanes,
           NEW k \in Lanes, NEW r, NEW w, w = [v EXCEPT ![k] = r], BookView' = [BookView EXCEPT ![k] = r]
    PROVE  Tracks(w, D)'
  <1>1. \A l \in Lanes : l[1] \in D => v[l] = BookView[l]  BY IdleView
  <1>2. ASSUME NEW l \in Lanes, l[1] \in D PROVE w[l] = BookView'[l]
    BY <1>1, <1>2, ViewDomain
  <1>. QED  BY <1>2, IdleTracks

\* A change to the lane of a coin that is not tracked.
LEMMA SkippedChange ==
    ASSUME NEW v, NEW D, Tracks(v, D), NEW d, NEW om, NEW w, Moves(v, d, om, w), d.coin \notin D
    PROVE  Tracks(w, D)
  <1>1. PICK s \in Sides, p \in Pxs : DOMAIN v = Lanes /\ Affects(v, d, om, w, <<d.coin, s, p>>)
    BY DEF Moves
  <1>2. PICK k : k = <<d.coin, s, p>>  OBVIOUS
  <1>3. k[1] = d.coin  BY <1>2
  <1>4. \E r : w = [v EXCEPT ![k] = r]  BY <1>1, <1>2 DEF Affects, Joins
  <1>5. \A l \in Lanes : l[1] \in D => w[l] = v[l]  BY <1>1, <1>3, <1>4
  <1>. QED  BY <1>5 DEF Tracks

\* The books follow a New diff whose order they do not have.
LEMMA NewFollows ==
    ASSUME Calm, NEW v, NEW D, Tracks(v, D), NEW d \in Diffs, d.coin \in D, NEW om, NEW w,
           Moves(v, d, om, w), d.kind = "New", NEW e, e = Rests(om[d.oid], d),
           ~Known(e.coin, e.oid), AddOrder(e, d.before)
    PROVE  Tracks(w, D)'
  <1>1. PICK s \in Sides, p \in Pxs : DOMAIN v = Lanes /\ Affects(v, d, om, w, <<d.coin, s, p>>)
    BY DEF Moves
  <1>2. PICK k : k = <<d.coin, s, p>>  OBVIOUS
  <1>3. Joins(v, e, d.before, w, k)  BY <1>1, <1>2 DEF Affects
  <1>4. /\ e \in Orders /\ k = Lane(e) /\ e.sz > 0 /\ NoneCross(v, e)
        /\ CanPlace(v[k], e.oid, d.before) /\ w = [v EXCEPT ![k] = Placed(v[k], e, d.before)]
    BY <1>3 DEF Joins
  <1>5. e.coin = d.coin /\ k \in Lanes /\ d.before \in Oids \union {NoOid}
    BY <1>2, <1>4 DEF Lane, Lanes, Diffs, Orders
  <1>6. call = Idle  BY DEF AddOrder
  <1>7. \A l \in Lanes : l[1] \in D => v[l] = BookView[l]  BY <1>6, IdleView
  <1>8. NoneCross(BookView, e)
    <2>1. ASSUME NEW x \in Pxs PROVE v[<<e.coin, Other(e.side), x>>] = BookView[<<e.coin, Other(e.side), x>>]
      <3>1. PICK l : l = <<e.coin, Other(e.side), x>>  OBVIOUS
      <3>2. e.coin \in Coins /\ e.side \in Sides  BY <1>4 DEF Orders
      <3>3. l \in Lanes /\ l[1] = e.coin  BY <3>1, <3>2, OtherSide DEF Lanes
      <3>. QED  BY <1>5, <1>7, <3>1, <3>3
    <2>. QED  BY <1>4, <2>1 DEF NoneCross
  <1>9. k[1] = d.coin  BY <1>2
  <1>10. v[k] = BookView[k]  BY <1>5, <1>7, <1>9
  <1>11. \A l \in Lanes : l[1] \in D =>
            w[l] = IF l = Lane(e) THEN Placed(BookView[l], e, d.before) ELSE BookView[l]
    BY <1>1, <1>4, <1>7, <1>10
  <1>12. e.coin \in D /\ CanPlace(BookView[Lane(e)], e.oid, d.before)  BY <1>4, <1>5, <1>10
  <1>13. \A x, E :
            /\ e.coin \in E /\ e.sz > 0 /\ NoneCross(BookView, e)
            /\ CanPlace(BookView[Lane(e)], e.oid, d.before)
            /\ \A l \in Lanes : l[1] \in E =>
                  x[l] = IF l = Lane(e) THEN Placed(BookView[l], e, d.before) ELSE BookView[l]
            => Tracks(x, E)'
    BY <1>4, <1>5, AddCalm
  <1>. QED  BY <1>4, <1>8, <1>11, <1>12, <1>13

\* The books follow an Update and a Remove.
LEMMA ChangeFollows ==
    ASSUME Calm, NEW v, NEW D, Tracks(v, D), NEW d \in Diffs, d.coin \in D, NEW om, NEW w,
           Moves(v, d, om, w),
           \/ d.kind = "Update" /\ modify_sz(d.oid, d.coin, d.sz)
           \/ d.kind = "Remove" /\ cancel_order(d.oid, d.coin)
    PROVE  Tracks(w, D)'
  <1>1. PICK s \in Sides, p \in Pxs : DOMAIN v = Lanes /\ Affects(v, d, om, w, <<d.coin, s, p>>)
    BY DEF Moves
  <1>2. PICK k : k = <<d.coin, s, p>>  OBVIOUS
  <1>3. /\ k \in Lanes /\ k[1] = d.coin /\ d.coin \in Coins /\ d.oid \in Oids /\ d.sz \in Szs
    BY <1>2 DEF Lanes, Diffs
  <1>4. call = Idle  BY DEF modify_sz, cancel_order
  <1>5. v[k] = BookView[k]  BY <1>3, <1>4, IdleView
  <1>6. CASE d.kind = "Update" /\ modify_sz(d.oid, d.coin, d.sz)
    <2>1. Holds(v[k], d.oid) /\ w = [v EXCEPT ![k] = Resized(v[k], Position(v[k], d.oid), d.sz)]
      BY <1>1, <1>2, <1>6 DEF Affects
    <2>2. PICK r : r = Resized(v[k], Position(v[k], d.oid), d.sz)  OBVIOUS
    <2>3. call' = Idle /\ BookView' = [BookView EXCEPT ![k] = r]
      BY <1>2, <1>3, <1>5, <1>6, <2>1, <2>2, ModifyCalm
    <2>. QED  BY <1>1, <1>3, <1>4, <2>1, <2>2, <2>3, SameChange
  <1>7. CASE d.kind = "Remove" /\ cancel_order(d.oid, d.coin)
    <2>1. Holds(v[k], d.oid) /\ w = [v EXCEPT ![k] = RemoveAt(v[k], Position(v[k], d.oid))]
      BY <1>1, <1>2, <1>7 DEF Affects
    <2>2. PICK r : r = RemoveAt(v[k], Position(v[k], d.oid))  OBVIOUS
    <2>3. call' = Idle /\ BookView' = [BookView EXCEPT ![k] = r]
      BY <1>2, <1>3, <1>5, <1>7, <2>1, <2>2, CancelCalm
    <2>. QED  BY <1>1, <1>3, <1>4, <2>1, <2>2, <2>3, SameChange
  <1>. QED  BY <1>6, <1>7

-----------------------------------------------------------------------------
(* order_map *)

FullOrders == [coin : Coins, oid : Oids, side : Sides, px : Pxs, sz : Szs,
               is_trigger : BOOLEAN, timestamp : Nat]
Statuses == [order : FullOrders, status : {"open", "triggered", "filled", "canceled"},
             tif : {"Gtc", "Ioc"}, time : Nat]

\* The places of the statuses that put order o into the book.
Putting(t, o) == {i \in DOMAIN t : is_inserted_into_book(t[i]) /\ t[i].order.oid = o}

\* order_map has the last status that puts an order into the book.
LEMMA OrderMapAt ==
    ASSUME NEW t
    PROVE  /\ \A o : o \in DOMAIN OrderMap(t) <=> Putting(t, o) # {}
           /\ \A o \in DOMAIN OrderMap(t) : OrderMap(t)[o] = t[Max(Putting(t, o))]
  <1>1. PICK in : in = {i \in DOMAIN t : is_inserted_into_book(t[i])}  OBVIOUS
  <1>2. OrderMap(t) = [o \in {t[i].order.oid : i \in in} |-> t[Max({i \in in : t[i].order.oid = o})]]
    BY <1>1 DEF OrderMap
  <1>3. \A o : {i \in in : t[i].order.oid = o} = Putting(t, o)  BY <1>1 DEF Putting
  <1>. QED  BY <1>2, <1>3

\* order_map has statuses, by the id of their order.
LEMMA OrderMapFacts ==
    ASSUME NEW t \in Seq(Statuses), NEW o \in DOMAIN OrderMap(t)
    PROVE  OrderMap(t)[o] \in Statuses /\ OrderMap(t)[o].order.oid = o
  <1>1. PICK P, m : P = Putting(t, o) /\ m = Max(P)  OBVIOUS
  <1>2. P # {} /\ OrderMap(t)[o] = t[m]  BY <1>1, OrderMapAt
  <1>3. DOMAIN t = 1..Len(t) /\ Len(t) \in Nat  OBVIOUS
  <1>4. P \in SUBSET (1..Len(t))  BY <1>1, <1>3 DEF Putting
  <1>5. m \in P  BY <1>1, <1>2, <1>3, <1>4, MaxFacts
  <1>6. m \in 1..Len(t) /\ t[m].order.oid = o  BY <1>1, <1>3, <1>5 DEF Putting
  <1>. QED  BY <1>2, <1>6

\* What a further status does to the map.
LEMMA OrderMapAppend ==
    ASSUME NEW t \in Seq(Statuses), NEW s \in Statuses, NEW m, m = OrderMap(Append(t, s))
    PROVE  /\ ~is_inserted_into_book(s) => m = OrderMap(t)
           /\ is_inserted_into_book(s) => s.order.oid \in DOMAIN m /\ m[s.order.oid] = s
           /\ \A o \in DOMAIN OrderMap(t) : o # s.order.oid => o \in DOMAIN m /\ m[o] = OrderMap(t)[o]
  <1>1. PICK u, n : u = Append(t, s) /\ n = Len(t)  OBVIOUS
  <1>2. /\ n \in Nat /\ DOMAIN t = 1..n /\ DOMAIN u = 1..(n + 1) /\ u[n + 1] = s
        /\ \A i \in 1..n : u[i] = t[i]
    BY <1>1
  <1>3. \A i : i \in 1..(n + 1) <=> i \in 1..n \/ i = n + 1  BY <1>2
  <1>4. n + 1 \notin 1..n  BY <1>2
  <1>5. ASSUME NEW o, ~is_inserted_into_book(s) \/ o # s.order.oid PROVE Putting(u, o) = Putting(t, o)
    <2>1. \A i : i \in Putting(u, o) <=> i \in 1..n /\ is_inserted_into_book(t[i]) /\ t[i].order.oid = o
      BY <1>2, <1>3, <1>5 DEF Putting
    <2>. QED  BY <1>2, <2>1 DEF Putting
  <1>6. ASSUME NEW o, Putting(u, o) = Putting(t, o), Putting(t, o) # {}
        PROVE  u[Max(Putting(u, o))] = t[Max(Putting(t, o))]
    <2>1. Putting(t, o) \in SUBSET (1..n)  BY <1>2 DEF Putting
    <2>2. Max(Putting(t, o)) \in 1..n  BY <1>2, <1>6, <2>1, MaxFacts
    <2>. QED  BY <1>2, <1>6, <2>2
  <1>7. ASSUME ~is_inserted_into_book(s) PROVE m = OrderMap(t)
    <2>1. DOMAIN m = DOMAIN OrderMap(t)  BY <1>1, <1>5, <1>7, OrderMapAt
    <2>2. \A o \in DOMAIN m : m[o] = OrderMap(t)[o]
      BY <1>1, <1>5, <1>6, <1>7, <2>1, OrderMapAt, ZenonT(60)
    <2>3. m = [o \in DOMAIN m |-> m[o]] /\ OrderMap(t) = [o \in DOMAIN OrderMap(t) |-> OrderMap(t)[o]]
      BY DEF OrderMap
    <2>. QED  BY <2>1, <2>2, <2>3
  <1>8. ASSUME is_inserted_into_book(s) PROVE s.order.oid \in DOMAIN m /\ m[s.order.oid] = s
    <2>1. PICK P : P = Putting(u, s.order.oid)  OBVIOUS
    <2>2. n + 1 \in P /\ P \in SUBSET (1..(n + 1))  BY <1>2, <1>3, <1>8, <2>1 DEF Putting
    <2>3. PICK x, k : x = Max(P) /\ k = n + 1  OBVIOUS
    <2>4. k \in Nat /\ P \in SUBSET (1..k) /\ P # {} /\ k \in P  BY <1>2, <2>2, <2>3
    <2>5. x \in P /\ x >= k  BY <2>3, <2>4, MaxFacts
    <2>6. x \in 1..k  BY <2>4, <2>5
    <2>7. x = k  BY <2>4, <2>5, <2>6
    <2>8. s.order.oid \in DOMAIN OrderMap(u) /\ OrderMap(u)[s.order.oid] = u[x]
      BY <2>1, <2>3, <2>4, OrderMapAt
    <2>. QED  BY <1>1, <1>2, <2>3, <2>7, <2>8
  <1>9. ASSUME NEW o \in DOMAIN OrderMap(t), o # s.order.oid
        PROVE  o \in DOMAIN m /\ m[o] = OrderMap(t)[o]
    <2>1. Putting(t, o) # {} /\ OrderMap(t)[o] = t[Max(Putting(t, o))]  BY <1>9, OrderMapAt
    <2>2. Putting(u, o) = Putting(t, o)  BY <1>5, <1>9
    <2>3. o \in DOMAIN OrderMap(u)  BY <2>1, <2>2, OrderMapAt
    <2>4. OrderMap(u)[o] = u[Max(Putting(u, o))]  BY <2>3, OrderMapAt
    <2>5. u[Max(Putting(u, o))] = t[Max(Putting(t, o))]  BY <1>6, <2>1, <2>2
    <2>. QED  BY <1>1, <2>1, <2>3, <2>4, <2>5
  <1>. QED  BY <1>7, <1>8, <1>9

\* The order a New diff rests is the one of its status.
LEMMA RestsFacts ==
    ASSUME NEW st \in Statuses, NEW d \in Diffs
    PROVE  /\ Rests(st, d) \in Orders /\ Rests(st, d).coin = st.order.coin
           /\ Rests(st, d).oid = st.order.oid
  <1>1. PICK o : o = [st.order EXCEPT !.px = d.px, !.sz = d.sz]  OBVIOUS
  <1>2. st.order \in FullOrders /\ d.px \in Pxs /\ d.sz \in Szs /\ st.time \in Nat  BY DEF Statuses, Diffs
  <1>3. o \in FullOrders /\ o.coin = st.order.coin /\ o.oid = st.order.oid  BY <1>1, <1>2 DEF FullOrders
  <1>4. Rests(st, d) = convert_trigger(o, st.time)  BY <1>1 DEF Rests
  <1>5. [o EXCEPT !.is_trigger = FALSE, !.timestamp = st.time] \in FullOrders  BY <1>2, <1>3 DEF FullOrders
  <1>6. /\ convert_trigger(o, st.time) \in FullOrders
        /\ convert_trigger(o, st.time).coin = o.coin /\ convert_trigger(o, st.time).oid = o.oid
    BY <1>3, <1>5 DEF convert_trigger, FullOrders
  <1>7. FullOrders \subseteq Orders  BY DEF FullOrders, Orders
  <1>. QED  BY <1>3, <1>4, <1>6, <1>7

\* Shorter by one element, and longer.
LEMMA RemovedOne ==
    ASSUME NEW S, NEW q \in Seq(S), NEW i \in DOMAIN q
    PROVE  /\ RemoveAt(q, i) \in Seq(S) /\ Len(RemoveAt(q, i)) = Len(q) - 1
           /\ \A j \in 1..(Len(q) - 1) : RemoveAt(q, i)[j] = IF j < i THEN q[j] ELSE q[j + 1]
  <1>1. i \in 1..Len(q) /\ Len(q) \in Nat  OBVIOUS
  <1>2. PICK n, r : n = Len(q) /\ r = RemoveAt(q, i)  OBVIOUS
  <1>3. PICK a, b : a = SubSeq(q, 1, i - 1) /\ b = SubSeq(q, i + 1, n)  OBVIOUS
  <1>4. r = a \o b  BY <1>1, <1>2, <1>3 DEF RemoveAt
  <1>5. /\ a \in Seq(S) /\ Len(a) = i - 1 /\ \A j \in 1..(i - 1) : a[j] = q[j]
    BY <1>1, <1>2, <1>3
  <1>6. /\ b \in Seq(S) /\ Len(b) = n - i /\ \A j \in 1..(n - i) : b[j] = q[j + i]
    BY <1>1, <1>2, <1>3
  <1>7. r \in Seq(S) /\ Len(r) = Len(a) + Len(b)
        /\ \A j \in 1..(Len(a) + Len(b)) : r[j] = IF j =< Len(a) THEN a[j] ELSE b[j - Len(a)]
    BY <1>4, <1>5, <1>6, ConcatProperties
  <1>8. /\ Len(r) = (i - 1) + (n - i)
        /\ \A j \in 1..((i - 1) + (n - i)) : r[j] = IF j =< i - 1 THEN a[j] ELSE b[j - (i - 1)]
    BY <1>5, <1>6, <1>7
  <1>9. n \in Nat /\ i \in 1..n /\ (i - 1) + (n - i) = n - 1  BY <1>1, <1>2
  <1>10. ASSUME NEW j \in 1..(n - 1) PROVE r[j] = IF j < i THEN q[j] ELSE q[j + 1]
    <2>1. CASE j < i
      <3>1. j =< i - 1 /\ j \in 1..(i - 1)  BY <1>9, <2>1
      <3>. QED  BY <1>5, <1>8, <1>9, <2>1, <3>1
    <2>2. CASE ~(j < i)
      <3>1. ~(j =< i - 1) /\ j - (i - 1) \in 1..(n - i) /\ (j - (i - 1)) + i = j + 1  BY <1>9, <2>2
      <3>. QED  BY <1>6, <1>8, <1>9, <2>2, <3>1
    <2>. QED  BY <2>1, <2>2
  <1>. QED  BY <1>2, <1>7, <1>8, <1>9, <1>10

-----------------------------------------------------------------------------
(* Snapshots under the changes of the node *)

WithOne(S, q, i, e, r) ==
    /\ r \in Seq(S) /\ DOMAIN r = 1..(Len(q) + 1) /\ Len(q) \in Nat
    /\ \A j \in 1..(Len(q) + 1) : r[j] = IF j < i THEN q[j] ELSE IF j = i THEN e ELSE q[j - 1]

\* A sequence with one more element.
LEMMA InsertedOne ==
    ASSUME NEW S, NEW q \in Seq(S), NEW i \in 1..(Len(q) + 1), NEW e \in S, NEW r, r = InsertAt(q, i, e)
    PROVE  WithOne(S, q, i, e, r)
  <1>1. PICK a, b \in Seq(S) : SlotAt(S, q, i, a, b)  BY Slot
  <1>2. PICK n : n = Len(q)  OBVIOUS
  <1>3. n \in Nat /\ i \in 1..(n + 1)  BY <1>2
  <1>4. /\ r = Splice(a, e, b) /\ Len(a) = i - 1 /\ Len(b) = n - i + 1
        /\ \A j \in 1..(i - 1) : a[j] = q[j]
        /\ \A j \in 1..(n - i + 1) : b[j] = q[j + (i - 1)]
    BY <1>1, <1>2 DEF SlotAt
  <1>5. Spliced1(S, a, e, b, r)  BY <1>4, SpliceFacts
  <1>6. /\ r \in Seq(S) /\ Len(r) = (i - 1) + 1 + (n - i + 1)
        /\ \A j \in 1..((i - 1) + 1 + (n - i + 1)) :
              r[j] = IF j =< i - 1 THEN a[j] ELSE IF j = (i - 1) + 1 THEN e ELSE b[j - ((i - 1) + 1)]
    BY <1>4, <1>5 DEF Spliced1
  <1>7. (i - 1) + 1 + (n - i + 1) = n + 1 /\ (i - 1) + 1 = i  BY <1>3
  <1>8. ASSUME NEW j \in 1..(n + 1) PROVE r[j] = IF j < i THEN q[j] ELSE IF j = i THEN e ELSE q[j - 1]
    <2>1. CASE j < i
      <3>1. j =< i - 1 /\ j \in 1..(i - 1)  BY <1>3, <2>1
      <3>. QED  BY <1>4, <1>6, <1>7, <2>1, <3>1
    <2>2. CASE j = i
      <3>1. ~(j =< i - 1) /\ ~(j < i)  BY <1>3, <2>2
      <3>. QED  BY <1>6, <1>7, <2>2, <3>1
    <2>3. CASE j > i
      <3>1. ~(j =< i - 1) /\ j # i /\ ~(j < i)  BY <1>3, <2>3
      <3>2. j - i \in 1..(n - i + 1) /\ (j - i) + (i - 1) = j - 1  BY <1>3, <2>3
      <3>. QED  BY <1>4, <1>6, <1>7, <3>1, <3>2
    <2>4. j < i \/ j = i \/ j > i  BY <1>3
    <2>. QED  BY <2>1, <2>2, <2>3, <2>4
  <1>9. DOMAIN r = 1..(n + 1)  BY <1>6, <1>7
  <1>. QED  BY <1>2, <1>3, <1>6, <1>8, <1>9 DEF WithOne

\* The fields of a resting order.
LEMMA RestingTypes ==
    \A c, s : \A e \in RestingOrders(c, s) : e.px \in Pxs /\ e.px \in Int /\ e.oid \in Oids
  BY DEF RestingOrders, Pxs

\* The orders of r can replace those on a side.
SideFits(x, s, r) ==
    /\ \A i, j \in DOMAIN r : i < j => Crosses(Other(s), r[i].px, r[j].px)
    /\ \A i \in DOMAIN r, j \in DOMAIN x[Other(s)] : ~Crosses(s, x[Other(s)][j].px, r[i].px)
    /\ \A i, j \in DOMAIN r : r[i].oid = r[j].oid => i = j
    /\ \A i \in DOMAIN r, j \in DOMAIN x[Other(s)] : r[i].oid # x[Other(s)][j].oid

\* One side of a snapshot is replaced.
LEMMA SideReplaced ==
    ASSUME NEW c \in Coins, NEW x, IsSnapshot(x, c), NEW s \in Sides, NEW r \in Seq(RestingOrders(c, s)),
           SideFits(x, s, r), NEW y, y = [x EXCEPT ![s] = r]
    PROVE  IsSnapshot(y, c)
  <1>1. /\ x = [t \in Sides |-> x[t]]
        /\ \A t \in Sides : x[t] \in Seq(RestingOrders(c, t))
        /\ \A t \in Sides : \A i, j \in DOMAIN x[t] : i < j => Crosses(Other(t), x[t][i].px, x[t][j].px)
        /\ \A i \in DOMAIN x["Bid"], j \in DOMAIN x["Ask"] : x["Bid"][i].px < x["Ask"][j].px
        /\ \A u, t \in Sides : \A i \in DOMAIN x[u], j \in DOMAIN x[t] :
              x[u][i].oid = x[t][j].oid => u = t /\ i = j
    BY DEF IsSnapshot
  <1>2. PICK o : o = Other(s)  OBVIOUS
  <1>3. o \in Sides /\ o # s /\ \A t \in Sides : t = s \/ t = o  BY <1>2 DEF Other, Sides
  <1>4. DOMAIN x = Sides  BY <1>1
  <1>10. y[s] = r /\ y[o] = x[o] /\ DOMAIN y = Sides  BY <1>3, <1>4
  <1>11. y = [t \in Sides |-> y[t]]  BY <1>4
  <1>5. y[s] = r /\ y[o] = x[o] /\ y = [t \in Sides |-> y[t]]  BY <1>10, <1>11
  <1>12. /\ \A i, j \in DOMAIN r : i < j => Crosses(Other(s), r[i].px, r[j].px)
         /\ \A i \in DOMAIN r, j \in DOMAIN x[o] : ~Crosses(s, x[o][j].px, r[i].px)
         /\ \A i, j \in DOMAIN r : r[i].oid = r[j].oid => i = j
         /\ \A i \in DOMAIN r, j \in DOMAIN x[o] : r[i].oid # x[o][j].oid
    BY <1>2 DEF SideFits
  <1>6. \A t \in Sides : y[t] \in Seq(RestingOrders(c, t))  BY <1>1, <1>3, <1>5
  <1>7. \A t \in Sides : \A i, j \in DOMAIN y[t] : i < j => Crosses(Other(t), y[t][i].px, y[t][j].px)
    BY <1>1, <1>3, <1>5, <1>12
  <1>8. \A i \in DOMAIN y["Bid"], j \in DOMAIN y["Ask"] : y["Bid"][i].px < y["Ask"][j].px
    <2>1. \A i \in DOMAIN r : r[i].px \in Int
      <3>1. \A i \in DOMAIN r : r[i] \in RestingOrders(c, s)  OBVIOUS
      <3>. QED  BY <3>1, RestingTypes
    <2>2. \A i \in DOMAIN x[o] : x[o][i].px \in Int
      <3>1. x[o] \in Seq(RestingOrders(c, o))  BY <1>1, <1>3
      <3>2. \A i \in DOMAIN x[o] : x[o][i] \in RestingOrders(c, o)  BY <3>1
      <3>. QED  BY <3>2, RestingTypes
    <2>3. CASE s = "Bid"
      <3>1. o = "Ask"  BY <1>2, <2>3 DEF Other
      <3>2. \A i \in DOMAIN r, j \in DOMAIN x[o] : ~(x[o][j].px =< r[i].px)
        BY <1>12, <2>3 DEF Crosses
      <3>. QED  BY <1>5, <2>1, <2>2, <2>3, <3>1, <3>2
    <2>4. CASE s = "Ask"
      <3>1. o = "Bid"  BY <1>2, <2>4 DEF Other
      <3>2. \A i \in DOMAIN r, j \in DOMAIN x[o] : ~(x[o][j].px >= r[i].px)
        BY <1>12, <2>4 DEF Crosses
      <3>. QED  BY <1>5, <2>1, <2>2, <2>4, <3>1, <3>2
    <2>. QED  BY <2>3, <2>4 DEF Sides
  <1>9. \A u, t \in Sides : \A i \in DOMAIN y[u], j \in DOMAIN y[t] :
              y[u][i].oid = y[t][j].oid => u = t /\ i = j
    <2>1. ASSUME NEW u \in Sides, NEW t \in Sides, NEW i \in DOMAIN y[u], NEW j \in DOMAIN y[t],
                 y[u][i].oid = y[t][j].oid
          PROVE  u = t /\ i = j
      <3>1. CASE u = s /\ t = s  BY <1>5, <1>12, <2>1, <3>1
      <3>2. CASE u = s /\ t = o  BY <1>5, <1>12, <2>1, <3>2
      <3>3. CASE u = o /\ t = s  BY <1>5, <1>12, <2>1, <3>3
      <3>4. CASE u = o /\ t = o  BY <1>1, <1>3, <1>5, <2>1, <3>4
      <3>. QED  BY <1>3, <3>1, <3>2, <3>3, <3>4
    <2>. QED  BY <2>1
  <1>. QED  BY <1>5, <1>6, <1>7, <1>8, <1>9 DEF IsSnapshot

\* What holds of the places of a snapshot.
LEMMA SnapshotPlaces ==
    ASSUME NEW c \in Coins, NEW x, IsSnapshot(x, c), NEW s \in Sides
    PROVE  /\ x[s] \in Seq(RestingOrders(c, s)) /\ x[Other(s)] \in Seq(RestingOrders(c, Other(s)))
           /\ \A i, j \in DOMAIN x[s] : i < j => Crosses(Other(s), x[s][i].px, x[s][j].px)
           /\ \A i \in DOMAIN x[s], j \in DOMAIN x[Other(s)] : ~Crosses(s, x[Other(s)][j].px, x[s][i].px)
           /\ \A i, j \in DOMAIN x[s] : x[s][i].oid = x[s][j].oid => i = j
           /\ \A i \in DOMAIN x[s], j \in DOMAIN x[Other(s)] : x[s][i].oid # x[Other(s)][j].oid
           /\ \A i \in DOMAIN x[s] : x[s][i] \in RestingOrders(c, s) /\ x[s][i].px \in Int
           /\ \A i \in DOMAIN x[Other(s)] : x[Other(s)][i].px \in Int
  <1>1. Other(s) \in Sides /\ Other(s) # s  BY OtherSide
  <1>2. \A t \in Sides : x[t] \in Seq(RestingOrders(c, t))  BY DEF IsSnapshot
  <1>3. ASSUME NEW t \in Sides, NEW i \in DOMAIN x[t]
        PROVE  x[t][i] \in RestingOrders(c, t) /\ x[t][i].px \in Int
    <2>1. \A j \in DOMAIN x[t] : x[t][j] \in RestingOrders(c, t)  BY <1>2
    <2>. QED  BY <2>1, RestingTypes
  <1>4. \A i \in DOMAIN x["Bid"], j \in DOMAIN x["Ask"] : x["Bid"][i].px < x["Ask"][j].px
    BY DEF IsSnapshot
  <1>5. \A i \in DOMAIN x[s], j \in DOMAIN x[Other(s)] : ~Crosses(s, x[Other(s)][j].px, x[s][i].px)
    <2>1. CASE s = "Bid"
      <3>1. Other(s) = "Ask"  BY <2>1 DEF Other
      <3>. QED  BY <1>3, <1>4, <2>1, <3>1 DEF Crosses, Sides
    <2>2. CASE s = "Ask"
      <3>1. Other(s) = "Bid"  BY <2>2 DEF Other
      <3>. QED  BY <1>3, <1>4, <2>2, <3>1 DEF Crosses, Sides
    <2>. QED  BY <2>1, <2>2 DEF Sides
  <1>. QED  BY <1>1, <1>2, <1>3, <1>5 DEF IsSnapshot

\* An order comes to rest.
LEMMA SnapshotInserted ==
    ASSUME NEW c \in Coins, NEW x, IsSnapshot(x, c), NEW s \in Sides, NEW e \in RestingOrders(c, s),
           NEW i \in 1..(Len(x[s]) + 1),
           \A j \in DOMAIN x[s] :
              x[s][j].px # e.px => (j < i <=> Crosses(Other(s), x[s][j].px, e.px)),
           \A j \in DOMAIN x[Other(s)] : ~Crosses(s, x[Other(s)][j].px, e.px),
           \A t \in Sides : \A j \in DOMAIN x[t] : x[t][j].oid # e.oid,
           NEW y, y = [x EXCEPT ![s] = InsertAt(x[s], i, e)]
    PROVE  IsSnapshot(y, c)
  <1>1. PICK q, o, r : q = x[s] /\ o = x[Other(s)] /\ r = InsertAt(q, i, e)  OBVIOUS
  <1>2. PICK n : n = Len(q)  OBVIOUS
  <1>3. /\ q \in Seq(RestingOrders(c, s)) /\ i \in 1..(n + 1) /\ Other(s) \in Sides
        /\ \A j, k \in DOMAIN q : j < k => Crosses(Other(s), q[j].px, q[k].px)
        /\ \A j \in DOMAIN q, k \in DOMAIN o : ~Crosses(s, o[k].px, q[j].px)
        /\ \A j, k \in DOMAIN q : q[j].oid = q[k].oid => j = k
        /\ \A j \in DOMAIN q, k \in DOMAIN o : q[j].oid # o[k].oid
        /\ \A j \in DOMAIN q : q[j].px \in Int
    BY <1>1, <1>2, SnapshotPlaces, OtherSide
  <1>4. e.px \in Int  BY RestingTypes
  <1>5. DOMAIN q = 1..n /\ n \in Nat  BY <1>2, <1>3
  <1>6. /\ r \in Seq(RestingOrders(c, s)) /\ DOMAIN r = 1..(n + 1)
        /\ \A j \in 1..(n + 1) : r[j] = IF j < i THEN q[j] ELSE IF j = i THEN e ELSE q[j - 1]
    <2>1. i \in 1..(Len(q) + 1)  BY <1>2, <1>3
    <2>2. PICK S : S = RestingOrders(c, s)  OBVIOUS
    <2>3. q \in Seq(S) /\ e \in S  BY <1>3, <2>2
    <2>4. /\ r \in Seq(S) /\ DOMAIN r = 1..(Len(q) + 1)
          /\ \A j \in 1..(Len(q) + 1) : r[j] = IF j < i THEN q[j] ELSE IF j = i THEN e ELSE q[j - 1]
      <3>1. r = InsertAt(q, i, e)  BY <1>1
      <3>2. WithOne(S, q, i, e, r)  BY <2>1, <2>3, <3>1, InsertedOne
      <3>. QED  BY <3>2 DEF WithOne
    <2>. QED  BY <1>2, <2>2, <2>4
  <1>7. ASSUME NEW j \in DOMAIN r
        PROVE  \/ j < i /\ j \in DOMAIN q /\ r[j] = q[j]
               \/ j = i /\ r[j] = e
               \/ j > i /\ j - 1 \in DOMAIN q /\ r[j] = q[j - 1]
    BY <1>3, <1>5, <1>6
  <1>8. /\ \A j \in DOMAIN q : j < i => Crosses(Other(s), q[j].px, e.px)
        /\ \A j \in DOMAIN q : ~(j < i) => Crosses(Other(s), e.px, q[j].px)
    BY <1>1, <1>3, <1>4, <1>5 DEF Crosses
  <1>9. ASSUME NEW j \in DOMAIN r, NEW k \in DOMAIN r, j < k PROVE Crosses(Other(s), r[j].px, r[k].px)
    <2>0. j \in Int /\ k \in Int /\ i \in Int  BY <1>3, <1>6
    <2>1. CASE j < i /\ k < i  BY <1>3, <1>7, <1>9, <2>0, <2>1
    <2>2. CASE j < i /\ k = i  BY <1>7, <1>8, <2>0, <2>2
    <2>3. CASE j < i /\ k > i
      <3>1. j < k - 1  BY <2>0, <2>3
      <3>. QED  BY <1>3, <1>7, <2>0, <2>3, <3>1
    <2>4. CASE j = i /\ k > i
      <3>1. ~(k - 1 < i)  BY <2>0, <2>4
      <3>. QED  BY <1>7, <1>8, <2>0, <2>4, <3>1
    <2>5. CASE j > i /\ k > i
      <3>1. j - 1 < k - 1  BY <1>9, <2>0
      <3>. QED  BY <1>3, <1>7, <2>0, <2>5, <3>1
    <2>. QED  BY <1>9, <2>0, <2>1, <2>2, <2>3, <2>4, <2>5
  <1>10. \A j \in DOMAIN r, k \in DOMAIN o : ~Crosses(s, o[k].px, r[j].px)
    BY <1>1, <1>3, <1>7
  <1>11. \A j \in DOMAIN q : q[j].oid # e.oid  BY <1>1
  <1>12. ASSUME NEW j \in DOMAIN r, NEW k \in DOMAIN r, r[j].oid = r[k].oid PROVE j = k
    <2>0. j \in Int /\ k \in Int /\ i \in Int  BY <1>3, <1>6
    <2>1. CASE j < i
      <3>1. j \in DOMAIN q /\ r[j] = q[j]  BY <1>7, <2>0, <2>1
      <3>2. CASE k < i  BY <1>3, <1>7, <1>12, <2>0, <3>1, <3>2
      <3>3. CASE k = i  BY <1>7, <1>11, <1>12, <2>0, <3>1, <3>3
      <3>4. CASE k > i
        <4>1. k - 1 \in DOMAIN q /\ r[k] = q[k - 1]  BY <1>7, <2>0, <3>4
        <4>2. j = k - 1  BY <1>3, <1>12, <3>1, <4>1
        <4>. QED  BY <2>0, <2>1, <3>4, <4>2
      <3>. QED  BY <2>0, <3>2, <3>3, <3>4
    <2>2. CASE j = i
      <3>1. r[j] = e  BY <1>7, <2>0, <2>2
      <3>. QED  BY <1>7, <1>11, <1>12, <2>2, <3>1
    <2>3. CASE j > i
      <3>1. j - 1 \in DOMAIN q /\ r[j] = q[j - 1]  BY <1>7, <2>0, <2>3
      <3>2. CASE k > i
        <4>1. k - 1 \in DOMAIN q /\ r[k] = q[k - 1]  BY <1>7, <2>0, <3>2
        <4>2. j - 1 = k - 1  BY <1>3, <1>12, <3>1, <4>1
        <4>. QED  BY <2>0, <4>2
      <3>3. CASE k = i  BY <1>7, <1>11, <1>12, <2>0, <3>1, <3>3
      <3>4. CASE k < i
        <4>1. k \in DOMAIN q /\ r[k] = q[k]  BY <1>7, <2>0, <3>4
        <4>2. k = j - 1  BY <1>3, <1>12, <3>1, <4>1
        <4>. QED  BY <2>0, <2>3, <3>4, <4>2
      <3>. QED  BY <2>0, <3>2, <3>3, <3>4
    <2>. QED  BY <2>0, <2>1, <2>2, <2>3
  <1>13. \A j \in DOMAIN r, k \in DOMAIN o : r[j].oid # o[k].oid  BY <1>1, <1>3, <1>7
  <1>14. SideFits(x, s, r)  BY <1>1, <1>9, <1>10, <1>12, <1>13 DEF SideFits
  <1>. QED  BY <1>1, <1>6, <1>14, SideReplaced

\* The orders of r are those of q at increasing places, in another size perhaps.
ThinnedBy(q, r, at) ==
    /\ at \in [DOMAIN r -> DOMAIN q] /\ \A i, j \in DOMAIN r : i < j => at[i] < at[j]
    /\ \A i \in DOMAIN r : r[i].px = q[at[i]].px /\ r[i].oid = q[at[i]].oid

\* Orders leave, or change size.
LEMMA SnapshotThinned ==
    ASSUME NEW c \in Coins, NEW x, IsSnapshot(x, c), NEW s \in Sides, NEW r \in Seq(RestingOrders(c, s)),
           NEW at, ThinnedBy(x[s], r, at), NEW y, y = [x EXCEPT ![s] = r]
    PROVE  IsSnapshot(y, c)
  <1>1. PICK q, o : q = x[s] /\ o = x[Other(s)]  OBVIOUS
  <1>2. /\ q \in Seq(RestingOrders(c, s))
        /\ \A j, k \in DOMAIN q : j < k => Crosses(Other(s), q[j].px, q[k].px)
        /\ \A j \in DOMAIN q, k \in DOMAIN o : ~Crosses(s, o[k].px, q[j].px)
        /\ \A j, k \in DOMAIN q : q[j].oid = q[k].oid => j = k
        /\ \A j \in DOMAIN q, k \in DOMAIN o : q[j].oid # o[k].oid
    BY <1>1, SnapshotPlaces
  <1>3. /\ \A i \in DOMAIN r : at[i] \in DOMAIN q /\ r[i].px = q[at[i]].px /\ r[i].oid = q[at[i]].oid
        /\ \A i, j \in DOMAIN r : i < j => at[i] < at[j]
    BY <1>1 DEF ThinnedBy
  <1>4. DOMAIN r \in SUBSET Int /\ DOMAIN q \in SUBSET Int  BY <1>2
  <1>5. ASSUME NEW i \in DOMAIN r, NEW j \in DOMAIN r, i < j PROVE Crosses(Other(s), r[i].px, r[j].px)
    <2>1. at[i] < at[j] /\ at[i] \in DOMAIN q /\ at[j] \in DOMAIN q  BY <1>3, <1>5
    <2>2. Crosses(Other(s), q[at[i]].px, q[at[j]].px)  BY <1>2, <2>1
    <2>. QED  BY <1>3, <2>2
  <1>6. \A i \in DOMAIN r, j \in DOMAIN o : ~Crosses(s, o[j].px, r[i].px)  BY <1>2, <1>3
  <1>7. ASSUME NEW i \in DOMAIN r, NEW j \in DOMAIN r, r[i].oid = r[j].oid PROVE i = j
    <2>1. at[i] = at[j]  BY <1>2, <1>3, <1>7
    <2>2. i \in Int /\ j \in Int /\ at[i] \in Int /\ at[j] \in Int  BY <1>3, <1>4
    <2>3. ~(i < j) /\ ~(j < i)  BY <1>3, <2>1, <2>2
    <2>. QED  BY <2>2, <2>3
  <1>8. \A i \in DOMAIN r, j \in DOMAIN o : r[i].oid # o[j].oid  BY <1>2, <1>3
  <1>9. SideFits(x, s, r)  BY <1>1, <1>5, <1>6, <1>7, <1>8 DEF SideFits
  <1>. QED  BY <1>9, SideReplaced

\* A snapshot that an order leaves is a snapshot.
LEMMA SnapshotRemoved ==
    ASSUME NEW c \in Coins, NEW x, IsSnapshot(x, c), NEW s \in Sides, NEW i \in DOMAIN x[s],
           NEW y, y = [x EXCEPT ![s] = RemoveAt(x[s], i)]
    PROVE  IsSnapshot(y, c)
  <1>1. PICK q, r, n : q = x[s] /\ r = RemoveAt(q, i) /\ n = Len(q)  OBVIOUS
  <1>2. q \in Seq(RestingOrders(c, s))  BY <1>1, SnapshotPlaces
  <1>3. /\ r \in Seq(RestingOrders(c, s)) /\ Len(r) = n - 1
        /\ \A j \in 1..(n - 1) : r[j] = IF j < i THEN q[j] ELSE q[j + 1]
    BY <1>1, <1>2, RemovedOne
  <1>4. n \in Nat /\ DOMAIN q = 1..n /\ i \in 1..n /\ DOMAIN r = 1..(n - 1)  BY <1>1, <1>2, <1>3
  <1>5. PICK at : at = [j \in 1..(n - 1) |-> IF j < i THEN j ELSE j + 1]  OBVIOUS
  <1>6. at \in [1..(n - 1) -> 1..n] /\ \A j, k \in 1..(n - 1) : j < k => at[j] < at[k]
    BY <1>4, <1>5
  <1>7. \A j \in 1..(n - 1) : r[j] = q[at[j]]  BY <1>3, <1>5
  <1>8. \A j \in 1..(n - 1) : at[j] \in 1..n  BY <1>6
  <1>9. ThinnedBy(q, r, at)  BY <1>4, <1>6, <1>7 DEF ThinnedBy
  <1>. QED  BY <1>1, <1>3, <1>9, SnapshotThinned

\* A snapshot with one order of another size is a snapshot.
LEMMA SnapshotResized ==
    ASSUME NEW c \in Coins, NEW x, IsSnapshot(x, c), NEW s \in Sides, NEW i \in DOMAIN x[s],
           NEW z \in Szs \ {0}, NEW y, y = [x EXCEPT ![s] = [x[s] EXCEPT ![i] = [x[s][i] EXCEPT !.sz = z]]]
    PROVE  IsSnapshot(y, c)
  <1>1. PICK q, e : q = x[s] /\ e = [q[i] EXCEPT !.sz = z]  OBVIOUS
  <1>2. q \in Seq(RestingOrders(c, s)) /\ i \in DOMAIN q /\ q[i] \in RestingOrders(c, s)
    BY <1>1, SnapshotPlaces
  <1>3. e \in RestingOrders(c, s) /\ e.px = q[i].px /\ e.oid = q[i].oid  BY <1>1, <1>2 DEF RestingOrders
  <1>4. PICK r : r = [q EXCEPT ![i] = e]  OBVIOUS
  <1>5. r \in Seq(RestingOrders(c, s)) /\ DOMAIN r = DOMAIN q  BY <1>2, <1>3, <1>4
  <1>6. r[i] = e /\ \A j \in DOMAIN q : j # i => r[j] = q[j]  BY <1>2, <1>4
  <1>7. \A j \in DOMAIN q : r[j].px = q[j].px /\ r[j].oid = q[j].oid  BY <1>3, <1>6
  <1>8. PICK at : at = [j \in DOMAIN q |-> j]  OBVIOUS
  <1>9. at \in [DOMAIN q -> DOMAIN q] /\ \A j \in DOMAIN q : at[j] = j  BY <1>8
  <1>10. y = [x EXCEPT ![s] = r]  BY <1>1, <1>4
  <1>11. ThinnedBy(q, r, at)  BY <1>5, <1>7, <1>9 DEF ThinnedBy
  <1>. QED  BY <1>1, <1>5, <1>10, <1>11, SnapshotThinned

=============================================================================
