-------------------------- MODULE Ingestion_proofs --------------------------
(***************************************************************************)
(* Proofs about Ingestion for every set of sources, every number of hours, *)
(* blocks, turn budget and queue limit, and any number of faults.          *)
(***************************************************************************)
EXTENDS Ingestion, SequenceTheorems, FiniteSetTheorems, WellFoundedInduction, TLAPS

\* What is on disk: the first hour of every source, and files of this program.
DiskOK(d) ==
    /\ DOMAIN d \subseteq Files
    /\ \A s \in Sources : <<s, 1>> \in DOMAIN d
    /\ \A f \in DOMAIN d : d[f] \in [len : Nat, start : Nat, gone : BOOLEAN]

\* The queue of paths and the map of created flags have the same files of D,
\* each once, at most DirtyLimit of them.
PathsOK(p, c, D) ==
    /\ p \in Seq(D)
    /\ DOMAIN c = {p[i] : i \in 1..Len(p)}
    /\ \A i, j \in 1..Len(p) : p[i] = p[j] => i = j
    /\ Len(p) =< DirtyLimit

\* DirtyFiles while w is the permit of the Notify: an overflow or a path has
\* somebody woken, or a path will be seen by who asks for the next one.
DirtyOK(q, D, w) ==
    /\ PathsOK(q.paths, q.created, D)
    /\ q = [paths |-> q.paths, created |-> q.created, overflow |-> q.overflow]
    /\ q.overflow => w \/ q.paths # <<>>

\* A cursor is in a file, no further than its end, and there are at most
\* DirtyLimit of them.
CursorsIn(c, d) ==
    /\ DOMAIN c \subseteq DOMAIN d
    /\ \A f \in DOMAIN c : /\ c[f] \in [offset : Nat, from : Nat]
                           /\ c[f].from =< c[f].offset /\ c[f].offset =< d[f].len

FewCursors(c) == IsFiniteSet(DOMAIN c) /\ Cardinality(DOMAIN c) =< DirtyLimit

\* A log of blocks in increasing order, none of them later than m.
Ordered(log, m) ==
    /\ \A i \in 1..Len(log) : log[i] =< m
    /\ \A i, j \in 1..Len(log) : i < j => log[i] < log[j]

\* The fills were published in order, up to the last one.
TakenOK(l, t) ==
    /\ l \in [Sources -> Nat] /\ t \in [Sources -> Seq(Nat)]
    /\ "Fills" \in Sources => Ordered(t["Fills"], l["Fills"])

\* Work that is known has a wake-up pending: the Notify's permit is never lost.
WakePending == paths # <<>> \/ overflow => wake

\* The limits of DirtyFiles and of the cursors.
WithinDirtyLimit == Len(paths) =< DirtyLimit /\ Cardinality(DOMAIN cursors) =< DirtyLimit

IInv ==
    /\ DiskOK(disk)
    /\ PathsOK(paths, created, DOMAIN disk)
    /\ WakePending
    /\ CursorsIn(cursors, disk) /\ FewCursors(cursors)
    /\ TakenOK(last, taken)

\* A fill is published at most once and never after a later one, over the whole
\* life of the server: fences, reopened files and hours read again included.
FillsInOrder ==
    "Fills" \in Sources =>
        \A i, j \in DOMAIN taken["Fills"] : i < j => taken["Fills"][i] < taken["Fills"][j]

-----------------------------------------------------------------------------
(* Induction, from the well-foundedness of the natural numbers *)

\* Every set of natural numbers that is not empty has a least element.
LEMMA LeastExists ==
    ASSUME NEW T \in SUBSET Nat, T # {}
    PROVE  \E n \in T : \A m \in T : n =< m
  <1>1. PICK R : R = OpToRel(<, Nat)  OBVIOUS
  <1>2. IsWellFoundedOn(R, Nat)  BY <1>1, NatLessThanWellFounded
  <1>3. PICK x \in T : \A y \in T : ~(<<y, x>> \in R)  BY <1>2, WFMin
  <1>4. R = {p \in Nat \X Nat : p[1] < p[2]}  BY <1>1 DEF OpToRel
  <1>5. ASSUME NEW y \in T PROVE x =< y
    <2>1. PICK p : p = <<y, x>>  OBVIOUS
    <2>2. p \in Nat \X Nat /\ p[1] = y /\ p[2] = x  BY <2>1
    <2>3. ~(p[1] < p[2])  BY <1>3, <1>4, <1>5, <2>1, <2>2
    <2>. QED  BY <2>2, <2>3
  <1>. QED  BY <1>5

\* A set of natural numbers with 0 and all successors is the whole of them.
LEMMA AllNaturals ==
    ASSUME NEW S \in SUBSET Nat, 0 \in S, \A n \in S : n + 1 \in S
    PROVE  \A n \in Nat : n \in S
  <1>. SUFFICES ASSUME Nat \ S # {} PROVE FALSE  OBVIOUS
  <1>1. PICK n \in Nat \ S : \A m \in Nat \ S : n =< m  BY LeastExists
  <1>2. n - 1 \in Nat  BY <1>1
  <1>3. n - 1 \in S  BY <1>1, <1>2
  <1>. QED  BY <1>1, <1>2, <1>3

\* A set of numbers up to n that is not empty has a greatest element.
LEMMA MaxFacts ==
    ASSUME NEW n \in Nat, NEW s \in SUBSET (0..n), s # {}
    PROVE  Max(s) \in s /\ \A y \in s : Max(s) >= y
  <1>1. PICK T : T = {n - y : y \in s}  OBVIOUS
  <1>2. T \in SUBSET Nat /\ T # {}
    <2>1. \A y \in s : y \in 0..n /\ n - y \in Nat  OBVIOUS
    <2>. QED  BY <1>1, <2>1
  <1>3. PICK m \in T : \A x \in T : m =< x  BY <1>2, LeastExists
  <1>4. PICK z \in s : m = n - z  BY <1>1, <1>3
  <1>5. ASSUME NEW y \in s PROVE z >= y
    <2>1. n - y \in T  BY <1>1
    <2>. QED  BY <1>3, <1>4, <2>1
  <1>. QED  BY <1>4, <1>5 DEF Max

\* The lesser of two numbers.
LEMMA MinOfTwo ==
    ASSUME NEW a \in Nat, NEW b \in Nat
    PROVE  Min({a, b}) \in {a, b} /\ Min({a, b}) =< a /\ Min({a, b}) =< b
  <1>1. \E x \in {a, b} : \A y \in {a, b} : x =< y
    <2>1. CASE a =< b  BY <2>1
    <2>2. CASE ~(a =< b)  BY <2>2
    <2>. QED  BY <2>1, <2>2
  <1>. QED  BY <1>1 DEF Min

-----------------------------------------------------------------------------
(* DirtyFiles *)

\* push keeps the queue and the map together, and never raises the overflow
\* flag of an empty queue.
LEMMA PushOK ==
    ASSUME NEW D, NEW w, NEW q, DirtyOK(q, D, w), NEW f \in D, NEW new
    PROVE  DirtyOK(push(q, f, new), D, w)
  <1>1. PICK p, c, o : p = q.paths /\ c = q.created /\ o = q.overflow  OBVIOUS
  <1>2. PathsOK(p, c, D) /\ q = [paths |-> p, created |-> c, overflow |-> o] /\ (o => w \/ p # <<>>)
    BY <1>1 DEF DirtyOK
  <1>3. CASE f \in DOMAIN q.created
    <2>1. PICK e : e = [c EXCEPT ![f] = c[f] \/ new]  OBVIOUS
    <2>2. push(q, f, new) = [paths |-> p, created |-> e, overflow |-> o]
      BY <1>1, <1>2, <1>3, <2>1 DEF push
    <2>3. DOMAIN e = DOMAIN c  BY <2>1
    <2>4. PathsOK(p, e, D)  BY <1>2, <2>3 DEF PathsOK
    <2>. QED  BY <1>2, <2>2, <2>4 DEF DirtyOK
  <1>4. CASE f \notin DOMAIN q.created /\ Len(q.paths) >= DirtyLimit
    <2>1. push(q, f, new) = [paths |-> p, created |-> c, overflow |-> TRUE]
      BY <1>1, <1>2, <1>4 DEF push
    <2>2. p # <<>>  BY <1>1, <1>4, IngestionAssumption
    <2>. QED  BY <1>2, <2>1, <2>2 DEF DirtyOK
  <1>5. CASE f \notin DOMAIN q.created /\ ~(Len(q.paths) >= DirtyLimit)
    <2>1. PICK r : r = Append(p, f)  OBVIOUS
    <2>2. PICK e : e = Put(c, f, new)  OBVIOUS
    <2>3. push(q, f, new) = [paths |-> r, created |-> e, overflow |-> o]
      BY <1>1, <1>2, <1>5, <2>1, <2>2 DEF push
    <2>4. PICK n : n = Len(p)  OBVIOUS
    <2>5. p \in Seq(D) /\ n \in Nat /\ n < DirtyLimit /\ DirtyLimit \in Nat
      BY <1>1, <1>2, <1>5, <2>4, IngestionAssumption DEF PathsOK
    <2>6. /\ r \in Seq(D) /\ Len(r) = n + 1 /\ r # <<>>
          /\ r[n + 1] = f /\ \A i \in 1..n : r[i] = p[i]
      BY <2>1, <2>4, <2>5
    <2>7. DOMAIN e = DOMAIN c \cup {f}  BY <2>2 DEF Put
    <2>8. /\ DOMAIN c = {p[i] : i \in 1..n} /\ f \notin DOMAIN c
          /\ \A i, j \in 1..n : p[i] = p[j] => i = j
      BY <1>1, <1>2, <1>5, <2>4 DEF PathsOK
    <2>9. \A i \in 1..(n + 1) : i = n + 1 \/ i \in 1..n  BY <2>5
    <2>10. DOMAIN e = {r[i] : i \in 1..(n + 1)}
      <3>1. \A x \in DOMAIN e : x \in {r[i] : i \in 1..(n + 1)}
        <4>1. n + 1 \in 1..(n + 1) /\ \A i \in 1..n : i \in 1..(n + 1)  BY <2>5
        <4>. QED  BY <2>6, <2>7, <2>8, <4>1
      <3>2. \A i \in 1..(n + 1) : r[i] \in DOMAIN e  BY <2>6, <2>7, <2>8, <2>9
      <3>. QED  BY <3>1, <3>2
    <2>11. ASSUME NEW i \in 1..(n + 1), NEW j \in 1..(n + 1), r[i] = r[j] PROVE i = j
      BY <2>6, <2>8, <2>9, <2>11
    <2>12. PathsOK(r, e, D)  BY <2>5, <2>6, <2>10, <2>11 DEF PathsOK
    <2>. QED  BY <2>3, <2>6, <2>12 DEF DirtyOK
  <1>. QED  BY <1>3, <1>4, <1>5

\* g is the fold of push over the paths of `order' whose places are in s.
IsFold(order, n, q, g) ==
    g = [s \in SUBSET (1..n) |-> IF s = {} THEN q ELSE push(g[s \ {Max(s)}], order[Max(s)], FALSE)]

LEMMA FoldExists ==
    ASSUME NEW order, NEW q, NEW n \in Nat
    PROVE  \E g : IsFold(order, n, q, g)
  <1>1. PICK K : K = {k \in Nat : \E g : IsFold(order, k, q, g)}  OBVIOUS
  <1>2. 0 \in K
    <2>1. PICK g : g = [s \in SUBSET (1..0) |-> q]  OBVIOUS
    <2>2. \A s \in SUBSET (1..0) : s = {}  OBVIOUS
    <2>3. IsFold(order, 0, q, g)  BY <2>1, <2>2 DEF IsFold
    <2>. QED  BY <1>1, <2>3
  <1>3. ASSUME NEW k \in K PROVE k + 1 \in K
    <2>1. k \in Nat  BY <1>1
    <2>2. PICK g : IsFold(order, k, q, g)  BY <1>1
    <2>3. PICK f : f = [s \in SUBSET (1..(k + 1)) |->
                           IF s = {} THEN q
                           ELSE IF k + 1 \in s THEN push(g[s \ {k + 1}], order[k + 1], FALSE)
                           ELSE g[s]]
      OBVIOUS
    <2>4. ASSUME NEW s \in SUBSET (1..k) PROVE f[s] = g[s]
      <3>1. s \in SUBSET (1..(k + 1)) /\ k + 1 \notin s  BY <2>1
      <3>2. s = {} => g[s] = q  BY <2>2 DEF IsFold
      <3>. QED  BY <2>3, <3>1, <3>2
    <2>5. ASSUME NEW s \in SUBSET (1..(k + 1)), s # {}
          PROVE  f[s] = push(f[s \ {Max(s)}], order[Max(s)], FALSE)
      <3>1. Max(s) \in s /\ \A y \in s : Max(s) >= y
        <4>1. PICK m : m = k + 1  OBVIOUS
        <4>2. m \in Nat /\ s \in SUBSET (0..m)  BY <2>1, <4>1
        <4>. QED  BY <2>5, <4>2, MaxFacts
      <3>2. CASE k + 1 \in s
        <4>1. Max(s) = k + 1
          <5>1. PICK m : m = Max(s)  OBVIOUS
          <5>2. m \in 1..(k + 1) /\ m >= k + 1  BY <3>1, <3>2, <5>1
          <5>. QED  BY <2>1, <5>1, <5>2
        <4>2. s \ {k + 1} \in SUBSET (1..k)  BY <2>1
        <4>. QED  BY <2>3, <2>4, <2>5, <3>2, <4>1, <4>2
      <3>3. CASE k + 1 \notin s
        <4>1. s \in SUBSET (1..k)  BY <2>1, <3>3
        <4>2. s \ {Max(s)} \in SUBSET (1..k)  BY <4>1
        <4>3. g[s] = push(g[s \ {Max(s)}], order[Max(s)], FALSE)  BY <2>2, <2>5, <4>1 DEF IsFold
        <4>. QED  BY <2>4, <4>1, <4>2, <4>3
      <3>. QED  BY <3>2, <3>3
    <2>6. f[{}] = q  BY <2>3
    <2>7. IsFold(order, k + 1, q, f)
      <3>1. PICK h : h = [s \in SUBSET (1..(k + 1)) |->
                             IF s = {} THEN q ELSE push(f[s \ {Max(s)}], order[Max(s)], FALSE)]
        OBVIOUS
      <3>2. ASSUME NEW s \in SUBSET (1..(k + 1)) PROVE f[s] = h[s]  BY <2>5, <2>6, <3>1
      <3>3. f = h  BY <2>3, <3>1, <3>2
      <3>. QED  BY <3>1, <3>3 DEF IsFold
    <2>. QED  BY <1>1, <2>1, <2>7
  <1>4. K \in SUBSET Nat  BY <1>1
  <1>5. n \in K  BY <1>2, <1>3, <1>4, AllNaturals
  <1>. QED  BY <1>1, <1>5

\* Pushing one path after the other keeps the queue sound.
LEMMA PushAllOK ==
    ASSUME NEW D, NEW w, NEW q, DirtyOK(q, D, w), NEW n \in Nat, NEW order \in [1..n -> D]
    PROVE  DirtyOK(PushAll(q, order), D, w)
  <1>1. PICK g : g = CHOOSE h : IsFold(order, n, q, h)  OBVIOUS
  <1>2. IsFold(order, n, q, g)  BY <1>1, FoldExists
  <1>3. PushAll(q, order) = g[1..n]
    <2>1. PushAll(q, order)
            = (CHOOSE h : h = [s \in SUBSET (DOMAIN order) |->
                                 IF s = {} THEN q ELSE push(h[s \ {Max(s)}], order[Max(s)], FALSE)])[DOMAIN order]
      BY DEF PushAll, FoldLeft, MapThenFoldSet
    <2>2. DOMAIN order = 1..n  OBVIOUS
    <2>. QED  BY <1>1, <2>1, <2>2 DEF IsFold
  <1>4. PICK K : K = {k \in Nat : k =< n => DirtyOK(g[1..k], D, w)}  OBVIOUS
  <1>5. 0 \in K
    <2>1. {} \in SUBSET (1..n) /\ 1..0 = {}  OBVIOUS
    <2>2. g[1..0] = q  BY <1>2, <2>1 DEF IsFold
    <2>. QED  BY <1>4, <2>2
  <1>6. ASSUME NEW k \in K PROVE k + 1 \in K
    <2>1. k \in Nat  BY <1>4
    <2>2. CASE k + 1 =< n
      <3>1. PICK m : m = k + 1  OBVIOUS
      <3>2. m \in 1..n /\ m \in Nat /\ k =< n /\ m - 1 = k  BY <2>1, <2>2, <3>1
      <3>3. 1..m \in SUBSET (1..n) /\ 1..m # {} /\ m \in 1..m /\ 1..m \in SUBSET (0..m)  BY <3>2, SMTT(30)
      <3>4. Max(1..m) \in 1..m /\ \A y \in 1..m : Max(1..m) >= y  BY <3>2, <3>3, MaxFacts
      <3>5. Max(1..m) = m  BY <3>2, <3>3, <3>4
      <3>6. (1..m) \ {m} = 1..k  BY <2>1, <3>1
      <3>7. g[1..m] = push(g[(1..m) \ {Max(1..m)}], order[Max(1..m)], FALSE)
        BY <1>2, <3>3 DEF IsFold
      <3>8. g[1..m] = push(g[1..k], order[m], FALSE)  BY <3>5, <3>6, <3>7
      <3>9. DirtyOK(g[1..k], D, w)  BY <1>4, <3>2
      <3>10. order[m] \in D  BY <3>2
      <3>11. DirtyOK(g[1..m], D, w)  BY <3>8, <3>9, <3>10, PushOK
      <3>. QED  BY <1>4, <3>1, <3>2, <3>11
    <2>3. CASE ~(k + 1 =< n)  BY <1>4, <2>1, <2>3
    <2>. QED  BY <2>2, <2>3
  <1>7. K \in SUBSET Nat  BY <1>4
  <1>8. n \in K  BY <1>5, <1>6, <1>7, AllNaturals
  <1>. QED  BY <1>3, <1>4, <1>8

\* More files on disk do not disturb the queue.
LEMMA MoreFiles ==
    ASSUME NEW p, NEW c, NEW D, NEW E, D \subseteq E, PathsOK(p, c, D)
    PROVE  PathsOK(p, c, E)
  <1>1. p \in Seq(E)  BY DEF PathsOK
  <1>. QED  BY <1>1 DEF PathsOK

\* A turn that ends with the queue q asks for another one if there is a path.
LEMMA RewakeOK ==
    ASSUME NEW q, NEW D, DirtyOK(q, D, FALSE), Rewake(q)
    PROVE  PathsOK(paths', created', D) /\ WakePending'
  <1>1. paths' = q.paths /\ created' = q.created /\ overflow' = q.overflow /\ wake' = (q.paths # <<>>)
    BY DEF Rewake, SetDirty
  <1>2. PathsOK(paths', created', D)  BY <1>1 DEF DirtyOK
  <1>3. q.overflow => q.paths # <<>>  BY DEF DirtyOK
  <1>4. WakePending'  BY <1>1, <1>3 DEF WakePending
  <1>. QED  BY <1>2, <1>4

LEMMA DirtyNow ==
    ASSUME IInv
    PROVE  DirtyOK(Dirty, DOMAIN disk, wake)
  <1>1. Dirty.paths = paths /\ Dirty.created = created /\ Dirty.overflow = overflow  BY DEF Dirty
  <1>2. Dirty = [paths |-> Dirty.paths, created |-> Dirty.created, overflow |-> Dirty.overflow]
    BY DEF Dirty
  <1>3. PathsOK(Dirty.paths, Dirty.created, DOMAIN disk)  BY <1>1 DEF IInv
  <1>4. Dirty.overflow => wake  BY <1>1 DEF IInv, WakePending
  <1>. QED  BY <1>2, <1>3, <1>4 DEF DirtyOK

\* The callback, for a file that is on disk by then.
LEMMA NotifyOK ==
    ASSUME IInv, NEW D, DOMAIN disk \subseteq D, NEW f \in D, NEW new, Notify(f, new)
    PROVE  PathsOK(paths', created', D) /\ WakePending'
  <1>1. DirtyOK(Dirty, D, wake)
    <2>1. DirtyOK(Dirty, DOMAIN disk, wake)  BY DirtyNow
    <2>2. PathsOK(Dirty.paths, Dirty.created, D)  BY <2>1, MoreFiles DEF DirtyOK
    <2>. QED  BY <2>1, <2>2 DEF DirtyOK
  <1>2. CASE SetDirty(push(Dirty, f, new)) /\ wake' = TRUE
    <2>1. DirtyOK(push(Dirty, f, new), D, wake)  BY <1>1, PushOK
    <2>2. PathsOK(paths', created', D)  BY <1>2, <2>1 DEF SetDirty, DirtyOK
    <2>. QED  BY <1>2, <2>2 DEF WakePending
  <1>3. CASE UNCHANGED <<dirty, wake>>
    <2>1. paths' = paths /\ created' = created /\ overflow' = overflow /\ wake' = wake
      BY <1>3 DEF dirty
    <2>2. PathsOK(paths, created, D)  BY <1>1 DEF DirtyOK, Dirty
    <2>3. WakePending  BY DEF IInv
    <2>. QED  BY <2>1, <2>2, <2>3 DEF WakePending
  <1>4. CASE SetDirty([Dirty EXCEPT !.overflow = TRUE]) /\ wake' = TRUE
    <2>1. paths' = paths /\ created' = created  BY <1>4 DEF SetDirty, Dirty
    <2>2. PathsOK(paths, created, D)  BY <1>1 DEF DirtyOK, Dirty
    <2>. QED  BY <1>4, <2>1, <2>2 DEF WakePending
  <1>. QED  BY <1>2, <1>3, <1>4 DEF Notify

-----------------------------------------------------------------------------
(* The node *)

LEMMA FileFacts ==
    ASSUME NEW f \in Files
    PROVE  f[1] \in Sources /\ f[2] \in Nat \ {0} /\ f[2] =< Hours /\ f = <<f[1], f[2]>>
  BY IngestionAssumption DEF Files

\* There is a newest file of every source.
LEMMA NewestFacts ==
    ASSUME DiskOK(disk), NEW s \in Sources
    PROVE  /\ Newest(s) \in DOMAIN disk /\ Newest(s)[1] = s
           /\ \A g \in DOMAIN disk : g[1] = s => g[2] =< Newest(s)[2]
  <1>1. PICK T : T = {f[2] : f \in FilesOf(s)}  OBVIOUS
  <1>2. \A f \in FilesOf(s) : f \in Files /\ f[2] \in 0..Hours
    BY FileFacts, IngestionAssumption DEF FilesOf, DiskOK
  <1>3. PICK f1 : f1 = <<s, 1>>  OBVIOUS
  <1>4. f1 \in FilesOf(s)
    <2>1. f1[1] = s  BY <1>3
    <2>2. f1 \in DOMAIN disk  BY <1>3 DEF DiskOK
    <2>. QED  BY <2>1, <2>2 DEF FilesOf
  <1>5. T \in SUBSET (0..Hours) /\ T # {}  BY <1>1, <1>2, <1>4
  <1>6. Max(T) \in T /\ \A y \in T : Max(T) >= y  BY <1>5, MaxFacts, IngestionAssumption
  <1>7. PICK f \in FilesOf(s) : f[2] = Max(T)  BY <1>1, <1>6
  <1>8. ASSUME NEW g \in FilesOf(s) PROVE g[2] =< f[2]
    <2>1. g[2] \in T /\ g[2] \in 0..Hours /\ f[2] \in 0..Hours  BY <1>1, <1>2
    <2>. QED  BY <1>6, <1>7, <2>1
  <1>9. Newest(s) \in FilesOf(s) /\ \A g \in FilesOf(s) : g[2] =< Newest(s)[2]
    BY <1>8 DEF Newest
  <1>. QED  BY <1>9 DEF FilesOf

\* Cursors stay in their files when the files grow.
LEMMA CursorsGrow ==
    ASSUME NEW c, NEW d, NEW e, CursorsIn(c, d), DOMAIN d \subseteq DOMAIN e,
           \A f \in DOMAIN d : d[f].len \in Nat /\ e[f].len \in Nat /\ d[f].len =< e[f].len
    PROVE  CursorsIn(c, e)
  <1>1. DOMAIN c \subseteq DOMAIN e  BY DEF CursorsIn
  <1>2. ASSUME NEW f \in DOMAIN c
        PROVE  /\ c[f] \in [offset : Nat, from : Nat]
               /\ c[f].from =< c[f].offset /\ c[f].offset =< e[f].len
    <2>1. /\ c[f] \in [offset : Nat, from : Nat] /\ f \in DOMAIN d
          /\ c[f].from =< c[f].offset /\ c[f].offset =< d[f].len
      BY DEF CursorsIn
    <2>2. c[f].offset \in Nat  BY <2>1
    <2>. QED  BY <2>1, <2>2
  <1>. QED  BY <1>1, <1>2 DEF CursorsIn

LEMMA AppendsOK ==
    ASSUME IInv, NEW s \in Sources, NodeAppends(s)
    PROVE  IInv'
  <1>1. PICK f : f = Newest(s)  OBVIOUS
  <1>2. DiskOK(disk) /\ f \in DOMAIN disk  BY <1>1, NewestFacts DEF IInv
  <1>3. PICK n : n = disk[f].len + 1  OBVIOUS
  <1>4. disk' = [disk EXCEPT ![f].len = n]  BY <1>1, <1>3 DEF NodeAppends
  <1>5. disk[f] \in [len : Nat, start : Nat, gone : BOOLEAN] /\ n \in Nat /\ disk[f].len =< n
    BY <1>2, <1>3 DEF DiskOK
  <1>6. /\ DOMAIN disk' = DOMAIN disk
        /\ \A x \in DOMAIN disk : x # f => disk'[x] = disk[x]
        /\ disk'[f] = [disk[f] EXCEPT !.len = n]
    BY <1>2, <1>4
  <1>7. disk'[f] \in [len : Nat, start : Nat, gone : BOOLEAN] /\ disk'[f].len = n
    BY <1>5, <1>6
  <1>8. DiskOK(disk')  BY <1>2, <1>6, <1>7 DEF DiskOK
  <1>9. CursorsIn(cursors, disk')
    <2>1. ASSUME NEW x \in DOMAIN disk
          PROVE  disk[x].len \in Nat /\ disk'[x].len \in Nat /\ disk[x].len =< disk'[x].len
      <3>1. CASE x = f  BY <1>5, <1>7, <3>1
      <3>2. CASE x # f
        <4>1. disk[x].len \in Nat  BY <1>2 DEF DiskOK
        <4>. QED  BY <1>6, <3>2, <4>1
      <3>. QED  BY <3>1, <3>2
    <2>2. PICK e : e = disk'  OBVIOUS
    <2>. QED  BY <1>6, <2>1, <2>2, CursorsGrow DEF IInv
  <1>10. PathsOK(paths', created', DOMAIN disk') /\ WakePending'
    BY <1>1, <1>2, <1>6, NotifyOK DEF NodeAppends
  <1>11. cursors' = cursors /\ last' = last /\ taken' = taken  BY DEF NodeAppends
  <1>. QED  BY <1>8, <1>9, <1>10, <1>11 DEF IInv

LEMMA RotatesOK ==
    ASSUME IInv, NEW s \in Sources, NodeRotates(s)
    PROVE  IInv'
  <1>1. PICK f : f = Newest(s)  OBVIOUS
  <1>2. PICK g : g = <<s, f[2] + 1>>  OBVIOUS
  <1>3. PICK r : r = [len |-> 0, start |-> WrittenBy(f), gone |-> FALSE]  OBVIOUS
  <1>4. g \in Files /\ disk' = Put(disk, g, r) /\ Notify(g, TRUE)
    BY <1>1, <1>2, <1>3 DEF NodeRotates
  <1>5. /\ DiskOK(disk) /\ f \in DOMAIN disk
        /\ \A x \in DOMAIN disk : x[1] = s => x[2] =< f[2]
    BY <1>1, NewestFacts DEF IInv
  <1>6. f[2] \in Nat  BY <1>5, FileFacts DEF DiskOK
  <1>7. g[1] = s /\ g[2] = f[2] + 1  BY <1>2
  <1>8. g \notin DOMAIN disk
    <2>. SUFFICES ASSUME g \in DOMAIN disk PROVE FALSE  OBVIOUS
    <2>1. f[2] + 1 =< f[2]  BY <1>5, <1>7
    <2>. QED  BY <1>6, <2>1
  <1>9. r \in [len : Nat, start : Nat, gone : BOOLEAN]
    <2>1. disk[f].start \in Nat /\ disk[f].len \in Nat  BY <1>5 DEF DiskOK
    <2>2. disk[f].len \div 2 \in Nat  BY <2>1
    <2>3. WrittenBy(f) \in Nat  BY <2>1, <2>2 DEF WrittenBy
    <2>. QED  BY <1>3, <2>3
  <1>10. /\ DOMAIN disk' = DOMAIN disk \cup {g} /\ disk'[g] = r
         /\ \A x \in DOMAIN disk : disk'[x] = disk[x]
    BY <1>4, <1>8 DEF Put
  <1>11. DiskOK(disk')  BY <1>4, <1>5, <1>9, <1>10 DEF DiskOK
  <1>12. CursorsIn(cursors, disk')
    <2>1. \A x \in DOMAIN disk : disk[x].len \in Nat  BY <1>5 DEF DiskOK
    <2>2. \A x \in DOMAIN disk : disk[x].len \in Nat /\ disk'[x].len \in Nat /\ disk[x].len =< disk'[x].len
      BY <1>10, <2>1
    <2>3. PICK e : e = disk'  OBVIOUS
    <2>. QED  BY <1>10, <2>2, <2>3, CursorsGrow DEF IInv
  <1>13. PathsOK(paths', created', DOMAIN disk') /\ WakePending'
    BY <1>4, <1>10, NotifyOK
  <1>14. cursors' = cursors /\ last' = last /\ taken' = taken  BY DEF NodeRotates
  <1>. QED  BY <1>11, <1>12, <1>13, <1>14 DEF IInv

LEMMA RemovedOK ==
    ASSUME IInv, NEW f \in Files, FileRemoved(f)
    PROVE  IInv'
  <1>1. f \in DOMAIN disk /\ disk' = [disk EXCEPT ![f].gone = TRUE] /\ DiskOK(disk)
    BY DEF FileRemoved, IInv
  <1>2. /\ DOMAIN disk' = DOMAIN disk
        /\ \A x \in DOMAIN disk : x # f => disk'[x] = disk[x]
        /\ disk'[f] = [disk[f] EXCEPT !.gone = TRUE]
    BY <1>1
  <1>3. disk[f] \in [len : Nat, start : Nat, gone : BOOLEAN]  BY <1>1 DEF DiskOK
  <1>4. disk'[f] \in [len : Nat, start : Nat, gone : BOOLEAN] /\ disk'[f].len = disk[f].len
    BY <1>2, <1>3
  <1>5. DiskOK(disk')  BY <1>1, <1>2, <1>4 DEF DiskOK
  <1>6. CursorsIn(cursors, disk')
    <2>1. \A x \in DOMAIN disk : disk[x].len \in Nat  BY <1>1 DEF DiskOK
    <2>2. \A x \in DOMAIN disk : disk[x].len \in Nat /\ disk'[x].len \in Nat /\ disk[x].len =< disk'[x].len
      BY <1>2, <1>4, <2>1
    <2>3. PICK e : e = disk'  OBVIOUS
    <2>. QED  BY <1>2, <2>2, <2>3, CursorsGrow DEF IInv
  <1>7. /\ paths' = paths /\ created' = created /\ overflow' = overflow /\ wake' = wake
        /\ cursors' = cursors /\ last' = last /\ taken' = taken
    BY DEF FileRemoved, dirty
  <1>8. WakePending'  BY <1>7 DEF IInv, WakePending
  <1>. QED  BY <1>2, <1>5, <1>6, <1>7, <1>8 DEF IInv

-----------------------------------------------------------------------------
(* Cursors *)

\* Dropping cursors, and setting one to a place in its file.
LEMMA DropOK ==
    ASSUME NEW c, NEW d, NEW S, CursorsIn(c, d), FewCursors(c)
    PROVE  CursorsIn(Drop(c, S), d) /\ FewCursors(Drop(c, S))
  <1>1. PICK e : e = Drop(c, S)  OBVIOUS
  <1>2. DOMAIN e = DOMAIN c \ S /\ \A x \in DOMAIN e : e[x] = c[x]  BY <1>1 DEF Drop
  <1>3. CursorsIn(e, d)  BY <1>2 DEF CursorsIn
  <1>4. FewCursors(e)
    <2>1. IsFiniteSet(DOMAIN e) /\ Cardinality(DOMAIN e) =< Cardinality(DOMAIN c)
      BY <1>2, FS_Subset DEF FewCursors
    <2>2. Cardinality(DOMAIN e) \in Nat /\ Cardinality(DOMAIN c) \in Nat /\ DirtyLimit \in Nat
      BY <2>1, FS_CardinalityType, IngestionAssumption DEF FewCursors
    <2>. QED  BY <2>1, <2>2 DEF FewCursors
  <1>. QED  BY <1>1, <1>2, <1>3, <1>4

Place(r, len) == r \in [offset : Nat, from : Nat] /\ r.from =< r.offset /\ r.offset =< len

LEMMA PutOK ==
    ASSUME NEW c, NEW d, CursorsIn(c, d), NEW f \in DOMAIN d, NEW r, Place(r, d[f].len)
    PROVE  /\ CursorsIn(Put(c, f, r), d)
           /\ DOMAIN Put(c, f, r) = DOMAIN c \cup {f}
  <1>1. PICK e : e = Put(c, f, r)  OBVIOUS
  <1>2. DOMAIN e = DOMAIN c \cup {f} /\ \A x \in DOMAIN e : e[x] = IF x = f THEN r ELSE c[x]
    BY <1>1 DEF Put
  <1>3. CursorsIn(e, d)
    <2>1. DOMAIN e \subseteq DOMAIN d  BY <1>2 DEF CursorsIn
    <2>2. ASSUME NEW x \in DOMAIN e
          PROVE  e[x] \in [offset : Nat, from : Nat] /\ e[x].from =< e[x].offset /\ e[x].offset =< d[x].len
      <3>1. CASE x = f  BY <1>2, <3>1 DEF Place
      <3>2. CASE x # f  BY <1>2, <3>2 DEF CursorsIn
      <3>. QED  BY <3>1, <3>2
    <2>. QED  BY <2>1, <2>2 DEF CursorsIn
  <1>. QED  BY <1>1, <1>2, <1>3

LEMMA OpenOK ==
    ASSUME DiskOK(disk), NEW f \in DOMAIN disk, NEW from_end
    PROVE  Place(open(f, from_end), disk[f].len)
  <1>1. PICK n : n = IF from_end THEN disk[f].len ELSE 0  OBVIOUS
  <1>2. disk[f].len \in Nat  BY DEF DiskOK
  <1>3. n \in Nat /\ n =< disk[f].len  BY <1>1, <1>2
  <1>4. open(f, from_end) = [offset |-> n, from |-> n]  BY <1>1 DEF open
  <1>. QED  BY <1>3, <1>4 DEF Place

LEMMA NoMapOK == ASSUME NEW d PROVE CursorsIn(NoMap, d) /\ FewCursors(NoMap)
  <1>1. DOMAIN NoMap = {}  BY DEF NoMap
  <1>2. IsFiniteSet({}) /\ Cardinality({}) = 0  BY FS_EmptySet
  <1>. QED  BY <1>1, <1>2, IngestionAssumption DEF CursorsIn, FewCursors

\* One cursor more, where there was room for it.
LEMMA RoomOK ==
    ASSUME NEW c, FewCursors(c), Cardinality(DOMAIN c) < DirtyLimit, NEW e, NEW f,
           DOMAIN e = DOMAIN c \cup {f}
    PROVE  FewCursors(e)
  <1>1. IsFiniteSet(DOMAIN c)  BY DEF FewCursors
  <1>2. Cardinality(DOMAIN c) \in Nat /\ DirtyLimit \in Nat  BY <1>1, FS_CardinalityType, IngestionAssumption
  <1>3. IsFiniteSet(DOMAIN e) /\ (Cardinality(DOMAIN e) = Cardinality(DOMAIN c)
                                  \/ Cardinality(DOMAIN e) = Cardinality(DOMAIN c) + 1)
    BY <1>1, FS_AddElement
  <1>. QED  BY <1>2, <1>3 DEF FewCursors

\* What was dropped on the way from the cursors c to r was read up.
OnlyDrained(c, r) == \A x \in DOMAIN c : x \notin DOMAIN r => drained(c, x)

LEMMA RetainedOK ==
    ASSUME NEW c, CursorsIn(c, disk), FewCursors(c)
    PROVE  /\ CursorsIn(Retained(c), disk) /\ FewCursors(Retained(c)) /\ OnlyDrained(c, Retained(c))
           /\ \A x \in DOMAIN Retained(c) : x \in DOMAIN c /\ Retained(c)[x] = c[x]
  <1>1. PICK S : S = {f \in DOMAIN c : ~Exists(f) /\ drained(c, f)}  OBVIOUS
  <1>2. Retained(c) = Drop(c, S)  BY <1>1 DEF Retained
  <1>3. /\ CursorsIn(Drop(c, S), disk) /\ FewCursors(Drop(c, S))
        /\ DOMAIN Drop(c, S) = DOMAIN c \ S
        /\ \A x \in DOMAIN Drop(c, S) : Drop(c, S)[x] = c[x]
    <2>1. CursorsIn(Drop(c, S), disk) /\ FewCursors(Drop(c, S))  BY DropOK
    <2>2. DOMAIN Drop(c, S) = DOMAIN c \ S /\ \A x \in DOMAIN Drop(c, S) : Drop(c, S)[x] = c[x]
      BY DEF Drop
    <2>. QED  BY <2>1, <2>2
  <1>4. \A x \in S : drained(c, x)  BY <1>1
  <1>. QED  BY <1>2, <1>3, <1>4 DEF OnlyDrained

LEMMA EvictedOK ==
    ASSUME NEW c, CursorsIn(c, disk), FewCursors(c), NEW f
    PROVE  /\ CursorsIn(Evicted(c, f), disk) /\ FewCursors(Evicted(c, f)) /\ OnlyDrained(c, Evicted(c, f))
           /\ \A x \in DOMAIN Evicted(c, f) : x \in DOMAIN c /\ Evicted(c, f)[x] = c[x]
  <1>1. PICK R : R = {g \in DOMAIN c : /\ g[1] = f[1] /\ g[2] < f[2]
                                       /\ drained(c, g) /\ ~needs_attention(c, g)}
    OBVIOUS
  <1>2. PICK S : S = {g \in R : \A h \in R : g[2] =< h[2]}  OBVIOUS
  <1>3. Evicted(c, f) = Drop(c, S)  BY <1>1, <1>2 DEF Evicted
  <1>4. /\ CursorsIn(Drop(c, S), disk) /\ FewCursors(Drop(c, S))
        /\ DOMAIN Drop(c, S) = DOMAIN c \ S
        /\ \A x \in DOMAIN Drop(c, S) : Drop(c, S)[x] = c[x]
    <2>1. CursorsIn(Drop(c, S), disk) /\ FewCursors(Drop(c, S))  BY DropOK
    <2>2. DOMAIN Drop(c, S) = DOMAIN c \ S /\ \A x \in DOMAIN Drop(c, S) : Drop(c, S)[x] = c[x]
      BY DEF Drop
    <2>. QED  BY <2>1, <2>2
  <1>5. \A x \in S : drained(c, x)  BY <1>1, <1>2
  <1>. QED  BY <1>3, <1>4, <1>5 DEF OnlyDrained

\* Dropping what is read up, twice.
LEMMA DrainedTwice ==
    ASSUME NEW c, NEW e, NEW r, OnlyDrained(c, e), OnlyDrained(e, r),
           \A x \in DOMAIN e : x \in DOMAIN c /\ e[x] = c[x]
    PROVE  OnlyDrained(c, r)
  BY DEF OnlyDrained, drained

-----------------------------------------------------------------------------
(* A turn *)

\* The cursors that a turn reads with: f's is among them, there are not too
\* many, and one that was given up was read up, or the stream is fenced.
Ready(c, r, f, b) ==
    /\ CursorsIn(r, disk) /\ FewCursors(r) /\ f \in DOMAIN r
    /\ OnlyDrained(c, r) \/ b

LEMMA ReadyOK ==
    ASSUME DiskOK(disk), NEW c, CursorsIn(c, disk), FewCursors(c), NEW f \in DOMAIN disk,
           NEW new, NEW q, NEW did, TurnWithFile(c, f, new, q, did)
    PROVE  \E r : \E b \in BOOLEAN :
              /\ Ready(c, r, f, b) /\ (did => b)
              /\ OpenFails(r, f, q) \/ ReadFails(r, f, q) \/ ReadSucceeds(r, f, q, b)
  <1>1. CASE f \in DOMAIN c
    <2>1. PICK b \in BOOLEAN : b = (did \/ FALSE \/ FALSE)  OBVIOUS
    <2>2. OpenFails(c, f, q) \/ ReadFails(c, f, q) \/ ReadSucceeds(c, f, q, b)
      BY <1>1, <2>1 DEF TurnWithFile
    <2>3. Ready(c, c, f, b) /\ (did => b)  BY <1>1, <2>1 DEF Ready, OnlyDrained
    <2>. QED  BY <2>2, <2>3
  <1>2. CASE f \notin DOMAIN c
    <2>1. PICK k : k = Retained(c)  OBVIOUS
    <2>2. PICK m : m = IF Cardinality(DOMAIN k) >= DirtyLimit THEN Evicted(k, f) ELSE k  OBVIOUS
    <2>4. PICK end \in BOOLEAN : end = (~new /\ ~(\E g \in DOMAIN c : g[1] = f[1]))  OBVIOUS
    <2>5. PICK r : r = Put(IF Cardinality(DOMAIN m) >= DirtyLimit THEN NoMap ELSE m, f, open(f, end))  OBVIOUS
    <2>6. PICK b \in BOOLEAN : b = (did \/ Cardinality(DOMAIN m) >= DirtyLimit \/ end)  OBVIOUS
    <2>7. OpenFails(r, f, q) \/ ReadFails(r, f, q) \/ ReadSucceeds(r, f, q, b)
      BY <1>2, <2>1, <2>2, <2>4, <2>5, <2>6 DEF TurnWithFile
    <2>8. /\ CursorsIn(k, disk) /\ FewCursors(k) /\ OnlyDrained(c, k)
          /\ \A x \in DOMAIN k : x \in DOMAIN c /\ k[x] = c[x]
      BY <2>1, RetainedOK
    <2>9. CursorsIn(m, disk) /\ FewCursors(m) /\ OnlyDrained(k, m)
      <3>1. CASE Cardinality(DOMAIN k) >= DirtyLimit  BY <2>2, <2>8, <3>1, EvictedOK
      <3>2. CASE ~(Cardinality(DOMAIN k) >= DirtyLimit)  BY <2>2, <2>8, <3>2 DEF OnlyDrained
      <3>. QED  BY <3>1, <3>2
    <2>10. OnlyDrained(c, m)  BY <2>8, <2>9, DrainedTwice
    <2>11. Place(open(f, end), disk[f].len)  BY OpenOK
    <2>12. CASE Cardinality(DOMAIN m) >= DirtyLimit
      <3>1. r = Put(NoMap, f, open(f, end))  BY <2>5, <2>12
      <3>2. CursorsIn(r, disk) /\ DOMAIN r = DOMAIN NoMap \cup {f}  BY <2>11, <3>1, NoMapOK, PutOK
      <3>3. Cardinality(DOMAIN NoMap) < DirtyLimit
        <4>1. DOMAIN NoMap = {}  BY DEF NoMap
        <4>. QED  BY <4>1, FS_EmptySet, IngestionAssumption
      <3>4. FewCursors(r)  BY <3>2, <3>3, NoMapOK, RoomOK
      <3>5. Ready(c, r, f, b)  BY <2>6, <2>12, <3>2, <3>4 DEF Ready
      <3>. QED  BY <2>6, <2>7, <3>5
    <2>13. CASE ~(Cardinality(DOMAIN m) >= DirtyLimit)
      <3>1. r = Put(m, f, open(f, end))  BY <2>5, <2>13
      <3>2. CursorsIn(r, disk) /\ DOMAIN r = DOMAIN m \cup {f}  BY <2>9, <2>11, <3>1, PutOK
      <3>3. Cardinality(DOMAIN m) < DirtyLimit
        <4>1. Cardinality(DOMAIN m) \in Nat /\ DirtyLimit \in Nat
          BY <2>9, FS_CardinalityType, IngestionAssumption DEF FewCursors
        <4>. QED  BY <2>13, <4>1
      <3>4. FewCursors(r)  BY <2>9, <3>2, <3>3, RoomOK
      <3>5. Ready(c, r, f, b)  BY <2>10, <3>2, <3>4 DEF Ready, OnlyDrained
      <3>. QED  BY <2>6, <2>7, <3>5
    <2>. QED  BY <2>12, <2>13
  <1>. QED  BY <1>1, <1>2

\* A fence makes the queues forget, the trades feed not.
LEMMA AfterFenceOK ==
    ASSUME NEW l \in [Sources -> Nat]
    PROVE  /\ AfterFence(l) \in [Sources -> Nat]
           /\ "Fills" \in Sources => AfterFence(l)["Fills"] = l["Fills"]
  BY DEF AfterFence

\* Of two numbers Max is one, and not the smaller one.
LEMMA MaxOfTwo ==
    ASSUME NEW x \in Nat, NEW y \in Nat
    PROVE  Max({x, y}) \in {x, y} /\ Max({x, y}) >= x /\ Max({x, y}) >= y
  <1>1. PICK n : n = x + y  OBVIOUS
  <1>2. n \in Nat /\ {x, y} \in SUBSET (0..n) /\ {x, y} # {}  BY <1>1
  <1>3. PICK T : T = {x, y}  OBVIOUS
  <1>4. Max(T) \in T /\ \A z \in T : Max(T) >= z  BY <1>2, <1>3, MaxFacts
  <1>. QED  BY <1>3, <1>4

\* The blocks after low continue a log that ends at low or before.
LEMMA LongerLog ==
    ASSUME NEW log \in Seq(Nat), NEW low \in Nat, NEW high \in Nat, low =< high
    PROVE  /\ log \o After(low, high) \in Seq(Nat)
           /\ \A k \in Nat : k =< low /\ Ordered(log, k)
                  => /\ Ordered(log \o After(low, high), high)
                     /\ high = low => Ordered(log \o After(low, high), k)
  <1>1. PICK n : n = high - low  OBVIOUS
  <1>2. n \in Nat  BY <1>1
  <1>3. PICK a : a = After(low, high)  OBVIOUS
  <1>4. a = [i \in 1..n |-> low + i]  BY <1>1, <1>3 DEF After
  <1>5. a \in Seq(Nat) /\ Len(a) = n /\ \A i \in 1..n : a[i] = low + i  BY <1>2, <1>4
  <1>6. PICK l : l = Len(log)  OBVIOUS
  <1>7. PICK both : both = log \o a  OBVIOUS
  <1>8. l \in Nat /\ both \in Seq(Nat) /\ Len(both) = l + n
    <2>1. both \in Seq(Nat)  BY <1>5, <1>7, ConcatProperties
    <2>2. Len(both) = l + n  BY <1>5, <1>6, <1>7, ConcatProperties
    <2>. QED  BY <1>6, <2>1, <2>2
  <1>9. /\ \A i \in 1..l : both[i] = log[i] /\ log[i] \in Nat
        /\ \A i \in (l + 1)..(l + n) : both[i] = low + (i - l)
    <2>1. ASSUME NEW i \in 1..l PROVE both[i] = log[i] /\ log[i] \in Nat
      BY <1>2, <1>5, <1>6, <1>7, <1>8, <2>1
    <2>2. ASSUME NEW i \in (l + 1)..(l + n) PROVE both[i] = low + (i - l)
      <3>1. PICK d : d = i - l  OBVIOUS
      <3>2. d \in 1..n /\ i = l + d  BY <1>2, <1>8, <3>1
      <3>3. both[i] = a[d]  BY <1>2, <1>5, <1>6, <1>7, <1>8, <3>2
      <3>. QED  BY <1>5, <3>1, <3>2, <3>3
    <2>. QED  BY <2>1, <2>2
  <1>10. ASSUME NEW k \in Nat, k =< low, Ordered(log, k)
         PROVE  Ordered(both, high) /\ (high = low => Ordered(both, k))
    <2>1. /\ \A i \in 1..l : log[i] =< k
          /\ \A i, j \in 1..l : i < j => log[i] < log[j]
      BY <1>6, <1>10 DEF Ordered
    <2>2. \A i \in 1..(l + n) : both[i] =< high /\ (n = 0 => both[i] =< k)
      BY <1>1, <1>2, <1>8, <1>9, <1>10, <2>1
    <2>3. \A i, j \in 1..(l + n) : i < j => both[i] < both[j]
      <3>. SUFFICES ASSUME NEW i \in 1..(l + n), NEW j \in 1..(l + n), i < j
                    PROVE  both[i] < both[j]
        OBVIOUS
      <3>1. CASE j =< l
        <4>1. i \in 1..l /\ j \in 1..l  BY <1>2, <1>8, <3>1
        <4>. QED  BY <1>9, <2>1, <4>1
      <3>2. CASE i =< l /\ l < j
        <4>1. i \in 1..l /\ j \in (l + 1)..(l + n)  BY <1>2, <1>8, <3>2
        <4>2. both[i] =< k /\ both[i] \in Nat /\ both[j] = low + (j - l)  BY <1>9, <2>1, <4>1
        <4>. QED  BY <1>8, <1>10, <3>2, <4>2
      <3>3. CASE l < i
        <4>1. i \in (l + 1)..(l + n) /\ j \in (l + 1)..(l + n)  BY <1>2, <1>8, <3>3
        <4>2. both[i] = low + (i - l) /\ both[j] = low + (j - l)  BY <1>9, <4>1
        <4>. QED  BY <1>8, <4>2
      <3>. QED  BY <1>8, <3>1, <3>2, <3>3
    <2>. QED  BY <1>1, <1>8, <2>2, <2>3 DEF Ordered
  <1>. QED  BY <1>3, <1>7, <1>8, <1>10

\* One source takes the blocks after low up to high.
LEMMA TakesOK ==
    ASSUME TakenOK(last, taken), NEW s \in Sources, NEW low \in Nat, NEW high \in Nat,
           NEW known \in [Sources -> Nat],
           "Fills" \in Sources => known["Fills"] = last["Fills"],
           known[s] =< low, low =< high,
           taken' = [taken EXCEPT ![s] = taken[s] \o After(low, high)],
           NEW now, now = [known EXCEPT ![s] = IF high > low THEN high ELSE known[s]],
           last' = now \/ last' = AfterFence(now)
    PROVE  TakenOK(last', taken')
  <1>1. PICK m : m = IF high > low THEN high ELSE known[s]  OBVIOUS
  <1>2. m \in Nat /\ known[s] \in Nat  BY <1>1
  <1>3. now \in [Sources -> Nat] /\ now[s] = m /\ \A x \in Sources : x # s => now[x] = known[x]
    BY <1>1, <1>2
  <1>4. last' \in [Sources -> Nat] /\ ("Fills" \in Sources => last'["Fills"] = now["Fills"])
    BY <1>3, AfterFenceOK
  <1>5. PICK log, k : log = taken[s] /\ k = known[s]  OBVIOUS
  <1>6. taken \in [Sources -> Seq(Nat)] /\ log \in Seq(Nat)  BY <1>5 DEF TakenOK
  <1>7. PICK longer : longer = log \o After(low, high)  OBVIOUS
  <1>8. longer \in Seq(Nat) /\ (Ordered(log, k) => Ordered(longer, m))
    <2>1. k \in Nat /\ k =< low  BY <1>2, <1>5
    <2>2. /\ longer \in Seq(Nat)
          /\ Ordered(log, k) => Ordered(longer, high) /\ (high = low => Ordered(longer, k))
      BY <1>6, <1>7, <2>1, LongerLog
    <2>3. CASE high = low  BY <1>1, <1>5, <2>2, <2>3
    <2>4. CASE high # low
      <3>1. m = high  BY <1>1, <2>4
      <3>. QED  BY <2>2, <3>1
    <2>. QED  BY <2>3, <2>4
  <1>9. taken' = [taken EXCEPT ![s] = longer]  BY <1>5, <1>7
  <1>10. /\ taken' \in [Sources -> Seq(Nat)] /\ taken'[s] = longer
         /\ \A x \in Sources : x # s => taken'[x] = taken[x]
    BY <1>6, <1>8, <1>9
  <1>11. ASSUME "Fills" \in Sources
         PROVE  Ordered(taken'["Fills"], last'["Fills"])
    <2>1. Ordered(taken["Fills"], last["Fills"]) /\ known["Fills"] = last["Fills"]
      BY <1>11 DEF TakenOK
    <2>2. CASE s = "Fills"
      <3>1. Ordered(log, k)  BY <1>5, <2>1, <2>2
      <3>2. taken'["Fills"] = longer /\ last'["Fills"] = m  BY <1>3, <1>4, <1>10, <2>2
      <3>. QED  BY <1>8, <3>1, <3>2
    <2>3. CASE s # "Fills"
      <3>1. taken'["Fills"] = taken["Fills"]  BY <1>10, <1>11, <2>3
      <3>2. last'["Fills"] = last["Fills"]  BY <1>3, <1>4, <1>11, <2>1, <2>3
      <3>. QED  BY <2>1, <3>1, <3>2
    <2>. QED  BY <2>2, <2>3
  <1>. QED  BY <1>4, <1>10, <1>11 DEF TakenOK

\* What a step of the loop leaves.
TurnDone(c, b) ==
    /\ CursorsIn(cursors', disk) /\ FewCursors(cursors')
    /\ PathsOK(paths', created', DOMAIN disk) /\ WakePending'
    /\ TakenOK(last', taken')
    /\ b => fenced'
    /\ fenced' \/ OnlyDrained(c, cursors')

LEMMA ReadDone ==
    ASSUME IInv, NEW c, NEW r, NEW f \in DOMAIN disk, NEW b \in BOOLEAN, Ready(c, r, f, b),
           NEW q, DirtyOK(q, DOMAIN disk, FALSE), ReadSucceeds(r, f, q, b)
    PROVE  TurnDone(c, b)
  <1>1. PICK cur : cur = r[f]  OBVIOUS
  <1>2. PICK end : end = Min({cur.offset + TurnBytes, disk[f].len})  OBVIOUS
  <1>3. PICK a : a = cur.offset \div 2 + 1  OBVIOUS
  <1>4. PICK z : z = end \div 2  OBVIOUS
  <1>5. PICK broken \in BOOLEAN : broken = (a =< z /\ 2 * (a - 1) < cur.from)  OBVIOUS
  <1>6. PICK known : known = IF b THEN AfterFence(last) ELSE last  OBVIOUS
  <1>7. PICK low, high : /\ low = Max({disk[f].start + a - 1, known[f[1]]})
                         /\ high = IF broken THEN low ELSE Max({disk[f].start + z, low})
    OBVIOUS
  <1>8. PICK now : now = [known EXCEPT ![f[1]] = IF high > low THEN high ELSE known[f[1]]]  OBVIOUS
  <1>9. /\ cursors' = Put(r, f, [cur EXCEPT !.offset = end])
        /\ taken' = [taken EXCEPT ![f[1]] = taken[f[1]] \o After(low, high)]
        /\ last' = IF broken THEN AfterFence(now) ELSE now
        /\ Fenced(b \/ broken)
        /\ Rewake(IF end > cur.offset THEN push(q, f, FALSE) ELSE q)
    BY <1>1, <1>2, <1>3, <1>4, <1>5, <1>6, <1>7, <1>8 DEF ReadSucceeds
  <1>10. /\ cur \in [offset : Nat, from : Nat] /\ cur.from =< cur.offset /\ cur.offset =< disk[f].len
         /\ cur.offset \in Nat /\ cur.from \in Nat
    BY <1>1 DEF Ready, CursorsIn
  <1>11. disk[f].len \in Nat /\ disk[f].start \in Nat /\ f \in Files /\ DiskOK(disk)
    BY DEF IInv, DiskOK
  <1>12. end \in Nat /\ cur.offset =< end /\ end =< disk[f].len
    <2>1. TurnBytes \in Nat /\ cur.offset + TurnBytes \in Nat  BY <1>10, IngestionAssumption
    <2>2. PICK u : u = cur.offset + TurnBytes  OBVIOUS
    <2>3. end \in {u, disk[f].len} /\ end =< u /\ end =< disk[f].len
      BY <1>2, <1>11, <2>1, <2>2, MinOfTwo
    <2>. QED  BY <1>10, <1>11, <2>1, <2>2, <2>3
  <1>13. CursorsIn(cursors', disk) /\ DOMAIN cursors' = DOMAIN r
    <2>1. PICK p : p = [cur EXCEPT !.offset = end]  OBVIOUS
    <2>2. Place(p, disk[f].len)
      <3>1. p \in [offset : Nat, from : Nat] /\ p.offset = end /\ p.from = cur.from
        BY <1>10, <1>12, <2>1
      <3>2. cur.from =< end  BY <1>10, <1>12
      <3>. QED  BY <1>12, <3>1, <3>2 DEF Place
    <2>3. CursorsIn(Put(r, f, p), disk) /\ DOMAIN Put(r, f, p) = DOMAIN r \cup {f}
      BY <2>2, PutOK DEF Ready
    <2>. QED  BY <1>9, <2>1, <2>3 DEF Ready
  <1>14. FewCursors(cursors')  BY <1>13 DEF FewCursors, Ready
  <1>15. PathsOK(paths', created', DOMAIN disk) /\ WakePending'
    <2>1. PICK D : D = DOMAIN disk  OBVIOUS
    <2>2. DirtyOK(push(q, f, FALSE), D, FALSE) /\ DirtyOK(q, D, FALSE)  BY <2>1, PushOK
    <2>3. PICK x : x = IF end > cur.offset THEN push(q, f, FALSE) ELSE q  OBVIOUS
    <2>4. DirtyOK(x, D, FALSE)  BY <2>2, <2>3
    <2>5. Rewake(x)  BY <1>9, <2>3
    <2>6. PathsOK(paths', created', D) /\ WakePending'  BY <2>4, <2>5, RewakeOK
    <2>. QED  BY <2>1, <2>6
  <1>16. TakenOK(last', taken')
    <2>1. PICK s : s = f[1]  OBVIOUS
    <2>2. s \in Sources  BY <1>11, <2>1, FileFacts
    <2>3. TakenOK(last, taken) /\ last \in [Sources -> Nat]  BY DEF IInv, TakenOK
    <2>4. known \in [Sources -> Nat] /\ ("Fills" \in Sources => known["Fills"] = last["Fills"])
      BY <1>6, <2>3, AfterFenceOK
    <2>5. PICK k, x, y : k = known[s] /\ x = disk[f].start + a - 1 /\ y = disk[f].start + z  OBVIOUS
    <2>6. k \in Nat  BY <2>2, <2>4, <2>5
    <2>7. x \in Nat /\ y \in Nat
      <3>1. PICK o, st : o = cur.offset /\ st = disk[f].start  OBVIOUS
      <3>2. o \in Nat /\ st \in Nat /\ a = o \div 2 + 1 /\ x = st + a - 1 /\ y = st + z
        BY <1>3, <1>10, <1>11, <2>5, <3>1
      <3>. QED  BY <1>4, <1>12, <3>2
    <2>8. low \in Nat /\ k =< low
      <3>1. low = Max({x, k})  BY <1>7, <2>1, <2>5
      <3>2. low \in {x, k} /\ low >= k  BY <2>6, <2>7, <3>1, MaxOfTwo
      <3>. QED  BY <2>6, <2>7, <3>2
    <2>9. high \in Nat /\ low =< high
      <3>1. high = IF broken THEN low ELSE Max({y, low})  BY <1>7, <2>5
      <3>2. Max({y, low}) \in {y, low} /\ Max({y, low}) >= low  BY <2>7, <2>8, MaxOfTwo
      <3>. QED  BY <2>7, <2>8, <3>1, <3>2
    <2>10. now = [known EXCEPT ![s] = IF high > low THEN high ELSE known[s]]  BY <1>8, <2>1
    <2>11. last' = now \/ last' = AfterFence(now)  BY <1>9
    <2>12. taken' = [taken EXCEPT ![s] = taken[s] \o After(low, high)]  BY <1>9, <2>1
    <2>. QED  BY <2>2, <2>3, <2>4, <2>5, <2>8, <2>9, <2>10, <2>11, <2>12, TakesOK
  <1>17. fenced' = (b \/ broken)  BY <1>9 DEF Fenced
  <1>18. fenced' \/ OnlyDrained(c, cursors')
    BY <1>13, <1>17 DEF Ready, OnlyDrained
  <1>. QED  BY <1>13, <1>14, <1>15, <1>16, <1>17, <1>18 DEF TurnDone

\* The other ends of a turn take nothing.
LEMMA NothingTaken ==
    ASSUME IInv, taken' = taken, last' = last \/ last' = AfterFence(last)
    PROVE  TakenOK(last', taken')
  <1>1. last \in [Sources -> Nat]  BY DEF IInv, TakenOK
  <1>2. last' \in [Sources -> Nat] /\ ("Fills" \in Sources => last'["Fills"] = last["Fills"])
    BY <1>1, AfterFenceOK
  <1>. QED  BY <1>2 DEF IInv, TakenOK

LEMMA FailDone ==
    ASSUME IInv, NEW c, NEW r, NEW f \in DOMAIN disk, NEW b, Ready(c, r, f, b),
           NEW q, DirtyOK(q, DOMAIN disk, FALSE), OpenFails(r, f, q) \/ ReadFails(r, f, q)
    PROVE  TurnDone(c, b)
  <1>1. fenced' = TRUE /\ last' = AfterFence(last) /\ Rewake(q) /\ taken' = taken
    BY DEF OpenFails, ReadFails, Fenced
  <1>2. CursorsIn(cursors', disk) /\ FewCursors(cursors')
    <2>1. CASE cursors' = Drop(r, {f})
      <3>1. PICK S : S = {f}  OBVIOUS
      <3>2. CursorsIn(Drop(r, S), disk) /\ FewCursors(Drop(r, S))  BY DropOK DEF Ready
      <3>. QED  BY <2>1, <3>1, <3>2
    <2>2. CASE cursors' = Put(r, f, open(f, TRUE))
      <3>1. PICK p : p = open(f, TRUE)  OBVIOUS
      <3>2. Place(p, disk[f].len)
        <4>1. PICK t : t = TRUE  OBVIOUS
        <4>2. Place(open(f, t), disk[f].len)  BY OpenOK DEF IInv
        <4>. QED  BY <3>1, <4>1, <4>2
      <3>3. CursorsIn(Put(r, f, p), disk) /\ DOMAIN Put(r, f, p) = DOMAIN r \cup {f}
        BY <3>2, PutOK DEF Ready
      <3>4. DOMAIN cursors' = DOMAIN r  BY <2>2, <3>1, <3>3 DEF Ready
      <3>. QED  BY <2>2, <3>1, <3>3, <3>4 DEF FewCursors, Ready
    <2>. QED  BY <2>1, <2>2 DEF OpenFails, ReadFails
  <1>3. PathsOK(paths', created', DOMAIN disk) /\ WakePending'
    <2>1. PICK D : D = DOMAIN disk  OBVIOUS
    <2>2. PathsOK(paths', created', D) /\ WakePending'  BY <1>1, <2>1, RewakeOK
    <2>. QED  BY <2>1, <2>2
  <1>. QED  BY <1>1, <1>2, <1>3, NothingTaken DEF TurnDone

LEMMA WithoutFileDone ==
    ASSUME IInv, NEW c, NEW e, CursorsIn(e, disk), FewCursors(e), NEW q, DirtyOK(q, DOMAIN disk, FALSE),
           NEW did, NEW b, b => did, did \/ OnlyDrained(c, e), TurnWithoutFile(e, q, did)
    PROVE  TurnDone(c, b)
  <1>1. cursors' = e /\ fenced' = did /\ Rewake(q) /\ taken' = taken
        /\ (last' = last \/ last' = AfterFence(last))
    BY DEF TurnWithoutFile, Fenced
  <1>2. PathsOK(paths', created', DOMAIN disk) /\ WakePending'
    <2>1. PICK D : D = DOMAIN disk  OBVIOUS
    <2>2. PathsOK(paths', created', D) /\ WakePending'  BY <1>1, <2>1, RewakeOK
    <2>. QED  BY <2>1, <2>2
  <1>3. TakenOK(last', taken')  BY <1>1, NothingTaken
  <1>. QED  BY <1>1, <1>2, <1>3 DEF TurnDone

\* Taking the next path off the queue.
LEMMA NextPath ==
    ASSUME IInv, paths # <<>>, NEW f, f = Head(paths), NEW q,
           q = [paths |-> Tail(paths), created |-> Drop(created, {f}), overflow |-> FALSE]
    PROVE  f \in DOMAIN disk /\ DirtyOK(q, DOMAIN disk, FALSE)
  <1>1. PICK D, p, n : D = DOMAIN disk /\ p = paths /\ n = Len(paths)  OBVIOUS
  <1>2. /\ p \in Seq(D) /\ DOMAIN created = {p[i] : i \in 1..n} /\ n =< DirtyLimit
        /\ \A i, j \in 1..n : p[i] = p[j] => i = j
    BY <1>1 DEF IInv, PathsOK
  <1>3. PICK t : t = Tail(p)  OBVIOUS
  <1>4. /\ n \in Nat \ {0} /\ t \in Seq(D) /\ Len(t) = n - 1 /\ f = p[1] /\ p[1] \in D
        /\ \A i \in 1..(n - 1) : t[i] = p[i + 1] /\ i + 1 \in 1..n
    BY <1>1, <1>2, <1>3
  <1>5. PICK c : c = Drop(created, {f})  OBVIOUS
  <1>6. DOMAIN c = DOMAIN created \ {f}  BY <1>5 DEF Drop
  <1>7. \A i, j \in 1..(n - 1) : t[i] = t[j] => i = j
    <2>. SUFFICES ASSUME NEW i \in 1..(n - 1), NEW j \in 1..(n - 1), t[i] = t[j] PROVE i = j
      OBVIOUS
    <2>1. i + 1 = j + 1  BY <1>2, <1>4
    <2>. QED  BY <1>4, <2>1
  <1>8. DOMAIN c = {t[i] : i \in 1..(n - 1)}
    <2>1. ASSUME NEW x \in DOMAIN c PROVE x \in {t[i] : i \in 1..(n - 1)}
      <3>1. PICK i \in 1..n : x = p[i]  BY <1>2, <1>6, <2>1
      <3>2. i # 1  BY <1>4, <1>6, <3>1
      <3>3. i - 1 \in 1..(n - 1) /\ (i - 1) + 1 = i  BY <1>4, <3>2
      <3>4. t[i - 1] = x  BY <1>4, <3>1, <3>3
      <3>. QED  BY <3>3, <3>4
    <2>2. ASSUME NEW i \in 1..(n - 1) PROVE t[i] \in DOMAIN c
      <3>1. t[i] = p[i + 1] /\ i + 1 \in 1..n /\ 1 \in 1..n /\ i + 1 # 1  BY <1>4
      <3>2. p[i + 1] # p[1]  BY <1>2, <3>1
      <3>. QED  BY <1>2, <1>4, <1>6, <3>1, <3>2
    <2>. QED  BY <2>1, <2>2
  <1>9. Len(t) =< DirtyLimit  BY <1>2, <1>4, IngestionAssumption
  <1>10. PathsOK(t, c, D)  BY <1>4, <1>7, <1>8, <1>9 DEF PathsOK
  <1>11. q.paths = t /\ q.created = c /\ q.overflow = FALSE  BY <1>1, <1>3, <1>5
  <1>. QED  BY <1>1, <1>4, <1>10, <1>11 DEF DirtyOK

LEMMA TurnOK ==
    ASSUME IInv, Turn
    PROVE  TurnDone(cursors, FALSE)
  <1>1. PICK c : c = IF overflow THEN NoMap ELSE cursors  OBVIOUS
  <1>2. PICK f : f = Head(paths)  OBVIOUS
  <1>3. PICK q : q = [paths |-> Tail(paths), created |-> Drop(created, {f}), overflow |-> FALSE]  OBVIOUS
  <1>4. PICK over \in BOOLEAN : over <=> overflow
    <2>1. CASE overflow  BY <2>1
    <2>2. CASE ~overflow  BY <2>2
    <2>. QED  BY <2>1, <2>2
  <1>5. CursorsIn(c, disk) /\ FewCursors(c)
    <2>1. PICK d : d = disk  OBVIOUS
    <2>2. CursorsIn(NoMap, d) /\ FewCursors(NoMap)  BY NoMapOK
    <2>. QED  BY <1>1, <2>1, <2>2 DEF IInv
  <1>6. over \/ c = cursors  BY <1>1, <1>4
  <1>7. ASSUME NEW b, TurnDone(c, b), over => b PROVE TurnDone(cursors, FALSE)
    <2>1. fenced' \/ OnlyDrained(cursors, cursors')  BY <1>6, <1>7 DEF TurnDone
    <2>. QED  BY <1>7, <2>1 DEF TurnDone
  <1>8. CASE paths = <<>> /\ TurnWithoutFile(c, [Dirty EXCEPT !.overflow = FALSE], overflow)
    <2>1. PICK r : r = [Dirty EXCEPT !.overflow = FALSE]  OBVIOUS
    <2>2. DirtyOK(r, DOMAIN disk, FALSE)
      <3>1. r = [paths |-> paths, created |-> created, overflow |-> FALSE]  BY <2>1 DEF Dirty
      <3>2. PathsOK(paths, created, DOMAIN disk)  BY DEF IInv
      <3>. QED  BY <3>1, <3>2 DEF DirtyOK
    <2>3. TurnWithoutFile(c, r, overflow)  BY <1>8, <2>1
    <2>4. OnlyDrained(c, c)  BY DEF OnlyDrained
    <2>5. over => overflow  BY <1>4
    <2>6. TurnDone(c, over)  BY <1>5, <2>2, <2>3, <2>4, <2>5, WithoutFileDone
    <2>. QED  BY <1>7, <2>6
  <1>9. CASE /\ paths # <<>> /\ ~Exists(f)
             /\ TurnWithoutFile(Drop(c, {f}), q, overflow \/ (f \in DOMAIN c /\ ~drained(c, f)))
    <2>1. PICK did : did = (overflow \/ (f \in DOMAIN c /\ ~drained(c, f)))  OBVIOUS
    <2>2. PICK S : S = {f}  OBVIOUS
    <2>3. PICK e : e = Drop(c, S)  OBVIOUS
    <2>4. CursorsIn(e, disk) /\ FewCursors(e)  BY <1>5, <2>3, DropOK
    <2>5. DOMAIN e = DOMAIN c \ {f}  BY <2>2, <2>3 DEF Drop
    <2>6. did \/ OnlyDrained(c, e)  BY <2>1, <2>5 DEF OnlyDrained
    <2>7. over => did  BY <1>4, <2>1
    <2>8. DirtyOK(q, DOMAIN disk, FALSE)  BY <1>2, <1>3, <1>9, NextPath
    <2>9. TurnWithoutFile(e, q, did)  BY <1>9, <2>1, <2>2, <2>3
    <2>10. TurnDone(c, over)  BY <2>4, <2>6, <2>7, <2>8, <2>9, WithoutFileDone
    <2>. QED  BY <1>7, <2>10
  <1>10. CASE paths # <<>> /\ TurnWithFile(c, f, created[f], q, overflow)
    <2>1. f \in DOMAIN disk /\ DirtyOK(q, DOMAIN disk, FALSE)  BY <1>2, <1>3, <1>10, NextPath
    <2>2. PICK new : new = created[f]  OBVIOUS
    <2>3. TurnWithFile(c, f, new, q, overflow) /\ DiskOK(disk)  BY <1>10, <2>2 DEF IInv
    <2>4. PICK r : \E b \in BOOLEAN :
              /\ Ready(c, r, f, b) /\ (overflow => b)
              /\ OpenFails(r, f, q) \/ ReadFails(r, f, q) \/ ReadSucceeds(r, f, q, b)
      BY <1>5, <2>1, <2>3, ReadyOK
    <2>5. PICK b \in BOOLEAN :
              /\ Ready(c, r, f, b) /\ (overflow => b)
              /\ OpenFails(r, f, q) \/ ReadFails(r, f, q) \/ ReadSucceeds(r, f, q, b)
      BY <2>4
    <2>6. TurnDone(c, b)
      <3>1. CASE OpenFails(r, f, q) \/ ReadFails(r, f, q)  BY <2>1, <2>5, <3>1, FailDone
      <3>2. CASE ReadSucceeds(r, f, q, b)  BY <2>1, <2>5, <3>2, ReadDone
      <3>. QED  BY <2>5, <3>1, <3>2
    <2>7. over => b  BY <1>4, <2>5
    <2>. QED  BY <1>7, <2>6, <2>7
  <1>. QED  BY <1>1, <1>2, <1>3, <1>8, <1>9, <1>10 DEF Turn

\* maintenance.tick() gives up only what is read up and re-queues the rest.
LEMMA MaintenanceOK ==
    ASSUME IInv, Maintenance
    PROVE  TurnDone(cursors, FALSE)
  <1>1. PICK kept : kept = Retained(cursors)  OBVIOUS
  <1>2. PICK aged \in SUBSET {f \in DOMAIN kept : Partial(kept, f)} :
           \E order \in SetToSeqs(Revisit(kept, aged)) :
              /\ cursors' = kept /\ SetDirty(PushAll(Dirty, order))
              /\ wake' = (wake \/ PushAll(Dirty, order).paths # <<>>)
              /\ UNCHANGED <<disk, last, taken, excused>>
    BY <1>1 DEF Maintenance
  <1>3. PICK order \in SetToSeqs(Revisit(kept, aged)) :
              /\ cursors' = kept /\ SetDirty(PushAll(Dirty, order))
              /\ wake' = (wake \/ PushAll(Dirty, order).paths # <<>>)
              /\ UNCHANGED <<disk, last, taken, excused>>
    BY <1>2
  <1>4. CursorsIn(kept, disk) /\ FewCursors(kept) /\ OnlyDrained(cursors, kept)
    BY <1>1, RetainedOK DEF IInv
  <1>5. PICK D : D = DOMAIN disk  OBVIOUS
  <1>6. Revisit(kept, aged) \subseteq D  BY <1>2, <1>4, <1>5 DEF Revisit, CursorsIn
  <1>7. PICK n : n = Cardinality(Revisit(kept, aged))  OBVIOUS
  <1>8. n \in Nat
    <2>1. Revisit(kept, aged) \subseteq DOMAIN kept  BY <1>2 DEF Revisit
    <2>2. IsFiniteSet(Revisit(kept, aged))  BY <1>4, <2>1, FS_Subset DEF FewCursors
    <2>. QED  BY <1>7, <2>2, FS_CardinalityType
  <1>9. order \in [1..n -> D]
    <2>1. order \in [1..n -> Revisit(kept, aged)]
      BY <1>3, <1>7 DEF SetToSeqs
    <2>. QED  BY <1>6, <2>1
  <1>10. PICK q : q = PushAll(Dirty, order)  OBVIOUS
  <1>11. DirtyOK(Dirty, D, wake)  BY <1>5, DirtyNow
  <1>12. DirtyOK(q, D, wake)  BY <1>8, <1>9, <1>10, <1>11, PushAllOK
  <1>13. paths' = q.paths /\ created' = q.created /\ overflow' = q.overflow
         /\ wake' = (wake \/ q.paths # <<>>)
    BY <1>3, <1>10 DEF SetDirty
  <1>14. PathsOK(paths', created', DOMAIN disk)  BY <1>5, <1>12, <1>13 DEF DirtyOK
  <1>15. WakePending'
    <2>1. q.overflow => wake \/ q.paths # <<>>  BY <1>12 DEF DirtyOK
    <2>. QED  BY <1>13, <2>1 DEF WakePending
  <1>16. taken' = taken /\ last' = last  BY <1>3
  <1>17. TakenOK(last', taken')  BY <1>16, NothingTaken
  <1>. QED  BY <1>3, <1>4, <1>14, <1>15, <1>17 DEF TurnDone

-----------------------------------------------------------------------------
(* The theorems *)

\* A step of the loop leaves the disk as it is.
LEMMA LoopOK ==
    ASSUME IInv, disk' = disk, TurnDone(cursors, FALSE)
    PROVE  IInv'
  <1>1. DiskOK(disk') /\ PathsOK(paths', created', DOMAIN disk') /\ CursorsIn(cursors', disk')
    BY DEF IInv, TurnDone
  <1>. QED  BY <1>1 DEF IInv, TurnDone

LEMMA IInitOK ==
    ASSUME IInit
    PROVE  IInv
  <1>1. DiskOK(disk)
    <2>1. \A s \in Sources : <<s, 1>> \in Files /\ <<s, 1>>[2] = 1
      BY IngestionAssumption DEF Files
    <2>. QED  BY <2>1 DEF IInit, DiskOK
  <1>2. PathsOK(paths, created, DOMAIN disk)
    <2>1. paths = <<>> /\ DOMAIN created = {}  BY DEF IInit, NoMap
    <2>. QED  BY <2>1, IngestionAssumption DEF PathsOK
  <1>3. WakePending  BY DEF IInit, WakePending
  <1>4. CursorsIn(cursors, disk) /\ FewCursors(cursors)
    <2>1. PICK d : d = disk  OBVIOUS
    <2>2. CursorsIn(NoMap, d) /\ FewCursors(NoMap)  BY NoMapOK
    <2>. QED  BY <2>1, <2>2 DEF IInit
  <1>5. TakenOK(last, taken)
    <2>1. PICK empty : empty = <<>>  OBVIOUS
    <2>2. last = [s \in Sources |-> 0] /\ taken = [s \in Sources |-> empty]  BY <2>1 DEF IInit
    <2>3. empty \in Seq(Nat) /\ Len(empty) = 0  BY <2>1
    <2>4. Ordered(empty, 0)  BY <2>3 DEF Ordered
    <2>. QED  BY <2>2, <2>3, <2>4 DEF TakenOK
  <1>. QED  BY <1>1, <1>2, <1>3, <1>4, <1>5 DEF IInv

\* Only a step of the loop changes the cursors or what is taken.
LEMMA IStepOK ==
    ASSUME IInv, INext
    PROVE  /\ IInv'
           /\ TurnDone(cursors, FALSE) \/ (cursors' = cursors /\ taken' = taken)
  <1>1. CASE \E s \in Sources : NodeAppends(s)
    <2>1. PICK s \in Sources : NodeAppends(s)  BY <1>1
    <2>2. cursors' = cursors /\ taken' = taken  BY <2>1 DEF NodeAppends
    <2>. QED  BY <2>1, <2>2, AppendsOK
  <1>2. CASE \E s \in Sources : NodeRotates(s)
    <2>1. PICK s \in Sources : NodeRotates(s)  BY <1>2
    <2>2. cursors' = cursors /\ taken' = taken  BY <2>1 DEF NodeRotates
    <2>. QED  BY <2>1, <2>2, RotatesOK
  <1>3. CASE \E f \in Files : FileRemoved(f)
    <2>1. PICK f \in Files : FileRemoved(f)  BY <1>3
    <2>2. cursors' = cursors /\ taken' = taken  BY <2>1 DEF FileRemoved
    <2>. QED  BY <2>1, <2>2, RemovedOK
  <1>4. CASE Turn
    <2>1. disk' = disk  BY <1>4 DEF Turn
    <2>. QED  BY <1>4, <2>1, TurnOK, LoopOK
  <1>5. CASE Maintenance
    <2>1. disk' = disk  BY <1>5 DEF Maintenance
    <2>. QED  BY <1>5, <2>1, MaintenanceOK, LoopOK
  <1>. QED  BY <1>1, <1>2, <1>3, <1>4, <1>5 DEF INext

LEMMA IInvHolds == ISpec => []IInv
  <1>1. IInit => IInv  BY IInitOK
  <1>2. ASSUME IInv, UNCHANGED ivars PROVE IInv'
    BY <1>2 DEF IInv, ivars, WakePending
  <1>3. IInv /\ [INext]_ivars => IInv'  BY <1>2, IStepOK
  <1>. QED  BY <1>1, <1>3, PTL DEF ISpec

\* A wake-up is pending whenever a path is queued or the overflow flag is up:
\* the Notify keeps one permit only, and every end of a turn and every push
\* of the watcher and of the maintenance tick leaves it right.
THEOREM WakeNeverLost == ISpec => []WakePending
  <1>1. IInv => WakePending  BY DEF IInv
  <1>. QED  BY <1>1, IInvHolds, PTL

\* DirtyFiles holds no more than dirty_files paths, and the loop no more than
\* that many cursors, however many files appear and whatever is evicted.
THEOREM DirtyFilesBounded == ISpec => []WithinDirtyLimit
  <1>1. IInv => WithinDirtyLimit  BY DEF IInv, WithinDirtyLimit, PathsOK, FewCursors
  <1>. QED  BY <1>1, IInvHolds, PTL

\* cursors.retain, evict_retired_cursor, removal and a full table never give
\* up a cursor with unread bytes or half a record without a fence.
THEOREM UnreadCursorKept == ISpec => NoUnreadCursorDropped
  <1>1. IInv /\ [INext]_ivars
          => [\A f \in DOMAIN cursors \ DOMAIN cursors' : fenced' \/ drained(cursors, f)]_ivars
    <2>. SUFFICES ASSUME IInv, INext
                  PROVE  \A f \in DOMAIN cursors \ DOMAIN cursors' : fenced' \/ drained(cursors, f)
      OBVIOUS
    <2>1. TurnDone(cursors, FALSE) \/ cursors' = cursors  BY IStepOK
    <2>. QED  BY <2>1 DEF TurnDone, OnlyDrained
  <1>. QED  BY <1>1, IInvHolds, PTL DEF ISpec, NoUnreadCursorDropped

\* No fill is published twice or out of order, although a fence makes the other
\* streams start again and re-opened files are read again.
THEOREM FillsNeverRepeat == ISpec => []FillsInOrder
  <1>1. ASSUME IInv PROVE FillsInOrder
    <2>. SUFFICES ASSUME "Fills" \in Sources PROVE FillsInOrder
      BY DEF FillsInOrder
    <2>1. PICK log : log = taken["Fills"]  OBVIOUS
    <2>2. log \in Seq(Nat) /\ Ordered(log, last["Fills"])  BY <1>1, <2>1 DEF IInv, TakenOK
    <2>3. DOMAIN log = 1..Len(log)  BY <2>2
    <2>. QED  BY <2>1, <2>2, <2>3 DEF FillsInOrder, Ordered
  <1>. QED  BY <1>1, IInvHolds, PTL

=============================================================================
