------------------------- MODULE Algorithms_proofs -------------------------
(***************************************************************************)
(* Proofs about the algorithms that MCAlgorithms runs side by side, and    *)
(* about Subscriptions, each for every value of its constants.             *)
(*                                                                         *)
(* L2Levels: each of the six views is the book's grouping by its steps,    *)
(* though it is aggregated from another view, and none promises more than  *)
(* the book has.  Trades: every subscription gets its coin's trades of the *)
(* block.  BatchQueues: the byte counters are exact, pop_cache loses no    *)
(* pair, and the deques with their loop implement PairingQueues.           *)
(* Subscriptions: a connection learns the coins of the book, and what it   *)
(* subscribes to has a view.                                               *)
(***************************************************************************)
EXTENDS L2Levels, Trades, BatchQueues, Subscriptions, SequenceTheorems, FiniteSetTheorems,
        WellFoundedInduction, TLAPS

-----------------------------------------------------------------------------
(* Induction, from the well-foundedness of the natural numbers *)

\* Every set of natural numbers that is not empty has a least element.
LEMMA LeastExists ==
    ASSUME NEW T \in SUBSET Nat, T # {}
    PROVE  \E n \in T : \A m \in T : n =< m
  <1>1. PICK R : R = OpToRel(<, Nat)  OBVIOUS
  <1>2. IsWellFoundedOn(R, Nat)  BY <1>1, NatLessThanWellFounded
  <1>3. PICK x \in T : \A y \in T : ~(<<y, x>> \in R)  BY <1>2, WFMin
  <1>4. R = {p \in Nat \X Nat : p[1] < p[2]}  BY <1>1 DEF OpToRel
  <1>5. ASSUME NEW y \in T PROVE x =< y
    <2>1. PICK p : p = <<y, x>>  OBVIOUS
    <2>2. p \in Nat \X Nat /\ p[1] = y /\ p[2] = x  BY <2>1
    <2>3. ~(p[1] < p[2])  BY <1>3, <1>4, <1>5, <2>1, <2>2
    <2>. QED  BY <2>2, <2>3
  <1>. QED  BY <1>5

\* A set of natural numbers with 0 and all successors is the whole of them.
LEMMA AllNaturals ==
    ASSUME NEW S \in SUBSET Nat, 0 \in S, \A n \in S : n + 1 \in S
    PROVE  \A n \in Nat : n \in S
  <1>. SUFFICES ASSUME Nat \ S # {} PROVE FALSE  OBVIOUS
  <1>1. PICK n \in Nat \ S : \A m \in Nat \ S : n =< m  BY LeastExists
  <1>2. n - 1 \in Nat  BY <1>1
  <1>3. n - 1 \in S  BY <1>1, <1>2
  <1>. QED  BY <1>1, <1>2, <1>3

\* A set of numbers up to n that is not empty has a greatest element.
LEMMA MaxFacts ==
    ASSUME NEW n \in Nat, NEW s \in SUBSET (1..n), s # {}
    PROVE  Max(s) \in s /\ \A y \in s : Max(s) >= y
  <1>1. PICK T : T = {n - y : y \in s}  OBVIOUS
  <1>2. T \in SUBSET Nat /\ T # {}
    <2>1. \A y \in s : y \in 1..n /\ n - y \in Nat  OBVIOUS
    <2>. QED  BY <1>1, <2>1
  <1>3. PICK m \in T : \A x \in T : m =< x  BY <1>2, LeastExists
  <1>4. PICK z \in s : m = n - z  BY <1>1, <1>3
  <1>5. ASSUME NEW y \in s PROVE z >= y
    <2>1. n - y \in T  BY <1>1
    <2>. QED  BY <1>3, <1>4, <2>1
  <1>. QED  BY <1>4, <1>5 DEF Max

-----------------------------------------------------------------------------
(* Folds over a sequence *)

\* g is the fold, from base, of the places in s, for every s of places up to n.
Folds(n, A, base, step, g) ==
    /\ g \in [SUBSET (1..n) -> A] /\ g[{}] = base
    /\ \A s \in SUBSET (1..n) : s # {} => g[s] = step[<<Max(s), g[s \ {Max(s)}]>>]

\* A fold over the places up to n is a function of the number of places folded.
LEMMA FoldFunctionExists ==
    ASSUME NEW n \in Nat, NEW A, NEW base \in A, NEW step \in [(1..n) \X A -> A]
    PROVE  \E g : Folds(n, A, base, step, g)
  <1>1. PICK K : K = {k \in Nat : k =< n => \E g : Folds(k, A, base, step, g)}  OBVIOUS
  <1>2. 0 \in K
    <2>1. PICK g : g = [s \in SUBSET (1..0) |-> base]  OBVIOUS
    <2>2. \A s \in SUBSET (1..0) : s = {}  OBVIOUS
    <2>3. Folds(0, A, base, step, g)  BY <2>1, <2>2 DEF Folds
    <2>. QED  BY <1>1, <2>3
  <1>3. ASSUME NEW k \in K PROVE k + 1 \in K
    <2>1. k \in Nat  BY <1>1
    <2>. SUFFICES ASSUME k + 1 =< n PROVE \E g : Folds(k + 1, A, base, step, g)
      BY <1>1, <2>1
    <2>2. PICK g : Folds(k, A, base, step, g)  BY <1>1, <2>1
    <2>3. PICK m : m = k + 1  OBVIOUS
    <2>4. m \in 1..n /\ m \in Nat /\ m \notin 1..k  BY <2>1, <2>3
    <2>5. \A s \in SUBSET (1..m) : s \ {m} \in SUBSET (1..k)  BY <2>1, <2>3
    <2>6. PICK f : f = [s \in SUBSET (1..m) |-> IF m \in s THEN step[<<m, g[s \ {m}]>>] ELSE g[s]]
      OBVIOUS
    <2>7. ASSUME NEW s \in SUBSET (1..k) PROVE f[s] = g[s] /\ s \in SUBSET (1..m)
      <3>1. s \in SUBSET (1..m) /\ m \notin s  BY <2>1, <2>3
      <3>. QED  BY <2>6, <3>1
    <2>8. f \in [SUBSET (1..m) -> A]
      <3>. SUFFICES ASSUME NEW s \in SUBSET (1..m) PROVE f[s] \in A  BY <2>6
      <3>1. CASE m \in s
        <4>1. g[s \ {m}] \in A  BY <2>2, <2>5 DEF Folds
        <4>2. <<m, g[s \ {m}]>> \in (1..n) \X A  BY <2>4, <4>1
        <4>3. step[<<m, g[s \ {m}]>>] \in A  BY <4>2
        <4>. QED  BY <2>6, <3>1, <4>3
      <3>2. CASE m \notin s
        <4>1. s \in SUBSET (1..k)  BY <2>5, <3>2
        <4>2. g[s] \in A  BY <2>2, <4>1 DEF Folds
        <4>. QED  BY <2>6, <3>2, <4>2
      <3>. QED  BY <3>1, <3>2
    <2>9. f[{}] = base
      <3>1. {} \in SUBSET (1..k)  OBVIOUS
      <3>. QED  BY <2>2, <2>7, <3>1 DEF Folds
    <2>10. ASSUME NEW s \in SUBSET (1..m), s # {} PROVE f[s] = step[<<Max(s), f[s \ {Max(s)}]>>]
      <3>1. Max(s) \in s /\ \A y \in s : Max(s) >= y  BY <2>4, <2>10, MaxFacts
      <3>2. CASE m \in s
        <4>1. Max(s) = m
          <5>1. PICK x : x = Max(s)  OBVIOUS
          <5>2. x \in 1..m /\ x >= m  BY <3>1, <3>2, <5>1
          <5>. QED  BY <2>4, <5>1, <5>2
        <4>2. f[s \ {m}] = g[s \ {m}]  BY <2>5, <2>7
        <4>. QED  BY <2>6, <3>2, <4>1, <4>2
      <3>3. CASE m \notin s
        <4>1. s \in SUBSET (1..k) /\ s \ {Max(s)} \in SUBSET (1..k)  BY <2>5, <3>3
        <4>2. f[s] = g[s] /\ f[s \ {Max(s)}] = g[s \ {Max(s)}]  BY <2>7, <4>1
        <4>3. g[s] = step[<<Max(s), g[s \ {Max(s)}]>>]  BY <2>2, <2>10, <4>1 DEF Folds
        <4>. QED  BY <4>2, <4>3
      <3>. QED  BY <3>2, <3>3
    <2>11. Folds(m, A, base, step, f)  BY <2>8, <2>9, <2>10 DEF Folds
    <2>. QED  BY <2>3, <2>11
  <1>4. K \in SUBSET Nat  BY <1>1
  <1>5. n \in K  BY <1>2, <1>3, <1>4, AllNaturals
  <1>. QED  BY <1>1, <1>5

\* The fold of the first k places goes on from that of the first k - 1.
LEMMA InitialSegment ==
    ASSUME NEW n \in Nat, NEW k \in 1..n
    PROVE  1..k \in SUBSET (1..n) /\ 1..k # {} /\ Max(1..k) = k /\ (1..k) \ {k} = 1..(k - 1)
  <1>1. k \in Nat /\ k \in 1..k  OBVIOUS
  <1>2. 1..k \in SUBSET (1..n) /\ 1..k \in SUBSET (1..k) /\ 1..k # {}  BY <1>1
  <1>3. Max(1..k) \in 1..k /\ \A y \in 1..k : Max(1..k) >= y  BY <1>1, <1>2, MaxFacts
  <1>4. PICK x : x = Max(1..k)  OBVIOUS
  <1>5. x = k  BY <1>1, <1>3, <1>4
  <1>6. (1..k) \ {k} = 1..(k - 1)  BY <1>1
  <1>. QED  BY <1>2, <1>4, <1>5, <1>6

-----------------------------------------------------------------------------
(* Sums over finite sets of places *)

\* g is the sum of f over every subset of S, as the fold computes it.
Sums(f, S, g) ==
    g = [s \in SUBSET S |-> IF s = {} THEN 0
                            ELSE f[CHOOSE x \in s : TRUE] + g[s \ {CHOOSE x \in s : TRUE}]]

\* A finite set without one of its elements has one less.
LEMMA SmallerSet ==
    ASSUME NEW S, IsFiniteSet(S), NEW s \in SUBSET S, NEW x \in s
    PROVE  /\ IsFiniteSet(s) /\ Cardinality(s) \in Nat /\ s \ {x} \in SUBSET S
           /\ Cardinality(s \ {x}) = Cardinality(s) - 1 /\ Cardinality(s \ {x}) \in Nat
  <1>1. IsFiniteSet(s)  BY FS_Subset
  <1>2. IsFiniteSet(s \ {x}) /\ Cardinality(s \ {x}) = Cardinality(s) - 1
    BY <1>1, FS_RemoveElement
  <1>3. Cardinality(s) \in Nat /\ Cardinality(s \ {x}) \in Nat  BY <1>1, <1>2, FS_CardinalityType
  <1>. QED  BY <1>1, <1>2, <1>3

\* The sums over the subsets of a finite set exist.
LEMMA SumsExist ==
    ASSUME NEW f, NEW S, IsFiniteSet(S)
    PROVE  \E g : Sums(f, S, g)
  <1>. DEFINE Small(k) == {s \in SUBSET S : Cardinality(s) =< k}
             first(s) == CHOOSE x \in s : TRUE
             Upto(k, g) == g = [s \in Small(k) |-> IF s = {} THEN 0 ELSE f[first(s)] + g[s \ {first(s)}]]
  <1>1. \A s \in SUBSET S : s # {} => first(s) \in s  OBVIOUS
  <1>2. \A s \in SUBSET S : Cardinality(s) \in Nat
    <2>. SUFFICES ASSUME NEW s \in SUBSET S PROVE Cardinality(s) \in Nat  OBVIOUS
    <2>1. IsFiniteSet(s)  BY FS_Subset
    <2>. QED  BY <2>1, FS_CardinalityType
  <1>3. ASSUME NEW s \in SUBSET S, s # {}
        PROVE  s \ {first(s)} \in SUBSET S /\ Cardinality(s \ {first(s)}) = Cardinality(s) - 1
    BY <1>1, <1>3, SmallerSet
  <1>. HIDE DEF first
  <1>4. PICK K : K = {k \in Nat : \E g : Upto(k, g)}  OBVIOUS
  <1>5. 0 \in K
    <2>1. PICK g : g = [s \in Small(0) |-> 0]  OBVIOUS
    <2>2. ASSUME NEW s \in Small(0) PROVE s = {}
      <3>1. IsFiniteSet(s) /\ Cardinality(s) = 0
        <4>1. IsFiniteSet(s)  BY FS_Subset
        <4>. QED  BY <1>2, <4>1
      <3>. QED  BY <3>1, FS_EmptySet
    <2>3. Upto(0, g)  BY <2>1, <2>2
    <2>. QED  BY <1>4, <2>3
  <1>6. ASSUME NEW k \in K PROVE k + 1 \in K
    <2>1. k \in Nat  BY <1>4
    <2>2. PICK g : Upto(k, g)  BY <1>4
    <2>3. PICK h : h = [s \in Small(k + 1) |->
                          IF s \in Small(k) THEN g[s] ELSE f[first(s)] + g[s \ {first(s)}]]
      OBVIOUS
    <2>4. \A s \in Small(k) : s \in Small(k + 1) /\ h[s] = g[s]
      <3>. SUFFICES ASSUME NEW s \in Small(k) PROVE s \in Small(k + 1)  BY <2>3
      <3>. QED  BY <1>2, <2>1
    <2>5. {} \in Small(k)
      <3>1. Cardinality({}) = 0  BY FS_EmptySet
      <3>. QED  BY <2>1, <3>1
    <2>6. ASSUME NEW s \in Small(k + 1), s # {} PROVE s \ {first(s)} \in Small(k)
      <3>1. PICK c : c = Cardinality(s)  OBVIOUS
      <3>2. c \in Nat /\ c =< k + 1 /\ s \ {first(s)} \in SUBSET S /\ Cardinality(s \ {first(s)}) = c - 1
        BY <1>2, <1>3, <2>6, <3>1
      <3>. QED  BY <2>1, <3>2
    <2>7. ASSUME NEW s \in Small(k + 1)
          PROVE  h[s] = IF s = {} THEN 0 ELSE f[first(s)] + h[s \ {first(s)}]
      <3>1. CASE s = {}
        <4>1. g[s] = 0  BY <2>2, <2>5, <3>1
        <4>. QED  BY <2>4, <2>5, <3>1, <4>1
      <3>2. CASE s # {}
        <4>1. h[s \ {first(s)}] = g[s \ {first(s)}]  BY <2>4, <2>6, <3>2
        <4>2. CASE s \in Small(k)
          <5>1. g[s] = f[first(s)] + g[s \ {first(s)}]  BY <2>2, <3>2, <4>2
          <5>. QED  BY <2>4, <3>2, <4>1, <4>2, <5>1
        <4>3. CASE s \notin Small(k)  BY <2>3, <3>2, <4>1, <4>3
        <4>. QED  BY <4>2, <4>3
      <3>. QED  BY <3>1, <3>2
    <2>8. Upto(k + 1, h)
      <3>1. PICK e : e = [s \in Small(k + 1) |-> IF s = {} THEN 0 ELSE f[first(s)] + h[s \ {first(s)}]]
        OBVIOUS
      <3>2. \A s \in Small(k + 1) : e[s] = h[s]  BY <2>7, <3>1
      <3>3. e = h  BY <2>3, <3>1, <3>2
      <3>. QED  BY <3>1, <3>3
    <2>. HIDE DEF Upto
    <2>9. \E e : Upto(k + 1, e)  BY <2>8
    <2>. QED  BY <1>4, <2>1, <2>9
  <1>7. K \in SUBSET Nat  BY <1>4
  <1>8. PICK n : n = Cardinality(S)  OBVIOUS
  <1>9. n \in Nat  BY <1>2, <1>8
  <1>10. n \in K  BY <1>5, <1>6, <1>7, <1>9, AllNaturals
  <1>11. PICK g : Upto(n, g)  BY <1>4, <1>10
  <1>12. Small(n) = SUBSET S
    <2>. SUFFICES ASSUME NEW s \in SUBSET S PROVE Cardinality(s) =< n  OBVIOUS
    <2>. QED  BY <1>8, FS_Subset
  <1>. QED  BY <1>11, <1>12 DEF Sums, first

\* The sum over a set is what the sums over the subsets of a larger set say.
LEMMA SumIs ==
    ASSUME NEW f, NEW U, IsFiniteSet(U), NEW g, Sums(f, U, g), NEW S \in SUBSET U
    PROVE  SumFunctionOnSet(f, S) = g[S]
  <1>. DEFINE first(s) == CHOOSE x \in s : TRUE
  <1>1. IsFiniteSet(S)  BY FS_Subset
  <1>2. PICK h : h = CHOOSE k : Sums(f, S, k)  OBVIOUS
  <1>3. Sums(f, S, h)  BY <1>1, <1>2, SumsExist
  <1>4. SumFunctionOnSet(f, S) = h[S]
    BY <1>2 DEF SumFunctionOnSet, FoldFunctionOnSet, MapThenFoldSet, Sums
  <1>5. PICK T : T = {Cardinality(s) : s \in {s \in SUBSET S : h[s] # g[s]}}  OBVIOUS
  <1>6. ASSUME NEW s \in SUBSET S PROVE Cardinality(s) \in Nat
    <2>1. IsFiniteSet(s)  BY <1>1, FS_Subset
    <2>. QED  BY <2>1, FS_CardinalityType
  <1>7. T \in SUBSET Nat  BY <1>5, <1>6
  <1>8. ASSUME T # {} PROVE FALSE
    <2>1. PICK c \in T : \A d \in T : c =< d  BY <1>7, <1>8, LeastExists
    <2>2. PICK s \in SUBSET S : h[s] # g[s] /\ c = Cardinality(s)  BY <1>5, <2>1
    <2>3. s \in SUBSET U  OBVIOUS
    <2>4. s # {}  BY <1>3, <2>2, <2>3 DEF Sums
    <2>5. first(s) \in s  BY <2>4
    <2>. HIDE DEF first
    <2>6. s \ {first(s)} \in SUBSET S /\ Cardinality(s \ {first(s)}) = c - 1 /\ c - 1 \in Nat
      BY <1>1, <2>2, <2>5, SmallerSet
    <2>7. h[s \ {first(s)}] = g[s \ {first(s)}]
      <3>. SUFFICES ASSUME h[s \ {first(s)}] # g[s \ {first(s)}] PROVE FALSE  OBVIOUS
      <3>1. c - 1 \in T  BY <1>5, <2>6
      <3>2. c =< c - 1 /\ c \in Nat  BY <1>7, <2>1, <3>1
      <3>. QED  BY <3>2
    <2>8. h[s] = f[first(s)] + h[s \ {first(s)}]  BY <1>3, <2>4 DEF Sums, first
    <2>9. g[s] = f[first(s)] + g[s \ {first(s)}]  BY <2>3, <2>4 DEF Sums, first
    <2>. QED  BY <2>2, <2>7, <2>8, <2>9
  <1>9. h[S] = g[S]
    <2>. SUFFICES ASSUME h[S] # g[S] PROVE FALSE  OBVIOUS
    <2>1. Cardinality(S) \in T  BY <1>5
    <2>. QED  BY <1>8, <2>1
  <1>. QED  BY <1>4, <1>9

\* g is a natural number everywhere, and any element may be taken out of it.
TakesOut(f, U, g) ==
    \A s \in SUBSET U : g[s] \in Nat /\ \A x \in s : g[s] = f[x] + g[s \ {x}]

\* A sum is that of any one element and of the others.
LEMMA SumsTakeOut ==
    ASSUME NEW U, IsFiniteSet(U), NEW f \in [U -> Nat], NEW g, Sums(f, U, g)
    PROVE  TakesOut(f, U, g)
  <1>. DEFINE first(s) == CHOOSE x \in s : TRUE
             Good(s) == g[s] \in Nat /\ \A x \in s : g[s] = f[x] + g[s \ {x}]
  <1>1. g[{}] = 0  BY DEF Sums
  <1>2. PICK T : T = {Cardinality(s) : s \in {s \in SUBSET U : ~Good(s)}}  OBVIOUS
  <1>3. ASSUME NEW s \in SUBSET U PROVE Cardinality(s) \in Nat
    <2>1. IsFiniteSet(s)  BY FS_Subset
    <2>. QED  BY <2>1, FS_CardinalityType
  <1>4. T \in SUBSET Nat  BY <1>2, <1>3
  <1>5. ASSUME T # {} PROVE FALSE
    <2>1. PICK c \in T : \A d \in T : c =< d  BY <1>4, <1>5, LeastExists
    <2>2. PICK s \in SUBSET U : ~Good(s) /\ c = Cardinality(s)
      <3>. HIDE DEF Good
      <3>. QED  BY <1>2, <2>1
    <2>3. s # {}  BY <1>1, <2>2
    <2>4. PICK y : y = first(s)  OBVIOUS
    <2>5. y \in s /\ g[s] = f[y] + g[s \ {y}]  BY <2>3, <2>4 DEF Sums
    <2>6. ASSUME NEW t \in SUBSET U, Cardinality(t) < c PROVE Good(t)
      <3>. SUFFICES ASSUME ~Good(t) PROVE FALSE  OBVIOUS
      <3>. HIDE DEF Good
      <3>1. PICK d : d = Cardinality(t)  OBVIOUS
      <3>2. d \in T /\ d < c  BY <1>2, <2>6, <3>1
      <3>3. c =< d /\ c \in Nat /\ d \in Nat  BY <1>4, <2>1, <3>2
      <3>. QED  BY <3>2, <3>3
    <2>7. ASSUME NEW x \in s PROVE s \ {x} \in SUBSET U /\ Good(s \ {x}) /\ f[x] \in Nat
      <3>1. s \ {x} \in SUBSET U /\ Cardinality(s \ {x}) = c - 1  BY <2>2, SmallerSet
      <3>2. x \in U  OBVIOUS
      <3>3. f[x] \in Nat  BY <3>2
      <3>4. Good(s \ {x})
        <4>1. c - 1 < c  BY <1>3, <2>2
        <4>. QED  BY <2>6, <3>1, <4>1
      <3>. QED  BY <3>1, <3>3, <3>4
    <2>8. g[s] \in Nat
      <3>1. g[s \ {y}] \in Nat /\ f[y] \in Nat  BY <2>5, <2>7
      <3>. QED  BY <2>5, <3>1
    <2>9. ASSUME NEW x \in s PROVE g[s] = f[x] + g[s \ {x}]
      <3>1. CASE x = y  BY <2>5, <3>1
      <3>2. CASE x # y
        <4>1. PICK r : r = (s \ {y}) \ {x}  OBVIOUS
        <4>2. r = (s \ {x}) \ {y} /\ x \in s \ {y} /\ y \in s \ {x}  BY <2>5, <3>2, <4>1
        <4>3. g[s \ {y}] = f[x] + g[r]  BY <2>5, <2>7, <4>1, <4>2
        <4>4. g[s \ {x}] = f[y] + g[r]  BY <2>7, <4>2
        <4>5. f[x] \in Nat /\ f[y] \in Nat  BY <2>5, <2>7
        <4>6. g[r] \in Nat
          <5>1. PICK t : t = s \ {y}  OBVIOUS
          <5>2. t \in SUBSET U /\ Cardinality(t) = c - 1 /\ c \in Nat
            BY <2>2, <2>5, <5>1, SmallerSet
          <5>3. r \in SUBSET U /\ Cardinality(r) = (c - 1) - 1
            <6>1. x \in t /\ r = t \ {x}  BY <4>1, <4>2, <5>1
            <6>2. t \ {x} \in SUBSET U /\ Cardinality(t \ {x}) = Cardinality(t) - 1
              BY <5>2, <6>1, SmallerSet
            <6>. QED  BY <5>2, <6>1, <6>2
          <5>4. (c - 1) - 1 < c  BY <5>2
          <5>. QED  BY <2>6, <5>3, <5>4
        <4>. QED  BY <2>5, <4>3, <4>4, <4>5, <4>6
      <3>. QED  BY <3>1, <3>2
    <2>. QED  BY <2>2, <2>8, <2>9
  <1>6. ASSUME NEW s \in SUBSET U PROVE Good(s)
    <2>. SUFFICES ASSUME ~Good(s) PROVE FALSE  OBVIOUS
    <2>. HIDE DEF Good
    <2>1. Cardinality(s) \in T  BY <1>2
    <2>. QED  BY <1>5, <2>1
  <1>. QED  BY <1>6 DEF TakesOut

\* The set s is r and the element x besides.
AddsOne(r, x, s) == x \in s /\ x \notin r /\ r = s \ {x}

\* What is used of the sums of f over sets of places up to n.
SumRules(n, f) ==
    /\ SumFunctionOnSet(f, {}) = 0
    /\ \A s \in SUBSET (1..n) : SumFunctionOnSet(f, s) \in Nat
    /\ \A r, s \in SUBSET (1..n), x \in 1..n :
          AddsOne(r, x, s) => SumFunctionOnSet(f, s) = f[x] + SumFunctionOnSet(f, r)

\* What a sum over places is, one place after the other.
LEMMA SumFacts ==
    ASSUME NEW n \in Nat, NEW f \in [1..n -> Nat]
    PROVE  SumRules(n, f)
  <1>1. PICK U : U = 1..n  OBVIOUS
  <1>2. IsFiniteSet(U)  BY <1>1, FS_Interval
  <1>3. PICK g : Sums(f, U, g)  BY <1>2, SumsExist
  <1>4. f \in [U -> Nat]  BY <1>1
  <1>5. g[{}] = 0  BY <1>3 DEF Sums
  <1>6. \A s \in SUBSET U : SumFunctionOnSet(f, s) = g[s]  BY <1>2, <1>3, SumIs
  <1>7. TakesOut(f, U, g)  BY <1>2, <1>3, <1>4, SumsTakeOut
  <1>8. SumFunctionOnSet(f, {}) = 0
    <2>1. {} \in SUBSET U  OBVIOUS
    <2>. QED  BY <1>5, <1>6, <2>1
  <1>9. ASSUME NEW s \in SUBSET U PROVE SumFunctionOnSet(f, s) \in Nat
    BY <1>6, <1>7 DEF TakesOut
  <1>10. ASSUME NEW r \in SUBSET U, NEW s \in SUBSET U, NEW x \in U, AddsOne(r, x, s)
         PROVE  SumFunctionOnSet(f, s) = f[x] + SumFunctionOnSet(f, r)
    <2>1. SumFunctionOnSet(f, s) = g[s] /\ SumFunctionOnSet(f, r) = g[r]  BY <1>6
    <2>2. g[s] = f[x] + g[r]  BY <1>7, <1>10 DEF TakesOut, AddsOne
    <2>. QED  BY <2>1, <2>2
  <1>. QED  BY <1>1, <1>8, <1>9, <1>10 DEF SumRules

\* The set c is the union of a and b, which have nothing in common.
Splits(a, b, c) == a \cap b = {} /\ c = a \union b

\* The sum over two sets that have nothing in common.
LEMMA SumUnion ==
    ASSUME NEW n \in Nat, NEW f \in [1..n -> Nat],
           NEW a \in SUBSET (1..n), NEW b \in SUBSET (1..n), NEW c, Splits(a, b, c)
    PROVE  SumFunctionOnSet(f, c) = SumFunctionOnSet(f, a) + SumFunctionOnSet(f, b)
  <1>. DEFINE sum(S) == SumFunctionOnSet(f, S)
             Adds(t) == sum(a \union t) = sum(a) + sum(t)
  <1>1. PICK U : U = 1..n  OBVIOUS
  <1>2. IsFiniteSet(U)  BY <1>1, FS_Interval
  <1>3. SumRules(n, f)  BY SumFacts
  <1>4. sum({}) = 0 /\ \A S \in SUBSET U : sum(S) \in Nat  BY <1>1, <1>3 DEF SumRules
  <1>5. \A r, s \in SUBSET U, x \in U : AddsOne(r, x, s) => sum(s) = f[x] + sum(r)
    <2>. SUFFICES ASSUME NEW r \in SUBSET U, NEW s \in SUBSET U, NEW x \in U, AddsOne(r, x, s)
                  PROVE  SumFunctionOnSet(f, s) = f[x] + SumFunctionOnSet(f, r)
      OBVIOUS
    <2>1. PICK m : m = n  OBVIOUS
    <2>2. SumRules(m, f) /\ U = 1..m  BY <1>1, <1>3, <2>1
    <2>3. \A q, t \in SUBSET U, y \in U :
             AddsOne(q, y, t) => SumFunctionOnSet(f, t) = f[y] + SumFunctionOnSet(f, q)
      <3>. HIDE <1>3
      <3>. QED  BY <2>2 DEF SumRules
    <2>. QED  BY <2>3
  <1>. HIDE DEF sum
  <1>6. PICK T : T = {Cardinality(t) : t \in {t \in SUBSET b : ~Adds(t)}}  OBVIOUS
  <1>7. ASSUME NEW t \in SUBSET b PROVE Cardinality(t) \in Nat /\ t \in SUBSET U
    <2>1. t \in SUBSET U  BY <1>1
    <2>2. IsFiniteSet(t)  BY <1>2, <2>1, FS_Subset
    <2>. QED  BY <2>1, <2>2, FS_CardinalityType
  <1>8. T \in SUBSET Nat  BY <1>6, <1>7
  <1>9. ASSUME T # {} PROVE FALSE
    <2>1. PICK k \in T : \A d \in T : k =< d  BY <1>8, <1>9, LeastExists
    <2>2. PICK t \in SUBSET b : ~Adds(t) /\ k = Cardinality(t)
      <3>. HIDE DEF Adds
      <3>. QED  BY <1>6, <2>1
    <2>3. t # {}
      <3>. SUFFICES ASSUME t = {} PROVE FALSE  OBVIOUS
      <3>1. a \union t = a /\ sum(a) \in Nat  BY <1>1, <1>4
      <3>. QED  BY <1>4, <2>2, <3>1
    <2>4. PICK x : x \in t  BY <2>3
    <2>5. PICK r : r = t \ {x}  OBVIOUS
    <2>6. r \in SUBSET b /\ Cardinality(r) = k - 1 /\ k \in Nat
      <3>1. t \in SUBSET U  BY <1>7
      <3>2. Cardinality(r) = k - 1 /\ k \in Nat  BY <1>2, <2>2, <2>4, <2>5, <3>1, SmallerSet
      <3>. QED  BY <2>5, <3>2
    <2>7. Adds(r)
      <3>. SUFFICES ASSUME ~Adds(r) PROVE FALSE  OBVIOUS
      <3>. HIDE DEF Adds
      <3>1. k - 1 \in T  BY <1>6, <2>6
      <3>2. k =< k - 1  BY <2>1, <3>1
      <3>. QED  BY <2>6, <3>2
    <2>8. PICK v, w : v = a \union t /\ w = a \union r  OBVIOUS
    <2>9. x \in U /\ v \in SUBSET U /\ w \in SUBSET U /\ t \in SUBSET U /\ r \in SUBSET U
      BY <1>1, <2>4, <2>5, <2>8
    <2>10. AddsOne(r, x, t) /\ AddsOne(w, x, v)
      <3>1. x \notin a  BY <2>4 DEF Splits
      <3>. QED  BY <2>4, <2>5, <2>8, <3>1 DEF AddsOne
    <2>11. sum(v) = f[x] + sum(w)  BY <1>5, <2>9, <2>10
    <2>12. sum(t) = f[x] + sum(r)  BY <1>5, <2>9, <2>10
    <2>13. f[x] \in Nat /\ sum(a) \in Nat /\ sum(r) \in Nat  BY <1>1, <1>4, <2>9
    <2>14. sum(w) = sum(a) + sum(r) /\ sum(v) # sum(a) + sum(t)  BY <2>2, <2>7, <2>8
    <2>. QED  BY <2>11, <2>12, <2>13, <2>14
  <1>10. Adds(b)
    <2>. SUFFICES ASSUME ~Adds(b) PROVE FALSE  OBVIOUS
    <2>. HIDE DEF Adds
    <2>1. Cardinality(b) \in T  BY <1>6
    <2>. QED  BY <1>9, <2>1
  <1>. QED  BY <1>10 DEF sum, Splits

\* A sum of naturals over more places is not smaller.
LEMMA SumMonotone ==
    ASSUME NEW n \in Nat, NEW f \in [1..n -> Nat], NEW c \in SUBSET (1..n), NEW a \in SUBSET c
    PROVE  SumFunctionOnSet(f, a) =< SumFunctionOnSet(f, c)
  <1>1. PICK b : b = c \ a  OBVIOUS
  <1>2. a \in SUBSET (1..n) /\ b \in SUBSET (1..n) /\ Splits(a, b, c)  BY <1>1 DEF Splits
  <1>3. SumFunctionOnSet(f, c) = SumFunctionOnSet(f, a) + SumFunctionOnSet(f, b)
    BY <1>2, SumUnion
  <1>4. SumFunctionOnSet(f, a) \in Nat /\ SumFunctionOnSet(f, b) \in Nat
    BY <1>2, SumFacts DEF SumRules
  <1>. QED  BY <1>3, <1>4

-----------------------------------------------------------------------------
(* Powers of ten and the number of digits *)

Powers(k, g) == g = [p \in 0..k |-> IF p = 0 THEN 1 ELSE 10 * g[p - 1]]

\* The powers of ten up to any exponent exist.
LEMMA PowersExist == \A k \in Nat : \E g : Powers(k, g)
  <1>1. PICK K : K = {k \in Nat : \E g : Powers(k, g)}  OBVIOUS
  <1>2. 0 \in K
    <2>1. PICK g : g = [p \in 0..0 |-> 1]  OBVIOUS
    <2>2. Powers(0, g)  BY <2>1 DEF Powers
    <2>. QED  BY <1>1, <2>2
  <1>3. ASSUME NEW k \in K PROVE k + 1 \in K
    <2>1. PICK g : Powers(k, g)  BY <1>1
    <2>2. k \in Nat  BY <1>1
    <2>3. PICK h : h = [p \in 0..(k + 1) |-> IF p = 0 THEN 1 ELSE 10 * g[p - 1]]  OBVIOUS
    <2>4. ASSUME NEW p \in 0..k PROVE h[p] = g[p]  BY <2>1, <2>2, <2>3 DEF Powers
    <2>5. ASSUME NEW p \in 0..(k + 1) PROVE h[p] = IF p = 0 THEN 1 ELSE 10 * h[p - 1]
      <3>1. CASE p = 0  BY <2>3, <3>1
      <3>2. CASE p # 0
        <4>1. p - 1 \in 0..k  BY <2>2, <3>2
        <4>. QED  BY <2>3, <2>4, <3>2, <4>1
      <3>. QED  BY <3>1, <3>2
    <2>6. PICK e : e = [p \in 0..(k + 1) |-> IF p = 0 THEN 1 ELSE 10 * h[p - 1]]  OBVIOUS
    <2>7. e = h  BY <2>3, <2>5, <2>6
    <2>8. Powers(k + 1, h)  BY <2>6, <2>7 DEF Powers
    <2>. QED  BY <1>1, <2>2, <2>8
  <1>. QED  BY <1>1, <1>2, <1>3, AllNaturals

\* Each power of ten is ten times the one before.
LEMMA PowerSteps ==
    /\ pow10[0] = 1
    /\ \A p \in 0..18 : pow10[p + 1] = 10 * pow10[p]
  <1>1. \E g : Powers(19, g)  BY PowersExist
  <1>2. Powers(19, pow10)  BY <1>1 DEF Powers, pow10
  <1>3. pow10[0] = 1  BY <1>2 DEF Powers
  <1>4. ASSUME NEW p \in 0..18 PROVE pow10[p + 1] = 10 * pow10[p]
    <2>1. p + 1 \in 0..19 /\ p + 1 # 0 /\ (p + 1) - 1 = p  OBVIOUS
    <2>. QED  BY <1>2, <2>1 DEF Powers
  <1>. QED  BY <1>3, <1>4

\* Powers of ten are positive.
LEMMA PowerType == \A p \in 0..19 : pow10[p] \in Nat \ {0}
  <1>1. PICK K : K = {k \in Nat : k =< 19 => pow10[k] \in Nat \ {0}}  OBVIOUS
  <1>2. 0 \in K  BY <1>1, PowerSteps
  <1>3. ASSUME NEW k \in K PROVE k + 1 \in K
    <2>1. k \in Nat  BY <1>1
    <2>2. CASE k + 1 =< 19
      <3>1. k =< 19 /\ k \in 0..18  BY <2>1, <2>2
      <3>2. pow10[k] \in Nat \ {0} /\ pow10[k + 1] = 10 * pow10[k]  BY <1>1, <3>1, PowerSteps
      <3>. QED  BY <1>1, <2>1, <3>2
    <2>3. CASE ~(k + 1 =< 19)  BY <1>1, <2>1, <2>3
    <2>. QED  BY <2>2, <2>3
  <1>4. K \in SUBSET Nat  BY <1>1
  <1>5. \A k \in Nat : k \in K  BY <1>2, <1>3, <1>4, AllNaturals
  <1>. QED  BY <1>1, <1>5

\* A greater exponent gives no smaller power.
LEMMA PowersGrow == \A k \in 0..19, j \in 0..19 : j =< k => pow10[j] =< pow10[k]
  <1>1. PICK K : K = {k \in Nat : k =< 19 => \A j \in 0..k : pow10[j] =< pow10[k]}  OBVIOUS
  <1>2. 0 \in K  BY <1>1, PowerSteps
  <1>3. ASSUME NEW k \in K PROVE k + 1 \in K
    <2>1. k \in Nat  BY <1>1
    <2>. SUFFICES ASSUME k + 1 =< 19, NEW j \in 0..(k + 1) PROVE pow10[j] =< pow10[k + 1]
      BY <1>1, <2>1
    <2>2. k =< 19 /\ k \in 0..18 /\ k \in 0..19 /\ k + 1 \in 0..19 /\ j \in 0..19  BY <2>1
    <2>3. PICK u, v, w : u = pow10[j] /\ v = pow10[k] /\ w = pow10[k + 1]  OBVIOUS
    <2>4. u \in Nat /\ v \in Nat /\ w = 10 * v  BY <2>2, <2>3, PowerType, PowerSteps
    <2>5. CASE j = k + 1
      <3>1. pow10[k + 1] \in Nat  BY <2>2, PowerType
      <3>. QED  BY <2>5, <3>1
    <2>6. CASE j # k + 1
      <3>1. j \in 0..k  BY <2>1, <2>6
      <3>2. u =< v  BY <1>1, <2>2, <2>3, <3>1
      <3>. QED  BY <2>3, <2>4, <3>2
    <2>. QED  BY <2>5, <2>6
  <1>4. K \in SUBSET Nat  BY <1>1
  <1>5. \A k \in Nat : k \in K  BY <1>2, <1>3, <1>4, AllNaturals
  <1>. QED  BY <1>1, <1>5

\* The prices a view can show: up to the first of fifteen digits.
PriceRange == {p \in Nat : p =< pow10[14]}

Lo(d) == IF d = 1 THEN 0 ELSE pow10[d - 1]

Digits(p, d) == d \in 1..15 /\ Lo(d) =< p /\ p < pow10[d]

\* The least number of d digits; there is one of d + 1 digits behind those of d.
LEMMA LoFacts ==
    ASSUME NEW d \in 1..15
    PROVE  /\ Lo(d) \in Nat /\ pow10[d] \in Nat /\ Lo(d) =< pow10[14] /\ Lo(d + 1) = pow10[d]
           /\ (d > 1 => Lo(d) = pow10[d - 1])
           /\ (d =< 14 => pow10[d] =< pow10[14])
           /\ \A e \in 1..15 : d < e => pow10[d] =< Lo(e)
  <1>1. d \in 0..19 /\ d - 1 \in 0..19 /\ 14 \in 0..19 /\ d - 1 =< 14  OBVIOUS
  <1>2. pow10[d] \in Nat /\ pow10[d - 1] \in Nat /\ pow10[14] \in Nat  BY <1>1, PowerType
  <1>3. pow10[d - 1] =< pow10[14]  BY <1>1, PowersGrow
  <1>4. Lo(d) \in Nat /\ Lo(d) =< pow10[14]  BY <1>2, <1>3 DEF Lo
  <1>5. Lo(d + 1) = pow10[d]
    <2>1. d + 1 # 1 /\ (d + 1) - 1 = d  OBVIOUS
    <2>. QED  BY <2>1 DEF Lo
  <1>6. d > 1 => Lo(d) = pow10[d - 1]  BY DEF Lo
  <1>7. d =< 14 => pow10[d] =< pow10[14]  BY <1>1, PowersGrow
  <1>8. ASSUME NEW e \in 1..15, d < e PROVE pow10[d] =< Lo(e)
    <2>1. e - 1 \in 0..19 /\ d =< e - 1 /\ e # 1  BY <1>8
    <2>2. pow10[d] =< pow10[e - 1]  BY <1>1, <2>1, PowersGrow
    <2>. QED  BY <2>1, <2>2 DEF Lo
  <1>. QED  BY <1>2, <1>4, <1>5, <1>6, <1>7, <1>8

\* Every price has a number of digits.
LEMMA DigitsExist ==
    ASSUME NEW p \in PriceRange
    PROVE  \E d : Digits(p, d)
  <1>1. p \in Nat /\ p =< pow10[14]  BY DEF PriceRange
  <1>2. PICK T : T = {d \in 1..15 : p < pow10[d]}  OBVIOUS
  <1>3. p < pow10[15]
    <2>1. pow10[14 + 1] = 10 * pow10[14]  BY PowerSteps
    <2>2. 14 + 1 = 15 /\ pow10[14] \in Nat \ {0}  BY PowerType
    <2>. QED  BY <1>1, <2>1, <2>2
  <1>4. 15 \in T /\ T \in SUBSET Nat  BY <1>2, <1>3
  <1>5. PICK d \in T : \A e \in T : d =< e  BY <1>4, LeastExists
  <1>6. d \in 1..15 /\ p < pow10[d]  BY <1>2, <1>5
  <1>7. Lo(d) =< p
    <2>1. CASE d = 1  BY <1>1, <2>1 DEF Lo
    <2>2. CASE d # 1
      <3>1. d - 1 \in 1..15 /\ d - 1 \in 0..19  BY <1>6, <2>2
      <3>2. d - 1 \notin T
        <4>. SUFFICES ASSUME d - 1 \in T PROVE FALSE  OBVIOUS
        <4>1. d =< d - 1  BY <1>5
        <4>. QED  BY <1>6, <4>1
      <3>3. ~(p < pow10[d - 1])  BY <1>2, <3>1, <3>2
      <3>4. pow10[d - 1] \in Nat  BY <3>1, PowerType
      <3>. QED  BY <1>1, <2>2, <3>3, <3>4 DEF Lo
    <2>. QED  BY <2>1, <2>2
  <1>. QED  BY <1>6, <1>7 DEF Digits

\* A number has one number of digits.
LEMMA DigitsUnique ==
    ASSUME NEW p \in Nat, NEW d \in 1..19, NEW e \in 1..19,
           pow10[d - 1] =< p, p < pow10[d], pow10[e - 1] =< p, p < pow10[e]
    PROVE  d = e
  <1>1. d \in 0..19 /\ e \in 0..19 /\ d - 1 \in 0..19 /\ e - 1 \in 0..19  OBVIOUS
  <1>2. /\ pow10[d] \in Nat /\ pow10[e] \in Nat /\ pow10[d - 1] \in Nat /\ pow10[e - 1] \in Nat
    BY <1>1, PowerType
  <1>3. ASSUME d < e PROVE FALSE
    <2>1. d =< e - 1  BY <1>3
    <2>2. pow10[d] =< pow10[e - 1]  BY <1>1, <2>1, PowersGrow
    <2>. QED  BY <1>2, <2>2
  <1>4. ASSUME e < d PROVE FALSE
    <2>1. e =< d - 1  BY <1>4
    <2>2. pow10[e] =< pow10[d - 1]  BY <1>1, <2>1, PowersGrow
    <2>. QED  BY <1>2, <2>2
  <1>. QED  BY <1>3, <1>4

\* num_digits counts the digits; those of 0 are one.
LEMMA NumDigitsIs ==
    ASSUME NEW p \in Nat, NEW d, Digits(p, d)
    PROVE  num_digits(p) = d
  <1>1. d \in 1..15 /\ Lo(d) =< p /\ p < pow10[d]  BY DEF Digits
  <1>2. CASE p = 0
    <2>1. CASE d # 1
      <3>1. d - 1 \in 0..19  BY <1>1
      <3>2. pow10[d - 1] \in Nat \ {0}  BY <3>1, PowerType
      <3>. QED  BY <1>1, <1>2, <2>1, <3>2 DEF Lo
    <2>2. num_digits(p) = 1  BY <1>2 DEF num_digits
    <2>. QED  BY <2>1, <2>2
  <1>3. CASE p # 0
    <2>1. d \in 1..19 /\ pow10[d - 1] =< p
      <3>1. CASE d = 1
        <4>1. d - 1 = 0 /\ pow10[0] = 1  BY <3>1, PowerSteps
        <4>. QED  BY <1>1, <1>3, <4>1
      <3>. QED  BY <1>1, <3>1 DEF Lo
    <2>2. PICK e : e = num_digits(p)  OBVIOUS
    <2>3. e \in 1..19 /\ pow10[e - 1] =< p /\ p < pow10[e]
      BY <1>1, <1>3, <2>1, <2>2 DEF num_digits
    <2>4. d = e  BY <1>1, <2>1, <2>3, DigitsUnique
    <2>. QED  BY <2>2, <2>4
  <1>. QED  BY <1>2, <1>3

-----------------------------------------------------------------------------
(* Rounding a price to the buckets of a view *)

Divides(inc, x) == \E k \in Nat : x = k * inc

\* Of two multiples of inc, the greater is greater by inc at least.
LEMMA MultipleGap ==
    ASSUME NEW inc \in Nat \ {0}, NEW k \in Nat, NEW q \in Nat, k < q
    PROVE  k * inc + inc =< q * inc
  <1>1. PICK e \in Nat : q = k + 1 + e
    <2>1. q - k - 1 \in Nat /\ q = k + 1 + (q - k - 1)  OBVIOUS
    <2>. QED  BY <2>1
  <1>2. q * inc = k * inc + inc + e * inc  BY <1>1
  <1>3. e * inc \in Nat /\ k * inc \in Nat  BY <1>1
  <1>. QED  BY <1>2, <1>3

\* A smaller multiple is smaller by one step at least.
LEMMA MultipleLess ==
    ASSUME NEW inc \in Nat \ {0}, NEW k \in Nat, NEW q \in Nat, k * inc < q * inc
    PROVE  k * inc + inc =< q * inc
  <1>1. ASSUME q =< k PROVE FALSE
    <2>1. PICK e \in Nat : k = q + e
      <3>1. k - q \in Nat /\ k = q + (k - q)  BY <1>1
      <3>. QED  BY <3>1
    <2>2. k * inc = q * inc + e * inc  BY <2>1
    <2>3. e * inc \in Nat /\ q * inc \in Nat  BY <2>1
    <2>. QED  BY <2>2, <2>3
  <1>2. k < q  BY <1>1
  <1>. QED  BY <1>2, MultipleGap

\* r is at p or on the worse side of it.
AtOrWorse(s, r, p) == ~Better(s, r, p)

\* r is the first multiple of inc at p or worse, for the reader of side s.
Rounds(s, inc, p, r) ==
    /\ r \in Nat /\ Divides(inc, r) /\ AtOrWorse(s, r, p)
    /\ \A x \in Nat : Divides(inc, x) /\ AtOrWorse(s, x, p) => AtOrWorse(s, x, r)

\* Bids are rounded down to a multiple.
LEMMA RoundsDown ==
    ASSUME NEW inc \in Nat \ {0}, NEW p \in Nat
    PROVE  Rounds("Bid", inc, p, (p \div inc) * inc)
  <1>1. PICK q : q = p \div inc  OBVIOUS
  <1>2. PICK r : r = q * inc  OBVIOUS
  <1>3. q \in Nat /\ r \in Nat /\ r =< p /\ p < r + inc  BY <1>1, <1>2
  <1>4. Divides(inc, r)  BY <1>2, <1>3 DEF Divides
  <1>5. ASSUME NEW x \in Nat, Divides(inc, x), x =< p PROVE x =< r
    <2>1. PICK k \in Nat : x = k * inc  BY <1>5 DEF Divides
    <2>2. ASSUME r < x PROVE FALSE
      <3>1. q * inc + inc =< k * inc  BY <1>2, <1>3, <2>1, <2>2, MultipleLess
      <3>. QED  BY <1>2, <1>3, <1>5, <2>1, <3>1
    <2>. QED  BY <1>3, <2>2
  <1>6. Rounds("Bid", inc, p, r)  BY <1>3, <1>4, <1>5 DEF Rounds, AtOrWorse, Better
  <1>. QED  BY <1>1, <1>2, <1>6

\* Asks are rounded up to a multiple.
LEMMA RoundsUp ==
    ASSUME NEW inc \in Nat \ {0}, NEW p \in Nat
    PROVE  Rounds("Ask", inc, p, ((p + inc - 1) \div inc) * inc)
  <1>1. PICK q : q = (p + inc - 1) \div inc  OBVIOUS
  <1>2. PICK r : r = q * inc  OBVIOUS
  <1>3. p + inc - 1 \in Nat  OBVIOUS
  <1>4. q \in Nat /\ r \in Nat /\ r =< p + inc - 1 /\ p + inc - 1 < r + inc  BY <1>1, <1>2, <1>3
  <1>5. r >= p  BY <1>4
  <1>6. Divides(inc, r)  BY <1>2, <1>4 DEF Divides
  <1>7. ASSUME NEW x \in Nat, Divides(inc, x), p =< x PROVE r =< x
    <2>1. PICK k \in Nat : x = k * inc  BY <1>7 DEF Divides
    <2>2. ASSUME x < r PROVE FALSE
      <3>1. k * inc + inc =< q * inc  BY <1>2, <1>4, <2>1, <2>2, MultipleLess
      <3>2. x + inc =< r  BY <1>2, <2>1, <3>1
      <3>. QED  BY <1>4, <1>7, <3>2
    <2>. QED  BY <1>4, <2>2
  <1>8. Rounds("Ask", inc, p, r)  BY <1>4, <1>5, <1>6, <1>7 DEF Rounds, AtOrWorse, Better
  <1>. QED  BY <1>1, <1>2, <1>8

\* RoundTo rounds against the reader.
LEMMA RoundToRounds ==
    ASSUME NEW s \in {"Bid", "Ask"}, NEW p \in Nat, NEW inc \in Nat \ {0}
    PROVE  Rounds(s, inc, p, RoundTo(p, s, inc))
  <1>1. CASE s = "Ask"
    <2>1. RoundTo(p, s, inc) = ((p + inc - 1) \div inc) * inc  BY <1>1 DEF RoundTo
    <2>. QED  BY <1>1, <2>1, RoundsUp
  <1>2. CASE s = "Bid"
    <2>1. RoundTo(p, s, inc) = (p \div inc) * inc  BY <1>2 DEF RoundTo
    <2>. QED  BY <1>2, <2>1, RoundsDown
  <1>. QED  BY <1>1, <1>2

\* Only the multiples are not rounded.
LEMMA NotRounded ==
    ASSUME NEW s \in {"Bid", "Ask"}, NEW p \in Nat, NEW inc, NEW r, Rounds(s, inc, p, r)
    PROVE  r = p <=> Divides(inc, p)
  <1>1. ASSUME Divides(inc, p) PROVE r = p
    <2>1. AtOrWorse(s, p, p)  BY DEF AtOrWorse, Better
    <2>2. AtOrWorse(s, p, r) /\ AtOrWorse(s, r, p) /\ r \in Nat  BY <1>1, <2>1 DEF Rounds
    <2>. QED  BY <2>2 DEF AtOrWorse, Better
  <1>2. ASSUME r = p PROVE Divides(inc, p)  BY <1>2 DEF Rounds
  <1>. QED  BY <1>1, <1>2

-----------------------------------------------------------------------------
(* Grids: rounding by a step that depends on the number of digits *)

\* W[d] is the step of the prices of d digits; the bounds of these are steps.
Ladder(W) ==
    \A d \in 1..15 : W[d] \in Nat \ {0} /\ Divides(W[d], Lo(d)) /\ Divides(W[d], pow10[d])

\* A grid rounds every price to a price of its own, the first at it or worse.
IsGrid(s, b) ==
    /\ b \in [PriceRange -> PriceRange]
    /\ \A p \in PriceRange : AtOrWorse(s, b[p], p) /\ b[b[p]] = b[p]
    /\ \A p, x \in PriceRange : b[x] = x /\ AtOrWorse(s, x, p) => AtOrWorse(s, x, b[p])

RoundsBy(s, W, b) ==
    \A p \in PriceRange : \A d : Digits(p, d) => Rounds(s, W[d], p, b[p])

\* A rounded price is a price, and is not rounded further.
LEMMA LadderPrice ==
    ASSUME NEW s \in {"Bid", "Ask"}, NEW W, Ladder(W), NEW p \in PriceRange,
           NEW d, Digits(p, d), NEW r, Rounds(s, W[d], p, r)
    PROVE  r \in PriceRange /\ \E e : Digits(r, e) /\ Divides(W[e], r)
  <1>1. PICK inc, lo, hi, top : inc = W[d] /\ lo = Lo(d) /\ hi = pow10[d] /\ top = pow10[14]
    OBVIOUS
  <1>2. p \in Nat /\ p =< top /\ top \in Nat  BY <1>1, PowerType DEF PriceRange
  <1>3. d \in 1..15 /\ lo =< p /\ p < hi  BY <1>1 DEF Digits
  <1>4. /\ lo \in Nat /\ hi \in Nat /\ Divides(inc, lo) /\ Divides(inc, hi)
    BY <1>1, <1>3, LoFacts DEF Ladder
  <1>5. r \in Nat /\ Divides(inc, r)  BY <1>1 DEF Rounds
  <1>6. CASE s = "Bid"
    <2>1. r =< p  BY <1>2, <1>5, <1>6 DEF Rounds, AtOrWorse, Better
    <2>2. lo =< r
      <3>1. AtOrWorse(s, lo, p)  BY <1>2, <1>3, <1>4, <1>6 DEF AtOrWorse, Better
      <3>2. AtOrWorse(s, lo, r)  BY <1>1, <1>4, <3>1 DEF Rounds
      <3>. QED  BY <1>4, <1>5, <1>6, <3>2 DEF AtOrWorse, Better
    <2>3. r < hi /\ r =< top  BY <1>2, <1>3, <1>4, <1>5, <2>1
    <2>4. Digits(r, d)  BY <1>1, <1>3, <2>2, <2>3 DEF Digits
    <2>5. r \in PriceRange  BY <1>1, <1>5, <2>3 DEF PriceRange
    <2>. QED  BY <1>1, <1>5, <2>4, <2>5
  <1>7. CASE s = "Ask"
    <2>1. p =< r  BY <1>2, <1>5, <1>7 DEF Rounds, AtOrWorse, Better
    <2>2. r =< hi
      <3>1. AtOrWorse(s, hi, p)  BY <1>2, <1>3, <1>4, <1>7 DEF AtOrWorse, Better
      <3>2. AtOrWorse(s, hi, r)  BY <1>1, <1>4, <3>1 DEF Rounds
      <3>. QED  BY <1>4, <1>5, <1>7, <3>2 DEF AtOrWorse, Better
    <2>3. CASE d = 15
      <3>1. lo = top  BY <1>1, <2>3, LoFacts
      <3>2. p = lo  BY <1>2, <1>3, <1>4, <3>1
      <3>3. r = p  BY <1>1, <1>2, <1>4, <3>2, NotRounded
      <3>. QED  BY <1>1, <1>5, <3>3
    <2>4. CASE d # 15
      <3>1. d =< 14 /\ hi =< top  BY <1>1, <1>3, <2>4, LoFacts
      <3>2. r \in PriceRange  BY <1>1, <1>2, <1>4, <1>5, <2>2, <3>1 DEF PriceRange
      <3>3. CASE r < hi
        <4>1. Digits(r, d)  BY <1>1, <1>2, <1>3, <1>4, <1>5, <2>1, <3>3 DEF Digits
        <4>. QED  BY <1>1, <1>5, <3>2, <4>1
      <3>4. CASE ~(r < hi)
        <4>1. PICK e : e = d + 1  OBVIOUS
        <4>2. e \in 1..15 /\ d \in 0..18  BY <1>3, <3>1, <4>1
        <4>3. r = hi /\ hi = Lo(e)  BY <1>1, <1>3, <1>4, <1>5, <2>2, <3>4, <4>1, LoFacts
        <4>4. Divides(W[e], r)  BY <4>2, <4>3 DEF Ladder
        <4>5. pow10[e] = 10 * hi /\ hi > 0
          <5>1. pow10[d + 1] = 10 * pow10[d] /\ pow10[d] \in Nat \ {0}
            BY <4>2, PowerSteps, PowerType
          <5>. QED  BY <1>1, <4>1, <5>1
        <4>6. Digits(r, e)  BY <1>4, <4>2, <4>3, <4>5 DEF Digits
        <4>. QED  BY <3>2, <4>4, <4>6
      <3>. QED  BY <3>3, <3>4
    <2>. QED  BY <2>3, <2>4
  <1>. QED  BY <1>6, <1>7

\* Rounding by a ladder is a grid.
LEMMA LadderGrid ==
    ASSUME NEW s \in {"Bid", "Ask"}, NEW W, Ladder(W),
           NEW b, b = [p \in PriceRange |-> b[p]], RoundsBy(s, W, b)
    PROVE  IsGrid(s, b)
  <1>1. \A p \in PriceRange : p \in Nat  BY DEF PriceRange
  <1>2. ASSUME NEW p \in PriceRange PROVE b[p] \in PriceRange
    <2>1. PICK d : Digits(p, d)  BY DigitsExist
    <2>2. PICK r : r = b[p]  OBVIOUS
    <2>3. Rounds(s, W[d], p, r)  BY <2>1, <2>2 DEF RoundsBy
    <2>4. r \in PriceRange  BY <2>1, <2>3, LadderPrice
    <2>. QED  BY <2>2, <2>4
  <1>3. b \in [PriceRange -> PriceRange]  BY <1>2
  <1>4. ASSUME NEW p \in PriceRange PROVE AtOrWorse(s, b[p], p) /\ b[b[p]] = b[p]
    <2>1. PICK d : Digits(p, d)  BY DigitsExist
    <2>2. PICK r, q : r = b[p] /\ q = b[r]  OBVIOUS
    <2>3. Rounds(s, W[d], p, r)  BY <2>1, <2>2 DEF RoundsBy
    <2>4. AtOrWorse(s, r, p)  BY <2>3 DEF Rounds
    <2>5. r \in PriceRange  BY <1>2, <2>2
    <2>6. PICK e : Digits(r, e) /\ Divides(W[e], r)  BY <2>1, <2>3, LadderPrice
    <2>7. Rounds(s, W[e], r, q)  BY <2>2, <2>5, <2>6 DEF RoundsBy
    <2>8. q = r  BY <1>1, <2>5, <2>6, <2>7, NotRounded
    <2>. QED  BY <2>2, <2>4, <2>8
  <1>5. ASSUME NEW p \in PriceRange, NEW x \in PriceRange, b[x] = x, AtOrWorse(s, x, p)
        PROVE  AtOrWorse(s, x, b[p])
    <2>1. PICK d : Digits(p, d)  BY DigitsExist
    <2>2. PICK e : Digits(x, e)  BY DigitsExist
    <2>3. PICK r : r = b[p]  OBVIOUS
    <2>4. PICK inc, lo, hi : inc = W[d] /\ lo = Lo(d) /\ hi = pow10[d]  OBVIOUS
    <2>5. d \in 1..15 /\ lo =< p /\ p < hi  BY <2>1, <2>4 DEF Digits
    <2>6. e \in 1..15 /\ Lo(e) =< x /\ x < pow10[e]  BY <2>2 DEF Digits
    <2>7. p \in Nat /\ x \in Nat /\ Rounds(s, inc, p, r)
      BY <1>1, <2>1, <2>3, <2>4 DEF RoundsBy
    <2>8. Divides(W[e], x)
      <3>1. Rounds(s, W[e], x, x)  BY <1>5, <2>2 DEF RoundsBy
      <3>. QED  BY <3>1 DEF Rounds
    <2>9. /\ lo \in Nat /\ hi \in Nat /\ Divides(inc, lo) /\ Divides(inc, hi)
          /\ Lo(e) \in Nat /\ pow10[e] \in Nat
      BY <2>4, <2>5, <2>6, LoFacts DEF Ladder
    <2>10. r \in Nat  BY <2>7 DEF Rounds
    <2>11. CASE e = d  BY <1>5, <2>3, <2>4, <2>7, <2>8, <2>11 DEF Rounds
    <2>12. CASE e < d
      <3>1. pow10[e] =< lo  BY <2>4, <2>5, <2>6, <2>12, LoFacts
      <3>2. x < lo  BY <2>6, <2>7, <2>9, <3>1
      <3>3. CASE s = "Bid"
        <4>1. AtOrWorse(s, lo, p)  BY <2>5, <2>7, <2>9, <3>3 DEF AtOrWorse, Better
        <4>2. AtOrWorse(s, lo, r)  BY <2>7, <2>9, <4>1 DEF Rounds
        <4>. QED  BY <2>3, <2>7, <2>9, <2>10, <3>2, <3>3, <4>2 DEF AtOrWorse, Better
      <3>4. CASE s = "Ask"  BY <1>5, <2>5, <2>7, <2>9, <3>2, <3>4 DEF AtOrWorse, Better
      <3>. QED  BY <3>3, <3>4
    <2>13. CASE d < e
      <3>1. hi =< Lo(e)  BY <2>4, <2>5, <2>6, <2>13, LoFacts
      <3>2. hi =< x  BY <2>6, <2>7, <2>9, <3>1
      <3>3. CASE s = "Ask"
        <4>1. AtOrWorse(s, hi, p)  BY <2>5, <2>7, <2>9, <3>3 DEF AtOrWorse, Better
        <4>2. AtOrWorse(s, hi, r)  BY <2>7, <2>9, <4>1 DEF Rounds
        <4>. QED  BY <2>3, <2>7, <2>9, <2>10, <3>2, <3>3, <4>2 DEF AtOrWorse, Better
      <3>4. CASE s = "Bid"  BY <1>5, <2>5, <2>7, <2>9, <3>2, <3>4 DEF AtOrWorse, Better
      <3>. QED  BY <3>3, <3>4
    <2>. QED  BY <2>5, <2>6, <2>11, <2>12, <2>13
  <1>. QED  BY <1>3, <1>4, <1>5 DEF IsGrid

-----------------------------------------------------------------------------
(* The steps of the views *)

\* The six views.
InChain(n, m) ==
    \/ n = 5 /\ (m = 1 \/ m = 2 \/ m = 5)
    \/ (n = 4 \/ n = 3 \/ n = 2) /\ m = 1

\* The view (k, l) is aggregated from the view (n, m).
BuiltFrom(n, m, k, l) ==
    \/ n = 5 /\ m = 1 /\ k = 5 /\ (l = 2 \/ l = 5)
    \/ n = 5 /\ m = 5 /\ k = 4 /\ l = 1
    \/ n = 4 /\ m = 1 /\ k = 3 /\ l = 1
    \/ n = 3 /\ m = 1 /\ k = 2 /\ l = 1

Exp(n, d) == IF d > n THEN d - n ELSE 0

\* The widths of the buckets, and the steps of the view.
Own(n, m) == [d \in 1..15 |-> m * pow10[Exp(n, d)]]

Steps(n, m) == [d \in 1..15 |-> IF n < 5 /\ Exp(n, d) = Exp(5, d) THEN Own(5, 5)[d] ELSE Own(n, m)[d]]

\* A greater power of ten is a multiple of a smaller one, of its double and of
\* its fivefold.
LEMMA TenDivides ==
    ASSUME NEW m, m = 1 \/ m = 2 \/ m = 5, NEW j \in 0..19
    PROVE  \A k \in 0..19 : j < k => Divides(m * pow10[j], pow10[k])
  <1>1. PICK w : w = m * pow10[j]  OBVIOUS
  <1>2. PICK K : K = {k \in Nat : k =< 19 /\ j < k => Divides(w, pow10[k])}  OBVIOUS
  <1>3. 0 \in K  BY <1>2
  <1>4. ASSUME NEW k \in K PROVE k + 1 \in K
    <2>1. k \in Nat  BY <1>2
    <2>. SUFFICES ASSUME k + 1 =< 19, j < k + 1 PROVE Divides(w, pow10[k + 1])  BY <1>2, <2>1
    <2>2. k \in 0..18 /\ k \in 0..19  BY <2>1
    <2>3. pow10[k] \in Nat /\ pow10[k + 1] = 10 * pow10[k]  BY <2>2, PowerType, PowerSteps
    <2>4. CASE j < k
      <3>1. Divides(w, pow10[k])  BY <1>2, <2>2, <2>4
      <3>2. PICK q \in Nat : pow10[k] = q * w  BY <3>1 DEF Divides
      <3>3. w \in Nat  BY <1>1, PowerType
      <3>4. pow10[k + 1] = (10 * q) * w /\ 10 * q \in Nat  BY <2>3, <3>2, <3>3
      <3>. QED  BY <3>4 DEF Divides
    <2>5. CASE ~(j < k)
      <3>1. j = k  BY <2>1, <2>5
      <3>2. PICK z : z = pow10[k]  OBVIOUS
      <3>3. z \in Nat /\ pow10[k + 1] = 10 * z /\ w = m * z  BY <1>1, <2>3, <3>1, <3>2
      <3>4. PICK q \in Nat : q * m = 10 /\ m \in Nat
        <4>1. CASE m = 1
          <5>1. 10 \in Nat /\ 10 * m = 10  BY <4>1
          <5>. QED  BY <4>1, <5>1
        <4>2. CASE m = 2
          <5>1. 5 \in Nat /\ 5 * m = 10  BY <4>2
          <5>. QED  BY <4>2, <5>1
        <4>3. CASE m = 5
          <5>1. 2 \in Nat /\ 2 * m = 10  BY <4>3
          <5>. QED  BY <4>3, <5>1
        <4>. QED  BY <4>1, <4>2, <4>3
      <3>5. q * (m * z) = (q * m) * z  BY <3>3, <3>4
      <3>6. pow10[k + 1] = q * w  BY <3>3, <3>4, <3>5
      <3>. QED  BY <3>6 DEF Divides
    <2>. QED  BY <2>4, <2>5
  <1>5. K \in SUBSET Nat  BY <1>2
  <1>6. \A k \in Nat : k \in K  BY <1>3, <1>4, <1>5, AllNaturals
  <1>. QED  BY <1>1, <1>2, <1>6

\* The exponents of the widths, which grow from view to view.
LEMMA ExpFacts ==
    ASSUME NEW d \in 1..15, NEW n \in 2..5
    PROVE  /\ Exp(n, d) \in 0..19 /\ Exp(n, d) < d /\ (d > 1 => Exp(n, d) < d - 1)
           /\ \A k \in 2..n : Exp(n, d) =< Exp(k, d)
  BY DEF Exp

\* The powers of ten around a price are among the prices of a bucket.
LEMMA OwnLadder ==
    ASSUME NEW n, NEW m, InChain(n, m)
    PROVE  Ladder(Own(n, m))
  <1>1. n \in 2..5 /\ (m = 1 \/ m = 2 \/ m = 5)  BY DEF InChain
  <1>. SUFFICES ASSUME NEW d \in 1..15
                PROVE  LET w == Own(n, m)[d]
                       IN  w \in Nat \ {0} /\ Divides(w, Lo(d)) /\ Divides(w, pow10[d])
    BY DEF Ladder
  <1>2. PICK w, j : w = Own(n, m)[d] /\ j = Exp(n, d)  OBVIOUS
  <1>3. j \in 0..19 /\ j < d /\ (d > 1 => j < d - 1)  BY <1>1, <1>2, ExpFacts
  <1>4. w = m * pow10[j]  BY <1>2 DEF Own
  <1>5. w \in Nat \ {0}
    <2>1. pow10[j] \in Nat \ {0}  BY <1>3, PowerType
    <2>. QED  BY <1>1, <1>4, <2>1
  <1>6. Divides(w, pow10[d])
    <2>1. d \in 0..19  OBVIOUS
    <2>. QED  BY <1>1, <1>3, <1>4, <2>1, TenDivides
  <1>7. Divides(w, Lo(d))
    <2>1. CASE d = 1
      <3>1. Lo(d) = 0 * w /\ 0 \in Nat  BY <1>5, <2>1 DEF Lo
      <3>. QED  BY <3>1 DEF Divides
    <2>2. CASE d # 1
      <3>1. d - 1 \in 0..19 /\ j < d - 1  BY <1>3, <2>2
      <3>2. Divides(w, pow10[d - 1])  BY <1>1, <1>3, <1>4, <3>1, TenDivides
      <3>. QED  BY <2>2, <3>2 DEF Lo
    <2>. QED  BY <2>1, <2>2
  <1>. QED  BY <1>2, <1>5, <1>6, <1>7

\* The same of the prices of a view.
LEMMA StepsLadder ==
    ASSUME NEW n, NEW m, InChain(n, m)
    PROVE  Ladder(Steps(n, m))
  <1>1. InChain(5, 5)  BY DEF InChain
  <1>2. Ladder(Own(n, m)) /\ Ladder(Own(5, 5))  BY <1>1, OwnLadder
  <1>3. \A d \in 1..15 : Steps(n, m)[d] = Own(5, 5)[d] \/ Steps(n, m)[d] = Own(n, m)[d]
    BY DEF Steps
  <1>. QED  BY <1>2, <1>3 DEF Ladder

\* Increment is the width of the bucket.
LEMMA IncrementIs ==
    ASSUME NEW p \in Nat, NEW d, Digits(p, d), NEW n, NEW m
    PROVE  Increment(p, n, m) = Own(n, m)[d]
  <1>1. d \in 1..15 /\ num_digits(p) = d  BY NumDigitsIs DEF Digits
  <1>. QED  BY <1>1 DEF Increment, Own, Exp

\* The greater of two numbers.
LEMMA MaxOfPair ==
    ASSUME NEW x \in Nat, NEW y \in Nat
    PROVE  (x =< y => Max({x, y}) = y) /\ (y =< x => Max({x, y}) = x)
  <1>1. PICK z : z = Max({x, y})  OBVIOUS
  <1>2. \E u \in {x, y} : \A v \in {x, y} : u >= v
    <2>1. CASE x =< y  BY <2>1
    <2>2. CASE y =< x  BY <2>2
    <2>. QED  BY <2>1, <2>2
  <1>3. z \in {x, y} /\ z >= x /\ z >= y  BY <1>1, <1>2 DEF Max
  <1>. QED  BY <1>1, <1>3

\* Step is the step of the view.
LEMMA StepIs ==
    ASSUME NEW p \in Nat, NEW d, Digits(p, d), NEW n, NEW m, InChain(n, m)
    PROVE  Step(p, n, m) = Steps(n, m)[d]
  <1>1. d \in 1..15 /\ n \in 2..5  BY DEF Digits, InChain
  <1>2. Increment(p, n, m) = Own(n, m)[d] /\ Increment(p, 5, 5) = Own(5, 5)[d]  BY IncrementIs
  <1>3. CASE n = 5  BY <1>1, <1>2, <1>3 DEF Step, Steps
  <1>4. CASE n < 5
    <2>1. m = 1  BY <1>4 DEF InChain
    <2>2. PICK i, j : i = Exp(n, d) /\ j = Exp(5, d)  OBVIOUS
    <2>3. i \in 0..19 /\ j \in 0..19 /\ j =< i
      <3>1. n \in 2..5 /\ 5 \in 2..5  BY <1>1
      <3>. QED  BY <1>1, <2>2, <3>1, ExpFacts
    <2>4. PICK x, y : x = Own(n, m)[d] /\ y = Own(5, 5)[d]  OBVIOUS
    <2>5. x = pow10[i] /\ y = 5 * pow10[j] /\ pow10[i] \in Nat \ {0} /\ pow10[j] \in Nat \ {0}
      <3>1. x = 1 * pow10[i] /\ y = 5 * pow10[j]  BY <1>1, <2>1, <2>2, <2>4 DEF Own
      <3>2. pow10[i] \in Nat \ {0} /\ pow10[j] \in Nat \ {0}  BY <2>3, PowerType
      <3>. QED  BY <3>1, <3>2
    <2>6. Step(p, n, m) = Max({x, y})  BY <1>2, <1>4, <2>4 DEF Step
    <2>7. CASE i = j
      <3>1. x =< y /\ x \in Nat /\ y \in Nat  BY <2>5, <2>7
      <3>2. Max({x, y}) = y  BY <3>1, MaxOfPair
      <3>. QED  BY <1>1, <1>4, <2>2, <2>4, <2>6, <2>7, <3>2 DEF Steps
    <2>8. CASE i # j
      <3>1. Divides(y, pow10[i])  BY <2>3, <2>5, <2>8, TenDivides
      <3>2. PICK q \in Nat : x = q * y  BY <2>5, <3>1 DEF Divides
      <3>3. y =< x /\ x \in Nat /\ y \in Nat
        <4>1. q # 0 /\ y \in Nat  BY <2>5, <3>2
        <4>2. PICK e \in Nat : q = e + 1
          <5>1. q - 1 \in Nat /\ q = (q - 1) + 1  BY <4>1
          <5>. QED  BY <5>1
        <4>3. x = e * y + y /\ e * y \in Nat  BY <3>2, <4>1, <4>2
        <4>. QED  BY <2>5, <4>1, <4>3
      <3>4. Max({x, y}) = x  BY <3>3, MaxOfPair
      <3>. QED  BY <1>1, <2>2, <2>4, <2>6, <2>8, <3>4 DEF Steps
    <2>. QED  BY <2>7, <2>8
  <1>. QED  BY <1>1, <1>3, <1>4

GridOf(s, n, m) == [p \in PriceRange |-> RoundTo(p, s, Step(p, n, m))]

\* A view rounds by its steps.
LEMMA GridRounds ==
    ASSUME NEW s \in {"Bid", "Ask"}, NEW n, NEW m, InChain(n, m)
    PROVE  RoundsBy(s, Steps(n, m), GridOf(s, n, m))
  <1>. SUFFICES ASSUME NEW p \in PriceRange, NEW d, Digits(p, d)
                PROVE  Rounds(s, Steps(n, m)[d], p, GridOf(s, n, m)[p])
    BY DEF RoundsBy
  <1>1. p \in Nat /\ d \in 1..15  BY DEF PriceRange, Digits
  <1>2. PICK inc : inc = Steps(n, m)[d]  OBVIOUS
  <1>3. inc \in Nat \ {0}  BY <1>1, <1>2, StepsLadder DEF Ladder
  <1>4. GridOf(s, n, m)[p] = RoundTo(p, s, inc)  BY <1>1, <1>2, StepIs DEF GridOf
  <1>5. Rounds(s, inc, p, RoundTo(p, s, inc))  BY <1>1, <1>3, RoundToRounds
  <1>. QED  BY <1>2, <1>4, <1>5

\* The prices of a view are a grid.
LEMMA ViewsAreGrids ==
    ASSUME NEW s \in {"Bid", "Ask"}, NEW n, NEW m, InChain(n, m)
    PROVE  IsGrid(s, GridOf(s, n, m))
  <1>1. PICK b, W : b = GridOf(s, n, m) /\ W = Steps(n, m)  OBVIOUS
  <1>2. Ladder(W) /\ RoundsBy(s, W, b)  BY <1>1, StepsLadder, GridRounds
  <1>3. b = [p \in PriceRange |-> b[p]]  BY <1>1 DEF GridOf
  <1>4. IsGrid(s, b)  BY <1>2, <1>3, LadderGrid
  <1>. QED  BY <1>1, <1>4

\* A price's bucket rounds by the bucket's width, to a price of the range.
LEMMA BucketRounds ==
    ASSUME NEW s \in {"Bid", "Ask"}, NEW p \in PriceRange, NEW d, Digits(p, d),
           NEW n, NEW m, InChain(n, m)
    PROVE  Rounds(s, Own(n, m)[d], p, bucket(p, s, n, m)) /\ bucket(p, s, n, m) \in PriceRange
  <1>1. p \in Nat /\ d \in 1..15  BY DEF PriceRange, Digits
  <1>2. PICK W, inc, r : W = Own(n, m) /\ inc = W[d] /\ r = bucket(p, s, n, m)  OBVIOUS
  <1>3. Ladder(W)  BY <1>2, OwnLadder
  <1>4. inc \in Nat \ {0}  BY <1>1, <1>2, <1>3 DEF Ladder
  <1>5. r = RoundTo(p, s, inc)  BY <1>1, <1>2, IncrementIs DEF bucket
  <1>6. Rounds(s, W[d], p, r)  BY <1>1, <1>2, <1>4, <1>5, RoundToRounds
  <1>7. r \in PriceRange  BY <1>3, <1>6, LadderPrice
  <1>. QED  BY <1>2, <1>6, <1>7

\* At the prices of a, the buckets of the view (n, m) are its steps.
Agrees(s, a, n, m) ==
    \A p \in PriceRange : a[p] = p => bucket(p, s, n, m) = GridOf(s, n, m)[p]

\* Every price of the grid b is a price of the grid a.
Coarser(a, b) == \A p \in PriceRange : b[p] = p => a[p] = p

\* The first view is built from the book by its buckets, and so are the others of
\* five figures.
LEMMA FiveAgrees ==
    ASSUME NEW s, NEW a, NEW m
    PROVE  Agrees(s, a, 5, m)
  BY DEF Agrees, GridOf, Step, bucket

\* The steps of a view are multiples of those of the view it is built from.
LEMMA StepsMultiply ==
    ASSUME NEW n, NEW m, NEW k, NEW l, BuiltFrom(n, m, k, l), NEW d \in 1..15
    PROVE  Divides(Steps(n, m)[d], Steps(k, l)[d])
  <1>1. PICK h, i, j : h = Exp(5, d) /\ i = Exp(n, d) /\ j = Exp(k, d)  OBVIOUS
  <1>2. n \in 2..5 /\ k \in 2..5 /\ k =< n  BY DEF BuiltFrom
  <1>3. h \in 0..19 /\ i \in 0..19 /\ j \in 0..19 /\ h =< i /\ i =< j
    <2>1. 5 \in 2..5 /\ k \in 2..n /\ n \in 2..5  BY <1>2
    <2>. QED  BY <1>1, <1>2, <2>1, ExpFacts
  <1>4. PICK x, y, z : x = pow10[h] /\ y = pow10[i] /\ z = pow10[j]  OBVIOUS
  <1>5. x \in Nat \ {0} /\ y \in Nat \ {0} /\ z \in Nat \ {0}  BY <1>3, <1>4, PowerType
  <1>6. Own(5, 5)[d] = 5 * x /\ Own(n, m)[d] = m * y /\ Own(k, l)[d] = l * z
    BY <1>1, <1>4 DEF Own
  <1>7. CASE k = 5
    <2>1. n = 5 /\ m = 1 /\ (l = 2 \/ l = 5)  BY <1>7 DEF BuiltFrom
    <2>2. Steps(n, m)[d] = m * y /\ Steps(k, l)[d] = l * z  BY <1>6, <1>7, <2>1 DEF Steps
    <2>3. y = z /\ l * z = l * (m * y) /\ l \in Nat  BY <1>1, <1>4, <1>5, <1>7, <2>1
    <2>. QED  BY <2>2, <2>3 DEF Divides
  <1>8. CASE k # 5
    <2>1. k < 5 /\ l = 1  BY <1>2, <1>8 DEF BuiltFrom
    <2>2. CASE j = h
      <3>1. i = h  BY <1>3, <2>2
      <3>2. Steps(k, l)[d] = 5 * x  BY <1>1, <1>6, <2>1, <2>2 DEF Steps
      <3>3. Steps(n, m)[d] = 5 * x
        <4>1. CASE n = 5
          <5>1. m = 5  BY <1>8, <4>1 DEF BuiltFrom
          <5>2. Steps(n, m)[d] = Own(n, m)[d]  BY <4>1 DEF Steps
          <5>. QED  BY <1>6, <4>1, <5>1, <5>2
        <4>2. CASE n # 5
          <5>1. n < 5  BY <1>2, <4>2
          <5>. QED  BY <1>1, <1>6, <3>1, <5>1 DEF Steps
        <4>. QED  BY <4>1, <4>2
      <3>4. 5 * x = 1 * (5 * x) /\ 1 \in Nat  BY <1>5
      <3>. QED  BY <3>2, <3>3, <3>4 DEF Divides
    <2>3. CASE j # h
      <3>1. h < j  BY <1>3, <2>3
      <3>2. Steps(k, l)[d] = z
        <4>1. Steps(k, l)[d] = l * z  BY <1>1, <1>6, <2>3 DEF Steps
        <4>. QED  BY <1>5, <2>1, <4>1
      <3>3. Divides(5 * x, z)  BY <1>3, <1>4, <3>1, TenDivides
      <3>4. Steps(n, m)[d] = 5 * x \/ (Steps(n, m)[d] = m * y /\ m = 1)
        <4>1. CASE n = 5
          <5>1. m = 5  BY <1>8, <4>1 DEF BuiltFrom
          <5>2. Steps(n, m)[d] = Own(n, m)[d]  BY <4>1 DEF Steps
          <5>. QED  BY <1>6, <4>1, <5>1, <5>2
        <4>2. CASE n # 5
          <5>1. m = 1  BY <4>2 DEF BuiltFrom
          <5>. QED  BY <1>6, <5>1 DEF Steps
        <4>. QED  BY <4>1, <4>2
      <3>5. CASE Steps(n, m)[d] = 5 * x  BY <3>2, <3>3, <3>5
      <3>6. CASE Steps(n, m)[d] = m * y /\ m = 1
        <4>1. CASE i < j
          <5>1. Divides(m * y, z)  BY <1>3, <1>4, <3>6, <4>1, TenDivides
          <5>. QED  BY <3>2, <3>6, <5>1
        <4>2. CASE ~(i < j)
          <5>1. i = j  BY <1>3, <4>2
          <5>2. z = 1 * (m * y) /\ 1 \in Nat  BY <1>4, <1>5, <3>6, <5>1
          <5>. QED  BY <3>2, <3>6, <5>2 DEF Divides
        <4>. QED  BY <4>1, <4>2
      <3>. QED  BY <3>4, <3>5, <3>6
    <2>. QED  BY <2>2, <2>3
  <1>. QED  BY <1>7, <1>8

\* Hence its grid is coarser, and the bucket that build_l2_level takes of a price of
\* the view it is built from is its own price.
LEMMA BuiltViews ==
    ASSUME NEW s \in {"Bid", "Ask"}, NEW n, NEW m, NEW k, NEW l, BuiltFrom(n, m, k, l)
    PROVE  /\ InChain(n, m) /\ InChain(k, l)
           /\ Coarser(GridOf(s, n, m), GridOf(s, k, l))
           /\ Agrees(s, GridOf(s, n, m), k, l)
  <1>1. InChain(n, m) /\ InChain(k, l)  BY DEF InChain, BuiltFrom
  <1>2. PICK a, b : a = GridOf(s, n, m) /\ b = GridOf(s, k, l)  OBVIOUS
  <1>3. RoundsBy(s, Steps(n, m), a) /\ RoundsBy(s, Steps(k, l), b)  BY <1>1, <1>2, GridRounds
  <1>4. ASSUME NEW p \in PriceRange, b[p] = p PROVE a[p] = p
    <2>1. PICK d : Digits(p, d)  BY DigitsExist
    <2>2. p \in Nat /\ d \in 1..15  BY <2>1 DEF PriceRange, Digits
    <2>3. PICK v, w : v = Steps(n, m)[d] /\ w = Steps(k, l)[d]  OBVIOUS
    <2>4. Rounds(s, v, p, a[p]) /\ Rounds(s, w, p, b[p])  BY <1>3, <2>1, <2>3 DEF RoundsBy
    <2>5. Divides(w, p)  BY <1>4, <2>4 DEF Rounds
    <2>6. Divides(v, w)  BY <2>2, <2>3, StepsMultiply
    <2>7. v \in Nat  BY <1>1, <2>2, <2>3, StepsLadder DEF Ladder
    <2>8. PICK f \in Nat : w = f * v  BY <2>6 DEF Divides
    <2>9. PICK q \in Nat : p = q * w  BY <2>5 DEF Divides
    <2>10. p = (q * f) * v /\ q * f \in Nat  BY <2>7, <2>8, <2>9
    <2>11. Divides(v, p)  BY <2>10 DEF Divides
    <2>. QED  BY <2>2, <2>4, <2>11, NotRounded
  <1>5. ASSUME NEW p \in PriceRange, a[p] = p PROVE bucket(p, s, k, l) = b[p]
    <2>1. PICK d : Digits(p, d)  BY DigitsExist
    <2>2. p \in Nat /\ d \in 1..15 /\ k \in 2..5 /\ n \in 2..5 /\ k =< n
      BY <2>1 DEF PriceRange, Digits, BuiltFrom
    <2>3. CASE k < 5 /\ Exp(k, d) = Exp(5, d)
      <3>1. PICK h : h = Exp(5, d)  OBVIOUS
      <3>2. h \in 0..19 /\ Exp(n, d) = h
        <4>1. 5 \in 2..5 /\ k \in 2..n /\ n \in 2..5  BY <2>2
        <4>2. Exp(5, d) =< Exp(n, d) /\ Exp(n, d) =< Exp(k, d) /\ h \in 0..19 /\ Exp(n, d) \in 0..19
          BY <2>2, <3>1, <4>1, ExpFacts
        <4>. QED  BY <2>3, <3>1, <4>2
      <3>3. l = 1 /\ (n = 5 => m = 5)  BY <2>3 DEF BuiltFrom
      <3>4. PICK x : x = pow10[h]  OBVIOUS
      <3>5. x \in Nat  BY <3>2, <3>4, PowerType
      <3>6. Own(5, 5)[d] = 5 * x /\ Own(k, l)[d] = x
        <4>1. Own(5, 5)[d] = 5 * x /\ Own(k, l)[d] = l * x  BY <2>2, <2>3, <3>1, <3>4 DEF Own
        <4>. QED  BY <3>3, <3>5, <4>1
      <3>7. Steps(n, m)[d] = 5 * x
        <4>1. CASE n = 5
          <5>1. m = 5  BY <3>3, <4>1
          <5>2. Steps(n, m)[d] = Own(n, m)[d]  BY <2>2, <4>1 DEF Steps
          <5>. QED  BY <3>6, <4>1, <5>1, <5>2
        <4>2. CASE n # 5
          <5>1. n < 5  BY <2>2, <4>2
          <5>. QED  BY <2>2, <3>1, <3>2, <3>6, <5>1 DEF Steps
        <4>. QED  BY <4>1, <4>2
      <3>8. Steps(k, l)[d] = 5 * x  BY <2>2, <2>3, <3>6 DEF Steps
      <3>9. Rounds(s, 5 * x, p, a[p]) /\ Rounds(s, 5 * x, p, b[p])
        BY <1>3, <2>1, <3>7, <3>8 DEF RoundsBy
      <3>10. Divides(5 * x, p)  BY <1>5, <3>9 DEF Rounds
      <3>11. b[p] = p  BY <2>2, <3>9, <3>10, NotRounded
      <3>12. PICK q \in Nat : p = q * (5 * x)  BY <3>10 DEF Divides
      <3>13. p = (q * 5) * x /\ q * 5 \in Nat  BY <3>5, <3>12
      <3>14. Divides(x, p)  BY <3>13 DEF Divides
      <3>15. PICK r : r = bucket(p, s, k, l)  OBVIOUS
      <3>16. Rounds(s, x, p, r)  BY <1>1, <2>1, <3>6, <3>15, BucketRounds
      <3>17. r = p  BY <2>2, <3>14, <3>16, NotRounded
      <3>. QED  BY <3>11, <3>15, <3>17
    <2>4. CASE ~(k < 5 /\ Exp(k, d) = Exp(5, d))
      <3>1. Steps(k, l)[d] = Own(k, l)[d]  BY <2>2, <2>4 DEF Steps
      <3>2. Step(p, k, l) = Own(k, l)[d]  BY <1>1, <2>1, <2>2, <3>1, StepIs
      <3>3. Increment(p, k, l) = Own(k, l)[d]  BY <2>1, <2>2, IncrementIs
      <3>. QED  BY <1>2, <3>2, <3>3 DEF GridOf, bucket
    <2>. QED  BY <2>3, <2>4
  <1>. QED  BY <1>1, <1>2, <1>4, <1>5 DEF Coarser, Agrees

\* Rounding to a coarser grid gives the same from the finer one.
LEMMA RoundsTwice ==
    ASSUME NEW s \in {"Bid", "Ask"}, NEW a, IsGrid(s, a), NEW b, IsGrid(s, b), Coarser(a, b),
           NEW p \in PriceRange
    PROVE  b[a[p]] = b[p]
  <1>1. PICK x, y, z : x = a[p] /\ y = b[p] /\ z = b[a[p]]  OBVIOUS
  <1>2. x \in PriceRange /\ y \in PriceRange /\ z \in PriceRange  BY <1>1 DEF IsGrid
  <1>3. b[y] = y /\ b[z] = z /\ z = b[x]  BY <1>1, <1>2 DEF IsGrid
  <1>4. AtOrWorse(s, x, p) /\ AtOrWorse(s, y, p) /\ AtOrWorse(s, z, x)  BY <1>1, <1>2 DEF IsGrid
  <1>5. a[y] = y  BY <1>2, <1>3 DEF Coarser
  <1>6. AtOrWorse(s, y, x)  BY <1>1, <1>2, <1>4, <1>5 DEF IsGrid
  <1>7. AtOrWorse(s, y, z)  BY <1>2, <1>3, <1>6 DEF IsGrid
  <1>8. p \in Nat /\ x \in Nat /\ y \in Nat /\ z \in Nat  BY <1>2 DEF PriceRange
  <1>9. AtOrWorse(s, z, p)  BY <1>4, <1>8 DEF AtOrWorse, Better
  <1>10. AtOrWorse(s, z, y)  BY <1>1, <1>2, <1>3, <1>9 DEF IsGrid
  <1>11. y = z  BY <1>7, <1>8, <1>10 DEF AtOrWorse, Better
  <1>. QED  BY <1>1, <1>11

-----------------------------------------------------------------------------
(* A view built one level at a time *)

LevelRecord == [px : PriceRange, sz : Nat, n : Nat]

\* A level is its price, its size and its number of orders.
LEMMA LevelParts ==
    \A x \in LevelRecord : x = [px |-> x.px, sz |-> x.sz, n |-> x.n]
  BY DEF LevelRecord

\* A level with a more of size and b more orders.
WithMore(x, a, b) == [[x EXCEPT !.sz = @ + a] EXCEPT !.n = @ + b]

HasMore(e, x, a, b) ==
    e \in LevelRecord /\ e.px = x.px /\ e.sz = x.sz + a /\ e.n = x.n + b

\* It is a level of the same price.
LEMMA JoinLevel ==
    ASSUME NEW x \in LevelRecord, NEW a \in Nat, NEW b \in Nat
    PROVE  HasMore(WithMore(x, a, b), x, a, b)
  <1>1. PICK e : e = WithMore(x, a, b)  OBVIOUS
  <1>2. PICK h : h = x.sz + a  OBVIOUS
  <1>3. PICK k : k = x.n + b  OBVIOUS
  <1>4. x.sz \in Nat /\ x.n \in Nat  BY DEF LevelRecord
  <1>5. h \in Nat /\ k \in Nat  BY <1>2, <1>3, <1>4
  <1>6. PICK y : y = [x EXCEPT !.sz = h]  OBVIOUS
  <1>7. y \in LevelRecord /\ y.px = x.px /\ y.sz = h /\ y.n = x.n
    BY <1>5, <1>6 DEF LevelRecord
  <1>8. y = [x EXCEPT !.sz = @ + a]  BY <1>2, <1>6
  <1>9. e = [y EXCEPT !.n = k]  BY <1>1, <1>3, <1>7, <1>8 DEF WithMore
  <1>10. e \in LevelRecord /\ e.px = y.px /\ e.sz = y.sz /\ e.n = k
    BY <1>5, <1>7, <1>9 DEF LevelRecord
  <1>11. HasMore(e, x, a, b)  BY <1>2, <1>3, <1>7, <1>10 DEF HasMore
  <1>. QED  BY <1>1, <1>11

\* A level that is worse than the last bucket's price opens a bucket.
LEMMA BuildOpens ==
    ASSUME NEW s \in {"Bid", "Ask"}, NEW n, NEW m, InChain(n, m),
           NEW acc \in Seq(LevelRecord), NEW level \in LevelRecord,
           acc = <<>> \/ Better(s, acc[Len(acc)].px, level.px)
    PROVE  LET next == build_l2_level(acc, s, n, m, level)
           IN  /\ next \in Seq(LevelRecord) /\ Len(next) = Len(acc) + 1
               /\ \A q \in 1..Len(acc) : next[q] = acc[q]
               /\ next[Len(acc) + 1].px = bucket(level.px, s, n, m)
               /\ next[Len(acc) + 1].sz = level.sz /\ next[Len(acc) + 1].n = level.n
  <1>1. PICK e : e = [level EXCEPT !.px = bucket(level.px, s, n, m)]  OBVIOUS
  <1>2. level.px \in PriceRange /\ level.sz \in Nat /\ level.n \in Nat  BY DEF LevelRecord
  <1>3. bucket(level.px, s, n, m) \in PriceRange
    <2>1. PICK d : Digits(level.px, d)  BY <1>2, DigitsExist
    <2>. QED  BY <1>2, <2>1, BucketRounds
  <1>4. /\ e \in LevelRecord /\ e.px = bucket(level.px, s, n, m)
        /\ e.sz = level.sz /\ e.n = level.n
    BY <1>1, <1>2, <1>3 DEF LevelRecord
  <1>5. build_l2_level(acc, s, n, m, level) = Append(acc, e)
    BY <1>1 DEF build_l2_level, Last
  <1>. QED  BY <1>4, <1>5

\* Any other level is added to the last bucket.
LEMMA BuildJoins ==
    ASSUME NEW s, NEW n, NEW m, NEW acc \in Seq(LevelRecord), NEW level \in LevelRecord,
           acc # <<>>, ~Better(s, acc[Len(acc)].px, level.px)
    PROVE  LET next == build_l2_level(acc, s, n, m, level)
           IN  /\ next \in Seq(LevelRecord) /\ Len(next) = Len(acc)
               /\ \A q \in 1..(Len(acc) - 1) : next[q] = acc[q]
               /\ next[Len(acc)].px = acc[Len(acc)].px
               /\ next[Len(acc)].sz = acc[Len(acc)].sz + level.sz
               /\ next[Len(acc)].n = acc[Len(acc)].n + level.n
  <1>1. PICK k : k = Len(acc)  OBVIOUS
  <1>2. PICK next : next = build_l2_level(acc, s, n, m, level)  OBVIOUS
  <1>3. k \in Nat \ {0} /\ k \in 1..k /\ acc[k] \in LevelRecord  BY <1>1
  <1>4. PICK e : e = [[acc[k] EXCEPT !.sz = @ + level.sz] EXCEPT !.n = @ + level.n]  OBVIOUS
  <1>5. /\ acc[k].px \in PriceRange /\ acc[k].sz \in Nat /\ acc[k].n \in Nat
        /\ level.sz \in Nat /\ level.n \in Nat
    BY <1>3 DEF LevelRecord
  <1>6. /\ e \in LevelRecord /\ e.px = acc[k].px /\ e.sz = acc[k].sz + level.sz
        /\ e.n = acc[k].n + level.n
    <2>1. PICK x, a, b : x = acc[k] /\ a = level.sz /\ b = level.n  OBVIOUS
    <2>2. e = WithMore(x, a, b)  BY <1>4, <2>1 DEF WithMore
    <2>3. x \in LevelRecord /\ a \in Nat /\ b \in Nat  BY <1>3, <1>5, <2>1
    <2>4. HasMore(WithMore(x, a, b), x, a, b)  BY <2>3, JoinLevel
    <2>5. e \in LevelRecord /\ e.px = x.px /\ e.sz = x.sz + a /\ e.n = x.n + b
      BY <2>2, <2>4 DEF HasMore
    <2>. QED  BY <2>1, <2>5
  <1>7. next = [acc EXCEPT ![Len(acc)].sz = @ + level.sz, ![Len(acc)].n = @ + level.n]
    BY <1>2 DEF build_l2_level, Last
  <1>8. next = [acc EXCEPT ![k] = e]
    <2>1. DOMAIN acc = 1..k  BY <1>1
    <2>. QED  BY <1>1, <1>3, <1>4, <1>7, <2>1
  <1>9. next \in Seq(LevelRecord) /\ Len(next) = k
    BY <1>1, <1>3, <1>6, <1>8
  <1>10. next[k] = e /\ \A q \in 1..(k - 1) : next[q] = acc[q]  BY <1>1, <1>3, <1>8
  <1>. QED  BY <1>1, <1>2, <1>6, <1>9, <1>10

\* build_l2_level gives levels.
LEMMA BuildType ==
    ASSUME NEW s \in {"Bid", "Ask"}, NEW n, NEW m, InChain(n, m),
           NEW acc \in Seq(LevelRecord), NEW level \in LevelRecord
    PROVE  build_l2_level(acc, s, n, m, level) \in Seq(LevelRecord)
  <1>1. CASE acc = <<>> \/ Better(s, acc[Len(acc)].px, level.px)  BY <1>1, BuildOpens
  <1>2. CASE acc # <<>> /\ ~Better(s, acc[Len(acc)].px, level.px)  BY <1>2, BuildJoins
  <1>. QED  BY <1>1, <1>2

\* r[k] is what the levels up to the k-th of from are aggregated to.
Aggregates(from, s, n, m, r) ==
    /\ r[0] = <<>>
    /\ \A k \in 1..Len(from) : r[k] = build_l2_level(r[k - 1], s, n, m, from[k])

\* l2_levels_to_l2_levels takes the levels one by one.
LEMMA AggregatesExist ==
    ASSUME NEW s \in {"Bid", "Ask"}, NEW n, NEW m, InChain(n, m),
           NEW from \in Seq(LevelRecord)
    PROVE  \E r : Aggregates(from, s, n, m, r)
                  /\ l2_levels_to_l2_levels(from, s, n, m) = r[Len(from)]
  <1>1. PICK z : z = Len(from)  OBVIOUS
  <1>2. z \in Nat /\ DOMAIN from = 1..z /\ \A k \in 1..z : from[k] \in LevelRecord  BY <1>1
  <1>3. PICK A : A = Seq(LevelRecord)  OBVIOUS
  <1>4. PICK step : step = [p \in (1..z) \X A |-> build_l2_level(p[2], s, n, m, from[p[1]])]
    OBVIOUS
  <1>5. step \in [(1..z) \X A -> A]
    <2>. SUFFICES ASSUME NEW p \in (1..z) \X A
                  PROVE  build_l2_level(p[2], s, n, m, from[p[1]]) \in A
      BY <1>4
    <2>1. p[1] \in 1..z /\ p[2] \in A  OBVIOUS
    <2>. QED  BY <1>2, <1>3, <2>1, BuildType
  <1>6. ASSUME NEW k \in 1..z, NEW a \in A
        PROVE  step[<<k, a>>] = build_l2_level(a, s, n, m, from[k])
    <2>1. PICK p : p = <<k, a>>  OBVIOUS
    <2>2. p \in (1..z) \X A /\ p[1] = k /\ p[2] = a  BY <2>1
    <2>. QED  BY <1>4, <2>1, <2>2
  <1>7. <<>> \in A  BY <1>3
  <1>8. PICK f : Folds(z, A, <<>>, step, f)  BY <1>2, <1>5, <1>7, FoldFunctionExists
  <1>. DEFINE Is(g) == g = [t \in SUBSET (1..z) |->
                              IF t = {} THEN <<>>
                              ELSE build_l2_level(g[t \ {Max(t)}], s, n, m, from[Max(t)])]
  <1>9. Is(f)
    <2>1. PICK h : h = [t \in SUBSET (1..z) |->
                          IF t = {} THEN <<>>
                          ELSE build_l2_level(f[t \ {Max(t)}], s, n, m, from[Max(t)])]
      OBVIOUS
    <2>2. ASSUME NEW t \in SUBSET (1..z) PROVE f[t] = h[t]
      <3>1. CASE t = {}  BY <1>8, <2>1, <3>1 DEF Folds
      <3>2. CASE t # {}
        <4>1. Max(t) \in t  BY <1>2, <3>2, MaxFacts
        <4>2. Max(t) \in 1..z /\ t \ {Max(t)} \in SUBSET (1..z)  BY <4>1
        <4>3. f[t \ {Max(t)}] \in A  BY <1>8, <4>2 DEF Folds
        <4>4. f[t] = step[<<Max(t), f[t \ {Max(t)}]>>]  BY <1>8, <3>2 DEF Folds
        <4>5. PICK k \in 1..z : k = Max(t)  BY <4>2
        <4>6. PICK a \in A : a = f[t \ {Max(t)}]  BY <4>3
        <4>7. f[t] = build_l2_level(a, s, n, m, from[k])  BY <1>6, <4>4, <4>5, <4>6
        <4>. QED  BY <2>1, <3>2, <4>5, <4>6, <4>7
      <3>. QED  BY <3>1, <3>2
    <2>3. f = h  BY <1>8, <2>1, <2>2 DEF Folds
    <2>. QED  BY <2>1, <2>3
  <1>10. PICK g : g = CHOOSE x : Is(x)  OBVIOUS
  <1>11. Is(g)  BY <1>9, <1>10
  <1>12. l2_levels_to_l2_levels(from, s, n, m) = g[1..z]
    <2>1. l2_levels_to_l2_levels(from, s, n, m)
            = (CHOOSE x : x = [t \in SUBSET (DOMAIN from) |->
                                 IF t = {} THEN <<>>
                                 ELSE build_l2_level(x[t \ {Max(t)}], s, n, m, from[Max(t)])])[DOMAIN from]
      BY DEF l2_levels_to_l2_levels, FoldLeft, MapThenFoldSet
    <2>. QED  BY <1>2, <1>10, <2>1
  <1>13. PICK r : r = [k \in 0..z |-> g[1..k]]  OBVIOUS
  <1>14. r[0] = <<>>
    <2>1. {} \in SUBSET (1..z) /\ 1..0 = {} /\ 0 \in 0..z  BY <1>2
    <2>. QED  BY <1>11, <1>13, <2>1
  <1>15. ASSUME NEW k \in 1..z PROVE r[k] = build_l2_level(r[k - 1], s, n, m, from[k])
    <2>1. 1..k \in SUBSET (1..z) /\ 1..k # {} /\ Max(1..k) = k /\ (1..k) \ {k} = 1..(k - 1)
      BY <1>2, InitialSegment
    <2>2. PICK t : t = 1..k  OBVIOUS
    <2>3. g[t] = build_l2_level(g[t \ {Max(t)}], s, n, m, from[Max(t)])  BY <1>11, <2>1, <2>2
    <2>4. r[k] = g[1..k] /\ r[k - 1] = g[1..(k - 1)]  BY <1>2, <1>13
    <2>. QED  BY <2>1, <2>2, <2>3, <2>4
  <1>16. r[z] = g[1..z]  BY <1>2, <1>13
  <1>. HIDE DEF Is
  <1>17. Aggregates(from, s, n, m, r)  BY <1>1, <1>14, <1>15 DEF Aggregates
  <1>. QED  BY <1>1, <1>12, <1>16, <1>17

-----------------------------------------------------------------------------
(* Views of a book *)

\* The full view: best price first, a level to each price.
IsBook(s, l) ==
    /\ l \in Seq(LevelRecord)
    /\ \A j, k \in 1..Len(l) : j < k => Better(s, l[j].px, l[k].px)

\* The places of I that the grid b rounds to px.
At(l, I, b, px) == {i \in I : b[l[i].px] = px}

\* v is the view, by the grid b, of the places I of the book l.
ViewOn(v, s, l, I, b) ==
    /\ v \in Seq(LevelRecord)
    /\ \A j, k \in 1..Len(v) : j < k => Better(s, v[j].px, v[k].px)
    /\ \A i \in I : \E j \in 1..Len(v) : v[j].px = b[l[i].px]
    /\ \A j \in 1..Len(v) : \E i \in I : v[j].px = b[l[i].px]
    /\ \A j \in 1..Len(v) :
          /\ v[j].sz = SumFunctionOnSet(SizesOf(l), At(l, I, b, v[j].px))
          /\ v[j].n  = SumFunctionOnSet(CountsOf(l), At(l, I, b, v[j].px))

\* Sizes and counts of a book can be summed.
LEMMA BookSums ==
    ASSUME NEW s, NEW l, IsBook(s, l)
    PROVE  /\ Len(l) \in Nat /\ DOMAIN l = 1..Len(l)
           /\ \A i \in 1..Len(l) : l[i] \in LevelRecord /\ l[i].px \in PriceRange
           /\ SizesOf(l) \in [1..Len(l) -> Nat] /\ CountsOf(l) \in [1..Len(l) -> Nat]
  <1>1. Len(l) \in Nat /\ DOMAIN l = 1..Len(l) /\ \A i \in 1..Len(l) : l[i] \in LevelRecord
    BY DEF IsBook
  <1>2. \A i \in 1..Len(l) : l[i].px \in PriceRange /\ l[i].sz \in Nat /\ l[i].n \in Nat
    BY <1>1 DEF LevelRecord
  <1>. QED  BY <1>1, <1>2 DEF SizesOf, CountsOf

\* What a level of the finer view adds to the coarser one built from it.
LEMMA ViewGoesOn ==
    ASSUME NEW s \in {"Bid", "Ask"}, NEW l, IsBook(s, l), NEW a, IsGrid(s, a),
           NEW n, NEW m, InChain(n, m), NEW b, b = GridOf(s, n, m), Coarser(a, b),
           Agrees(s, a, n, m),
           NEW I \in SUBSET (1..Len(l)), NEW N \in SUBSET (1..Len(l)), NEW J, Splits(I, N, J),
           NEW acc, ViewOn(acc, s, l, I, b),
           NEW level \in LevelRecord, N # {},
           \A i \in N : a[l[i].px] = level.px,
           \A i \in I : Better(s, a[l[i].px], level.px),
           level.sz = SumFunctionOnSet(SizesOf(l), N),
           level.n = SumFunctionOnSet(CountsOf(l), N)
    PROVE  ViewOn(build_l2_level(acc, s, n, m, level), s, l, J, b)
  <1>1. PICK p, x : p = level.px /\ x = b[p]  OBVIOUS
  <1>2. PICK next : next = build_l2_level(acc, s, n, m, level)  OBVIOUS
  <1>3. IsGrid(s, b)  BY ViewsAreGrids
  <1>4. p \in PriceRange  BY <1>1 DEF LevelRecord
  <1>5. /\ x \in PriceRange /\ AtOrWorse(s, x, p) /\ b[x] = x /\ x = bucket(p, s, n, m)
    <2>1. x \in PriceRange /\ AtOrWorse(s, x, p) /\ b[x] = x  BY <1>1, <1>3, <1>4 DEF IsGrid
    <2>2. PICK i : i \in N  OBVIOUS
    <2>3. l[i].px \in PriceRange /\ a[l[i].px] = p  BY <1>1, <2>2, BookSums
    <2>4. a[p] = p  BY <2>3 DEF IsGrid
    <2>5. x = bucket(p, s, n, m)  BY <1>1, <1>4, <2>4 DEF Agrees
    <2>. QED  BY <2>1, <2>5
  <1>6. p \in Nat /\ x \in Nat  BY <1>4, <1>5 DEF PriceRange
  <1>7. ASSUME NEW i \in N PROVE b[l[i].px] = x
    <2>1. l[i].px \in PriceRange  BY BookSums
    <2>2. b[a[l[i].px]] = b[l[i].px]  BY <1>3, <2>1, RoundsTwice
    <2>3. a[l[i].px] = p  BY <1>1
    <2>. QED  BY <1>1, <2>2, <2>3
  <1>8. J = I \union N /\ I \cap N = {}  BY DEF Splits
  <1>9. PICK k : k = Len(acc)  OBVIOUS
  <1>10. /\ acc \in Seq(LevelRecord) /\ k \in Nat
         /\ \A q \in 1..k : acc[q] \in LevelRecord /\ acc[q].px \in PriceRange /\ acc[q].px \in Nat
    <2>1. acc \in Seq(LevelRecord) /\ k \in Nat /\ \A q \in 1..k : acc[q] \in LevelRecord
      BY <1>9 DEF ViewOn
    <2>. QED  BY <2>1 DEF LevelRecord, PriceRange
  <1>11. \A q, t \in 1..k : q < t => Better(s, acc[q].px, acc[t].px)  BY <1>9 DEF ViewOn
  <1>12. \A i \in I : \E q \in 1..k : acc[q].px = b[l[i].px]  BY <1>9 DEF ViewOn
  <1>13. \A q \in 1..k : \E i \in I : acc[q].px = b[l[i].px]  BY <1>9 DEF ViewOn
  <1>14. ASSUME NEW q \in 1..k
         PROVE  /\ acc[q].sz = SumFunctionOnSet(SizesOf(l), At(l, I, b, acc[q].px))
                /\ acc[q].n = SumFunctionOnSet(CountsOf(l), At(l, I, b, acc[q].px))
    BY <1>9 DEF ViewOn
  <1>15. ASSUME NEW y, y # x PROVE At(l, J, b, y) = At(l, I, b, y)
    BY <1>7, <1>8, <1>15 DEF At
  <1>16. CASE acc = <<>> \/ Better(s, acc[k].px, p)
    <2>1. /\ next \in Seq(LevelRecord) /\ Len(next) = k + 1 /\ \A q \in 1..k : next[q] = acc[q]
          /\ next[k + 1].px = x /\ next[k + 1].sz = level.sz /\ next[k + 1].n = level.n
      BY <1>1, <1>2, <1>5, <1>9, <1>10, <1>16, BuildOpens
    <2>2. ASSUME NEW q \in 1..k PROVE Better(s, acc[q].px, x)
      <3>1. k \in 1..k /\ acc # <<>>  BY <1>9, <1>10
      <3>2. Better(s, acc[k].px, p)  BY <1>16, <3>1
      <3>3. q = k \/ Better(s, acc[q].px, acc[k].px)  BY <1>10, <1>11, <3>1
      <3>4. acc[q].px \in Nat /\ acc[k].px \in Nat  BY <1>10, <3>1
      <3>. QED  BY <1>5, <1>6, <3>2, <3>3, <3>4 DEF Better, AtOrWorse
    <2>3. ASSUME NEW q \in 1..k PROVE acc[q].px # x  BY <1>6, <1>10, <2>2 DEF Better
    <2>4. ASSUME NEW q \in 1..(k + 1), NEW t \in 1..(k + 1), q < t
          PROVE  Better(s, next[q].px, next[t].px)
      <3>1. q \in 1..k  BY <1>10, <2>4
      <3>2. CASE t = k + 1  BY <2>1, <2>2, <3>1, <3>2
      <3>3. CASE t # k + 1
        <4>1. t \in 1..k  BY <1>10, <3>3
        <4>. QED  BY <1>11, <2>1, <2>4, <3>1, <4>1
      <3>. QED  BY <3>2, <3>3
    <2>5. ASSUME NEW i \in J PROVE \E q \in 1..(k + 1) : next[q].px = b[l[i].px]
      <3>1. CASE i \in N
        <4>1. k + 1 \in 1..(k + 1)  BY <1>10
        <4>. QED  BY <1>7, <2>1, <3>1, <4>1
      <3>2. CASE i \in I
        <4>1. PICK q \in 1..k : acc[q].px = b[l[i].px]  BY <1>12, <3>2
        <4>2. q \in 1..(k + 1) /\ next[q] = acc[q]  BY <1>10, <2>1
        <4>. QED  BY <4>1, <4>2
      <3>. QED  BY <1>8, <3>1, <3>2
    <2>6. At(l, J, b, x) = N
      <3>1. ASSUME NEW i \in I PROVE b[l[i].px] # x  BY <1>12, <2>3
      <3>. QED  BY <1>7, <1>8, <3>1 DEF At
    <2>7. ASSUME NEW q \in 1..(k + 1)
          PROVE  /\ \E i \in J : next[q].px = b[l[i].px]
                 /\ next[q].sz = SumFunctionOnSet(SizesOf(l), At(l, J, b, next[q].px))
                 /\ next[q].n = SumFunctionOnSet(CountsOf(l), At(l, J, b, next[q].px))
      <3>1. CASE q = k + 1
        <4>1. PICK i : i \in N  OBVIOUS
        <4>2. i \in J /\ b[l[i].px] = x  BY <1>7, <1>8, <4>1
        <4>. QED  BY <2>1, <2>6, <3>1, <4>2
      <3>2. CASE q # k + 1
        <4>1. q \in 1..k  BY <1>10, <3>2
        <4>2. next[q] = acc[q] /\ acc[q].px # x  BY <2>1, <2>3, <4>1
        <4>3. At(l, J, b, acc[q].px) = At(l, I, b, acc[q].px)  BY <1>15, <4>2
        <4>4. PICK i \in I : acc[q].px = b[l[i].px]  BY <1>13, <4>1
        <4>5. i \in J  BY <1>8, <4>4
        <4>. QED  BY <1>14, <4>1, <4>2, <4>3, <4>4, <4>5
      <3>. QED  BY <3>1, <3>2
    <2>. QED  BY <1>2, <2>1, <2>4, <2>5, <2>7 DEF ViewOn
  <1>17. CASE acc # <<>> /\ ~Better(s, acc[k].px, p)
    <2>1. k \in 1..k /\ k \in Nat \ {0}  BY <1>9, <1>10, <1>17
    <2>2. /\ next \in Seq(LevelRecord) /\ Len(next) = k /\ \A q \in 1..(k - 1) : next[q] = acc[q]
          /\ next[k].px = acc[k].px /\ next[k].sz = acc[k].sz + level.sz
          /\ next[k].n = acc[k].n + level.n
      BY <1>1, <1>2, <1>9, <1>10, <1>17, BuildJoins
    <2>3. acc[k].px = x
      <3>1. PICK i \in I : acc[k].px = b[l[i].px]  BY <1>13, <2>1
      <3>2. PICK y, z : y = a[l[i].px] /\ z = acc[k].px  OBVIOUS
      <3>3. l[i].px \in PriceRange  BY BookSums
      <3>4. y \in PriceRange /\ z \in PriceRange  BY <1>10, <2>1, <3>2, <3>3 DEF IsGrid
      <3>5. z = b[y] /\ b[z] = z
        <4>1. b[a[l[i].px]] = b[l[i].px]  BY <1>3, <3>3, RoundsTwice
        <4>2. z = b[y]  BY <3>1, <3>2, <4>1
        <4>. QED  BY <1>3, <3>4, <4>2 DEF IsGrid
      <3>6. Better(s, y, p)  BY <1>1, <3>1, <3>2
      <3>7. AtOrWorse(s, z, p)  BY <1>17, <3>2 DEF AtOrWorse
      <3>8. AtOrWorse(s, z, x)  BY <1>1, <1>3, <1>4, <3>4, <3>5, <3>7 DEF IsGrid
      <3>9. y \in Nat /\ z \in Nat  BY <3>4 DEF PriceRange
      <3>10. AtOrWorse(s, x, y)  BY <1>5, <1>6, <3>6, <3>9 DEF AtOrWorse, Better
      <3>11. AtOrWorse(s, x, z)  BY <1>3, <1>5, <3>4, <3>5, <3>10 DEF IsGrid
      <3>. QED  BY <1>6, <3>2, <3>8, <3>9, <3>11 DEF AtOrWorse, Better
    <2>4. ASSUME NEW q \in 1..k PROVE next[q].px = acc[q].px
      <3>1. q = k \/ q \in 1..(k - 1)  BY <2>1
      <3>. QED  BY <2>2, <3>1
    <2>5. PICK O, P : O = At(l, I, b, x) /\ P = At(l, J, b, x)  OBVIOUS
    <2>6. O \in SUBSET (1..Len(l)) /\ Splits(O, N, P)
      BY <1>7, <1>8, <2>5 DEF At, Splits
    <2>7. SumFunctionOnSet(SizesOf(l), P) = SumFunctionOnSet(SizesOf(l), O) + level.sz
      <3>1. PICK z, f : z = Len(l) /\ f = SizesOf(l)  OBVIOUS
      <3>2. z \in Nat /\ f \in [1..z -> Nat] /\ O \in SUBSET (1..z) /\ N \in SUBSET (1..z)
        BY <2>6, <3>1, BookSums
      <3>3. SumFunctionOnSet(f, P) = SumFunctionOnSet(f, O) + SumFunctionOnSet(f, N)
        BY <2>6, <3>2, SumUnion
      <3>. QED  BY <3>1, <3>3
    <2>8. SumFunctionOnSet(CountsOf(l), P) = SumFunctionOnSet(CountsOf(l), O) + level.n
      <3>1. PICK z, f : z = Len(l) /\ f = CountsOf(l)  OBVIOUS
      <3>2. z \in Nat /\ f \in [1..z -> Nat] /\ O \in SUBSET (1..z) /\ N \in SUBSET (1..z)
        BY <2>6, <3>1, BookSums
      <3>3. SumFunctionOnSet(f, P) = SumFunctionOnSet(f, O) + SumFunctionOnSet(f, N)
        BY <2>6, <3>2, SumUnion
      <3>. QED  BY <3>1, <3>3
    <2>9. ASSUME NEW q \in 1..k
          PROVE  /\ \E i \in J : next[q].px = b[l[i].px]
                 /\ next[q].sz = SumFunctionOnSet(SizesOf(l), At(l, J, b, next[q].px))
                 /\ next[q].n = SumFunctionOnSet(CountsOf(l), At(l, J, b, next[q].px))
      <3>1. \E i \in J : next[q].px = b[l[i].px]  BY <1>8, <1>13, <2>4
      <3>2. CASE q = k
        <4>1. acc[k].sz = SumFunctionOnSet(SizesOf(l), O) /\ acc[k].n = SumFunctionOnSet(CountsOf(l), O)
          BY <1>14, <2>1, <2>3, <2>5
        <4>2. next[k].px = x  BY <2>2, <2>3
        <4>. QED  BY <2>2, <2>5, <2>7, <2>8, <3>1, <3>2, <4>1, <4>2
      <3>3. CASE q # k
        <4>1. q \in 1..(k - 1) /\ q < k  BY <2>1, <3>3
        <4>2. next[q] = acc[q]  BY <2>2, <4>1
        <4>3. Better(s, acc[q].px, acc[k].px)  BY <1>11, <2>1, <4>1
        <4>4. acc[q].px # x  BY <1>10, <2>1, <2>3, <4>3 DEF Better
        <4>5. At(l, J, b, acc[q].px) = At(l, I, b, acc[q].px)  BY <1>15, <4>4
        <4>. QED  BY <1>14, <3>1, <4>2, <4>5
      <3>. QED  BY <3>2, <3>3
    <2>10. ASSUME NEW i \in J PROVE \E q \in 1..k : next[q].px = b[l[i].px]
      <3>1. CASE i \in N  BY <1>7, <2>1, <2>3, <2>4, <3>1
      <3>2. CASE i \in I  BY <1>12, <2>4, <3>2
      <3>. QED  BY <1>8, <3>1, <3>2
    <2>11. ASSUME NEW q \in 1..k, NEW t \in 1..k, q < t PROVE Better(s, next[q].px, next[t].px)
      BY <1>11, <2>4, <2>11
    <2>. QED  BY <1>2, <2>2, <2>9, <2>10, <2>11 DEF ViewOn
  <1>. QED  BY <1>16, <1>17

\* The places of l that the grid a rounds to one of the first k levels of v.
Upto(v, l, a, k) == {i \in 1..Len(l) : \E j \in 1..k : v[j].px = a[l[i].px]}

\* The orders down to a level are those down to the one before, and its own.
LEMMA UptoGoesOn ==
    ASSUME NEW s \in {"Bid", "Ask"}, NEW l, IsBook(s, l), NEW a,
           NEW v, ViewOn(v, s, l, 1..Len(l), a), NEW k \in 1..Len(v)
    PROVE  /\ Splits(Upto(v, l, a, k - 1), At(l, 1..Len(l), a, v[k].px), Upto(v, l, a, k))
           /\ Upto(v, l, a, k - 1) \in SUBSET (1..Len(l))
           /\ At(l, 1..Len(l), a, v[k].px) \in SUBSET (1..Len(l))
           /\ \A i \in Upto(v, l, a, k - 1) : Better(s, a[l[i].px], v[k].px)
  <1>1. Len(v) \in Nat /\ \A j \in 1..Len(v) : v[j] \in LevelRecord  BY DEF ViewOn
  <1>2. \A j \in 1..Len(v) : v[j].px \in Nat  BY <1>1 DEF LevelRecord, PriceRange
  <1>3. k \in Nat /\ k - 1 \in Nat /\ k \in 1..k  BY <1>1
  <1>4. ASSUME NEW j \in 1..(k - 1) PROVE Better(s, v[j].px, v[k].px) /\ j \in 1..k
    <2>1. j \in 1..Len(v) /\ j < k /\ j \in 1..k  BY <1>1, <1>3
    <2>. QED  BY <2>1 DEF ViewOn
  <1>5. ASSUME NEW j \in 1..(k - 1) PROVE v[j].px # v[k].px
    <2>1. j \in 1..Len(v)  BY <1>1, <1>3
    <2>. QED  BY <1>2, <1>4, <2>1 DEF Better
  <1>6. \A j \in 1..k : j = k \/ j \in 1..(k - 1)  BY <1>3
  <1>7. \A i \in Upto(v, l, a, k - 1) : Better(s, a[l[i].px], v[k].px)  BY <1>4 DEF Upto
  <1>8. ASSUME NEW i \in Upto(v, l, a, k - 1) PROVE a[l[i].px] # v[k].px  BY <1>5 DEF Upto
  <1>9. ASSUME NEW i \in 1..Len(l)
        PROVE  i \in Upto(v, l, a, k) <=>
                  (i \in Upto(v, l, a, k - 1) \/ i \in At(l, 1..Len(l), a, v[k].px))
    BY <1>3, <1>4, <1>6 DEF Upto, At
  <1>10. /\ Upto(v, l, a, k - 1) \in SUBSET (1..Len(l)) /\ Upto(v, l, a, k) \in SUBSET (1..Len(l))
         /\ At(l, 1..Len(l), a, v[k].px) \in SUBSET (1..Len(l))
    BY DEF Upto, At
  <1>11. Upto(v, l, a, k) = Upto(v, l, a, k - 1) \union At(l, 1..Len(l), a, v[k].px)
    BY <1>9, <1>10
  <1>12. Upto(v, l, a, k - 1) \cap At(l, 1..Len(l), a, v[k].px) = {}  BY <1>8 DEF At
  <1>. QED  BY <1>7, <1>10, <1>11, <1>12 DEF Splits

\* Aggregating a view by a coarser grid gives the book's view by that grid.
LEMMA ViewOfView ==
    ASSUME NEW s \in {"Bid", "Ask"}, NEW l, IsBook(s, l), NEW a, IsGrid(s, a),
           NEW n, NEW m, InChain(n, m), Coarser(a, GridOf(s, n, m)),
           Agrees(s, a, n, m),
           NEW v, ViewOn(v, s, l, 1..Len(l), a)
    PROVE  ViewOn(l2_levels_to_l2_levels(v, s, n, m), s, l, 1..Len(l), GridOf(s, n, m))
  <1>1. PICK b : b = GridOf(s, n, m)  OBVIOUS
  <1>2. v \in Seq(LevelRecord) /\ Len(v) \in Nat /\ \A k \in 1..Len(v) : v[k] \in LevelRecord
    BY DEF ViewOn
  <1>3. PICK r : Aggregates(v, s, n, m, r) /\ l2_levels_to_l2_levels(v, s, n, m) = r[Len(v)]
    BY <1>2, AggregatesExist
  <1>4. PICK K : K = {k \in Nat : k =< Len(v) => ViewOn(r[k], s, l, Upto(v, l, a, k), b)}  OBVIOUS
  <1>5. 0 \in K
    <2>1. r[0] = <<>>  BY <1>3 DEF Aggregates
    <2>2. Upto(v, l, a, 0) = {}  BY DEF Upto
    <2>3. ViewOn(<<>>, s, l, {}, b)  BY DEF ViewOn
    <2>. QED  BY <1>4, <2>1, <2>2, <2>3
  <1>6. ASSUME NEW j \in K PROVE j + 1 \in K
    <2>1. j \in Nat  BY <1>4
    <2>. SUFFICES ASSUME j + 1 =< Len(v) PROVE ViewOn(r[j + 1], s, l, Upto(v, l, a, j + 1), b)
      BY <1>4, <2>1
    <2>2. PICK k : k = j + 1  OBVIOUS
    <2>3. k \in 1..Len(v) /\ k - 1 = j /\ j =< Len(v)  BY <1>2, <2>1, <2>2
    <2>4. ViewOn(r[j], s, l, Upto(v, l, a, j), b)  BY <1>4, <2>1, <2>3
    <2>5. r[k] = build_l2_level(r[j], s, n, m, v[k])  BY <1>3, <2>3 DEF Aggregates
    <2>6. PICK I, N, J : /\ I = Upto(v, l, a, j) /\ N = At(l, 1..Len(l), a, v[k].px)
                         /\ J = Upto(v, l, a, k)
      OBVIOUS
    <2>7. /\ Splits(I, N, J) /\ I \in SUBSET (1..Len(l)) /\ N \in SUBSET (1..Len(l))
          /\ \A i \in I : Better(s, a[l[i].px], v[k].px)
      BY <2>3, <2>6, UptoGoesOn
    <2>8. N # {} /\ \A i \in N : a[l[i].px] = v[k].px
      <3>1. PICK i \in 1..Len(l) : v[k].px = a[l[i].px]  BY <2>3 DEF ViewOn
      <3>. QED  BY <2>6, <3>1 DEF At
    <2>9. v[k].sz = SumFunctionOnSet(SizesOf(l), N) /\ v[k].n = SumFunctionOnSet(CountsOf(l), N)
      BY <2>3, <2>6 DEF ViewOn
    <2>10. ViewOn(r[j], s, l, I, b) /\ v[k] \in LevelRecord /\ Coarser(a, b) /\ Agrees(s, a, n, m)
      BY <1>1, <1>2, <2>3, <2>4, <2>6
    <2>11. ViewOn(build_l2_level(r[j], s, n, m, v[k]), s, l, J, b)
      BY <1>1, <2>7, <2>8, <2>9, <2>10, ViewGoesOn
    <2>. QED  BY <2>2, <2>5, <2>6, <2>11
  <1>7. K \in SUBSET Nat  BY <1>4
  <1>8. Len(v) \in K  BY <1>2, <1>5, <1>6, <1>7, AllNaturals
  <1>9. Upto(v, l, a, Len(v)) = 1..Len(l)  BY DEF Upto, ViewOn
  <1>10. ViewOn(r[Len(v)], s, l, 1..Len(l), b)  BY <1>2, <1>4, <1>8, <1>9
  <1>. QED  BY <1>1, <1>3, <1>10

\* The book is the view of itself, by the grid of all prices.
LEMMA BookIsView ==
    ASSUME NEW s \in {"Bid", "Ask"}, NEW l, IsBook(s, l), NEW a, a = [p \in PriceRange |-> p]
    PROVE  ViewOn(l, s, l, 1..Len(l), a) /\ IsGrid(s, a)
  <1>1. PICK z : z = Len(l)  OBVIOUS
  <1>2. /\ z \in Nat /\ \A i \in 1..z : l[i].px \in PriceRange
        /\ SizesOf(l) \in [1..z -> Nat] /\ CountsOf(l) \in [1..z -> Nat]
        /\ \A i \in 1..z : SizesOf(l)[i] = l[i].sz /\ CountsOf(l)[i] = l[i].n
    BY <1>1, BookSums DEF SizesOf, CountsOf
  <1>3. \A i \in 1..z : a[l[i].px] = l[i].px /\ l[i].px \in Nat  BY <1>2 DEF PriceRange
  <1>4. ASSUME NEW j \in 1..z PROVE At(l, 1..z, a, l[j].px) = {j}
    <2>1. ASSUME NEW i \in 1..z, i # j PROVE l[i].px # l[j].px
      <3>1. i < j \/ j < i  BY <1>2, <2>1
      <3>2. Better(s, l[i].px, l[j].px) \/ Better(s, l[j].px, l[i].px)  BY <1>1, <3>1 DEF IsBook
      <3>. QED  BY <1>3, <3>2 DEF Better
    <2>. QED  BY <1>3, <2>1 DEF At
  <1>5. ASSUME NEW f \in [1..z -> Nat], NEW j \in 1..z PROVE SumFunctionOnSet(f, {j}) = f[j]
    <2>1. SumRules(z, f)  BY <1>2, SumFacts
    <2>2. PICK e, t : e = {} /\ t = {j}  OBVIOUS
    <2>3. e \in SUBSET (1..z) /\ t \in SUBSET (1..z) /\ AddsOne(e, j, t)  BY <2>2 DEF AddsOne
    <2>4. SumFunctionOnSet(f, t) = f[j] + SumFunctionOnSet(f, e)  BY <2>1, <2>3 DEF SumRules
    <2>5. SumFunctionOnSet(f, e) = 0  BY <2>1, <2>2 DEF SumRules
    <2>6. f[j] \in Nat  OBVIOUS
    <2>. QED  BY <2>2, <2>4, <2>5, <2>6
  <1>6. ASSUME NEW j \in 1..z
        PROVE  /\ l[j].sz = SumFunctionOnSet(SizesOf(l), At(l, 1..z, a, l[j].px))
               /\ l[j].n = SumFunctionOnSet(CountsOf(l), At(l, 1..z, a, l[j].px))
    <2>1. SumFunctionOnSet(SizesOf(l), {j}) = SizesOf(l)[j]  BY <1>2, <1>5
    <2>2. SumFunctionOnSet(CountsOf(l), {j}) = CountsOf(l)[j]  BY <1>2, <1>5
    <2>. QED  BY <1>2, <1>4, <2>1, <2>2
  <1>7. \A i \in 1..z : \E j \in 1..z : l[j].px = a[l[i].px]  BY <1>3
  <1>8. \A j \in 1..z : \E i \in 1..z : l[j].px = a[l[i].px]  BY <1>3
  <1>9. ViewOn(l, s, l, 1..z, a)  BY <1>1, <1>6, <1>7, <1>8 DEF ViewOn, IsBook
  <1>10. IsGrid(s, a)
    <2>1. \A p \in PriceRange : a[p] = p /\ p \in Nat  BY DEF PriceRange
    <2>2. \A p \in PriceRange : AtOrWorse(s, a[p], p) /\ a[a[p]] = a[p]
      BY <2>1 DEF AtOrWorse, Better
    <2>. QED  BY <2>1, <2>2 DEF IsGrid
  <1>. QED  BY <1>1, <1>9, <1>10

\* All views of a book are views of the book itself.
LEMMA ViewsOfBook ==
    ASSUME NEW s \in {"Bid", "Ask"}, NEW l, IsBook(s, l)
    PROVE  \A i \in 1..6 :
              \E n, m, v : /\ InChain(n, m) /\ Views(l, s)[i] = [n |-> n, m |-> m, view |-> v]
                           /\ ViewOn(v, s, l, 1..Len(l), GridOf(s, n, m))
  <1>. DEFINE agg(from, n, m) == l2_levels_to_l2_levels(from, s, n, m)
             Right(v, n, m) == ViewOn(v, s, l, 1..Len(l), GridOf(s, n, m))
  <1>1. PICK a : a = [p \in PriceRange |-> p]  OBVIOUS
  <1>2. ViewOn(l, s, l, 1..Len(l), a) /\ IsGrid(s, a)  BY <1>1, BookIsView
  <1>3. PICK five : five = agg(l, 5, 1)  OBVIOUS
  <1>4. PICK by2, by5 : by2 = agg(five, 5, 2) /\ by5 = agg(five, 5, 5)  OBVIOUS
  <1>5. PICK four : four = agg(by5, 4, 1)  OBVIOUS
  <1>6. PICK three : three = agg(four, 3, 1)  OBVIOUS
  <1>7. PICK two : two = agg(three, 2, 1)  OBVIOUS
  <1>8. /\ InChain(5, 1) /\ BuiltFrom(5, 1, 5, 2) /\ BuiltFrom(5, 1, 5, 5)
        /\ BuiltFrom(5, 5, 4, 1) /\ BuiltFrom(4, 1, 3, 1) /\ BuiltFrom(3, 1, 2, 1)
    BY DEF InChain, BuiltFrom
  <1>9. Right(five, 5, 1)
    <2>1. Coarser(a, GridOf(s, 5, 1))  BY <1>1 DEF Coarser
    <2>2. Agrees(s, a, 5, 1)  BY FiveAgrees
    <2>. QED  BY <1>2, <1>3, <1>8, <2>1, <2>2, ViewOfView
  <1>. HIDE DEF agg
  <1>10. ASSUME NEW n, NEW m, NEW k, NEW h, BuiltFrom(n, m, k, h), NEW from, Right(from, n, m)
         PROVE  InChain(k, h) /\ Right(agg(from, k, h), k, h)
    <2>1. /\ InChain(n, m) /\ InChain(k, h) /\ Coarser(GridOf(s, n, m), GridOf(s, k, h))
          /\ Agrees(s, GridOf(s, n, m), k, h)
      BY <1>10, BuiltViews
    <2>2. IsGrid(s, GridOf(s, n, m))  BY <2>1, ViewsAreGrids
    <2>. QED  BY <1>10, <2>1, <2>2, ViewOfView DEF agg
  <1>. HIDE DEF Right
  <1>11. InChain(5, 2) /\ Right(by2, 5, 2)  BY <1>4, <1>8, <1>9, <1>10
  <1>12. InChain(5, 5) /\ Right(by5, 5, 5)  BY <1>4, <1>8, <1>9, <1>10
  <1>13. InChain(4, 1) /\ Right(four, 4, 1)  BY <1>5, <1>8, <1>10, <1>12
  <1>14. InChain(3, 1) /\ Right(three, 3, 1)  BY <1>6, <1>8, <1>10, <1>13
  <1>15. InChain(2, 1) /\ Right(two, 2, 1)  BY <1>7, <1>8, <1>10, <1>14
  <1>16. PICK w : w = Views(l, s)  OBVIOUS
  <1>17. /\ w[1] = [n |-> 5, m |-> 1, view |-> five]
         /\ w[2] = [n |-> 5, m |-> 2, view |-> by2]
         /\ w[3] = [n |-> 5, m |-> 5, view |-> by5]
         /\ w[4] = [n |-> 4, m |-> 1, view |-> four]
         /\ w[5] = [n |-> 3, m |-> 1, view |-> three]
         /\ w[6] = [n |-> 2, m |-> 1, view |-> two]
    BY <1>3, <1>4, <1>5, <1>6, <1>7, <1>16 DEF Views, agg
  <1>. SUFFICES ASSUME NEW i \in 1..6
                PROVE  \E n, m, v : /\ InChain(n, m) /\ w[i] = [n |-> n, m |-> m, view |-> v]
                                    /\ Right(v, n, m)
    BY <1>16 DEF Right
  <1>18. i = 1 \/ i = 2 \/ i = 3 \/ i = 4 \/ i = 5 \/ i = 6  OBVIOUS
  <1>19. CASE i = 1  BY <1>8, <1>9, <1>17, <1>19
  <1>20. CASE i = 2  BY <1>11, <1>17, <1>20
  <1>21. CASE i = 3  BY <1>12, <1>17, <1>21
  <1>22. CASE i = 4  BY <1>13, <1>17, <1>22
  <1>23. CASE i = 5  BY <1>14, <1>17, <1>23
  <1>24. CASE i = 6  BY <1>15, <1>17, <1>24
  <1>. QED  BY <1>18, <1>19, <1>20, <1>21, <1>22, <1>23, <1>24

\* What a view's first k levels add up to is what the book has in their buckets.
LEMMA PrefixSum ==
    ASSUME NEW s \in {"Bid", "Ask"}, NEW l, IsBook(s, l), NEW b,
           NEW v, ViewOn(v, s, l, 1..Len(l), b)
    PROVE  \A k \in 0..Len(v) : SumFunctionOnSet(SizesOf(v), 1..k)
                                   = SumFunctionOnSet(SizesOf(l), Upto(v, l, b, k))
  <1>1. PICK f, g, y, z : f = SizesOf(v) /\ g = SizesOf(l) /\ y = Len(v) /\ z = Len(l)  OBVIOUS
  <1>2. IsBook(s, v)  BY DEF ViewOn, IsBook
  <1>3. f \in [1..y -> Nat] /\ g \in [1..z -> Nat] /\ y \in Nat /\ z \in Nat  BY <1>1, <1>2, BookSums
  <1>4. SumRules(y, f) /\ SumRules(z, g)  BY <1>3, SumFacts
  <1>5. PICK K : K = {k \in Nat : k =< y => SumFunctionOnSet(f, 1..k)
                                              = SumFunctionOnSet(g, Upto(v, l, b, k))}
    OBVIOUS
  <1>6. 0 \in K
    <2>1. 1..0 = {} /\ Upto(v, l, b, 0) = {}  BY DEF Upto
    <2>. QED  BY <1>4, <1>5, <2>1 DEF SumRules
  <1>7. ASSUME NEW j \in K PROVE j + 1 \in K
    <2>1. j \in Nat  BY <1>5
    <2>. SUFFICES ASSUME j + 1 =< y
                  PROVE  SumFunctionOnSet(f, 1..(j + 1)) = SumFunctionOnSet(g, Upto(v, l, b, j + 1))
      BY <1>5, <2>1
    <2>2. PICK k : k = j + 1  OBVIOUS
    <2>3. k \in 1..y /\ k \in 1..Len(v) /\ k - 1 = j /\ j =< y  BY <1>1, <1>3, <2>1, <2>2
    <2>4. PICK I, N, J : I = Upto(v, l, b, j) /\ N = At(l, 1..z, b, v[k].px) /\ J = Upto(v, l, b, k)
      OBVIOUS
    <2>5. Splits(I, N, J) /\ I \in SUBSET (1..z) /\ N \in SUBSET (1..z)
      BY <1>1, <2>3, <2>4, UptoGoesOn
    <2>6. SumFunctionOnSet(g, J) = SumFunctionOnSet(g, I) + SumFunctionOnSet(g, N)
      BY <1>3, <2>5, SumUnion
    <2>7. f[k] = SumFunctionOnSet(g, N)
      <3>1. f[k] = v[k].sz
        <4>1. k \in DOMAIN v  BY <1>2, <2>3, BookSums
        <4>. QED  BY <1>1, <4>1 DEF SizesOf
      <3>2. v[k].sz = SumFunctionOnSet(g, N)  BY <1>1, <2>3, <2>4 DEF ViewOn
      <3>. QED  BY <3>1, <3>2
    <2>8. PICK p, q : p = 1..j /\ q = 1..k  OBVIOUS
    <2>9. p \in SUBSET (1..y) /\ q \in SUBSET (1..y) /\ AddsOne(p, k, q)
      BY <1>3, <2>1, <2>2, <2>3, <2>8 DEF AddsOne
    <2>10. SumFunctionOnSet(f, q) = f[k] + SumFunctionOnSet(f, p)
      BY <1>4, <2>3, <2>9 DEF SumRules
    <2>11. SumFunctionOnSet(f, p) = SumFunctionOnSet(g, I)  BY <1>5, <2>3, <2>4, <2>8
    <2>12. SumFunctionOnSet(g, I) \in Nat /\ SumFunctionOnSet(g, N) \in Nat
      BY <1>4, <2>5 DEF SumRules
    <2>13. SumFunctionOnSet(f, q) = SumFunctionOnSet(g, J)
      BY <2>6, <2>7, <2>10, <2>11, <2>12
    <2>. QED  BY <2>2, <2>4, <2>8, <2>13
  <1>8. K \in SUBSET Nat  BY <1>5
  <1>9. \A k \in Nat : k \in K  BY <1>6, <1>7, <1>8, AllNaturals
  <1>10. ASSUME NEW k \in 0..y
         PROVE  SumFunctionOnSet(f, 1..k) = SumFunctionOnSet(g, Upto(v, l, b, k))
    BY <1>3, <1>5, <1>9
  <1>. QED  BY <1>1, <1>10

\* A view promises at no price more than the book has.
LEMMA ViewPromises ==
    ASSUME NEW s \in {"Bid", "Ask"}, NEW l, IsBook(s, l), NEW b, IsGrid(s, b),
           NEW v, ViewOn(v, s, l, 1..Len(l), b), NEW k \in DOMAIN v
    PROVE  SumFunctionOnSet(SizesOf(v), {j \in DOMAIN v : ~Better(s, v[k].px, v[j].px)})
              =< SumFunctionOnSet(SizesOf(l), {i \in DOMAIN l : ~Better(s, v[k].px, l[i].px)})
  <1>1. PICK y, z : y = Len(v) /\ z = Len(l)  OBVIOUS
  <1>2. IsBook(s, v)  BY DEF ViewOn, IsBook
  <1>3. /\ y \in Nat /\ z \in Nat /\ DOMAIN v = 1..y /\ DOMAIN l = 1..z /\ k \in 1..y
        /\ SizesOf(l) \in [1..z -> Nat]
    BY <1>1, <1>2, BookSums
  <1>4. \A j \in 1..y : v[j].px \in Nat
    <2>1. \A j \in 1..y : v[j].px \in PriceRange  BY <1>1, <1>2, BookSums
    <2>. QED  BY <2>1 DEF PriceRange
  <1>5. \A j, t \in 1..y : j < t => Better(s, v[j].px, v[t].px)  BY <1>1 DEF ViewOn
  <1>6. {j \in DOMAIN v : ~Better(s, v[k].px, v[j].px)} = 1..k
    <2>1. ASSUME NEW j \in 1..y PROVE ~Better(s, v[k].px, v[j].px) <=> j =< k
      <3>1. CASE k < j  BY <1>3, <1>5, <3>1
      <3>2. CASE j < k
        <4>1. Better(s, v[j].px, v[k].px)  BY <1>3, <1>5, <3>2
        <4>. QED  BY <1>3, <1>4, <3>2, <4>1 DEF Better
      <3>3. CASE j = k  BY <1>3, <1>4, <3>3 DEF Better
      <3>. QED  BY <1>3, <3>1, <3>2, <3>3
    <2>2. \A j : j \in 1..k <=> (j \in 1..y /\ j =< k)  BY <1>3
    <2>. QED  BY <1>3, <2>1, <2>2
  <1>7. PICK U, W : U = Upto(v, l, b, k) /\ W = {i \in DOMAIN l : ~Better(s, v[k].px, l[i].px)}
    OBVIOUS
  <1>8. U \in SUBSET W /\ W \in SUBSET (1..z)
    <2>1. W \in SUBSET (1..z)  BY <1>3, <1>7
    <2>2. ASSUME NEW i \in U PROVE i \in W
      <3>1. i \in 1..z /\ \E j \in 1..k : v[j].px = b[l[i].px]  BY <1>1, <1>7 DEF Upto
      <3>2. PICK j \in 1..k : v[j].px = b[l[i].px]  BY <3>1
      <3>3. PICK p, q : p = l[i].px /\ q = b[p]  OBVIOUS
      <3>4. p \in PriceRange /\ q \in PriceRange /\ AtOrWorse(s, q, p)
        BY <1>1, <3>1, <3>3, BookSums DEF IsGrid
      <3>5. p \in Nat /\ q \in Nat  BY <3>4 DEF PriceRange
      <3>6. j \in 1..y /\ (j < k \/ j = k)  BY <1>3
      <3>7. j = k \/ Better(s, q, v[k].px)  BY <1>3, <1>5, <3>2, <3>3, <3>6
      <3>8. PICK x : x = v[k].px  OBVIOUS
      <3>9. x \in Nat /\ (x = q \/ Better(s, q, x))  BY <1>3, <1>4, <3>2, <3>3, <3>7, <3>8
      <3>10. ~Better(s, q, p)  BY <3>4 DEF AtOrWorse
      <3>11. ~Better(s, x, p)  BY <3>5, <3>9, <3>10 DEF Better
      <3>. QED  BY <1>3, <1>7, <3>1, <3>3, <3>8, <3>11
    <2>. QED  BY <2>1, <2>2
  <1>9. SumFunctionOnSet(SizesOf(l), U) =< SumFunctionOnSet(SizesOf(l), W)
    BY <1>3, <1>8, SumMonotone
  <1>10. SumFunctionOnSet(SizesOf(v), 1..k) = SumFunctionOnSet(SizesOf(l), U)
    <2>1. k \in 0..Len(v)  BY <1>1, <1>3
    <2>. QED  BY <1>7, <2>1, PrefixSum
  <1>. QED  BY <1>6, <1>7, <1>9, <1>10

-----------------------------------------------------------------------------
(* The levels of every book *)

LInv == side \in {"Bid", "Ask"} /\ IsBook(side, levels)

\* Prices have up to fourteen digits.
LEMMA PricesInRange == \A px \in Prices : px \in PriceRange
  <1>. SUFFICES ASSUME NEW px \in Prices PROVE px \in PriceRange  OBVIOUS
  <1>1. px \in Nat  BY PricesAssumption
  <1>2. PICK d \in 1..14 : px < pow10[d]  BY PricesAssumption
  <1>3. d \in 0..19 /\ 14 \in 0..19 /\ d =< 14  OBVIOUS
  <1>4. pow10[d] =< pow10[14] /\ pow10[d] \in Nat /\ pow10[14] \in Nat
    BY <1>3, PowersGrow, PowerType
  <1>. QED  BY <1>1, <1>2, <1>4 DEF PriceRange

\* The empty book is in order.
LEMMA LevelsInitOK == LevelsInit => LInv
  BY DEF LevelsInit, LInv, IsBook

\* A level added behind the last keeps the book in order.
LEMMA AddLevelOK ==
    ASSUME LInv, [LevelsNext]_l2vars
    PROVE  LInv'
  <1>1. CASE UNCHANGED l2vars  BY <1>1 DEF LInv, IsBook, l2vars
  <1>2. CASE LevelsNext
    <2>1. PICK px \in Prices, sz \in Sizes : AddLevel(px, sz)  BY <1>2 DEF LevelsNext
    <2>2. PICK z : z = Len(levels)  OBVIOUS
    <2>3. PICK e : e = [px |-> px, sz |-> sz, n |-> 1]  OBVIOUS
    <2>4. px \in PriceRange /\ sz \in Nat /\ px \in Nat
      BY <2>1, PricesInRange, PricesAssumption
    <2>5. e \in LevelRecord /\ e.px = px  BY <2>3, <2>4 DEF LevelRecord
    <2>6. levels \in Seq(LevelRecord) /\ z \in Nat  BY <2>2 DEF LInv, IsBook
    <2>7. side' = side /\ levels' = Append(levels, e)  BY <2>1, <2>3 DEF AddLevel
    <2>8. /\ levels' \in Seq(LevelRecord) /\ Len(levels') = z + 1 /\ levels'[z + 1] = e
          /\ \A q \in 1..z : levels'[q] = levels[q]
      BY <2>2, <2>5, <2>6, <2>7
    <2>9. \A q \in 1..z : levels[q].px \in Nat
      <3>1. \A q \in 1..z : levels[q] \in LevelRecord  BY <2>2, <2>6
      <3>. QED  BY <3>1 DEF LevelRecord, PriceRange
    <2>10. \A j, k \in 1..z : j < k => Better(side, levels[j].px, levels[k].px)
      BY <2>2 DEF LInv, IsBook
    <2>11. ASSUME NEW j \in 1..z PROVE Better(side, levels[j].px, px)
      <3>1. z \in 1..z /\ levels # <<>>  BY <2>2, <2>6
      <3>2. Better(side, levels[z].px, px)  BY <2>1, <2>2, <3>1 DEF AddLevel, Last
      <3>3. j = z \/ Better(side, levels[j].px, levels[z].px)  BY <2>6, <2>10, <3>1
      <3>. QED  BY <2>4, <2>9, <3>1, <3>2, <3>3 DEF Better
    <2>12. ASSUME NEW j \in 1..(z + 1), NEW k \in 1..(z + 1), j < k
           PROVE  Better(side, levels'[j].px, levels'[k].px)
      <3>1. j \in 1..z  BY <2>6, <2>12
      <3>2. CASE k = z + 1  BY <2>5, <2>8, <2>11, <3>1, <3>2
      <3>3. CASE k # z + 1
        <4>1. k \in 1..z  BY <2>6, <3>3
        <4>. QED  BY <2>8, <2>10, <2>12, <3>1, <4>1
      <3>. QED  BY <3>2, <3>3
    <2>. QED  BY <2>7, <2>8, <2>12 DEF LInv, IsBook
  <1>. QED  BY <1>1, <1>2

\* The levels of a view are the groups of the book.
LEMMA ViewGrouped ==
    ASSUME LInv, NEW n, NEW m, InChain(n, m),
           NEW v, ViewOn(v, side, levels, 1..Len(levels), GridOf(side, n, m))
    PROVE  ToSet(v) = Grouped(n, m)
  <1>1. PICK z, b : z = Len(levels) /\ b = GridOf(side, n, m)  OBVIOUS
  <1>2. /\ z \in Nat /\ DOMAIN levels = 1..z
        /\ \A i \in 1..z : b[levels[i].px] = Place(levels[i].px, n, m)
    BY <1>1, BookSums DEF LInv, GridOf, Place
  <1>3. /\ v \in Seq(LevelRecord) /\ DOMAIN v = 1..Len(v)
        /\ \A i \in 1..z : \E j \in 1..Len(v) : v[j].px = b[levels[i].px]
        /\ \A j \in 1..Len(v) : \E i \in 1..z : v[j].px = b[levels[i].px]
    BY <1>1 DEF ViewOn
  <1>. DEFINE Of(px) == {i \in DOMAIN levels : Place(levels[i].px, n, m) = px}
             Made(px) == [px |-> px, sz |-> SumFunctionOnSet(SizesOf(levels), Of(px)),
                          n |-> SumFunctionOnSet(CountsOf(levels), Of(px))]
             Places == {Place(levels[i].px, n, m) : i \in DOMAIN levels}
  <1>4. Grouped(n, m) = {Made(px) : px \in Places}  BY DEF Grouped
  <1>5. \A px : Of(px) = At(levels, 1..z, b, px)  BY <1>2 DEF At
  <1>6. ASSUME NEW j \in 1..Len(v) PROVE v[j] = Made(v[j].px) /\ v[j].px \in Places
    <2>1. /\ v[j].sz = SumFunctionOnSet(SizesOf(levels), Of(v[j].px))
          /\ v[j].n = SumFunctionOnSet(CountsOf(levels), Of(v[j].px))
      <3>. HIDE DEF Of
      <3>. QED  BY <1>1, <1>5 DEF ViewOn
    <2>2. v[j] \in LevelRecord  BY <1>3
    <2>3. v[j] = Made(v[j].px)
      <3>. HIDE DEF Of
      <3>1. v[j] = [px |-> v[j].px, sz |-> v[j].sz, n |-> v[j].n]  BY <2>2, LevelParts
      <3>. QED  BY <2>1, <3>1
    <2>4. v[j].px \in Places
      <3>. HIDE DEF Of, Made
      <3>1. PICK i \in 1..z : v[j].px = b[levels[i].px]  BY <1>3
      <3>2. i \in DOMAIN levels /\ v[j].px = Place(levels[i].px, n, m)  BY <1>2, <3>1
      <3>. QED  BY <3>2
    <2>. QED  BY <2>3, <2>4
  <1>7. ASSUME NEW px \in Places PROVE \E j \in 1..Len(v) : v[j].px = px
    <2>1. PICK i \in 1..z : px = Place(levels[i].px, n, m)  BY <1>2
    <2>2. PICK j \in 1..Len(v) : v[j].px = b[levels[i].px]  BY <1>3
    <2>. QED  BY <1>2, <2>1, <2>2
  <1>8. ToSet(v) = {v[j] : j \in 1..Len(v)}  BY <1>3 DEF ToSet
  <1>. HIDE DEF Made, Places, Of
  <1>. QED  BY <1>4, <1>6, <1>7, <1>8

\* There are six views.
LEMMA ViewsAreSix == ASSUME NEW l, NEW s PROVE DOMAIN Views(l, s) = 1..6
  BY DEF Views

\* Each of the six views is the view of the book.
LEMMA ViewsAreExact ==
    ASSUME LInv PROVE ViewsExact
  <1>1. ASSUME NEW w, NEW n, NEW m, NEW v, InChain(n, m), w = [n |-> n, m |-> m, view |-> v],
               ViewOn(v, side, levels, 1..Len(levels), GridOf(side, n, m))
        PROVE  /\ ToSet(w.view) = Grouped(w.n, w.m)
               /\ \A j \in 1..(Len(w.view) - 1) : Better(side, w.view[j].px, w.view[j + 1].px)
    <2>1. w.view = v /\ w.n = n /\ w.m = m  BY <1>1
    <2>2. ToSet(v) = Grouped(n, m)  BY <1>1, ViewGrouped
    <2>3. ASSUME NEW j \in 1..(Len(v) - 1) PROVE Better(side, v[j].px, v[j + 1].px)
      <3>1. Len(v) \in Nat  BY <1>1 DEF ViewOn
      <3>2. j \in 1..Len(v) /\ j + 1 \in 1..Len(v) /\ j < j + 1  BY <3>1
      <3>. QED  BY <1>1, <3>2 DEF ViewOn
    <2>. QED  BY <2>1, <2>2, <2>3
  <1>. SUFFICES ASSUME NEW i \in DOMAIN Views(levels, side)
                PROVE  LET w == Views(levels, side)[i]
                       IN  /\ ToSet(w.view) = Grouped(w.n, w.m)
                           /\ \A j \in 1..(Len(w.view) - 1) :
                                 Better(side, w.view[j].px, w.view[j + 1].px)
    BY DEF ViewsExact
  <1>2. PICK w : w = Views(levels, side)[i]  OBVIOUS
  <1>3. i \in 1..6  BY ViewsAreSix
  <1>4. \E n, m, v : /\ InChain(n, m) /\ w = [n |-> n, m |-> m, view |-> v]
                     /\ ViewOn(v, side, levels, 1..Len(levels), GridOf(side, n, m))
    BY <1>2, <1>3, ViewsOfBook DEF LInv
  <1>5. /\ ToSet(w.view) = Grouped(w.n, w.m)
        /\ \A j \in 1..(Len(w.view) - 1) : Better(side, w.view[j].px, w.view[j + 1].px)
    BY <1>1, <1>4
  <1>. QED  BY <1>2, <1>5

\* No view promises more than the book has.
LEMMA NothingOverstated ==
    ASSUME LInv PROVE NeverOverstated
  <1>. SUFFICES ASSUME NEW i \in DOMAIN Views(levels, side), NEW k \in DOMAIN Views(levels, side)[i].view
                PROVE  LET v == Views(levels, side)[i].view
                           Up(l, px) == {j \in DOMAIN l : ~Better(side, px, l[j].px)}
                       IN  SumFunctionOnSet(SizesOf(v), Up(v, v[k].px))
                              =< SumFunctionOnSet(SizesOf(levels), Up(levels, v[k].px))
    BY DEF NeverOverstated
  <1>1. i \in 1..6  BY ViewsAreSix
  <1>2. PICK n, m, v : /\ InChain(n, m) /\ Views(levels, side)[i] = [n |-> n, m |-> m, view |-> v]
                       /\ ViewOn(v, side, levels, 1..Len(levels), GridOf(side, n, m))
    BY <1>1, ViewsOfBook DEF LInv
  <1>3. Views(levels, side)[i].view = v  BY <1>2
  <1>4. PICK b : b = GridOf(side, n, m)  OBVIOUS
  <1>5. IsGrid(side, b) /\ ViewOn(v, side, levels, 1..Len(levels), b)
    BY <1>2, <1>4, ViewsAreGrids DEF LInv
  <1>6. k \in DOMAIN v  BY <1>3
  <1>7. SumFunctionOnSet(SizesOf(v), {j \in DOMAIN v : ~Better(side, v[k].px, v[j].px)})
           =< SumFunctionOnSet(SizesOf(levels), {j \in DOMAIN levels : ~Better(side, v[k].px, levels[j].px)})
    BY <1>5, <1>6, ViewPromises DEF LInv
  <1>. QED  BY <1>3, <1>7

\* The book is in order at all times.
LEMMA LevelsInvariant == LevelsSpec => []LInv
  <1>1. LevelsInit => LInv  BY LevelsInitOK
  <1>2. LInv /\ [LevelsNext]_l2vars => LInv'  BY AddLevelOK
  <1>. QED  BY <1>1, <1>2, PTL DEF LevelsSpec

\* refresh_l2_snapshots, for every book of prices below a million (fourteen digits):
\* each of the six views, though it is aggregated from another view, is the book's
\* own grouping by the steps of the view, down to prices of one digit and of zero.
THEOREM ViewsFollowBook == LevelsSpec => []ViewsExact
  <1>1. LInv => ViewsExact  BY ViewsAreExact
  <1>. QED  BY <1>1, LevelsInvariant, PTL

\* Step, at 0.0001 and up: of five digits or more a view's step is the width of the
\* price's bucket, hence there the six views group the book by their own buckets.
THEOREM StepsAreBuckets ==
    ASSUME NEW px \in PriceRange, pow10[4] =< px, NEW n, NEW m, InChain(n, m)
    PROVE  Place(px, n, m) = bucket(px, side, n, m)
  <1>1. PICK d : Digits(px, d)  BY DigitsExist
  <1>2. d \in 1..15 /\ px < pow10[d] /\ px \in Nat  BY <1>1 DEF Digits, PriceRange
  <1>3. d >= 5
    <2>. SUFFICES ASSUME d =< 4 PROVE FALSE  BY <1>2
    <2>1. d \in 0..19 /\ 4 \in 0..19  BY <1>2
    <2>2. pow10[d] =< pow10[4] /\ pow10[d] \in Nat /\ pow10[4] \in Nat
      BY <2>1, PowersGrow, PowerType
    <2>. QED  BY <1>2, <2>2
  <1>4. ASSUME n < 5, Exp(n, d) = Exp(5, d) PROVE FALSE
    <2>1. n \in 2..4 /\ d \in 5..15  BY <1>2, <1>3, <1>4 DEF InChain
    <2>2. Exp(n, d) = d - n /\ (Exp(5, d) = d - 5 \/ Exp(5, d) = 0)  BY <2>1 DEF Exp
    <2>. QED  BY <1>4, <2>1, <2>2
  <1>5. Steps(n, m)[d] = Own(n, m)[d]  BY <1>2, <1>4 DEF Steps
  <1>6. Step(px, n, m) = Own(n, m)[d]  BY <1>1, <1>2, <1>5, StepIs
  <1>7. Increment(px, n, m) = Own(n, m)[d]  BY <1>1, <1>2, IncrementIs
  <1>. QED  BY <1>6, <1>7 DEF Place, bucket

\* bucket, for every such book and view: at no price does a view promise more than
\* the book has at that price or better.
THEOREM ViewsNeverOverstate == LevelsSpec => []NeverOverstated
  <1>1. LInv => NeverOverstated  BY NothingOverstated
  <1>. QED  BY <1>1, LevelsInvariant, PTL

-----------------------------------------------------------------------------
(* The elements of some coins *)

\* r[k] is what OfCoins has kept of the first k elements.
KeptOf(list, coins, S, r) ==
    /\ r \in [0..Len(list) -> Seq(S)] /\ r[0] = <<>>
    /\ \A k \in 1..Len(list) :
          /\ list[k].coin \in coins => r[k] = Append(r[k - 1], list[k])
          /\ list[k].coin \notin coins => r[k] = r[k - 1]

\* OfCoins goes along the list and keeps the elements of those coins.
LEMMA OfCoinsKept ==
    ASSUME NEW S, NEW list \in Seq(S), NEW coins
    PROVE  \E r : KeptOf(list, coins, S, r) /\ OfCoins(list, coins) = r[Len(list)]
  <1>1. PICK n : n = Len(list)  OBVIOUS
  <1>2. n \in Nat /\ DOMAIN list = 1..n /\ \A k \in 1..n : list[k] \in S  BY <1>1
  <1>3. PICK A : A = Seq(S)  OBVIOUS
  <1>4. PICK step : step = [p \in (1..n) \X A |->
                              IF list[p[1]].coin \in coins THEN Append(p[2], list[p[1]]) ELSE p[2]]
    OBVIOUS
  <1>5. step \in [(1..n) \X A -> A]
    <2>. SUFFICES ASSUME NEW p \in (1..n) \X A
                  PROVE  (IF list[p[1]].coin \in coins THEN Append(p[2], list[p[1]]) ELSE p[2]) \in A
      BY <1>4
    <2>1. p[1] \in 1..n /\ p[2] \in A  OBVIOUS
    <2>. QED  BY <1>2, <1>3, <2>1
  <1>6. ASSUME NEW k \in 1..n, NEW a \in A
        PROVE  step[<<k, a>>] = IF list[k].coin \in coins THEN Append(a, list[k]) ELSE a
    <2>1. PICK p : p = <<k, a>>  OBVIOUS
    <2>2. p \in (1..n) \X A /\ p[1] = k /\ p[2] = a  BY <2>1
    <2>. QED  BY <1>4, <2>1, <2>2
  <1>7. <<>> \in A  BY <1>3
  <1>8. PICK f : Folds(n, A, <<>>, step, f)  BY <1>2, <1>5, <1>7, FoldFunctionExists
  <1>. DEFINE Is(g) == g = [s \in SUBSET (1..n) |->
                              IF s = {} THEN <<>>
                              ELSE IF list[Max(s)].coin \in coins
                                   THEN Append(g[s \ {Max(s)}], list[Max(s)]) ELSE g[s \ {Max(s)}]]
  <1>9. Is(f)
    <2>1. PICK h : h = [s \in SUBSET (1..n) |->
                          IF s = {} THEN <<>>
                          ELSE IF list[Max(s)].coin \in coins
                               THEN Append(f[s \ {Max(s)}], list[Max(s)]) ELSE f[s \ {Max(s)}]]
      OBVIOUS
    <2>2. ASSUME NEW s \in SUBSET (1..n) PROVE f[s] = h[s]
      <3>1. CASE s = {}  BY <1>8, <2>1, <3>1 DEF Folds
      <3>2. CASE s # {}
        <4>1. Max(s) \in s  BY <1>2, <3>2, MaxFacts
        <4>2. Max(s) \in 1..n /\ s \ {Max(s)} \in SUBSET (1..n)  BY <4>1
        <4>3. f[s \ {Max(s)}] \in A  BY <1>8, <4>2 DEF Folds
        <4>4. f[s] = step[<<Max(s), f[s \ {Max(s)}]>>]  BY <1>8, <3>2 DEF Folds
        <4>5. PICK k \in 1..n : k = Max(s)  BY <4>2
        <4>6. PICK a \in A : a = f[s \ {Max(s)}]  BY <4>3
        <4>7. f[s] = IF list[k].coin \in coins THEN Append(a, list[k]) ELSE a
          BY <1>6, <4>4, <4>5, <4>6
        <4>. QED  BY <2>1, <3>2, <4>5, <4>6, <4>7
      <3>. QED  BY <3>1, <3>2
    <2>3. DOMAIN f = SUBSET (1..n) /\ DOMAIN h = SUBSET (1..n)  BY <1>8, <2>1 DEF Folds
    <2>4. f = h  BY <1>8, <2>1, <2>2, <2>3 DEF Folds
    <2>. QED  BY <2>1, <2>4
  <1>10. PICK g : g = CHOOSE x : Is(x)  OBVIOUS
  <1>11. Is(g)  BY <1>9, <1>10
  <1>12. OfCoins(list, coins) = g[1..n]
    <2>1. OfCoins(list, coins)
            = (CHOOSE x : x = [s \in SUBSET (DOMAIN list) |->
                                 IF s = {} THEN <<>>
                                 ELSE IF list[Max(s)].coin \in coins
                                      THEN Append(x[s \ {Max(s)}], list[Max(s)])
                                      ELSE x[s \ {Max(s)}]])[DOMAIN list]
      BY DEF OfCoins, FoldLeft, MapThenFoldSet
    <2>. QED  BY <1>2, <1>10, <2>1
  <1>13. ASSUME NEW k \in 1..n
         PROVE  g[1..k] = IF list[k].coin \in coins THEN Append(g[1..(k - 1)], list[k]) ELSE g[1..(k - 1)]
    <2>1. 1..k \in SUBSET (1..n) /\ 1..k # {} /\ Max(1..k) = k /\ (1..k) \ {k} = 1..(k - 1)
      BY <1>2, InitialSegment
    <2>2. PICK s : s = 1..k  OBVIOUS
    <2>3. g[s] = IF list[Max(s)].coin \in coins
                 THEN Append(g[s \ {Max(s)}], list[Max(s)]) ELSE g[s \ {Max(s)}]
      BY <1>11, <2>1, <2>2
    <2>. QED  BY <2>1, <2>2, <2>3
  <1>14. g[1..0] = <<>>
    <2>1. {} \in SUBSET (1..n) /\ 1..0 = {}  OBVIOUS
    <2>. QED  BY <1>11, <2>1
  <1>. HIDE DEF Is
  <1>15. \A k \in Nat : k =< n => g[1..k] \in Seq(S)
    <2>1. PICK K : K = {k \in Nat : k =< n => g[1..k] \in Seq(S)}  OBVIOUS
    <2>2. 0 \in K
      <3>1. <<>> \in Seq(S)  OBVIOUS
      <3>. QED  BY <1>14, <2>1, <3>1
    <2>3. ASSUME NEW k \in K PROVE k + 1 \in K
      <3>1. k \in Nat  BY <2>1
      <3>2. CASE k + 1 =< n
        <4>1. k + 1 \in 1..n /\ (k + 1) - 1 = k /\ k =< n  BY <1>2, <3>1, <3>2
        <4>2. g[1..k] \in Seq(S) /\ list[k + 1] \in S  BY <1>2, <2>1, <4>1
        <4>3. Append(g[1..k], list[k + 1]) \in Seq(S)  BY <4>2
        <4>4. g[1..(k + 1)] \in Seq(S)  BY <1>13, <4>1, <4>2, <4>3
        <4>. QED  BY <2>1, <3>1, <4>4
      <3>3. CASE ~(k + 1 =< n)  BY <2>1, <3>1, <3>3
      <3>. QED  BY <3>2, <3>3
    <2>4. K \in SUBSET Nat  BY <2>1
    <2>. QED  BY <2>1, <2>2, <2>3, <2>4, AllNaturals
  <1>16. PICK r : r = [k \in 0..n |-> g[1..k]]  OBVIOUS
  <1>17. r \in [0..n -> Seq(S)]
    <2>1. \A k \in 0..n : g[1..k] \in Seq(S)  BY <1>2, <1>15
    <2>. QED  BY <1>16, <2>1
  <1>18. r[0] = <<>> /\ r[n] = g[1..n]  BY <1>2, <1>14, <1>16
  <1>19. ASSUME NEW k \in 1..n
         PROVE  r[k] = IF list[k].coin \in coins THEN Append(r[k - 1], list[k]) ELSE r[k - 1]
    <2>1. k \in 0..n /\ k - 1 \in 0..n  BY <1>2
    <2>. QED  BY <1>13, <1>16, <2>1
  <1>. QED  BY <1>1, <1>12, <1>17, <1>18, <1>19 DEF KeptOf

IsConcat(a, s, t) == a = s \o t
IsAppend(a, s, e) == a = Append(s, e)

\* What is appended to t is appended to s \o t.
LEMMA AppendConcat ==
    ASSUME NEW S, NEW s \in Seq(S), NEW t \in Seq(S), NEW e \in S,
           NEW st, NEW te, NEW a, NEW b,
           IsConcat(st, s, t), IsAppend(te, t, e), IsAppend(a, st, e), IsConcat(b, s, te)
    PROVE  a = b
  <1>. USE DEF IsConcat, IsAppend
  <1>1. PICK m, n : m = Len(s) /\ n = Len(t)  OBVIOUS
  <1>2. m \in Nat /\ n \in Nat  BY <1>1
  <1>3. te \in Seq(S) /\ Len(te) = n + 1 /\ te[n + 1] = e /\ \A i \in 1..n : te[i] = t[i]
    BY <1>1, <1>2
  <1>4. /\ st \in Seq(S) /\ Len(st) = m + n
        /\ \A i \in 1..(m + n) : st[i] = IF i =< m THEN s[i] ELSE t[i - m]
    BY <1>1, ConcatProperties
  <1>5. /\ b \in Seq(S) /\ Len(b) = Len(s) + Len(te)
        /\ \A i \in 1..(Len(s) + Len(te)) : b[i] = IF i =< Len(s) THEN s[i] ELSE te[i - Len(s)]
    BY <1>3, ConcatProperties
  <1>6. /\ Len(b) = m + (n + 1)
        /\ \A i \in 1..(m + (n + 1)) : b[i] = IF i =< m THEN s[i] ELSE te[i - m]
    BY <1>1, <1>3, <1>5
  <1>7. a \in Seq(S) /\ Len(a) = (m + n) + 1 /\ a[(m + n) + 1] = e /\ \A i \in 1..(m + n) : a[i] = st[i]
    BY <1>2, <1>4
  <1>8. Len(a) = Len(b)  BY <1>2, <1>6, <1>7
  <1>9. ASSUME NEW i \in 1..Len(a) PROVE a[i] = b[i]
    <2>1. i \in 1..(m + (n + 1))  BY <1>2, <1>7
    <2>2. CASE i = (m + n) + 1
      <3>1. ~(i =< m) /\ i - m = n + 1  BY <1>2, <2>2
      <3>. QED  BY <1>3, <1>6, <1>7, <2>1, <2>2, <3>1
    <2>3. CASE i # (m + n) + 1
      <3>1. i \in 1..(m + n)  BY <1>2, <2>1, <2>3
      <3>2. CASE i =< m  BY <1>4, <1>6, <1>7, <2>1, <3>1, <3>2
      <3>3. CASE ~(i =< m)
        <4>1. i - m \in 1..n  BY <1>2, <3>1, <3>3
        <4>. QED  BY <1>3, <1>4, <1>6, <1>7, <2>1, <3>1, <3>3, <4>1
      <3>. QED  BY <3>2, <3>3
    <2>. QED  BY <2>2, <2>3
  <1>. QED  BY <1>5, <1>7, <1>8, <1>9, SeqEqual

\* After j elements `list' goes on with the first n of `rest'.
GoesOn(list, rest, j, n) ==
    n =< Len(rest) /\ n + j =< Len(list) /\ \A k \in 1..n : rest[k] = list[k + j]

Joined(r, u, j, k) == r[k + j] = r[j] \o u[k]

\* What is kept of two lists in a row is what is kept of each, in a row.
LEMMA KeptGoesOn ==
    ASSUME NEW S, NEW list \in Seq(S), NEW rest \in Seq(S), NEW coins, NEW r, NEW u,
           KeptOf(list, coins, S, r), KeptOf(rest, coins, S, u),
           NEW j \in Nat, NEW n \in Nat, GoesOn(list, rest, j, n)
    PROVE  Joined(r, u, j, n)
  <1>1. PICK K : K = {k \in Nat : k =< n => Joined(r, u, j, k)}  OBVIOUS
  <1>2. PICK a, b : a = Len(list) /\ b = Len(rest)  OBVIOUS
  <1>3. a \in Nat /\ b \in Nat /\ n =< b /\ n + j =< a  BY <1>2 DEF GoesOn
  <1>4. r \in [0..a -> Seq(S)] /\ u \in [0..b -> Seq(S)] /\ u[0] = <<>>  BY <1>2 DEF KeptOf
  <1>5. r[j] \in Seq(S)
    <2>1. j \in 0..a  BY <1>3
    <2>. QED  BY <1>4, <2>1
  <1>6. 0 \in K
    <2>1. r[j] \o u[0] = r[j]  BY <1>4, <1>5, ConcatEmptySeq
    <2>2. 0 + j = j  OBVIOUS
    <2>3. Joined(r, u, j, 0)  BY <2>1, <2>2 DEF Joined
    <2>. QED  BY <1>1, <2>3
  <1>7. ASSUME NEW k \in K PROVE k + 1 \in K
    <2>1. k \in Nat  BY <1>1
    <2>. SUFFICES ASSUME k + 1 =< n PROVE Joined(r, u, j, k + 1)  BY <1>1, <2>1
    <2>2. PICK x, y : x = k + 1 /\ y = (k + 1) + j  OBVIOUS
    <2>3. /\ x \in 1..n /\ x \in 1..b /\ y \in 1..a /\ x - 1 = k /\ y - 1 = k + j /\ y = x + j
          /\ k \in 0..b /\ k =< n
      BY <1>3, <2>1, <2>2
    <2>4. r[k + j] = r[j] \o u[k]  BY <1>1, <2>1, <2>3 DEF Joined
    <2>5. rest[x] = list[y] /\ rest[x] \in S
      <3>1. rest[x] \in S  BY <1>2, <2>3
      <3>. QED  BY <2>3, <3>1 DEF GoesOn
    <2>6. u[k] \in Seq(S)  BY <1>4, <2>3
    <2>7. /\ list[y].coin \in coins => r[y] = Append(r[k + j], list[y])
          /\ list[y].coin \notin coins => r[y] = r[k + j]
      BY <1>2, <2>3 DEF KeptOf
    <2>8. /\ rest[x].coin \in coins => u[x] = Append(u[k], rest[x])
          /\ rest[x].coin \notin coins => u[x] = u[k]
      BY <1>2, <2>3 DEF KeptOf
    <2>9. CASE list[y].coin \in coins
      <3>1. PICK e \in S : e = list[y]  BY <2>5
      <3>2. r[y] = Append(r[j] \o u[k], e) /\ u[x] = Append(u[k], e)
        BY <2>4, <2>5, <2>7, <2>8, <2>9, <3>1
      <3>3. PICK v, w : v = r[j] /\ w = u[k]  OBVIOUS
      <3>4. v \in Seq(S) /\ w \in Seq(S)  BY <1>5, <2>6, <3>3
      <3>5. PICK vw, we : IsConcat(vw, v, w) /\ IsAppend(we, w, e)  BY DEF IsConcat, IsAppend
      <3>6. PICK a2, b2 : IsAppend(a2, vw, e) /\ IsConcat(b2, v, we)  BY DEF IsConcat, IsAppend
      <3>7. a2 = b2  BY <3>1, <3>4, <3>5, <3>6, AppendConcat
      <3>8. r[y] = a2 /\ u[x] = we  BY <3>2, <3>3, <3>5, <3>6 DEF IsConcat, IsAppend
      <3>. QED  BY <2>2, <3>3, <3>6, <3>7, <3>8 DEF Joined, IsConcat
    <2>10. CASE list[y].coin \notin coins  BY <2>2, <2>4, <2>5, <2>7, <2>8, <2>10 DEF Joined
    <2>. QED  BY <2>9, <2>10
  <1>8. K \in SUBSET Nat  BY <1>1
  <1>9. n \in K  BY <1>6, <1>7, <1>8, AllNaturals
  <1>. QED  BY <1>1, <1>9

\* Filtering by coin distributes over concatenation.
LEMMA OfCoinsConcat ==
    ASSUME NEW S, NEW s \in Seq(S), NEW t \in Seq(S), NEW coins, NEW w, IsConcat(w, s, t)
    PROVE  /\ IsConcat(OfCoins(w, coins), OfCoins(s, coins), OfCoins(t, coins))
           /\ OfCoins(s, coins) \in Seq(S) /\ OfCoins(t, coins) \in Seq(S)
  <1>. USE DEF IsConcat
  <1>1. PICK a, b : a = Len(s) /\ b = Len(t)  OBVIOUS
  <1>2. /\ w \in Seq(S) /\ a \in Nat /\ b \in Nat /\ Len(w) = a + b
        /\ \A k \in 1..(a + b) : w[k] = IF k =< a THEN s[k] ELSE t[k - a]
    BY <1>1, ConcatProperties
  <1>3. PICK r : KeptOf(w, coins, S, r) /\ OfCoins(w, coins) = r[Len(w)]  BY <1>2, OfCoinsKept
  <1>4. PICK p : KeptOf(s, coins, S, p) /\ OfCoins(s, coins) = p[Len(s)]  BY OfCoinsKept
  <1>5. PICK q : KeptOf(t, coins, S, q) /\ OfCoins(t, coins) = q[Len(t)]  BY OfCoinsKept
  <1>6. r[a + 0] = r[0] \o p[a]
    <2>1. \A k \in 1..a : s[k] = w[k + 0]  BY <1>2
    <2>2. a =< Len(s) /\ a + 0 =< Len(w)  BY <1>1, <1>2
    <2>3. PICK z : z = 0  OBVIOUS
    <2>4. z \in Nat /\ GoesOn(w, s, z, a)  BY <2>1, <2>2, <2>3 DEF GoesOn
    <2>5. Joined(r, p, z, a)  BY <1>2, <1>3, <1>4, <2>4, KeptGoesOn
    <2>. QED  BY <2>3, <2>5 DEF Joined
  <1>7. r[b + a] = r[a] \o q[b]
    <2>1. \A k \in 1..b : t[k] = w[k + a]
      <3>. SUFFICES ASSUME NEW k \in 1..b PROVE t[k] = w[k + a]  OBVIOUS
      <3>1. PICK l : l = k + a  OBVIOUS
      <3>2. l \in 1..(a + b) /\ ~(l =< a) /\ l - a = k  BY <1>2, <3>1
      <3>. QED  BY <1>2, <3>1, <3>2
    <2>2. b =< Len(t) /\ b + a =< Len(w)  BY <1>1, <1>2
    <2>3. GoesOn(w, t, a, b)  BY <2>1, <2>2 DEF GoesOn
    <2>4. Joined(r, q, a, b)  BY <1>2, <1>3, <1>5, <2>3, KeptGoesOn
    <2>. QED  BY <2>4 DEF Joined
  <1>8. p[a] \in Seq(S)
    <2>1. a \in 0..a  BY <1>2
    <2>. QED  BY <1>1, <1>4, <2>1 DEF KeptOf
  <1>9. q[b] \in Seq(S)
    <2>1. b \in 0..b  BY <1>2
    <2>. QED  BY <1>1, <1>5, <2>1 DEF KeptOf
  <1>10. r[0] \o p[a] = p[a]
    <2>1. r[0] = <<>>  BY <1>3 DEF KeptOf
    <2>. QED  BY <1>8, <2>1, ConcatEmptySeq
  <1>11. a + 0 = a /\ b + a = Len(w)  BY <1>2
  <1>. QED  BY <1>1, <1>3, <1>4, <1>5, <1>6, <1>7, <1>8, <1>10, <1>11, <1>9

\* One element is kept or left out.
LEMMA OfCoinsOne ==
    ASSUME NEW e, NEW coins
    PROVE  /\ e.coin \in coins => OfCoins(<<e>>, coins) = <<e>>
           /\ e.coin \notin coins => OfCoins(<<e>>, coins) = <<>>
  <1>1. PICK s : s = <<e>>  OBVIOUS
  <1>2. s \in Seq({e}) /\ Len(s) = 1 /\ s[1] = e  BY <1>1
  <1>3. PICK r : KeptOf(s, coins, {e}, r) /\ OfCoins(s, coins) = r[Len(s)]  BY <1>2, OfCoinsKept
  <1>4. 1 \in 1..Len(s) /\ 1 - 1 = 0  BY <1>2
  <1>5. /\ e.coin \in coins => r[1] = Append(<<>>, e)
        /\ e.coin \notin coins => r[1] = <<>>
    BY <1>2, <1>3, <1>4 DEF KeptOf
  <1>6. Append(<<>>, e) = <<e>>  OBVIOUS
  <1>. QED  BY <1>1, <1>2, <1>3, <1>5, <1>6

\* OfCoins gives elements of the list.
LEMMA OfCoinsType ==
    ASSUME NEW S, NEW s \in Seq(S), NEW coins
    PROVE  OfCoins(s, coins) \in Seq(S)
  <1>1. PICK w : IsConcat(w, s, s)  BY DEF IsConcat
  <1>. QED  BY <1>1, OfCoinsConcat

\* An empty list has nothing of any coin.
LEMMA OfCoinsNone ==
    ASSUME NEW coins PROVE OfCoins(<<>>, coins) = <<>>
  <1>1. PICK s : s = <<>>  OBVIOUS
  <1>2. s \in Seq({}) /\ Len(s) = 0  BY <1>1
  <1>3. PICK r : KeptOf(s, coins, {}, r) /\ OfCoins(s, coins) = r[Len(s)]  BY <1>2, OfCoinsKept
  <1>. QED  BY <1>1, <1>2, <1>3 DEF KeptOf

-----------------------------------------------------------------------------
(* Fills and trades *)

Fills == [tid : Nat, coin : TradedCoins, side : Sides, crossed : BOOLEAN]
TradesMade == [tid : Nat, coin : TradedCoins, side : Sides]

\* Two fills at the end of a record are paired first.
LEMMA PairsOfTwoMore ==
    ASSUME NEW fills \in Seq(Fills), NEW f1 \in Fills, NEW f2 \in Fills
    PROVE  PairsFromEnd(fills \o <<f1, f2>>) = <<from_fills(f1, f2)>> \o PairsFromEnd(fills)
  <1>1. PICK n, h, w : n = Len(fills) /\ h = n \div 2 /\ w = fills \o <<f1, f2>>  OBVIOUS
  <1>2. PICK two : two = <<f1, f2>>  OBVIOUS
  <1>3. two \in Seq(Fills) /\ Len(two) = 2 /\ two[1] = f1 /\ two[2] = f2  BY <1>2
  <1>4. /\ n \in Nat /\ w \in Seq(Fills) /\ Len(w) = n + 2
        /\ \A k \in 1..(n + 2) : w[k] = IF k =< n THEN fills[k] ELSE two[k - n]
    BY <1>1, <1>2, <1>3, ConcatProperties
  <1>5. h \in Nat /\ 2 * h =< n /\ n < 2 * h + 2 /\ (n + 2) \div 2 = h + 1  BY <1>1, <1>4
  <1>6. PICK p, q : p = PairsFromEnd(w) /\ q = PairsFromEnd(fills)  OBVIOUS
  <1>7. p = [k \in 1..(h + 1) |-> from_fills(w[(n + 2) - 2 * k + 1], w[(n + 2) - 2 * k + 2])]
    BY <1>4, <1>5, <1>6 DEF PairsFromEnd
  <1>8. q = [k \in 1..h |-> from_fills(fills[n - 2 * k + 1], fills[n - 2 * k + 2])]
    BY <1>1, <1>6 DEF PairsFromEnd
  <1>9. PICK t : t = from_fills(f1, f2)  OBVIOUS
  <1>10. p[1] = t
    <2>1. 1 \in 1..(h + 1) /\ (n + 2) - 2 * 1 + 1 = n + 1 /\ (n + 2) - 2 * 1 + 2 = n + 2  BY <1>4, <1>5
    <2>2. w[n + 1] = f1 /\ w[n + 2] = f2
      <3>1. n + 1 \in 1..(n + 2) /\ n + 2 \in 1..(n + 2) /\ ~(n + 1 =< n) /\ ~(n + 2 =< n)
            /\ (n + 1) - n = 1 /\ (n + 2) - n = 2
        BY <1>4
      <3>. QED  BY <1>3, <1>4, <3>1
    <2>. QED  BY <1>7, <1>9, <2>1, <2>2
  <1>11. ASSUME NEW k \in 1..h PROVE p[k + 1] = q[k]
    <2>1. /\ k + 1 \in 1..(h + 1) /\ (n + 2) - 2 * (k + 1) + 1 = n - 2 * k + 1
          /\ (n + 2) - 2 * (k + 1) + 2 = n - 2 * k + 2
          /\ n - 2 * k + 1 \in 1..n /\ n - 2 * k + 2 \in 1..n
      BY <1>4, <1>5
    <2>2. \A i \in 1..n : w[i] = fills[i]  BY <1>4
    <2>. QED  BY <1>7, <1>8, <2>1, <2>2
  <1>12. PICK one : one = <<t>>  OBVIOUS
  <1>13. PICK S : S = {t} \union {q[k] : k \in 1..h}  OBVIOUS
  <1>14. one \in Seq(S) /\ q \in Seq(S) /\ Len(one) = 1 /\ Len(q) = h /\ one[1] = t
    <2>1. q \in [1..h -> S]  BY <1>8, <1>13
    <2>2. q \in Seq(S) /\ Len(q) = h  BY <1>5, <2>1
    <2>. QED  BY <1>12, <1>13, <2>2
  <1>15. PICK v : v = one \o q  OBVIOUS
  <1>16. /\ v \in Seq(S) /\ Len(v) = 1 + h
         /\ \A k \in 1..(1 + h) : v[k] = IF k =< 1 THEN one[k] ELSE q[k - 1]
    <2>1. /\ v \in Seq(S) /\ Len(v) = Len(one) + Len(q)
          /\ \A k \in 1..(Len(one) + Len(q)) : v[k] = IF k =< Len(one) THEN one[k] ELSE q[k - Len(one)]
      BY <1>14, <1>15, ConcatProperties
    <2>. QED  BY <1>14, <2>1
  <1>17. v = p
    <2>1. DOMAIN p = 1..(h + 1) /\ DOMAIN v = 1..(h + 1)  BY <1>5, <1>7, <1>16
    <2>2. ASSUME NEW k \in 1..(h + 1) PROVE p[k] = v[k]
      <3>1. CASE k = 1
        <4>1. 1 \in 1..(1 + h) /\ 1 =< 1  BY <1>5
        <4>2. v[1] = one[1]  BY <1>16, <4>1
        <4>. QED  BY <1>10, <1>14, <3>1, <4>2
      <3>2. CASE k # 1
        <4>1. k - 1 \in 1..h /\ (k - 1) + 1 = k /\ ~(k =< 1) /\ k \in 1..(1 + h)  BY <1>5, <3>2
        <4>2. p[k] = q[k - 1]  BY <1>11, <4>1
        <4>. QED  BY <1>16, <4>1, <4>2
      <3>. QED  BY <3>1, <3>2
    <2>3. p \in Seq(S) /\ Len(p) = h + 1
      <3>1. \A k \in 1..(h + 1) : p[k] \in S
        <4>1. \A k \in 1..Len(v) : v[k] \in S  BY <1>16
        <4>2. 1..Len(v) = 1..(h + 1)  BY <1>5, <1>16
        <4>. QED  BY <2>2, <4>1, <4>2
      <3>2. p \in [1..(h + 1) -> S]  BY <1>7, <3>1
      <3>. QED  BY <1>5, <3>2
    <2>4. Len(p) = Len(v)  BY <1>5, <1>16, <2>3
    <2>. QED  BY <1>16, <2>2, <2>3, <2>4, SeqEqual
  <1>. QED  BY <1>1, <1>6, <1>9, <1>12, <1>15, <1>17

\* The last list of a coin is turned back: what was found first is now last.
LEMMA ReverseCons ==
    ASSUME NEW S, NEW s \in Seq(S), NEW e \in S
    PROVE  Reverse(<<e>> \o s) = Append(Reverse(s), e)
  <1>1. PICK n, es, a, b, rs : /\ n = Len(s) /\ es = <<e>> \o s /\ a = Reverse(es)
                               /\ rs = Reverse(s) /\ b = Append(rs, e)
    OBVIOUS
  <1>2. PICK one : one = <<e>>  OBVIOUS
  <1>3. one \in Seq(S) /\ Len(one) = 1 /\ one[1] = e /\ n \in Nat  BY <1>1, <1>2
  <1>4. /\ es \in Seq(S) /\ Len(es) = Len(one) + Len(s)
        /\ \A i \in 1..(Len(one) + Len(s)) : es[i] = IF i =< Len(one) THEN one[i] ELSE s[i - Len(one)]
    BY <1>1, <1>2, <1>3, ConcatProperties
  <1>5. Len(es) = n + 1 /\ \A i \in 1..(n + 1) : es[i] = IF i =< 1 THEN e ELSE s[i - 1]
    BY <1>1, <1>3, <1>4
  <1>6. a = [j \in 1..(n + 1) |-> es[(n + 1) - j + 1]]  BY <1>1, <1>5 DEF Reverse
  <1>7. rs = [j \in 1..n |-> s[n - j + 1]]  BY <1>1 DEF Reverse
  <1>8. \A i \in 1..n : s[i] \in S  BY <1>1
  <1>9. rs \in Seq(S) /\ Len(rs) = n
    <2>1. \A j \in 1..n : n - j + 1 \in 1..n  BY <1>3
    <2>2. rs \in [1..n -> S]  BY <1>7, <1>8, <2>1
    <2>. QED  BY <1>3, <2>2
  <1>10. b \in Seq(S) /\ Len(b) = n + 1 /\ b[n + 1] = e /\ \A j \in 1..n : b[j] = rs[j]
    BY <1>1, <1>3, <1>9
  <1>11. ASSUME NEW j \in 1..(n + 1) PROVE a[j] = b[j]
    <2>1. PICK i : i = (n + 1) - j + 1  OBVIOUS
    <2>2. i \in 1..(n + 1) /\ a[j] = es[i]  BY <1>3, <1>6, <2>1
    <2>3. CASE j = n + 1
      <3>1. i = 1  BY <1>3, <2>1, <2>3
      <3>. QED  BY <1>3, <1>5, <1>10, <2>2, <2>3, <3>1
    <2>4. CASE j # n + 1
      <3>1. j \in 1..n /\ ~(i =< 1) /\ i - 1 = n - j + 1  BY <1>3, <2>1, <2>4
      <3>. QED  BY <1>5, <1>7, <1>10, <2>2, <3>1
    <2>. QED  BY <2>3, <2>4
  <1>12. a \in Seq(S) /\ Len(a) = n + 1
    <2>1. \A j \in 1..(n + 1) : b[j] \in S
      <3>1. \A j \in 1..Len(b) : b[j] \in S  BY <1>10
      <3>. QED  BY <1>10, <3>1
    <2>2. a \in [1..(n + 1) -> S]  BY <1>6, <1>11, <2>1
    <2>. QED  BY <1>3, <2>2
  <1>13. Len(a) = Len(b) /\ \A j \in 1..Len(a) : a[j] = b[j]  BY <1>10, <1>11, <1>12
  <1>14. a = b  BY <1>10, <1>12, <1>13, SeqEqual
  <1>. QED  BY <1>1, <1>14

\* What the code and the model do with the two fills of a new trade.
LEMMA TwoFillsMakeTrade ==
    ASSUME NEW tid \in Nat, NEW coin \in TradedCoins, NEW taker \in Sides, NEW first \in Sides,
           NEW second \in Sides, second # first
    PROVE  from_fills(fill(tid, coin, first, taker), fill(tid, coin, second, taker))
              = [tid |-> tid, coin |-> coin, side |-> taker]
  <1>1. (first = "Ask" /\ second = "Bid") \/ (first = "Bid" /\ second = "Ask")  BY DEF Sides
  <1>2. taker = "Ask" \/ taker = "Bid"  BY DEF Sides
  <1>3. CASE first = "Ask" /\ second = "Bid"  BY <1>2, <1>3 DEF from_fills, fill
  <1>4. CASE first = "Bid" /\ second = "Ask"  BY <1>2, <1>4 DEF from_fills, fill
  <1>. QED  BY <1>1, <1>3, <1>4

\* What a pair of fills becomes.
Pairs == TradesMade \union {NoTrade}

\* PairsFromEnd gives pairs of fills.
LEMMA PairsType ==
    ASSUME NEW fills \in Seq(Fills)
    PROVE  PairsFromEnd(fills) \in Seq(Pairs)
  <1>1. PICK n, h, p : n = Len(fills) /\ h = n \div 2 /\ p = PairsFromEnd(fills)  OBVIOUS
  <1>2. n \in Nat /\ h \in Nat /\ 2 * h =< n /\ \A i \in 1..n : fills[i] \in Fills  BY <1>1
  <1>3. p = [k \in 1..h |-> from_fills(fills[n - 2 * k + 1], fills[n - 2 * k + 2])]
    BY <1>1 DEF PairsFromEnd
  <1>4. ASSUME NEW f1 \in Fills, NEW f2 \in Fills PROVE from_fills(f1, f2) \in Pairs
    BY DEF from_fills, Pairs, TradesMade, Fills, Sides
  <1>5. \A k \in 1..h : n - 2 * k + 1 \in 1..n /\ n - 2 * k + 2 \in 1..n  BY <1>2
  <1>6. p \in [1..h -> Pairs]  BY <1>2, <1>3, <1>4, <1>5
  <1>. QED  BY <1>1, <1>2, <1>6

\* Two fills more, of one coin, in a record filtered by coin.
LEMMA OfCoinsTwo ==
    ASSUME NEW record \in Seq(Fills), NEW f1 \in Fills, NEW f2 \in Fills, f1.coin = f2.coin,
           NEW coins, NEW two, NEW w, two = <<f1, f2>>, IsConcat(w, record, two)
    PROVE  /\ f1.coin \in coins => IsConcat(OfCoins(w, coins), OfCoins(record, coins), two)
           /\ f1.coin \notin coins => IsConcat(OfCoins(w, coins), OfCoins(record, coins), <<>>)
  <1>1. PICK a, b : a = <<f1>> /\ b = <<f2>>  OBVIOUS
  <1>2. /\ two \in Seq(Fills) /\ a \in Seq(Fills) /\ b \in Seq(Fills)
        /\ IsConcat(two, a, b) /\ IsConcat(w, record, two)
    <2>1. two \in Seq(Fills) /\ a \in Seq(Fills) /\ b \in Seq(Fills)  BY <1>1
    <2>2. two = Append(a, f2)  BY <1>1
    <2>3. Append(a, f2) = a \o b  BY <1>1, <2>1, AppendIsConcat
    <2>. QED  BY <1>1, <2>1, <2>2, <2>3 DEF IsConcat
  <1>3. PICK o, oa, ob, ot, ow : /\ o = OfCoins(record, coins) /\ oa = OfCoins(a, coins)
                                 /\ ob = OfCoins(b, coins) /\ ot = OfCoins(two, coins)
                                 /\ ow = OfCoins(w, coins)
    OBVIOUS
  <1>4. IsConcat(ow, o, ot) /\ o \in Seq(Fills)  BY <1>2, <1>3, OfCoinsConcat
  <1>5. IsConcat(ot, oa, ob)  BY <1>2, <1>3, OfCoinsConcat
  <1>. USE DEF IsConcat
  <1>6. CASE f1.coin \in coins
    <2>1. oa = a /\ ob = b  BY <1>1, <1>3, <1>6, OfCoinsOne
    <2>2. ot = two  BY <1>2, <1>5, <2>1
    <2>. QED  BY <1>1, <1>3, <1>4, <1>6, <2>2
  <1>7. CASE f1.coin \notin coins
    <2>1. oa = <<>> /\ ob = <<>>  BY <1>1, <1>3, <1>7, OfCoinsOne
    <2>2. ot = <<>>  BY <1>5, <2>1
    <2>. QED  BY <1>3, <1>4, <1>7, <2>2
  <1>. QED  BY <1>6, <1>7

-----------------------------------------------------------------------------
(* The theorem *)

TInv ==
    /\ made \in Seq(TradesMade) /\ events \in Seq(Fills)
    /\ TradesExact

\* Nothing is traded at the start.
LEMMA TradesInitOK ==
    ASSUME TradesInit PROVE TInv
  <1>1. made = <<>> /\ events = <<>>  BY DEF TradesInit
  <1>2. made \in Seq(TradesMade) /\ events \in Seq(Fills)  BY <1>1
  <1>3. ASSUME NEW coin PROVE send_fill_batch(events, coin) = OfCoins(made, {coin})
    <2>1. parse_in_scope(events) = <<>>  BY <1>1, OfCoinsNone DEF parse_in_scope
    <2>2. PICK p, f : f = <<>> /\ p = PairsFromEnd(f)  OBVIOUS
    <2>3. Len(f) = 0 /\ 0 \div 2 = 0  BY <2>2
    <2>4. p = [k \in 1..0 |-> from_fills(f[Len(f) - 2 * k + 1], f[Len(f) - 2 * k + 2])]
      BY <2>2, <2>3 DEF PairsFromEnd
    <2>5. p = <<>>  BY <2>4
    <2>6. OfCoins(p, {coin}) = <<>>  BY <2>5, OfCoinsNone
    <2>7. Reverse(<<>>) = <<>>  BY DEF Reverse
    <2>8. OfCoins(made, {coin}) = <<>>  BY <1>1, OfCoinsNone
    <2>. QED  BY <2>1, <2>2, <2>6, <2>7, <2>8 DEF send_fill_batch, coin_to_trades
  <1>. QED  BY <1>2, <1>3 DEF TInv, TradesExact

\* One more trade of the node, two more fills.
LEMMA NodeTradesOK ==
    ASSUME TInv, NEW coin \in TradedCoins, NEW taker \in Sides, NEW first \in Sides,
           NodeTrades(coin, taker, first)
    PROVE  TInv'
  <1>1. PICK tid : tid = Len(made) + 1  OBVIOUS
  <1>2. PICK second : second = CHOOSE s \in Sides : s # first  OBVIOUS
  <1>3. second \in Sides /\ second # first
    <2>1. \E s \in Sides : s # first  BY DEF Sides
    <2>. QED  BY <1>2, <2>1
  <1>4. PICK f1, f2, t : /\ f1 = fill(tid, coin, first, taker) /\ f2 = fill(tid, coin, second, taker)
                         /\ t = [tid |-> tid, coin |-> coin, side |-> taker]
    OBVIOUS
  <1>5. /\ made' = Append(made, t) /\ events' = events \o <<f1, f2>>
        /\ made \in Seq(TradesMade) /\ events \in Seq(Fills) /\ tid \in Nat
    BY <1>1, <1>2, <1>4 DEF NodeTrades, TInv
  <1>6. f1 \in Fills /\ f2 \in Fills /\ t \in TradesMade /\ f1.coin = coin /\ f2.coin = coin /\ t.coin = coin
    BY <1>3, <1>4, <1>5 DEF Fills, TradesMade, fill
  <1>7. from_fills(f1, f2) = t  BY <1>3, <1>4, <1>5, TwoFillsMakeTrade
  <1>8. made' \in Seq(TradesMade) /\ events' \in Seq(Fills)
    <2>1. <<f1, f2>> \in Seq(Fills)  BY <1>6
    <2>. QED  BY <1>5, <1>6, <2>1, ConcatProperties
  <1>9. PICK two, w : two = <<f1, f2>> /\ w = events'  OBVIOUS
  <1>10. IsConcat(w, events, two)  BY <1>5, <1>9 DEF IsConcat
  <1>11. PICK F : F = OfCoins(events, InScope)  OBVIOUS
  <1>12. F \in Seq(Fills)  BY <1>5, <1>11, OfCoinsType
  <1>13. PICK P : P = PairsFromEnd(F)  OBVIOUS
  <1>14. P \in Seq(Pairs) /\ t \in Pairs  BY <1>6, <1>12, <1>13, PairsType DEF Pairs
  <1>15. ASSUME NEW c \in Subscribed \cap InScope
         PROVE  send_fill_batch(events', c) = OfCoins(made', {c})
    <2>1. PICK O, M : O = OfCoins(P, {c}) /\ M = OfCoins(made, {c})  OBVIOUS
    <2>2. Reverse(O) = M
      BY <1>11, <1>13, <2>1 DEF TInv, TradesExact, send_fill_batch, coin_to_trades, parse_in_scope
    <2>3. PICK one : one = <<t>>  OBVIOUS
    <2>4. one \in Seq(TradesMade) /\ one \in Seq(Pairs)  BY <1>6, <1>14, <2>3
    <2>5. M \in Seq(TradesMade)  BY <1>5, <2>1, OfCoinsType
    <2>6. PICK m1 : m1 = OfCoins(one, {c})  OBVIOUS
    <2>7. OfCoins(made', {c}) = M \o m1
      <3>1. made' = made \o one  BY <1>5, <1>6, <2>3, AppendIsConcat
      <3>2. PICK x : x = made'  OBVIOUS
      <3>3. IsConcat(x, made, one)  BY <3>1, <3>2 DEF IsConcat
      <3>4. IsConcat(OfCoins(x, {c}), M, m1)  BY <1>5, <2>1, <2>4, <2>6, <3>3, OfCoinsConcat
      <3>. QED  BY <3>2, <3>4 DEF IsConcat
    <2>8. OfCoins(one \o P, {c}) = m1 \o O /\ O \in Seq(Pairs)
      <3>1. PICK x : x = one \o P  OBVIOUS
      <3>2. IsConcat(x, one, P)  BY <3>1 DEF IsConcat
      <3>3. IsConcat(OfCoins(x, {c}), m1, O) /\ O \in Seq(Pairs)
        BY <1>14, <2>1, <2>4, <2>6, <3>2, OfCoinsConcat
      <3>. QED  BY <3>1, <3>3 DEF IsConcat
    <2>9. CASE coin \in InScope
      <3>1. OfCoins(events', InScope) = F \o <<f1, f2>>
        <4>1. IsConcat(OfCoins(w, InScope), F, two)
          BY <1>5, <1>6, <1>11, <1>9, <1>10, <2>9, OfCoinsTwo
        <4>. QED  BY <1>9, <4>1 DEF IsConcat
      <3>2. PairsFromEnd(F \o <<f1, f2>>) = one \o P
        BY <1>6, <1>7, <1>12, <1>13, <2>3, PairsOfTwoMore
      <3>3. send_fill_batch(events', c) = Reverse(m1 \o O)
        BY <2>8, <3>1, <3>2 DEF send_fill_batch, coin_to_trades, parse_in_scope
      <3>4. CASE coin = c
        <4>1. m1 = one  BY <1>6, <2>3, <2>6, <3>4, OfCoinsOne
        <4>2. Reverse(one \o O) = Append(Reverse(O), t)  BY <1>14, <2>3, <2>8, ReverseCons
        <4>3. M \o one = Append(M, t)  BY <1>6, <2>3, <2>5, AppendIsConcat
        <4>. QED  BY <2>2, <2>7, <3>3, <4>1, <4>2, <4>3
      <3>5. CASE coin # c
        <4>1. m1 = <<>>  BY <1>6, <2>3, <2>6, <3>5, OfCoinsOne
        <4>2. m1 \o O = O /\ M \o m1 = M  BY <2>5, <2>8, <4>1, ConcatEmptySeq
        <4>. QED  BY <2>2, <2>7, <3>3, <4>2
      <3>. QED  BY <3>4, <3>5
    <2>10. CASE coin \notin InScope
      <3>1. OfCoins(events', InScope) = F
        <4>1. IsConcat(OfCoins(w, InScope), F, <<>>)
          BY <1>5, <1>6, <1>11, <1>9, <1>10, <2>10, OfCoinsTwo
        <4>2. F \o <<>> = F  BY <1>12, ConcatEmptySeq
        <4>. QED  BY <1>9, <4>1, <4>2 DEF IsConcat
      <3>2. send_fill_batch(events', c) = Reverse(O)
        BY <1>13, <2>1, <3>1 DEF send_fill_batch, coin_to_trades, parse_in_scope
      <3>3. m1 = <<>>  BY <1>6, <2>3, <2>6, <2>10, OfCoinsOne
      <3>4. M \o m1 = M  BY <2>5, <3>3, ConcatEmptySeq
      <3>. QED  BY <2>2, <2>7, <3>2, <3>4
    <2>. QED  BY <2>9, <2>10
  <1>. QED  BY <1>8, <1>15 DEF TInv, TradesExact

\* Every subscription is sent exactly the trades of its coin, in the order they
\* were made and on the taker's side, for blocks of any length and any coins.
THEOREM TradesAreExact == TradesSpec => []TradesExact
  <1>1. TradesInit => TInv  BY TradesInitOK
  <1>2. TInv /\ [TradesNext]_tvars => TInv'
    <2>. SUFFICES ASSUME TInv, [TradesNext]_tvars PROVE TInv'  OBVIOUS
    <2>1. CASE TradesNext  BY <2>1, NodeTradesOK DEF TradesNext
    <2>2. CASE UNCHANGED tvars
      BY <2>2 DEF TInv, TradesExact, tvars
    <2>. QED  BY <2>1, <2>2
  <1>3. TInv => TradesExact  BY DEF TInv
  <1>. QED  BY <1>1, <1>2, <1>3, PTL DEF TradesSpec

-----------------------------------------------------------------------------
(* The batch queues *)

Batches == [height : Heights, wire_bytes : WireSizes]

Deques == [deque : Seq(Batches), last_ts : 0..MaxHeight, bytes : Int]

BTypeOK ==
    /\ order_status_cache \in Deques /\ order_diff_cache \in Deques
    /\ loop \in {"idle", "popping"}
    /\ before \in Queues \X Queues
    /\ given \in [statuses : SUBSET Heights, diffs : SUBSET Heights, pairs : SUBSET Heights]

\* A deque is in increasing order, and nothing in it is above last_ts.
Ordered(q) ==
    /\ \A i, j \in DOMAIN q.deque : i < j => q.deque[i].height < q.deque[j].height
    /\ \A i \in DOMAIN q.deque : q.deque[i].height =< q.last_ts

\* The limits of push in count and in span of heights.
Bounded(q) ==
    /\ Len(q.deque) =< QueueHeights
    /\ \A i \in DOMAIN q.deque : q.deque[i].height - Head(q.deque).height =< QueueHeights

HeightsBounded == Bounded(order_status_cache) /\ Bounded(order_diff_cache)

\* What was accepted from one source is at most its last_ts; it is still in
\* its queue, or the other source is past it and will not accept it.
Accounted(G, q, other) ==
    /\ \A h \in G : h =< q.last_ts
    /\ \A h \in G : h \in HeightSet(q) \/ h =< other.last_ts

\* The loop of pop_cache, for the set S that is left of s0 while D is left of
\* d0: what it dropped was not in the other queue, was below something there,
\* and is below all that is left there.
Dropped(x, d0, D) ==
    /\ x \notin d0.heights
    /\ \E y \in d0.heights : x < y
    /\ \A y \in D : x < y

Progress(s0, d0, S, D) ==
    /\ S \subseteq s0.heights
    /\ \A x \in s0.heights : x \notin S => Dropped(x, d0, D)

Popping ==
    loop = "popping" =>
        /\ before[1].last = order_status_cache.last_ts
        /\ before[2].last = order_diff_cache.last_ts
        /\ Progress(before[1], before[2], HeightSet(order_status_cache), HeightSet(order_diff_cache))
        /\ Progress(before[2], before[1], HeightSet(order_diff_cache), HeightSet(order_status_cache))

BInv ==
    /\ BTypeOK
    /\ Ordered(order_status_cache) /\ Ordered(order_diff_cache)
    /\ HeightsBounded
    /\ Accounted(given.statuses, order_status_cache, order_diff_cache)
    /\ Accounted(given.diffs, order_diff_cache, order_status_cache)
    /\ NoPairLost
    /\ Popping

-----------------------------------------------------------------------------
(* One queue *)

\* The parts of a queue.
LEMMA DequeFacts ==
    ASSUME NEW q \in Deques
    PROVE  /\ q.deque \in Seq(Batches) /\ q.last_ts \in 0..MaxHeight /\ q.last_ts \in Nat
           /\ q.bytes \in Int
           /\ Len(q.deque) \in Nat /\ DOMAIN q.deque = 1..Len(q.deque)
           /\ \A i \in DOMAIN q.deque : /\ q.deque[i] \in Batches
                                        /\ q.deque[i].height \in Heights
                                        /\ q.deque[i].height \in Nat
           /\ HeightSet(q) \subseteq Heights
           /\ AsSet(q) \in Queues
  <1>1. MaxHeight \in Nat  BY SizesAssumption
  <1>2. q.deque \in Seq(Batches) /\ q.last_ts \in 0..MaxHeight /\ q.bytes \in Int  BY DEF Deques
  <1>3. /\ Len(q.deque) \in Nat /\ DOMAIN q.deque = 1..Len(q.deque)
        /\ \A i \in DOMAIN q.deque : q.deque[i] \in Batches
    BY <1>2
  <1>4. \A b \in Batches : b.height \in Heights /\ b.height \in Nat  BY <1>1 DEF Batches, Heights
  <1>5. HeightSet(q) \subseteq Heights  BY <1>3, <1>4 DEF HeightSet
  <1>6. AsSet(q) \in Queues  BY <1>2, <1>5 DEF AsSet, Queues
  <1>. QED  BY <1>1, <1>2, <1>3, <1>4, <1>5, <1>6

\* A height is in the queue if some batch has it.
LEMMA InQueue ==
    ASSUME NEW q, NEW h
    PROVE  h \in HeightSet(q) <=> \E i \in DOMAIN q.deque : q.deque[i].height = h
  BY DEF HeightSet

\* The front of an ordered queue is its least height, and popping it removes
\* that height only.
LEMMA PopFacts ==
    ASSUME NEW q \in Deques, Ordered(q), Bounded(q), q.deque # <<>>
    PROVE  /\ pop_front(q) \in Deques /\ Ordered(pop_front(q)) /\ Bounded(pop_front(q))
           /\ pop_front(q).last_ts = q.last_ts
           /\ Head(q.deque).height \in HeightSet(q)
           /\ \A x \in HeightSet(q) : Head(q.deque).height =< x
           /\ \A x : x \in HeightSet(pop_front(q))
                        <=> x \in HeightSet(q) /\ x # Head(q.deque).height
  <1>1. PICK n : n = Len(q.deque)  OBVIOUS
  <1>2. PICK d : d = q.deque  OBVIOUS
  <1>3. PICK t : t = Tail(d)  OBVIOUS
  <1>4. d \in Seq(Batches) /\ d # <<>> /\ n = Len(d)  BY <1>1, <1>2, DequeFacts
  <1>5. /\ n \in Nat \ {0} /\ t \in Seq(Batches) /\ Len(t) = n - 1
        /\ DOMAIN d = 1..n /\ DOMAIN t = 1..(n - 1)
        /\ \A i \in 1..(n - 1) : t[i] = d[i + 1]
        /\ Head(d) = d[1]
    BY <1>3, <1>4
  <1>6. \A i \in 1..n : d[i] \in Batches /\ d[i].height \in Nat  BY <1>2, <1>5, DequeFacts
  <1>7. PICK p : p = pop_front(q)  OBVIOUS
  <1>8. p.deque = t /\ p.last_ts = q.last_ts /\ p \in Deques
    <2>1. PICK z : z = q.bytes - Head(d).wire_bytes  OBVIOUS
    <2>2. z \in Int
      <3>1. d[1] \in Batches /\ 1 \in 1..n  BY <1>5, <1>6
      <3>2. d[1].wire_bytes \in Nat  BY <3>1, SizesAssumption DEF Batches
      <3>. QED  BY <1>5, <2>1, <3>2, DequeFacts
    <2>3. p = [q EXCEPT !.deque = t, !.bytes = z]  BY <1>2, <1>3, <1>7, <2>1 DEF pop_front
    <2>. QED  BY <1>5, <2>2, <2>3 DEF Deques
  <1>9. /\ \A i, j \in 1..n : i < j => d[i].height < d[j].height
        /\ \A i \in 1..n : d[i].height =< q.last_ts
    BY <1>2, <1>5 DEF Ordered
  <1>10. Ordered(p)
    <2>1. ASSUME NEW i \in 1..(n - 1), NEW j \in 1..(n - 1), i < j
          PROVE  t[i].height < t[j].height
      <3>1. i + 1 \in 1..n /\ j + 1 \in 1..n /\ i + 1 < j + 1  BY <1>5, <2>1
      <3>. QED  BY <1>5, <1>9, <3>1
    <2>2. ASSUME NEW i \in 1..(n - 1) PROVE t[i].height =< q.last_ts
      <3>1. i + 1 \in 1..n  BY <1>5
      <3>. QED  BY <1>5, <1>9, <3>1
    <2>. QED  BY <1>5, <1>8, <2>1, <2>2 DEF Ordered
  <1>11. \A i \in 1..n : d[1].height =< d[i].height
    <2>1. SUFFICES ASSUME NEW i \in 1..n PROVE d[1].height =< d[i].height
      OBVIOUS
    <2>2. CASE i = 1  BY <1>5, <1>6, <2>2
    <2>3. CASE i # 1
      <3>1. 1 \in 1..n /\ 1 < i  BY <1>5, <2>3
      <3>. QED  BY <1>6, <1>9, <3>1
    <2>. QED  BY <2>2, <2>3
  <1>12. Bounded(p)
    <2>1. n =< QueueHeights /\ QueueHeights \in Nat
          /\ \A i \in 1..n : d[i].height - d[1].height =< QueueHeights
      BY <1>1, <1>2, <1>5, SizesAssumption DEF Bounded
    <2>2. Len(t) =< QueueHeights  BY <1>5, <2>1
    <2>3. ASSUME NEW i \in 1..(n - 1) PROVE t[i].height - Head(t).height =< QueueHeights
      <3>1. i + 1 \in 1..n /\ 2 \in 1..n /\ 1 \in 1..(n - 1) /\ 1 \in 1..n  BY <1>5
      <3>2. t # <<>>  BY <1>5, <3>1
      <3>3. Head(t) = t[1]  BY <1>5, <3>2
      <3>4. t[i] = d[i + 1] /\ t[1] = d[2]  BY <1>5, <3>1
      <3>5. /\ d[1].height \in Nat /\ d[2].height \in Nat /\ d[i + 1].height \in Nat
            /\ d[1].height =< d[2].height /\ d[i + 1].height - d[1].height =< QueueHeights
        BY <1>6, <1>11, <2>1, <3>1
      <3>. QED  BY <2>1, <3>3, <3>4, <3>5
    <2>. QED  BY <1>5, <1>8, <2>2, <2>3 DEF Bounded
  <1>13. Head(q.deque).height = d[1].height  BY <1>2, <1>5
  <1>14. d[1].height \in HeightSet(q)  BY <1>2, <1>5, InQueue
  <1>15. \A x \in HeightSet(q) : d[1].height =< x  BY <1>2, <1>5, <1>11, InQueue
  <1>16. ASSUME NEW x PROVE x \in HeightSet(p) <=> x \in HeightSet(q) /\ x # d[1].height
    <2>1. ASSUME x \in HeightSet(p) PROVE x \in HeightSet(q) /\ x # d[1].height
      <3>1. PICK i \in 1..(n - 1) : t[i].height = x  BY <1>5, <1>8, <2>1, InQueue
      <3>2. i + 1 \in 1..n /\ 1 \in 1..n /\ 1 < i + 1 /\ d[i + 1].height = x  BY <1>5, <3>1
      <3>3. x # d[1].height  BY <1>6, <1>9, <3>2
      <3>. QED  BY <1>2, <1>5, <3>2, <3>3, InQueue
    <2>2. ASSUME x \in HeightSet(q), x # d[1].height PROVE x \in HeightSet(p)
      <3>1. PICK i \in 1..n : d[i].height = x  BY <1>2, <1>5, <2>2, InQueue
      <3>2. i # 1  BY <2>2, <3>1
      <3>3. i - 1 \in 1..(n - 1) /\ t[i - 1] = d[i]  BY <1>5, <3>2
      <3>. QED  BY <1>5, <1>8, <3>1, <3>3, InQueue
    <2>. QED  BY <2>1, <2>2
  <1>. QED  BY <1>7, <1>8, <1>10, <1>12, <1>13, <1>14, <1>15, <1>16

\* A height above last_ts goes to the end, and the limits hold if they were
\* asked for.
LEMMA PushFacts ==
    ASSUME NEW q \in Deques, Ordered(q), Bounded(q),
           NEW h \in Heights, NEW size \in WireSizes, NEW aged \in BOOLEAN,
           q.last_ts < h, ~OverLimit(q, h, size, aged)
    PROVE  /\ push(q, h, size) \in Deques /\ Ordered(push(q, h, size)) /\ Bounded(push(q, h, size))
           /\ push(q, h, size).last_ts = h
           /\ \A x : x \in HeightSet(push(q, h, size)) <=> x \in HeightSet(q) \/ x = h
           /\ h \notin HeightSet(q)
  <1>1. PICK n, d : n = Len(q.deque) /\ d = q.deque  OBVIOUS
  <1>2. PICK b : b = [height |-> h, wire_bytes |-> size]  OBVIOUS
  <1>3. /\ MaxHeight \in Nat /\ QueueHeights \in Nat /\ h \in Nat
        /\ h \in 0..MaxHeight /\ size \in Nat
    BY SizesAssumption DEF Heights
  <1>4. b \in Batches /\ b.height = h  BY <1>2 DEF Batches
  <1>5. d \in Seq(Batches) /\ n = Len(d)  BY <1>1, DequeFacts
  <1>6. PICK t : t = Append(d, b)  OBVIOUS
  <1>7. /\ n \in Nat /\ t \in Seq(Batches) /\ Len(t) = n + 1
        /\ DOMAIN d = 1..n /\ DOMAIN t = 1..(n + 1)
        /\ \A i \in 1..n : t[i] = d[i]
        /\ t[n + 1] = b /\ t # <<>> /\ Head(t) = t[1]
    BY <1>4, <1>5, <1>6
  <1>8. \A i \in 1..n : d[i].height \in Nat  BY <1>1, <1>7, DequeFacts
  <1>9. PICK p : p = push(q, h, size)  OBVIOUS
  <1>10. p.deque = t /\ p.last_ts = h /\ p \in Deques
    <2>1. q.bytes + size \in Int  BY <1>3, DequeFacts
    <2>2. p = [deque |-> t, last_ts |-> h, bytes |-> q.bytes + size]
      BY <1>1, <1>2, <1>6, <1>9 DEF push
    <2>. QED  BY <1>3, <1>7, <2>1, <2>2 DEF Deques
  <1>11. /\ \A i, j \in 1..n : i < j => d[i].height < d[j].height
         /\ \A i \in 1..n : d[i].height =< q.last_ts
    BY <1>1, <1>7 DEF Ordered
  <1>12. \A i \in 1..n : d[i].height < h  BY <1>3, <1>8, <1>11, DequeFacts
  <1>13. Ordered(p)
    <2>1. ASSUME NEW i \in 1..(n + 1), NEW j \in 1..(n + 1), i < j
          PROVE  t[i].height < t[j].height
      <3>1. CASE j = n + 1
        <4>1. i \in 1..n  BY <1>7, <2>1, <3>1
        <4>. QED  BY <1>4, <1>7, <1>12, <3>1, <4>1
      <3>2. CASE j # n + 1
        <4>1. i \in 1..n /\ j \in 1..n  BY <1>7, <2>1, <3>2
        <4>. QED  BY <1>7, <1>11, <2>1, <4>1
      <3>. QED  BY <3>1, <3>2
    <2>2. ASSUME NEW i \in 1..(n + 1) PROVE t[i].height =< h
      <3>1. CASE i = n + 1  BY <1>3, <1>4, <1>7, <3>1
      <3>2. CASE i # n + 1
        <4>1. i \in 1..n  BY <1>7, <3>2
        <4>. QED  BY <1>3, <1>7, <1>8, <1>12, <4>1
      <3>. QED  BY <3>1, <3>2
    <2>. QED  BY <1>7, <1>10, <2>1, <2>2 DEF Ordered
  <1>14. Bounded(p)
    <2>1. ~(n >= QueueHeights)  BY <1>1 DEF OverLimit
    <2>2. n + 1 =< QueueHeights  BY <1>3, <1>7, <2>1
    <2>3. ASSUME NEW i \in 1..(n + 1) PROVE t[i].height - t[1].height =< QueueHeights
      <3>1. CASE n = 0
        <4>1. i = 1 /\ t[1] = b  BY <1>7, <2>3, <3>1
        <4>. QED  BY <1>3, <1>4, <4>1
      <3>2. CASE n # 0
        <4>1. 1 \in 1..n /\ t[1] = d[1] /\ d # <<>>  BY <1>5, <1>7, <3>2
        <4>2. Head(d) = d[1]  BY <1>5, <4>1
        <4>3. ~(h - d[1].height > QueueHeights)  BY <1>1, <4>1, <4>2 DEF OverLimit
        <4>4. CASE i = n + 1  BY <1>3, <1>4, <1>7, <1>8, <4>1, <4>3, <4>4
        <4>5. CASE i # n + 1
          <5>1. i \in 1..n /\ t[i] = d[i]  BY <1>7, <2>3, <4>5
          <5>2. d[i].height - Head(d).height =< QueueHeights  BY <1>1, <1>7, <5>1 DEF Bounded
          <5>. QED  BY <4>1, <4>2, <5>1, <5>2
        <4>. QED  BY <4>4, <4>5
      <3>. QED  BY <3>1, <3>2
    <2>. QED  BY <1>7, <1>10, <2>2, <2>3 DEF Bounded
  <1>15. ASSUME NEW x PROVE x \in HeightSet(p) <=> x \in HeightSet(q) \/ x = h
    <2>1. ASSUME x \in HeightSet(p), x # h PROVE x \in HeightSet(q)
      <3>1. PICK i \in 1..(n + 1) : t[i].height = x  BY <1>7, <1>10, <2>1, InQueue
      <3>2. i # n + 1  BY <1>4, <1>7, <2>1, <3>1
      <3>3. i \in 1..n  BY <1>7, <3>2
      <3>. QED  BY <1>1, <1>7, <3>1, <3>3, InQueue
    <2>2. ASSUME x \in HeightSet(q) PROVE x \in HeightSet(p)
      <3>1. PICK i \in 1..n : d[i].height = x  BY <1>1, <1>7, <2>2, InQueue
      <3>2. i \in 1..(n + 1)  BY <1>7
      <3>. QED  BY <1>7, <1>10, <3>1, <3>2, InQueue
    <2>3. h \in HeightSet(p)
      <3>1. n + 1 \in 1..(n + 1)  BY <1>7
      <3>. QED  BY <1>4, <1>7, <1>10, <3>1, InQueue
    <2>. QED  BY <2>1, <2>2, <2>3
  <1>16. h \notin HeightSet(q)
    <2>1. SUFFICES ASSUME h \in HeightSet(q) PROVE FALSE  OBVIOUS
    <2>2. PICK i \in 1..n : d[i].height = h  BY <1>1, <1>7, <2>1, InQueue
    <2>. QED  BY <1>3, <1>12, <2>2
  <1>. QED  BY <1>9, <1>10, <1>13, <1>14, <1>15, <1>16

-----------------------------------------------------------------------------
(* Two queues.  Everything is stated of one queue q and the other queue o,   *)
(* and used both ways.                                                       *)

\* Accepted from both, and neither returned nor still in both queues: never.
Kept(G, H, P, S, D) == \A h : h \in G /\ h \in H => h \in P \/ (h \in S /\ h \in D)

\* Nothing in a queue is above its last_ts.
LEMMA BelowLast ==
    ASSUME NEW q \in Deques, Ordered(q), NEW x \in HeightSet(q)
    PROVE  x =< q.last_ts /\ x \in Nat
  <1>1. PICK i \in DOMAIN q.deque : q.deque[i].height = x  BY InQueue
  <1>. QED  BY <1>1, DequeFacts DEF Ordered

\* A height accepted by q is accounted for, whether or not o accepted it before.
LEMMA PushAccounted ==
    ASSUME NEW q \in Deques, NEW o \in Deques, NEW p \in Deques, NEW h \in Heights,
           q.last_ts < h, p.last_ts = h,
           \A x : x \in HeightSet(p) <=> x \in HeightSet(q) \/ x = h,
           NEW G \in SUBSET Heights, NEW H \in SUBSET Heights, NEW P,
           Accounted(G, q, o), Accounted(H, o, q),
           Kept(G, H, P, HeightSet(q), HeightSet(o))
    PROVE  /\ Accounted(G \union {h}, p, o)
           /\ Accounted(H, o, p)
           /\ Kept(G \union {h}, H, P, HeightSet(p), HeightSet(o))
  <1>1. MaxHeight \in Nat /\ q.last_ts \in Nat /\ o.last_ts \in Nat /\ h \in Nat
    BY SizesAssumption, DequeFacts DEF Heights
  <1>2. \A x \in Heights : x \in Nat  BY <1>1 DEF Heights
  <1>3. \A x \in G : x \in Nat /\ x =< q.last_ts /\ (x \in HeightSet(q) \/ x =< o.last_ts)
    BY <1>2 DEF Accounted
  <1>4. \A x \in H : x \in Nat /\ x =< o.last_ts /\ (x \in HeightSet(o) \/ x =< q.last_ts)
    BY <1>2 DEF Accounted
  <1>5. Accounted(G \union {h}, p, o)
    <2>1. ASSUME NEW x \in G \union {h} PROVE x =< p.last_ts /\ (x \in HeightSet(p) \/ x =< o.last_ts)
      <3>1. CASE x = h  BY <1>1, <3>1
      <3>2. CASE x # h
        <4>1. x \in G  BY <2>1, <3>2
        <4>2. x \in Nat /\ x =< q.last_ts /\ (x \in HeightSet(q) \/ x =< o.last_ts)  BY <1>3, <4>1
        <4>. QED  BY <1>1, <4>2
      <3>. QED  BY <3>1, <3>2
    <2>. QED  BY <2>1 DEF Accounted
  <1>6. Accounted(H, o, p)
    <2>1. \A x \in H : x =< q.last_ts => x =< p.last_ts  BY <1>1, <1>4
    <2>. QED  BY <1>4, <2>1 DEF Accounted
  <1>7. Kept(G \union {h}, H, P, HeightSet(p), HeightSet(o))
    <2>1. SUFFICES ASSUME NEW x, x \in G \union {h}, x \in H
                   PROVE  x \in P \/ (x \in HeightSet(p) /\ x \in HeightSet(o))
      BY DEF Kept
    <2>2. CASE x = h
      <3>1. ~(x =< q.last_ts)  BY <1>1, <2>2
      <3>2. x \in HeightSet(o)  BY <1>4, <2>1, <3>1
      <3>. QED  BY <2>2, <3>2
    <2>3. CASE x # h
      <3>1. x \in G  BY <2>1, <2>3
      <3>2. x \in P \/ (x \in HeightSet(q) /\ x \in HeightSet(o))  BY <2>1, <3>1 DEF Kept
      <3>. QED  BY <3>2
    <2>. QED  BY <2>2, <2>3
  <1>. QED  BY <1>5, <1>6, <1>7

\* The lower front is dropped: it is not in the other queue and cannot come.
LEMMA DropAccounted ==
    ASSUME NEW q \in Deques, NEW o \in Deques, NEW p \in Deques,
           Ordered(q), Ordered(o), NEW x \in HeightSet(q), NEW y \in HeightSet(o), x < y,
           \A z \in HeightSet(o) : y =< z,
           p.last_ts = q.last_ts,
           \A z : z \in HeightSet(p) <=> z \in HeightSet(q) /\ z # x,
           NEW G, NEW H, NEW P,
           Accounted(G, q, o), Accounted(H, o, q),
           Kept(G, H, P, HeightSet(q), HeightSet(o))
    PROVE  /\ Accounted(G, p, o)
           /\ Accounted(H, o, p)
           /\ Kept(G, H, P, HeightSet(p), HeightSet(o))
  <1>1. x \in Nat /\ y \in Nat /\ o.last_ts \in Nat /\ y =< o.last_ts
    BY BelowLast, DequeFacts
  <1>2. x =< o.last_ts  BY <1>1
  <1>3. x \notin HeightSet(o)  BY <1>1
  <1>4. Accounted(G, p, o)  BY <1>2 DEF Accounted
  <1>5. Accounted(H, o, p)  BY DEF Accounted
  <1>6. Kept(G, H, P, HeightSet(p), HeightSet(o))  BY <1>3 DEF Kept
  <1>. QED  BY <1>4, <1>5, <1>6

\* It was dropped as the loop drops things, and what is left got less.
LEMMA DropProgress ==
    ASSUME NEW s0, NEW d0, NEW S \in SUBSET Nat, NEW T, NEW D \in SUBSET Nat,
           Progress(s0, d0, S, D), Progress(d0, s0, D, S),
           NEW x \in S, NEW y \in D, x < y,
           \A z \in D : y =< z,
           \A z : z \in T <=> z \in S /\ z # x
    PROVE  Progress(s0, d0, T, D) /\ Progress(d0, s0, D, T)
  <1>1. Dropped(x, d0, D)
    <2>1. x \notin D /\ \A z \in D : x < z  BY SMT
    <2>2. x \notin d0.heights
      <3>1. SUFFICES ASSUME x \in d0.heights PROVE FALSE  OBVIOUS
      <3>2. \A z \in S : x < z  BY <2>1, <3>1 DEF Progress, Dropped
      <3>3. x < x /\ x \in Nat  BY <3>2
      <3>. QED  BY <3>3
    <2>3. y \in d0.heights  BY DEF Progress
    <2>. QED  BY <2>1, <2>2, <2>3 DEF Dropped
  <1>2. Progress(s0, d0, T, D)
    <2>1. T \subseteq s0.heights  BY DEF Progress
    <2>2. ASSUME NEW z \in s0.heights, z \notin T PROVE Dropped(z, d0, D)
      <3>1. CASE z = x  BY <1>1, <3>1
      <3>2. CASE z # x
        <4>1. z \notin S  BY <2>2, <3>2
        <4>. QED  BY <2>2, <4>1 DEF Progress
      <3>. QED  BY <3>1, <3>2
    <2>. QED  BY <2>1, <2>2 DEF Progress
  <1>3. Progress(d0, s0, D, T)
    <2>1. ASSUME NEW z \in d0.heights, z \notin D PROVE Dropped(z, s0, T)
      BY <2>1 DEF Progress, Dropped
    <2>. QED  BY <2>1 DEF Progress
  <1>. QED  BY <1>2, <1>3

\* Both q and o, without x in front, become p and r.
PairedOff(q, o, p, r, x) ==
    /\ x \in HeightSet(q) /\ x \in HeightSet(o)
    /\ p.last_ts = q.last_ts /\ r.last_ts = o.last_ts
    /\ \A z : z \in HeightSet(p) <=> z \in HeightSet(q) /\ z # x
    /\ \A z : z \in HeightSet(r) <=> z \in HeightSet(o) /\ z # x

\* The pair is returned: it is accounted for.
LEMMA PairAccounted ==
    ASSUME NEW q \in Deques, NEW o \in Deques, Ordered(q), Ordered(o),
           NEW p, NEW r, NEW x, PairedOff(q, o, p, r, x),
           NEW G, NEW H, NEW P,
           Accounted(G, q, o), Accounted(H, o, q),
           Kept(G, H, P, HeightSet(q), HeightSet(o))
    PROVE  /\ Accounted(G, p, r)
           /\ Accounted(H, r, p)
           /\ Kept(G, H, P \union {x}, HeightSet(p), HeightSet(r))
  <1>1. x =< o.last_ts /\ x =< q.last_ts  BY BelowLast DEF PairedOff
  <1>2. Accounted(G, p, r)  BY <1>1 DEF Accounted, PairedOff
  <1>3. Accounted(H, r, p)  BY <1>1 DEF Accounted, PairedOff
  <1>4. Kept(G, H, P \union {x}, HeightSet(p), HeightSet(r))  BY DEF Kept, PairedOff
  <1>. QED  BY <1>2, <1>3, <1>4

\* Both ways round.
LEMMA KeptSwap ==
    ASSUME NEW G, NEW H, NEW P, NEW S, NEW D
    PROVE  Kept(G, H, P, S, D) <=> Kept(H, G, P, D, S)
  BY DEF Kept

\* NoPairLost in terms of the sets.
LEMMA KeptIsNoPairLost ==
    NoPairLost <=> Kept(given.statuses, given.diffs, given.pairs,
                        HeightSet(order_status_cache), HeightSet(order_diff_cache))
  BY DEF NoPairLost, Kept

-----------------------------------------------------------------------------
(* The steps *)

Givens == [statuses : SUBSET Heights, diffs : SUBSET Heights, pairs : SUBSET Heights]

\* The invariant, taken apart for the steps.
LEMMA BInvParts ==
    ASSUME BInv
    PROVE  /\ order_status_cache \in Deques /\ order_diff_cache \in Deques
           /\ loop \in {"idle", "popping"} /\ before \in Queues \X Queues /\ given \in Givens
           /\ Ordered(order_status_cache) /\ Ordered(order_diff_cache)
           /\ Bounded(order_status_cache) /\ Bounded(order_diff_cache)
           /\ given.statuses \in SUBSET Heights /\ given.diffs \in SUBSET Heights
           /\ given.pairs \in SUBSET Heights
           /\ Accounted(given.statuses, order_status_cache, order_diff_cache)
           /\ Accounted(given.diffs, order_diff_cache, order_status_cache)
           /\ Kept(given.statuses, given.diffs, given.pairs,
                   HeightSet(order_status_cache), HeightSet(order_diff_cache))
  <1>1. given \in Givens  BY DEF BInv, BTypeOK, Givens
  <1>2. /\ given.statuses \in SUBSET Heights /\ given.diffs \in SUBSET Heights
        /\ given.pairs \in SUBSET Heights
    BY <1>1 DEF Givens
  <1>3. Kept(given.statuses, given.diffs, given.pairs,
             HeightSet(order_status_cache), HeightSet(order_diff_cache))
    BY KeptIsNoPairLost DEF BInv
  <1>. QED  BY <1>1, <1>2, <1>3 DEF BInv, BTypeOK, HeightsBounded

\* The invariant put together after a step.
LEMMA BInvBuilt ==
    ASSUME order_status_cache' \in Deques, order_diff_cache' \in Deques,
           loop' \in {"idle", "popping"}, before' \in Queues \X Queues, given' \in Givens,
           Ordered(order_status_cache'), Ordered(order_diff_cache'),
           Bounded(order_status_cache'), Bounded(order_diff_cache'),
           Accounted(given'.statuses, order_status_cache', order_diff_cache'),
           Accounted(given'.diffs, order_diff_cache', order_status_cache'),
           Kept(given'.statuses, given'.diffs, given'.pairs,
                HeightSet(order_status_cache'), HeightSet(order_diff_cache')),
           Popping'
    PROVE  BInv'
  <1>1. BTypeOK'  BY DEF BTypeOK, Givens
  <1>2. NoPairLost'  BY DEF NoPairLost, Kept
  <1>3. HeightsBounded'  BY DEF HeightsBounded
  <1>. QED  BY <1>1, <1>2, <1>3 DEF BInv

\* push on one queue: nothing happens, or the height is accepted.
LEMMA PushCases ==
    ASSUME NEW q \in Deques, NEW p, NEW h \in Heights, NEW size, NEW aged,
           Push(q, p, h, size, aged)
    PROVE  \/ /\ p = q
              /\ \A set : Accepted(set, h) = set
           \/ /\ q.last_ts < h /\ ~OverLimit(q, h, size, aged) /\ p = push(q, h, size)
              /\ \A set : Accepted(set, h) = set \union {h}
  <1>1. CASE result' = Result("accepted", h)
    <2>1. result'.outcome = "accepted"  BY <1>1 DEF Result
    <2>2. \A set : Accepted(set, h) = set \union {h}  BY <2>1 DEF Accepted
    <2>3. Result("accepted", h).outcome # Result("stale", h).outcome
          /\ Result("accepted", h).outcome # Result("refused", h).outcome
      BY DEF Result
    <2>. QED  BY <1>1, <2>2, <2>3 DEF Push
  <1>2. CASE result' = Result("stale", h) \/ result' = Result("refused", h)
    <2>1. result'.outcome # "accepted"  BY <1>2 DEF Result
    <2>2. \A set : Accepted(set, h) = set  BY <2>1 DEF Accepted
    <2>3. p = q
      <3>1. result' # Result("accepted", h)  BY <2>1 DEF Result
      <3>. QED  BY <3>1 DEF Push
    <2>. QED  BY <2>2, <2>3
  <1>. QED  BY <1>1, <1>2 DEF Push

\* A push that is accepted keeps what is accounted for, seen from either side.
LEMMA PushKeeps ==
    ASSUME NEW q \in Deques, NEW o \in Deques, Ordered(q), Bounded(q),
           NEW h \in Heights, NEW size \in WireSizes, NEW aged \in BOOLEAN,
           q.last_ts < h, ~OverLimit(q, h, size, aged),
           NEW p, p = push(q, h, size),
           NEW G \in SUBSET Heights, NEW H \in SUBSET Heights, NEW P,
           Accounted(G, q, o), Accounted(H, o, q),
           Kept(G, H, P, HeightSet(q), HeightSet(o))
    PROVE  /\ p \in Deques /\ Ordered(p) /\ Bounded(p)
           /\ Accounted(G \union {h}, p, o)
           /\ Accounted(H, o, p)
           /\ Kept(G \union {h}, H, P, HeightSet(p), HeightSet(o))
  <1>1. /\ p \in Deques /\ Ordered(p) /\ Bounded(p) /\ p.last_ts = h
        /\ \A x : x \in HeightSet(p) <=> x \in HeightSet(q) \/ x = h
    BY PushFacts
  <1>. QED  BY <1>1, PushAccounted

\* A batch of statuses arrives.
LEMMA StepPushStatus ==
    ASSUME BInv, NEW h \in Heights, NEW size \in WireSizes, NEW aged \in BOOLEAN,
           PushStatus(h, size, aged)
    PROVE  BInv'
  <1>. USE BInvParts
  <1>1. /\ loop' = "idle" /\ loop = "idle" /\ order_diff_cache' = order_diff_cache
        /\ before' = before
        /\ Push(order_status_cache, order_status_cache', h, size, aged)
        /\ given' = [given EXCEPT !.statuses = Accepted(given.statuses, h)]
    BY DEF PushStatus
  <1>2. Popping'  BY <1>1 DEF Popping
  <1>3. given'.diffs = given.diffs /\ given'.pairs = given.pairs
        /\ given'.statuses = Accepted(given.statuses, h)
    BY <1>1 DEF Givens
  <1>4. CASE /\ order_status_cache' = order_status_cache
             /\ Accepted(given.statuses, h) = given.statuses
    <2>1. given' \in Givens  BY <1>1, <1>4 DEF Givens
    <2>. QED  BY <1>1, <1>2, <1>3, <1>4, <2>1, BInvBuilt
  <1>5. CASE /\ order_status_cache.last_ts < h /\ ~OverLimit(order_status_cache, h, size, aged)
             /\ order_status_cache' = push(order_status_cache, h, size)
             /\ Accepted(given.statuses, h) = given.statuses \union {h}
    <2>1. given' \in Givens  BY <1>1, <1>5 DEF Givens
    <2>2. PICK q, o, p, G, H, P : /\ q = order_status_cache /\ o = order_diff_cache
                                  /\ p = order_status_cache'
                                  /\ G = given.statuses /\ H = given.diffs /\ P = given.pairs
      OBVIOUS
    <2>3. /\ p \in Deques /\ Ordered(p) /\ Bounded(p)
          /\ Accounted(G \union {h}, p, o)
          /\ Accounted(H, o, p)
          /\ Kept(G \union {h}, H, P, HeightSet(p), HeightSet(o))
      BY <1>5, <2>2, PushKeeps
    <2>. QED  BY <1>1, <1>2, <1>3, <1>5, <2>1, <2>2, <2>3, BInvBuilt
  <1>. QED  BY <1>1, <1>4, <1>5, PushCases

\* A batch of diffs arrives.
LEMMA StepPushDiff ==
    ASSUME BInv, NEW h \in Heights, NEW size \in WireSizes, NEW aged \in BOOLEAN,
           PushDiff(h, size, aged)
    PROVE  BInv'
  <1>1. /\ loop' = "idle" /\ loop = "idle" /\ order_status_cache' = order_status_cache
        /\ before' = before
        /\ Push(order_diff_cache, order_diff_cache', h, size, aged)
        /\ given' = [given EXCEPT !.diffs = Accepted(given.diffs, h)]
    BY DEF PushDiff
  <1>2. Popping'  BY <1>1 DEF Popping
  <1>3. given'.statuses = given.statuses /\ given'.pairs = given.pairs
        /\ given'.diffs = Accepted(given.diffs, h)
    BY <1>1, BInvParts DEF Givens
  <1>4. CASE /\ order_diff_cache' = order_diff_cache
             /\ Accepted(given.diffs, h) = given.diffs
    <2>1. given' \in Givens  BY <1>1, <1>4, BInvParts DEF Givens
    <2>. QED  BY <1>1, <1>2, <1>3, <1>4, <2>1, BInvParts, BInvBuilt
  <1>5. CASE /\ order_diff_cache.last_ts < h /\ ~OverLimit(order_diff_cache, h, size, aged)
             /\ order_diff_cache' = push(order_diff_cache, h, size)
             /\ Accepted(given.diffs, h) = given.diffs \union {h}
    <2>1. given' \in Givens  BY <1>1, <1>5, BInvParts DEF Givens
    <2>2. PICK q, o, p, G, H, P : /\ q = order_diff_cache /\ o = order_status_cache
                                  /\ p = order_diff_cache'
                                  /\ G = given.diffs /\ H = given.statuses /\ P = given.pairs
      OBVIOUS
    <2>3. /\ q \in Deques /\ o \in Deques /\ Ordered(q) /\ Bounded(q)
          /\ q.last_ts < h /\ ~OverLimit(q, h, size, aged) /\ p = push(q, h, size)
          /\ G \in SUBSET Heights /\ H \in SUBSET Heights
          /\ Accounted(G, q, o) /\ Accounted(H, o, q)
          /\ Kept(G, H, P, HeightSet(q), HeightSet(o))
      BY <1>5, <2>2, BInvParts, KeptSwap
    <2>4. /\ p \in Deques /\ Ordered(p) /\ Bounded(p)
          /\ Accounted(G \union {h}, p, o)
          /\ Accounted(H, o, p)
          /\ Kept(G \union {h}, H, P, HeightSet(p), HeightSet(o))
      <3>1. /\ p \in Deques /\ Ordered(p) /\ Bounded(p) /\ p.last_ts = h
            /\ \A x : x \in HeightSet(p) <=> x \in HeightSet(q) \/ x = h
        BY <2>3, PushFacts
      <3>2. /\ q \in Deques /\ o \in Deques /\ q.last_ts < h
            /\ G \in SUBSET Heights /\ H \in SUBSET Heights
            /\ Accounted(G, q, o) /\ Accounted(H, o, q)
            /\ Kept(G, H, P, HeightSet(q), HeightSet(o))
        BY <2>3
      <3>. QED  BY <3>1, <3>2, PushAccounted
    <2>5. Kept(H, G \union {h}, P, HeightSet(o), HeightSet(p))  BY <2>4, KeptSwap
    <2>. QED  BY <1>1, <1>2, <1>3, <1>5, <2>1, <2>2, <2>4, <2>5, BInvParts, BInvBuilt
  <1>. QED  BY <1>1, <1>4, <1>5, BInvParts, PushCases

\* pop_cache is called: nothing is dropped yet.
LEMMA StepCall ==
    ASSUME BInv, CallPopCache
    PROVE  BInv'
  <1>. USE BInvParts
  <1>1. /\ loop' = "popping"
        /\ before' = <<AsSet(order_status_cache), AsSet(order_diff_cache)>>
        /\ order_status_cache' = order_status_cache /\ order_diff_cache' = order_diff_cache
        /\ given' = given
    BY DEF CallPopCache
  <1>2. AsSet(order_status_cache) \in Queues /\ AsSet(order_diff_cache) \in Queues
    BY DequeFacts
  <1>3. /\ before' \in Queues \X Queues
        /\ before'[1] = AsSet(order_status_cache) /\ before'[2] = AsSet(order_diff_cache)
    BY <1>1, <1>2
  <1>4. \A q : AsSet(q).heights = HeightSet(q) /\ AsSet(q).last = q.last_ts  BY DEF AsSet
  <1>5. Popping'  BY <1>1, <1>3, <1>4 DEF Popping, Progress
  <1>. QED  BY <1>1, <1>3, <1>5, BInvBuilt

\* The loop of pop_cache drops the lower front, of either queue.
LEMMA DropKeeps ==
    ASSUME NEW q \in Deques, NEW o \in Deques, NEW p,
           Ordered(q), Bounded(q), Ordered(o), Bounded(o),
           q.deque # <<>>, o.deque # <<>>,
           Head(q.deque).height < Head(o.deque).height, p = pop_front(q),
           NEW G, NEW H, NEW P,
           Accounted(G, q, o), Accounted(H, o, q),
           Kept(G, H, P, HeightSet(q), HeightSet(o)),
           NEW s0, NEW d0,
           Progress(s0, d0, HeightSet(q), HeightSet(o)),
           Progress(d0, s0, HeightSet(o), HeightSet(q))
    PROVE  /\ p \in Deques /\ Ordered(p) /\ Bounded(p) /\ p.last_ts = q.last_ts
           /\ Accounted(G, p, o)
           /\ Accounted(H, o, p)
           /\ Kept(G, H, P, HeightSet(p), HeightSet(o))
           /\ Progress(s0, d0, HeightSet(p), HeightSet(o))
           /\ Progress(d0, s0, HeightSet(o), HeightSet(p))
  <1>1. PICK x, y : x = Head(q.deque).height /\ y = Head(o.deque).height  OBVIOUS
  <1>2. /\ p \in Deques /\ Ordered(p) /\ Bounded(p) /\ p.last_ts = q.last_ts
        /\ x \in HeightSet(q)
        /\ \A z : z \in HeightSet(p) <=> z \in HeightSet(q) /\ z # x
    BY <1>1, PopFacts
  <1>3. y \in HeightSet(o) /\ (\A z \in HeightSet(o) : y =< z) /\ x < y
    BY <1>1, PopFacts
  <1>4. /\ Accounted(G, p, o) /\ Accounted(H, o, p)
        /\ Kept(G, H, P, HeightSet(p), HeightSet(o))
    BY <1>2, <1>3, DropAccounted
  <1>5. PICK S, T, D : S = HeightSet(q) /\ T = HeightSet(p) /\ D = HeightSet(o)  OBVIOUS
  <1>6. MaxHeight \in Nat  BY SizesAssumption
  <1>7. S \in SUBSET Nat /\ D \in SUBSET Nat  BY <1>5, <1>6, DequeFacts DEF Heights
  <1>8. Progress(s0, d0, T, D) /\ Progress(d0, s0, D, T)
    BY <1>2, <1>3, <1>5, <1>7, DropProgress
  <1>. QED  BY <1>2, <1>4, <1>5, <1>8

\* The two queues of pop_cache, of which P was returned so far.
Loop(q, o, G, H, P) ==
    /\ q \in Deques /\ Ordered(q) /\ Bounded(q)
    /\ o \in Deques /\ Ordered(o) /\ Bounded(o)
    /\ Accounted(G, q, o) /\ Accounted(H, o, q)
    /\ Kept(G, H, P, HeightSet(q), HeightSet(o))

\* The pair leaves both queues.
LEMMA PairKeeps ==
    ASSUME NEW q, NEW o, NEW G, NEW H, NEW P, Loop(q, o, G, H, P),
           q.deque # <<>>, o.deque # <<>>,
           Head(q.deque).height = Head(o.deque).height,
           NEW p, NEW r, p = pop_front(q), r = pop_front(o)
    PROVE  /\ Loop(p, r, G, H, P \union {Head(q.deque).height})
           /\ Head(q.deque).height \in Heights
  <1>1. PICK x : x = Head(q.deque).height  OBVIOUS
  <1>2. /\ q \in Deques /\ Ordered(q) /\ Bounded(q)
        /\ o \in Deques /\ Ordered(o) /\ Bounded(o)
        /\ Accounted(G, q, o) /\ Accounted(H, o, q)
        /\ Kept(G, H, P, HeightSet(q), HeightSet(o))
    BY DEF Loop
  <1>3. /\ p \in Deques /\ Ordered(p) /\ Bounded(p) /\ p.last_ts = q.last_ts
        /\ x \in HeightSet(q)
        /\ \A z : z \in HeightSet(p) <=> z \in HeightSet(q) /\ z # x
    BY <1>1, <1>2, PopFacts
  <1>4. /\ r \in Deques /\ Ordered(r) /\ Bounded(r) /\ r.last_ts = o.last_ts
        /\ x \in HeightSet(o)
        /\ \A z : z \in HeightSet(r) <=> z \in HeightSet(o) /\ z # x
    BY <1>1, <1>2, PopFacts
  <1>5. PairedOff(q, o, p, r, x)  BY <1>3, <1>4 DEF PairedOff
  <1>6. /\ Accounted(G, p, r) /\ Accounted(H, r, p)
        /\ Kept(G, H, P \union {x}, HeightSet(p), HeightSet(r))
    BY <1>2, <1>5, PairAccounted
  <1>7. x \in Heights  BY <1>2, <1>3, DequeFacts
  <1>. QED  BY <1>1, <1>3, <1>4, <1>6, <1>7 DEF Loop

\* An iteration of pop_cache's loop.
LEMMA StepLoop ==
    ASSUME BInv, PopLoop
    PROVE  BInv'
  <1>1. PICK q, o, G, H, P : /\ q = order_diff_cache /\ o = order_status_cache
                             /\ G = given.diffs /\ H = given.statuses /\ P = given.pairs
    OBVIOUS
  <1>2. /\ q \in Deques /\ o \in Deques
        /\ Ordered(q) /\ Bounded(q) /\ Ordered(o) /\ Bounded(o)
        /\ Accounted(G, q, o) /\ Accounted(H, o, q)
        /\ Kept(G, H, P, HeightSet(q), HeightSet(o)) /\ Kept(H, G, P, HeightSet(o), HeightSet(q))
    BY <1>1, BInvParts, KeptSwap
  <1>3. /\ q.deque # <<>> /\ o.deque # <<>> /\ loop = "popping"
        /\ DiffFront = Head(q.deque).height /\ StatusFront = Head(o.deque).height
    BY <1>1 DEF PopLoop, DiffFront, StatusFront
  <1>4. PICK s0, d0 : s0 = before[1] /\ d0 = before[2]  OBVIOUS
  <1>5. /\ s0.last = o.last_ts /\ d0.last = q.last_ts
        /\ Progress(s0, d0, HeightSet(o), HeightSet(q))
        /\ Progress(d0, s0, HeightSet(q), HeightSet(o))
    BY <1>1, <1>3, <1>4 DEF BInv, Popping
  <1>6. CASE DiffFront < StatusFront
    <2>1. DiffFront # StatusFront /\ ~(DiffFront > StatusFront)
      <3>1. Head(q.deque).height \in HeightSet(q) /\ Head(o.deque).height \in HeightSet(o)
        BY <1>2, <1>3, PopFacts
      <3>2. DiffFront \in Nat /\ StatusFront \in Nat  BY <1>2, <1>3, <3>1, BelowLast
      <3>. QED  BY <1>6, <3>2
    <2>2. PICK p : p = pop_front(q)  OBVIOUS
    <2>3. /\ order_diff_cache' = p
          /\ order_status_cache' = order_status_cache
          /\ loop' = loop /\ before' = before /\ given' = given
      BY <1>1, <2>1, <2>2 DEF PopLoop
    <2>4. /\ p \in Deques /\ Ordered(p) /\ Bounded(p) /\ p.last_ts = q.last_ts
          /\ Accounted(G, p, o) /\ Accounted(H, o, p)
          /\ Kept(G, H, P, HeightSet(p), HeightSet(o))
          /\ Progress(d0, s0, HeightSet(p), HeightSet(o))
          /\ Progress(s0, d0, HeightSet(o), HeightSet(p))
      BY <1>2, <1>3, <1>5, <1>6, <2>2, DropKeeps
    <2>5. Kept(H, G, P, HeightSet(o), HeightSet(p))  BY <2>4, KeptSwap
    <2>6. Popping'  BY <1>1, <1>4, <1>5, <2>3, <2>4 DEF Popping
    <2>. QED  BY <1>1, <1>2, <2>3, <2>4, <2>5, <2>6, BInvParts, BInvBuilt
  <1>7. CASE DiffFront > StatusFront
    <2>1. DiffFront # StatusFront /\ ~(DiffFront < StatusFront) /\ StatusFront < DiffFront
      <3>1. Head(q.deque).height \in HeightSet(q) /\ Head(o.deque).height \in HeightSet(o)
        BY <1>2, <1>3, PopFacts
      <3>2. DiffFront \in Nat /\ StatusFront \in Nat  BY <1>2, <1>3, <3>1, BelowLast
      <3>. QED  BY <1>7, <3>2
    <2>2. PICK p : p = pop_front(o)  OBVIOUS
    <2>3. /\ order_status_cache' = p
          /\ order_diff_cache' = order_diff_cache
          /\ loop' = loop /\ before' = before /\ given' = given
      BY <1>1, <2>1, <2>2 DEF PopLoop
    <2>4. /\ p \in Deques /\ Ordered(p) /\ Bounded(p) /\ p.last_ts = o.last_ts
          /\ Accounted(H, p, q) /\ Accounted(G, q, p)
          /\ Kept(H, G, P, HeightSet(p), HeightSet(q))
          /\ Progress(s0, d0, HeightSet(p), HeightSet(q))
          /\ Progress(d0, s0, HeightSet(q), HeightSet(p))
      BY <1>2, <1>3, <1>5, <2>1, <2>2, DropKeeps
    <2>5. Popping'  BY <1>1, <1>4, <1>5, <2>3, <2>4 DEF Popping
    <2>. QED  BY <1>1, <1>2, <2>3, <2>4, <2>5, BInvParts, BInvBuilt
  <1>8. CASE DiffFront = StatusFront
    <2>1. ~(DiffFront < StatusFront) /\ ~(DiffFront > StatusFront)
      <3>1. Head(q.deque).height \in HeightSet(q)  BY <1>2, <1>3, PopFacts
      <3>2. DiffFront \in Nat  BY <1>2, <1>3, <3>1, BelowLast
      <3>. QED  BY <1>8, <3>2
    <2>2. PICK p, r, x : p = pop_front(q) /\ r = pop_front(o) /\ x = Head(q.deque).height  OBVIOUS
    <2>3. /\ order_diff_cache' = p /\ order_status_cache' = r
          /\ loop' = "idle" /\ before' = NotPopping
          /\ given' = [given EXCEPT !.pairs = given.pairs \union {x}]
      BY <1>1, <1>3, <2>1, <2>2 DEF PopLoop, Return
    <2>4. /\ p \in Deques /\ Ordered(p) /\ Bounded(p)
          /\ r \in Deques /\ Ordered(r) /\ Bounded(r)
          /\ Accounted(G, p, r) /\ Accounted(H, r, p)
          /\ Kept(G, H, P \union {x}, HeightSet(p), HeightSet(r))
          /\ x \in Heights
      <3>1. Loop(q, o, G, H, P)  BY <1>2 DEF Loop
      <3>2. Head(q.deque).height = Head(o.deque).height  BY <1>3, <1>8
      <3>3. Loop(p, r, G, H, P \union {x}) /\ x \in Heights
        BY <1>3, <2>2, <3>1, <3>2, PairKeeps
      <3>. QED  BY <3>3 DEF Loop
    <2>5. Kept(H, G, P \union {x}, HeightSet(r), HeightSet(p))  BY <2>4, KeptSwap
    <2>6. /\ given' \in Givens /\ given'.diffs = G /\ given'.statuses = H
          /\ given'.pairs = P \union {x}
      BY <1>1, <2>3, <2>4, BInvParts DEF Givens
    <2>7. before' \in Queues \X Queues
      BY <2>3, SizesAssumption DEF NotPopping, EmptyQueue, Queues, Heights
    <2>8. Popping'  BY <2>3 DEF Popping
    <2>. QED  BY <2>3, <2>4, <2>5, <2>6, <2>7, <2>8, BInvBuilt
  <1>. QED  BY <1>6, <1>7, <1>8 DEF PopLoop

\* The loop ends without a pair.
LEMMA StepNothing ==
    ASSUME BInv, PopNothing
    PROVE  BInv'
  <1>1. /\ loop' = "idle" /\ before' = NotPopping
        /\ order_status_cache' = order_status_cache /\ order_diff_cache' = order_diff_cache
        /\ given' = given
    BY DEF PopNothing, Return
  <1>2. before' \in Queues \X Queues
    BY <1>1, SizesAssumption DEF NotPopping, EmptyQueue, Queues, Heights
  <1>3. Popping'  BY <1>1 DEF Popping
  <1>. QED  BY <1>1, <1>2, <1>3, BInvParts, BInvBuilt

\* A queue that was just made.
LEMMA NewFacts ==
    /\ new \in Deques /\ Ordered(new) /\ Bounded(new) /\ HeightSet(new) = {}
    /\ new.last_ts = 0 /\ AsSet(new) = EmptyQueue
    /\ Accounted({}, new, new) /\ Kept({}, {}, {}, {}, {})
  <1>1. MaxHeight \in Nat /\ QueueHeights \in Nat  BY SizesAssumption
  <1>2. new.deque = <<>> /\ new.last_ts = 0 /\ new \in Deques  BY <1>1 DEF new, Deques
  <1>3. DOMAIN <<>> = {} /\ Len(<<>>) = 0  OBVIOUS
  <1>4. DOMAIN new.deque = {} /\ Len(new.deque) = 0  BY <1>2, <1>3
  <1>5. HeightSet(new) = {}  BY <1>4 DEF HeightSet
  <1>6. Ordered(new) /\ Bounded(new)  BY <1>1, <1>4 DEF Ordered, Bounded
  <1>7. AsSet(new) = EmptyQueue  BY <1>2, <1>5 DEF AsSet, EmptyQueue
  <1>8. Accounted({}, new, new) /\ Kept({}, {}, {}, {}, {})  BY DEF Accounted, Kept
  <1>. QED  BY <1>2, <1>5, <1>6, <1>7, <1>8

\* A fence replaces both queues.
LEMMA StepReplaced ==
    ASSUME BInv, Replaced
    PROVE  BInv'
  <1>1. /\ order_status_cache' = new /\ order_diff_cache' = new
        /\ given' = [statuses |-> {}, diffs |-> {}, pairs |-> {}]
        /\ loop' = loop /\ before' = before /\ loop = "idle"
    BY DEF Replaced
  <1>2. given' \in Givens /\ given'.statuses = {} /\ given'.diffs = {} /\ given'.pairs = {}
    BY <1>1 DEF Givens
  <1>3. Popping'  BY <1>1 DEF Popping
  <1>. QED  BY <1>1, <1>2, <1>3, NewFacts, BInvParts, BInvBuilt

\* The initial state has the invariant.
LEMMA BInvInit == BInit => BInv
  <1>. SUFFICES ASSUME BInit PROVE BInv  OBVIOUS
  <1>1. /\ order_status_cache = new /\ order_diff_cache = new /\ loop = "idle"
        /\ before = NotPopping
        /\ given = [statuses |-> {}, diffs |-> {}, pairs |-> {}]
    BY DEF BInit
  <1>2. before \in Queues \X Queues
    BY <1>1, SizesAssumption DEF NotPopping, EmptyQueue, Queues, Heights
  <1>3. given \in Givens /\ given.statuses = {} /\ given.diffs = {} /\ given.pairs = {}
    BY <1>1 DEF Givens
  <1>4. BTypeOK  BY <1>1, <1>2, <1>3, NewFacts DEF BTypeOK, Givens
  <1>5. NoPairLost /\ Popping /\ HeightsBounded
    BY <1>1, <1>3, NewFacts DEF NoPairLost, Popping, HeightsBounded
  <1>. QED  BY <1>1, <1>3, <1>4, <1>5, NewFacts DEF BInv

\* Every call and every iteration keeps it.
LEMMA BInvStep == BInv /\ [BNext]_bvars => BInv'
  <1>. SUFFICES ASSUME BInv, [BNext]_bvars PROVE BInv'
    OBVIOUS
  <1>1. CASE \E h \in Heights, size \in WireSizes, aged \in BOOLEAN :
                PushStatus(h, size, aged) \/ PushDiff(h, size, aged)
    BY <1>1, StepPushStatus, StepPushDiff
  <1>2. CASE CallPopCache  BY <1>2, StepCall
  <1>3. CASE PopLoop  BY <1>3, StepLoop
  <1>4. CASE PopNothing  BY <1>4, StepNothing
  <1>5. CASE Replaced  BY <1>5, StepReplaced
  <1>6. CASE UNCHANGED bvars
    <2>1. /\ order_status_cache' = order_status_cache /\ order_diff_cache' = order_diff_cache
          /\ loop' = loop /\ before' = before /\ given' = given
      BY <1>6 DEF bvars
    <2>2. Popping'  BY <2>1 DEF BInv, Popping
    <2>. QED  BY <2>1, <2>2, BInvParts, BInvBuilt
  <1>. QED  BY <1>1, <1>2, <1>3, <1>4, <1>5, <1>6 DEF BNext

-----------------------------------------------------------------------------
(* The sum of the wire bytes *)

\* g is the fold of the batches of d whose places are in s, for s in 1..n.
IsFold(d, n, g) ==
    g = [s \in SUBSET (1..n) |-> IF s = {} THEN 0 ELSE g[s \ {Max(s)}] + d[Max(s)].wire_bytes]

\* The fold over a deque is a function of the number of batches folded.
LEMMA FoldExists ==
    ASSUME NEW d, NEW n \in Nat
    PROVE  \E g : IsFold(d, n, g)
  <1>1. PICK K : K = {k \in Nat : \E g : IsFold(d, k, g)}  OBVIOUS
  <1>2. 0 \in K
    <2>1. PICK g : g = [s \in SUBSET (1..0) |-> 0]  OBVIOUS
    <2>2. \A s \in SUBSET (1..0) : s = {}  OBVIOUS
    <2>3. IsFold(d, 0, g)  BY <2>1, <2>2 DEF IsFold
    <2>. QED  BY <1>1, <2>3
  <1>3. ASSUME NEW k \in K PROVE k + 1 \in K
    <2>1. k \in Nat  BY <1>1
    <2>2. PICK g : IsFold(d, k, g)  BY <1>1
    <2>3. PICK f : f = [s \in SUBSET (1..(k + 1)) |->
                           IF s = {} THEN 0
                           ELSE IF k + 1 \in s THEN g[s \ {k + 1}] + d[k + 1].wire_bytes
                           ELSE g[s]]
      OBVIOUS
    <2>4. ASSUME NEW s \in SUBSET (1..k) PROVE f[s] = g[s]
      <3>1. s \in SUBSET (1..(k + 1)) /\ k + 1 \notin s  BY <2>1
      <3>2. s = {} => g[s] = 0  BY <2>2 DEF IsFold
      <3>. QED  BY <2>3, <3>1, <3>2
    <2>5. ASSUME NEW s \in SUBSET (1..(k + 1)), s # {}
          PROVE  f[s] = f[s \ {Max(s)}] + d[Max(s)].wire_bytes
      <3>1. Max(s) \in s /\ \A y \in s : Max(s) >= y
        <4>1. PICK m : m = k + 1  OBVIOUS
        <4>2. m \in Nat /\ s \in SUBSET (1..m)  BY <2>1, <4>1
        <4>. QED  BY <2>5, <4>2, MaxFacts
      <3>2. CASE k + 1 \in s
        <4>1. Max(s) = k + 1
          <5>1. PICK m : m = Max(s)  OBVIOUS
          <5>2. m \in 1..(k + 1) /\ m >= k + 1  BY <3>1, <3>2, <5>1
          <5>. QED  BY <2>1, <5>1, <5>2
        <4>2. s \ {k + 1} \in SUBSET (1..k)  BY <2>1
        <4>. QED  BY <2>3, <2>4, <2>5, <3>2, <4>1, <4>2
      <3>3. CASE k + 1 \notin s
        <4>1. s \in SUBSET (1..k)  BY <2>1, <3>3
        <4>2. s \ {Max(s)} \in SUBSET (1..k)  BY <4>1
        <4>3. g[s] = g[s \ {Max(s)}] + d[Max(s)].wire_bytes  BY <2>2, <2>5, <4>1 DEF IsFold
        <4>. QED  BY <2>4, <4>1, <4>2, <4>3
      <3>. QED  BY <3>2, <3>3
    <2>6. f[{}] = 0  BY <2>3
    <2>7. IsFold(d, k + 1, f)
      <3>1. PICK h : h = [s \in SUBSET (1..(k + 1)) |->
                             IF s = {} THEN 0 ELSE f[s \ {Max(s)}] + d[Max(s)].wire_bytes]
        OBVIOUS
      <3>2. ASSUME NEW s \in SUBSET (1..(k + 1)) PROVE f[s] = h[s]  BY <2>5, <2>6, <3>1
      <3>3. f = h  BY <2>3, <3>1, <3>2
      <3>. QED  BY <3>1, <3>3 DEF IsFold
    <2>. QED  BY <1>1, <2>1, <2>7
  <1>4. K \in SUBSET Nat  BY <1>1
  <1>5. n \in K  BY <1>2, <1>3, <1>4, AllNaturals
  <1>. QED  BY <1>1, <1>5

\* t is the running total of the batches of d.
RunningTotal(d, t) ==
    /\ t \in [0..Len(d) -> Nat] /\ t[0] = 0
    /\ \A k \in 1..Len(d) : t[k] = t[k - 1] + d[k].wire_bytes

\* Bytes adds up the batches of a deque one by one.
LEMMA BytesIsTotal ==
    ASSUME NEW d \in Seq(Batches)
    PROVE  \E t : RunningTotal(d, t) /\ Bytes(d) = t[Len(d)]
  <1>1. PICK n : n = Len(d)  OBVIOUS
  <1>2. n \in Nat /\ DOMAIN d = 1..n  BY <1>1
  <1>3. PICK g : g = CHOOSE f : IsFold(d, n, f)  OBVIOUS
  <1>4. IsFold(d, n, g)  BY <1>2, <1>3, FoldExists
  <1>5. Bytes(d) = g[1..n]
    <2>1. Bytes(d) = (CHOOSE f : f = [s \in SUBSET (DOMAIN d) |->
                                        IF s = {} THEN 0 ELSE f[s \ {Max(s)}] + d[Max(s)].wire_bytes])[DOMAIN d]
      BY DEF Bytes, FoldLeft, MapThenFoldSet
    <2>. QED  BY <1>2, <1>3, <2>1 DEF IsFold
  <1>6. \A k \in 1..n : d[k].wire_bytes \in Nat
    <2>1. \A k \in 1..n : d[k] \in Batches  BY <1>1
    <2>. QED  BY <2>1, SizesAssumption DEF Batches
  <1>7. ASSUME NEW k \in 1..n PROVE g[1..k] = g[1..(k - 1)] + d[k].wire_bytes
    <2>1. 1..k \in SUBSET (1..n) /\ 1..k # {} /\ k \in 1..k /\ k \in Nat  BY <1>2
    <2>2. Max(1..k) \in 1..k /\ \A y \in 1..k : Max(1..k) >= y  BY <2>1, MaxFacts
    <2>3. Max(1..k) = k  BY <2>1, <2>2
    <2>4. (1..k) \ {k} = 1..(k - 1)  BY <1>2
    <2>5. g[1..k] = g[(1..k) \ {Max(1..k)}] + d[Max(1..k)].wire_bytes  BY <1>4, <2>1 DEF IsFold
    <2>. QED  BY <2>3, <2>4, <2>5
  <1>8. g[1..0] = 0
    <2>1. {} \in SUBSET (1..n) /\ 1..0 = {}  OBVIOUS
    <2>. QED  BY <1>4, <2>1 DEF IsFold
  <1>9. \A k \in Nat : k =< n => g[1..k] \in Nat
    <2>1. PICK K : K = {k \in Nat : k =< n => g[1..k] \in Nat}  OBVIOUS
    <2>2. 0 \in K  BY <1>8, <2>1
    <2>3. ASSUME NEW k \in K PROVE k + 1 \in K
      <3>1. k \in Nat  BY <2>1
      <3>2. CASE k + 1 =< n
        <4>1. k + 1 \in 1..n /\ (k + 1) - 1 = k /\ k =< n  BY <1>2, <3>1, <3>2
        <4>2. g[1..(k + 1)] = g[1..k] + d[k + 1].wire_bytes  BY <1>7, <4>1
        <4>3. g[1..k] \in Nat  BY <2>1, <4>1
        <4>4. d[k + 1].wire_bytes \in Nat  BY <1>6, <4>1
        <4>5. g[1..(k + 1)] \in Nat  BY <4>2, <4>3, <4>4
        <4>. QED  BY <2>1, <3>1, <4>5
      <3>3. CASE ~(k + 1 =< n)  BY <2>1, <3>1, <3>3
      <3>. QED  BY <3>2, <3>3
    <2>4. K \in SUBSET Nat  BY <2>1
    <2>. QED  BY <2>1, <2>2, <2>3, <2>4, AllNaturals
  <1>10. PICK t : t = [k \in 0..n |-> g[1..k]]  OBVIOUS
  <1>11. t \in [0..n -> Nat]
    <2>1. \A k \in 0..n : g[1..k] \in Nat  BY <1>2, <1>9
    <2>. QED  BY <1>10, <2>1
  <1>12. t[0] = 0 /\ t[n] = g[1..n]  BY <1>2, <1>8, <1>10
  <1>13. \A k \in 1..n : t[k] = t[k - 1] + d[k].wire_bytes
    <2>1. \A k \in 1..n : k \in 0..n /\ k - 1 \in 0..n  BY <1>2
    <2>. QED  BY <1>7, <1>10, <2>1
  <1>. QED  BY <1>1, <1>5, <1>11, <1>12, <1>13 DEF RunningTotal

\* The first n batches of e are those of d after the first j.
Shifted(d, e, j, n) == Len(d) >= n + j /\ Len(e) >= n /\ \A k \in 1..n : e[k] = d[k + j]

\* Two running totals of the same batches grow by the same.
LEMMA TotalsAgree ==
    ASSUME NEW d \in Seq(Batches), NEW e \in Seq(Batches), NEW t, NEW u,
           RunningTotal(d, t), RunningTotal(e, u),
           NEW j \in Nat, NEW n \in Nat, Shifted(d, e, j, n)
    PROVE  u[n] = t[n + j] - t[j]
  <1>1. PICK K : K = {k \in Nat : k =< n => u[k] = t[k + j] - t[j]}  OBVIOUS
  <1>2. PICK a, b : a = Len(d) /\ b = Len(e)  OBVIOUS
  <1>3. /\ a \in Nat /\ b \in Nat /\ a >= n + j /\ b >= n
        /\ t \in [0..a -> Nat] /\ u \in [0..b -> Nat] /\ u[0] = 0
        /\ \A k \in 1..a : t[k] = t[k - 1] + d[k].wire_bytes
        /\ \A k \in 1..b : u[k] = u[k - 1] + e[k].wire_bytes
    BY <1>2 DEF RunningTotal, Shifted
  <1>4. 0 \in K
    <2>1. j \in 0..a /\ 0 + j = j  BY <1>3
    <2>2. t[j] \in Nat  BY <1>3, <2>1
    <2>. QED  BY <1>1, <1>3, <2>1, <2>2
  <1>5. ASSUME NEW k \in K PROVE k + 1 \in K
    <2>1. k \in Nat  BY <1>1
    <2>2. CASE k + 1 =< n
      <3>1. /\ k + 1 \in 1..n /\ k + 1 \in 1..b /\ (k + 1) + j \in 1..a
            /\ (k + 1) - 1 = k /\ ((k + 1) + j) - 1 = k + j
            /\ k + j \in 0..a /\ k \in 0..b /\ j \in 0..a
        BY <1>3, <2>1, <2>2
      <3>2. u[k + 1] = u[k] + e[k + 1].wire_bytes  BY <1>3, <3>1
      <3>3. t[(k + 1) + j] = t[k + j] + d[(k + 1) + j].wire_bytes  BY <1>3, <3>1
      <3>4. e[k + 1] = d[(k + 1) + j]  BY <3>1 DEF Shifted
      <3>5. u[k] = t[k + j] - t[j]  BY <1>1, <2>1, <2>2
      <3>6. e[k + 1].wire_bytes \in Nat
        <4>1. e[k + 1] \in Batches  BY <1>2, <3>1
        <4>. QED  BY <4>1, SizesAssumption DEF Batches
      <3>7. t[k + j] \in Nat /\ t[j] \in Nat  BY <1>3, <3>1
      <3>8. u[k + 1] = t[(k + 1) + j] - t[j]  BY <3>2, <3>3, <3>4, <3>5, <3>6, <3>7
      <3>. QED  BY <1>1, <2>1, <3>8
    <2>3. CASE ~(k + 1 =< n)  BY <1>1, <2>1, <2>3
    <2>. QED  BY <2>2, <2>3
  <1>6. K \in SUBSET Nat  BY <1>1
  <1>7. n \in K  BY <1>4, <1>5, <1>6, AllNaturals
  <1>. QED  BY <1>1, <1>7

\* What the sum becomes when a batch is appended or taken from the front.
LEMMA BytesFacts ==
    /\ Bytes(<<>>) = 0
    /\ \A d \in Seq(Batches) : Bytes(d) \in Nat
    /\ \A d \in Seq(Batches), b \in Batches : Bytes(Append(d, b)) = Bytes(d) + b.wire_bytes
    /\ \A d \in Seq(Batches) : d # <<>> => Bytes(Tail(d)) = Bytes(d) - Head(d).wire_bytes
  <1>1. Bytes(<<>>) = 0
    <2>1. PICK e : e = <<>>  OBVIOUS
    <2>2. e \in Seq(Batches) /\ Len(e) = 0  BY <2>1
    <2>3. PICK t : RunningTotal(e, t) /\ Bytes(e) = t[Len(e)]  BY <2>2, BytesIsTotal
    <2>. QED  BY <2>1, <2>2, <2>3 DEF RunningTotal
  <1>2. ASSUME NEW d \in Seq(Batches) PROVE Bytes(d) \in Nat
    <2>1. PICK t : RunningTotal(d, t) /\ Bytes(d) = t[Len(d)]  BY BytesIsTotal
    <2>2. Len(d) \in 0..Len(d)  OBVIOUS
    <2>. QED  BY <2>1, <2>2 DEF RunningTotal
  <1>3. ASSUME NEW d \in Seq(Batches), NEW b \in Batches
        PROVE  Bytes(Append(d, b)) = Bytes(d) + b.wire_bytes
    <2>1. PICK e : e = Append(d, b)  OBVIOUS
    <2>2. PICK n : n = Len(d)  OBVIOUS
    <2>3. /\ e \in Seq(Batches) /\ n \in Nat /\ Len(e) = n + 1
          /\ \A k \in 1..n : e[k] = d[k]
          /\ e[n + 1] = b
      BY <2>1, <2>2
    <2>4. PICK t : RunningTotal(d, t) /\ Bytes(d) = t[Len(d)]  BY BytesIsTotal
    <2>5. PICK u : RunningTotal(e, u) /\ Bytes(e) = u[Len(e)]  BY <2>3, BytesIsTotal
    <2>6. u[n] = t[n + 0] - t[0]
      <3>1. PICK j : j = 0  OBVIOUS
      <3>2. j \in Nat /\ Shifted(d, e, j, n)  BY <2>2, <2>3, <3>1 DEF Shifted
      <3>3. u[n] = t[n + j] - t[j]  BY <2>3, <2>4, <2>5, <3>2, TotalsAgree
      <3>. QED  BY <3>1, <3>3
    <2>7. t[0] = 0 /\ t[n] \in Nat
      <3>1. n \in 0..n  BY <2>3
      <3>. QED  BY <2>2, <2>4, <3>1 DEF RunningTotal
    <2>8. u[n] = t[n]  BY <2>3, <2>6, <2>7
    <2>9. u[n + 1] = u[n] + b.wire_bytes
      <3>1. n + 1 \in 1..Len(e) /\ (n + 1) - 1 = n  BY <2>3
      <3>. QED  BY <2>3, <2>5, <3>1 DEF RunningTotal
    <2>. QED  BY <2>1, <2>2, <2>3, <2>4, <2>5, <2>8, <2>9
  <1>4. ASSUME NEW d \in Seq(Batches), d # <<>>
        PROVE  Bytes(Tail(d)) = Bytes(d) - Head(d).wire_bytes
    <2>1. PICK e : e = Tail(d)  OBVIOUS
    <2>2. PICK n : n = Len(e)  OBVIOUS
    <2>3. /\ e \in Seq(Batches) /\ n \in Nat /\ Len(d) = n + 1
          /\ \A k \in 1..n : e[k] = d[k + 1]
          /\ Head(d) = d[1] /\ d[1] \in Batches
      BY <1>4, <2>1, <2>2
    <2>4. PICK t : RunningTotal(d, t) /\ Bytes(d) = t[Len(d)]  BY BytesIsTotal
    <2>5. PICK u : RunningTotal(e, u) /\ Bytes(e) = u[Len(e)]  BY <2>3, BytesIsTotal
    <2>6. u[n] = t[n + 1] - t[1]
      <3>1. PICK j : j = 1  OBVIOUS
      <3>2. j \in Nat /\ Shifted(d, e, j, n)  BY <2>2, <2>3, <3>1 DEF Shifted
      <3>3. u[n] = t[n + j] - t[j]  BY <2>3, <2>4, <2>5, <3>2, TotalsAgree
      <3>. QED  BY <3>1, <3>3
    <2>7. t[1] = d[1].wire_bytes
      <3>1. 1 \in 1..Len(d) /\ 1 - 1 = 0  BY <2>3
      <3>2. t[1] = t[0] + d[1].wire_bytes /\ t[0] = 0  BY <2>4, <3>1 DEF RunningTotal
      <3>3. d[1].wire_bytes \in Nat  BY <2>3, SizesAssumption DEF Batches
      <3>. QED  BY <3>2, <3>3
    <2>. QED  BY <2>1, <2>2, <2>3, <2>4, <2>5, <2>6, <2>7
  <1>. QED  BY <1>1, <1>2, <1>3, <1>4

\* The counter of a queue is the sum, and within its limit.
Counted(q) == q.bytes = Bytes(q.deque) /\ q.bytes =< QueueBytes

AllCounted == Counted(order_status_cache) /\ Counted(order_diff_cache)

\* A new queue has no bytes.
LEMMA NewCounted == Counted(new)
  <1>1. new.deque = <<>> /\ new.bytes = 0  BY DEF new
  <1>. QED  BY <1>1, BytesFacts, SizesAssumption DEF Counted

\* A push counts the bytes of the batch if it accepts it.
LEMMA PushCounted ==
    ASSUME NEW q \in Deques, Counted(q), NEW p, NEW h \in Heights, NEW size \in WireSizes,
           NEW aged \in BOOLEAN, Push(q, p, h, size, aged)
    PROVE  Counted(p)
  <1>1. CASE p = q  BY <1>1
  <1>2. CASE ~OverLimit(q, h, size, aged) /\ p = push(q, h, size)
    <2>1. PICK b : b = [height |-> h, wire_bytes |-> size]  OBVIOUS
    <2>2. b \in Batches /\ b.wire_bytes = size  BY <2>1 DEF Batches
    <2>3. p.deque = Append(q.deque, b) /\ p.bytes = q.bytes + size  BY <1>2, <2>1 DEF push
    <2>4. q.deque \in Seq(Batches) /\ q.bytes \in Int  BY DequeFacts
    <2>5. Bytes(Append(q.deque, b)) = Bytes(q.deque) + size  BY <2>2, <2>4, BytesFacts
    <2>6. p.bytes =< QueueBytes
      <3>1. ~(q.bytes + size > QueueBytes)  BY <1>2 DEF OverLimit
      <3>2. size \in Nat /\ QueueBytes \in Nat  BY SizesAssumption
      <3>. QED  BY <2>3, <2>4, <3>1, <3>2
    <2>. QED  BY <2>3, <2>5, <2>6 DEF Counted
  <1>. QED  BY <1>1, <1>2 DEF Push

\* pop_front takes off the bytes of the front.
LEMMA PopCounted ==
    ASSUME NEW q \in Deques, Counted(q), q.deque # <<>>
    PROVE  Counted(pop_front(q))
  <1>1. PICK d : d = q.deque  OBVIOUS
  <1>2. d \in Seq(Batches) /\ d # <<>> /\ q.bytes \in Int  BY <1>1, DequeFacts
  <1>3. Head(d) \in Batches  BY <1>2
  <1>4. Head(d).wire_bytes \in Nat /\ QueueBytes \in Nat  BY <1>3, SizesAssumption DEF Batches
  <1>5. PICK z : z = q.bytes - Head(d).wire_bytes  OBVIOUS
  <1>6. PICK p : p = pop_front(q)  OBVIOUS
  <1>7. p = [q EXCEPT !.deque = Tail(d), !.bytes = z]  BY <1>1, <1>5, <1>6 DEF pop_front
  <1>8. p.deque = Tail(d) /\ p.bytes = z  BY <1>7 DEF Deques
  <1>9. z = Bytes(Tail(d))  BY <1>1, <1>2, <1>5, BytesFacts DEF Counted
  <1>10. z =< QueueBytes  BY <1>2, <1>4, <1>5 DEF Counted
  <1>. QED  BY <1>6, <1>8, <1>9, <1>10 DEF Counted

\* Every step keeps both counters exact.
LEMMA CountedStep == BInv /\ AllCounted /\ [BNext]_bvars => AllCounted'
  <1>. SUFFICES ASSUME BInv, AllCounted, [BNext]_bvars PROVE AllCounted'  OBVIOUS
  <1>. USE BInvParts
  <1>1. ASSUME NEW h \in Heights, NEW size \in WireSizes, NEW aged \in BOOLEAN, PushStatus(h, size, aged)
        PROVE  AllCounted'
    <2>1. Counted(order_status_cache')
      BY <1>1, PushCounted DEF PushStatus, AllCounted
    <2>. QED  BY <1>1, <2>1 DEF PushStatus, AllCounted
  <1>2. ASSUME NEW h \in Heights, NEW size \in WireSizes, NEW aged \in BOOLEAN, PushDiff(h, size, aged)
        PROVE  AllCounted'
    <2>1. Counted(order_diff_cache')
      BY <1>2, PushCounted DEF PushDiff, AllCounted
    <2>. QED  BY <1>2, <2>1 DEF PushDiff, AllCounted
  <1>3. CASE CallPopCache  BY <1>3 DEF CallPopCache, AllCounted
  <1>4. CASE PopLoop
    <2>1. Counted(pop_front(order_status_cache)) /\ Counted(pop_front(order_diff_cache))
      BY <1>4, PopCounted DEF PopLoop, AllCounted
    <2>2. /\ order_status_cache' = order_status_cache \/ order_status_cache' = pop_front(order_status_cache)
          /\ order_diff_cache' = order_diff_cache \/ order_diff_cache' = pop_front(order_diff_cache)
      BY <1>4 DEF PopLoop
    <2>3. Counted(order_status_cache')  BY <2>1, <2>2 DEF AllCounted
    <2>4. Counted(order_diff_cache')  BY <2>1, <2>2 DEF AllCounted
    <2>. QED  BY <2>3, <2>4 DEF AllCounted
  <1>5. CASE PopNothing  BY <1>5 DEF PopNothing, AllCounted
  <1>6. CASE Replaced  BY <1>6, NewCounted DEF Replaced, AllCounted
  <1>7. CASE UNCHANGED bvars  BY <1>7 DEF bvars, AllCounted
  <1>. QED  BY <1>1, <1>2, <1>3, <1>4, <1>5, <1>6, <1>7 DEF BNext

-----------------------------------------------------------------------------
\* pop_cache loses no pair: a block accepted from both sources is returned or
\* still queued on both (BatchQueue::push, pop_cache).
THEOREM QueuesLoseNoPair == BSpec => []NoPairLost
  <1>1. BInv => NoPairLost  BY DEF BInv
  <1>. QED  BY <1>1, BInvInit, BInvStep, PTL DEF BSpec

\* push and pop_front keep the byte counter equal to the sum over the deque,
\* so that its subtraction never wraps, and every queue within queue_bytes and
\* queue_heights, in count and in span of heights, whatever is pushed and popped.
THEOREM QueuesBytesExact == BSpec => []BytesExact
  <1>1. BInit => AllCounted  BY NewCounted DEF BInit, AllCounted
  <1>2. BInv /\ AllCounted => BytesExact
    BY DEF BInv, HeightsBounded, Bounded, AllCounted, Counted, BytesExact, WithinLimits
  <1>. QED  BY <1>1, <1>2, BInvInit, BInvStep, CountedStep, PTL DEF BSpec

-----------------------------------------------------------------------------
(* The deques and the loop implement PairingQueues *)

\* The queues that PairingQueues sees: while pop_cache runs, those before it.
AStatuses == IF loop = "popping" THEN before[1] ELSE AsSet(order_status_cache)
ADiffs    == IF loop = "popping" THEN before[2] ELSE AsSet(order_diff_cache)

\* AsSet, by its parts.
LEMMA AsSetFacts ==
    ASSUME NEW q \in Deques
    PROVE  AsSet(q) \in Queues /\ AsSet(q).heights = HeightSet(q) /\ AsSet(q).last = q.last_ts
  BY DequeFacts DEF AsSet

\* A queue holds no more heights than its deque has batches.
LEMMA HeightsCounted ==
    ASSUME NEW q \in Deques
    PROVE  Cardinality(HeightSet(q)) =< Len(q.deque)
  <1>1. PICK n : n = Len(q.deque)  OBVIOUS
  <1>2. PICK f : f = [i \in 1..n |-> q.deque[i].height]  OBVIOUS
  <1>3. n \in Nat /\ DOMAIN q.deque = 1..n  BY <1>1, DequeFacts
  <1>4. f \in [1..n -> HeightSet(q)] /\ \A h \in HeightSet(q) : \E i \in 1..n : f[i] = h
    BY <1>2, <1>3 DEF HeightSet
  <1>5. ExistsSurjection(1..n, HeightSet(q))  BY <1>4 DEF ExistsSurjection, Surjection
  <1>. QED  BY <1>1, <1>3, <1>5, FS_SurjCardinalityBound

\* The front is the least height: a height within reach of it is within reach
\* of all.
LEMMA SpanFromFront ==
    ASSUME NEW q \in Deques, Ordered(q), Bounded(q), q.deque # <<>>, NEW h \in Nat,
           ~(h - Head(q.deque).height > QueueHeights)
    PROVE  \A f \in HeightSet(q) : ~(h - f > QueueHeights)
  <1>1. PICK x : x = Head(q.deque).height  OBVIOUS
  <1>2. x \in HeightSet(q) /\ \A f \in HeightSet(q) : x =< f  BY <1>1, PopFacts
  <1>3. \A f \in HeightSet(q) : f \in Nat  BY BelowLast
  <1>4. QueueHeights \in Nat  BY SizesAssumption
  <1>. QED  BY <1>1, <1>2, <1>3, <1>4

\* PairingQueues counts as this module does.
LEMMA SameCardinality == ASSUME NEW S PROVE Abstract!Cardinality(S) = Cardinality(S)
  BY DEF Abstract!Cardinality, Cardinality

\* push on a deque is push on its set.
LEMMA PushImplements ==
    ASSUME NEW q \in Deques, Ordered(q), Bounded(q), NEW p,
           NEW h \in Heights, NEW size \in WireSizes, NEW aged \in BOOLEAN,
           Push(q, p, h, size, aged)
    PROVE  Abstract!PPush(AsSet(q), AsSet(p), h)
  <1>1. /\ MaxHeight \in Nat /\ QueueHeights \in Nat /\ h \in Nat /\ q.last_ts \in Nat
    BY SizesAssumption, DequeFacts DEF Heights
  <1>2. AsSet(q).heights = HeightSet(q) /\ AsSet(q).last = q.last_ts  BY AsSetFacts
  <1>3. Abstract!Stale(AsSet(q), h) <=> q.last_ts >= h  BY <1>1, <1>2 DEF Abstract!Stale
  <1>4. q.last_ts >= h <=> ~(q.last_ts < h)  BY <1>1
  <1>5. CASE q.last_ts >= h /\ p = q /\ result' = Result("stale", h)
    <2>1. AsSet(p) = AsSet(q) /\ result' = Abstract!Result("stale", h)
      BY <1>5 DEF Abstract!Result, Result
    <2>. QED  BY <1>3, <1>5, <2>1 DEF Abstract!PPush
  <1>6. CASE /\ q.last_ts < h /\ ~OverLimit(q, h, size, aged)
             /\ p = push(q, h, size) /\ result' = Result("accepted", h)
    <2>1. /\ p \in Deques /\ p.last_ts = h
          /\ \A x : x \in HeightSet(p) <=> x \in HeightSet(q) \/ x = h
      BY <1>6, PushFacts
    <2>2. HeightSet(p) = HeightSet(q) \union {h}  BY <2>1
    <2>3. AsSet(p) = Abstract!Pushed(AsSet(q), h)
      BY <1>2, <2>1, <2>2 DEF AsSet, Abstract!Pushed
    <2>4. ~(Len(q.deque) >= QueueHeights)  BY <1>6 DEF OverLimit
    <2>5. ~(Cardinality(HeightSet(q)) >= QueueHeights)
      <3>1. PICK S : S = HeightSet(q)  OBVIOUS
      <3>2. IsFiniteSet(S)
        <4>1. S \subseteq Heights  BY <3>1, DequeFacts
        <4>2. IsFiniteSet(Heights)  BY <1>1, FS_Interval DEF Heights
        <4>. QED  BY <4>1, <4>2, FS_Subset
      <3>3. Cardinality(S) \in Nat  BY <3>2, FS_CardinalityType
      <3>4. Cardinality(S) =< Len(q.deque) /\ Len(q.deque) \in Nat
        BY <3>1, HeightsCounted, DequeFacts
      <3>. QED  BY <1>1, <2>4, <3>1, <3>3, <3>4
    <2>6. \A f \in HeightSet(q) : ~(h - f > QueueHeights)
      <3>1. CASE q.deque = <<>>
        <4>1. DOMAIN q.deque = {}  BY <3>1
        <4>. QED  BY <4>1 DEF HeightSet
      <3>2. CASE q.deque # <<>>
        <4>1. ~(h - Head(q.deque).height > QueueHeights)  BY <1>6, <3>2 DEF OverLimit
        <4>. QED  BY <1>1, <3>2, <4>1, SpanFromFront
      <3>. QED  BY <3>1, <3>2
    <2>7. ~Abstract!PushRefused(AsSet(q), h, FALSE)
      <3>1. ~(Abstract!Cardinality(AsSet(q).heights) >= QueueHeights)
        BY <1>2, <2>5, SameCardinality
      <3>. QED  BY <1>2, <2>6, <3>1 DEF Abstract!PushRefused
    <2>8. result' = Abstract!Result("accepted", h)  BY <1>6 DEF Abstract!Result, Result
    <2>. QED  BY <1>3, <1>4, <1>6, <2>3, <2>7, <2>8 DEF Abstract!PPush
  <1>7. CASE q.last_ts < h /\ p = q /\ result' = Result("refused", h)
    <2>1. Abstract!PushRefused(AsSet(q), h, TRUE)  BY DEF Abstract!PushRefused
    <2>2. \E over \in BOOLEAN : Abstract!PushRefused(AsSet(q), h, over)  BY <2>1, Zenon
    <2>3. AsSet(p) = AsSet(q) /\ result' = Abstract!Result("refused", h)
      BY <1>7 DEF Abstract!Result, Result
    <2>. QED  BY <1>3, <1>4, <1>7, <2>2, <2>3 DEF Abstract!PPush
  <1>. QED  BY <1>5, <1>6, <1>7 DEF Push

\* A height of one queue that is above all of the other.
Over(x, q0, o0) == x \in q0.heights /\ \A y \in o0.heights : x > y

\* The loop's end without a pair: what is left is what PairingQueues drains to.
LEMMA NothingImplements ==
    ASSUME NEW s0 \in Queues, NEW d0 \in Queues, NEW S \in SUBSET Nat, NEW D \in SUBSET Nat,
           Progress(s0, d0, S, D), Progress(d0, s0, D, S), S = {} \/ D = {}
    PROVE  /\ Paired(s0, d0) = {}
           /\ \A x : x \in S <=> Over(x, s0, d0)
           /\ \A x : x \in D <=> Over(x, d0, s0)
  <1>1. MaxHeight \in Nat  BY SizesAssumption
  <1>2. s0.heights \subseteq Nat /\ d0.heights \subseteq Nat  BY <1>1 DEF Queues, Heights
  <1>3. ASSUME NEW h \in s0.heights, h \in d0.heights PROVE FALSE
    <2>1. h \in S  BY <1>3 DEF Progress, Dropped
    <2>2. h \in D  BY <1>3 DEF Progress, Dropped
    <2>. QED  BY <2>1, <2>2
  <1>4. Paired(s0, d0) = {}  BY <1>3 DEF Paired
  <1>5. ASSUME NEW x \in s0.heights PROVE x \in S <=> \A y \in d0.heights : x > y
    <2>1. ASSUME x \notin S PROVE ~\A y \in d0.heights : x > y
      <3>1. PICK y \in d0.heights : x < y  BY <2>1 DEF Progress, Dropped
      <3>. QED  BY <1>2, <3>1
    <2>2. ASSUME x \in S, NEW y \in d0.heights PROVE x > y
      <3>1. y \notin D  BY <2>2
      <3>2. y < x  BY <2>2, <3>1 DEF Progress, Dropped
      <3>. QED  BY <1>2, <3>2
    <2>. QED  BY <2>1, <2>2
  <1>6. ASSUME NEW x \in d0.heights PROVE x \in D <=> \A y \in s0.heights : x > y
    <2>1. ASSUME x \notin D PROVE ~\A y \in s0.heights : x > y
      <3>1. PICK y \in s0.heights : x < y  BY <2>1 DEF Progress, Dropped
      <3>. QED  BY <1>2, <3>1
    <2>2. ASSUME x \in D, NEW y \in s0.heights PROVE x > y
      <3>1. y \notin S  BY <2>2
      <3>2. y < x  BY <2>2, <3>1 DEF Progress, Dropped
      <3>. QED  BY <1>2, <3>2
    <2>. QED  BY <2>1, <2>2
  <1>7. S \subseteq s0.heights /\ D \subseteq d0.heights  BY DEF Progress
  <1>8. \A x : x \in S <=> Over(x, s0, d0)  BY <1>5, <1>7 DEF Over
  <1>9. \A x : x \in D <=> Over(x, d0, s0)  BY <1>6, <1>7 DEF Over
  <1>. QED  BY <1>4, <1>8, <1>9

\* The pair that the loop returns is the least, and what is left is above it.
LEMMA PairImplements ==
    ASSUME NEW s0 \in Queues, NEW d0 \in Queues, NEW S \in SUBSET Nat, NEW D \in SUBSET Nat,
           Progress(s0, d0, S, D), Progress(d0, s0, D, S),
           NEW h \in S, h \in D, \A x \in S : h =< x, \A x \in D : h =< x
    PROVE  /\ IsLeast(h, Paired(s0, d0))
           /\ \A x : x \in S /\ x # h <=> x \in s0.heights /\ x > h
           /\ \A x : x \in D /\ x # h <=> x \in d0.heights /\ x > h
  <1>1. MaxHeight \in Nat  BY SizesAssumption
  <1>2. s0.heights \subseteq Nat /\ d0.heights \subseteq Nat  BY <1>1 DEF Queues, Heights
  <1>3. S \subseteq s0.heights /\ D \subseteq d0.heights  BY DEF Progress
  <1>4. IsLeast(h, Paired(s0, d0))
    <2>1. h \in Paired(s0, d0)  BY <1>3 DEF Paired
    <2>2. ASSUME NEW x \in Paired(s0, d0) PROVE h =< x
      <3>1. x \in s0.heights /\ x \in d0.heights  BY <2>2 DEF Paired
      <3>2. x \in S  BY <3>1 DEF Progress, Dropped
      <3>. QED  BY <3>2
    <2>. QED  BY <2>1, <2>2 DEF IsLeast
  <1>5. ASSUME NEW x PROVE x \in S /\ x # h <=> x \in s0.heights /\ x > h
    <2>1. ASSUME x \in S, x # h PROVE x \in s0.heights /\ x > h
      <3>1. x \in Nat /\ h \in Nat /\ h =< x  BY <2>1
      <3>. QED  BY <1>3, <2>1, <3>1
    <2>2. ASSUME x \in s0.heights, x > h PROVE x \in S /\ x # h
      <3>1. x \in Nat /\ h \in Nat  BY <1>2, <2>2
      <3>2. x \notin S => x < h  BY <2>2 DEF Progress, Dropped
      <3>. QED  BY <2>2, <3>1, <3>2
    <2>. QED  BY <2>1, <2>2
  <1>6. ASSUME NEW x PROVE x \in D /\ x # h <=> x \in d0.heights /\ x > h
    <2>1. ASSUME x \in D, x # h PROVE x \in d0.heights /\ x > h
      <3>1. x \in Nat /\ h \in Nat /\ h =< x  BY <2>1
      <3>. QED  BY <1>3, <2>1, <3>1
    <2>2. ASSUME x \in d0.heights, x > h PROVE x \in D /\ x # h
      <3>1. x \in Nat /\ h \in Nat  BY <1>2, <2>2
      <3>2. x \notin D => x < h  BY <2>2 DEF Progress, Dropped
      <3>. QED  BY <2>2, <3>1, <3>2
    <2>. QED  BY <2>1, <2>2
  <1>. QED  BY <1>4, <1>5, <1>6

\* The initial states of the deques are initial states of PairingQueues.
LEMMA PairingInit == BInit => Abstract!PInit
  <1>. SUFFICES ASSUME BInit PROVE Abstract!PInit  OBVIOUS
  <1>1. /\ AStatuses = EmptyQueue /\ ADiffs = EmptyQueue /\ result = Result("none", 0)
    BY NewFacts DEF BInit, AStatuses, ADiffs
  <1>. QED
    BY <1>1 DEF Abstract!PInit, Abstract!EmptyQueue, Abstract!Result, EmptyQueue, Result,
                AStatuses, ADiffs

\* A call of push is one of PairingQueues's pushes.
LEMMA PairingPush ==
    ASSUME BInv, NEW h \in Heights, NEW size \in WireSizes, NEW aged \in BOOLEAN,
           PushStatus(h, size, aged) \/ PushDiff(h, size, aged)
    PROVE  Abstract!PNext
  <1>1. loop = "idle" /\ loop' = "idle"  BY DEF PushStatus, PushDiff
  <1>2. /\ AStatuses = AsSet(order_status_cache) /\ ADiffs = AsSet(order_diff_cache)
        /\ AStatuses' = AsSet(order_status_cache') /\ ADiffs' = AsSet(order_diff_cache')
    BY <1>1 DEF AStatuses, ADiffs
  <1>3. CASE PushStatus(h, size, aged)
    <2>1. order_diff_cache' = order_diff_cache
          /\ Push(order_status_cache, order_status_cache', h, size, aged)
      BY <1>3 DEF PushStatus
    <2>2. PICK q, p : q = order_status_cache /\ p = order_status_cache'  OBVIOUS
    <2>3. q \in Deques /\ Ordered(q) /\ Bounded(q)  BY <2>2, BInvParts
    <2>4. Push(q, p, h, size, aged)  BY <2>1, <2>2
    <2>5. ADiffs' = ADiffs  BY <1>2, <2>1
    <2>6. AStatuses = AsSet(q) /\ AStatuses' = AsSet(p)  BY <1>2, <2>2
    <2>7. Abstract!PPush(AsSet(q), AsSet(p), h)  BY <2>3, <2>4, PushImplements
    <2>8. Abstract!PPush(AStatuses, AStatuses', h)  BY <2>6, <2>7
    <2>. QED  BY <2>5, <2>8 DEF Abstract!PNext, Abstract!Heights, Heights, AStatuses, ADiffs
  <1>4. CASE PushDiff(h, size, aged)
    <2>1. order_status_cache' = order_status_cache
          /\ Push(order_diff_cache, order_diff_cache', h, size, aged)
      BY <1>4 DEF PushDiff
    <2>2. PICK q, p : q = order_diff_cache /\ p = order_diff_cache'  OBVIOUS
    <2>3. q \in Deques /\ Ordered(q) /\ Bounded(q)  BY <2>2, BInvParts
    <2>4. Push(q, p, h, size, aged)  BY <2>1, <2>2
    <2>5. AStatuses' = AStatuses  BY <1>2, <2>1
    <2>6. ADiffs = AsSet(q) /\ ADiffs' = AsSet(p)  BY <1>2, <2>2
    <2>7. Abstract!PPush(AsSet(q), AsSet(p), h)  BY <2>3, <2>4, PushImplements
    <2>8. Abstract!PPush(ADiffs, ADiffs', h)  BY <2>6, <2>7
    <2>. QED  BY <2>5, <2>8 DEF Abstract!PNext, Abstract!Heights, Heights, AStatuses, ADiffs
  <1>. QED  BY <1>3, <1>4

\* The state of the loop in terms of PairingQueues.
LEMMA PoppingFacts ==
    ASSUME BInv, loop = "popping"
    PROVE  /\ AStatuses = before[1] /\ ADiffs = before[2]
           /\ before[1] \in Queues /\ before[2] \in Queues
           /\ before[1].last = order_status_cache.last_ts
           /\ before[2].last = order_diff_cache.last_ts
           /\ Progress(before[1], before[2], HeightSet(order_status_cache), HeightSet(order_diff_cache))
           /\ Progress(before[2], before[1], HeightSet(order_diff_cache), HeightSet(order_status_cache))
           /\ HeightSet(order_status_cache) \in SUBSET Nat
           /\ HeightSet(order_diff_cache) \in SUBSET Nat
  <1>1. before[1] \in Queues /\ before[2] \in Queues  BY BInvParts
  <1>2. MaxHeight \in Nat  BY SizesAssumption
  <1>3. HeightSet(order_status_cache) \in SUBSET Nat /\ HeightSet(order_diff_cache) \in SUBSET Nat
    BY <1>2, BInvParts, DequeFacts DEF Heights
  <1>. QED  BY <1>1, <1>3 DEF BInv, Popping, AStatuses, ADiffs

\* A queue is its set of heights with its last_ts.
LEMMA QueueRecord ==
    ASSUME NEW q0 \in Queues, NEW S
    PROVE  [q0 EXCEPT !.heights = S] = [heights |-> S, last |-> q0.last]
  BY DEF Queues

\* The loop's end without a pair is PairingQueues's step without one.
LEMMA PairingNothing ==
    ASSUME BInv, PopNothing
    PROVE  Abstract!PNext
  <1>1. /\ loop = "popping" /\ loop' = "idle" /\ result' = Result("unpaired", 0)
        /\ order_status_cache' = order_status_cache /\ order_diff_cache' = order_diff_cache
        /\ order_diff_cache.deque = <<>> \/ order_status_cache.deque = <<>>
    BY DEF PopNothing, Return
  <1>2. PICK s0, d0, S, D : /\ s0 = before[1] /\ d0 = before[2]
                            /\ S = HeightSet(order_status_cache) /\ D = HeightSet(order_diff_cache)
    OBVIOUS
  <1>3. /\ s0 \in Queues /\ d0 \in Queues /\ S \in SUBSET Nat /\ D \in SUBSET Nat
        /\ Progress(s0, d0, S, D) /\ Progress(d0, s0, D, S)
        /\ s0.last = order_status_cache.last_ts /\ d0.last = order_diff_cache.last_ts
        /\ AStatuses = s0 /\ ADiffs = d0
    BY <1>1, <1>2, PoppingFacts
  <1>4. S = {} \/ D = {}
    <2>1. \A q : q.deque = <<>> => HeightSet(q) = {}  BY DEF HeightSet
    <2>. QED  BY <1>1, <1>2, <2>1
  <1>5. /\ Paired(s0, d0) = {}
        /\ \A x : x \in S <=> Over(x, s0, d0)
        /\ \A x : x \in D <=> Over(x, d0, s0)
    BY <1>3, <1>4, NothingImplements
  <1>5a. /\ S = {x \in s0.heights : \A y \in d0.heights : x > y}
         /\ D = {x \in d0.heights : \A y \in s0.heights : x > y}
    BY <1>5 DEF Over
  <1>6. /\ AStatuses' = [heights |-> S, last |-> s0.last]
        /\ ADiffs' = [heights |-> D, last |-> d0.last]
    BY <1>1, <1>2, <1>3 DEF AStatuses, ADiffs, AsSet
  <1>7. AStatuses' = Drained(s0, d0) /\ ADiffs' = Drained(d0, s0)
    BY <1>3, <1>5a, <1>6, QueueRecord DEF Drained
  <1>8. Abstract!PPop
    BY <1>1, <1>3, <1>5, <1>7
    DEF Abstract!PPop, Abstract!Paired, Abstract!Drained, Abstract!Result,
        Paired, Drained, Result, AStatuses, ADiffs
  <1>. QED  BY <1>8 DEF Abstract!PNext

\* An iteration is no step of PairingQueues until it returns the pair.
LEMMA PairingLoop ==
    ASSUME BInv, PopLoop
    PROVE  Abstract!PNext \/ (AStatuses' = AStatuses /\ ADiffs' = ADiffs /\ result' = result)
  <1>1. CASE loop' = loop /\ before' = before /\ result' = result
    <2>1. loop = "popping"  BY DEF PopLoop
    <2>. QED  BY <1>1, <2>1 DEF AStatuses, ADiffs
  <1>2. CASE ~(loop' = loop /\ before' = before /\ result' = result)
    <2>1. PICK q, o, h : /\ q = order_diff_cache /\ o = order_status_cache
                         /\ h = Head(q.deque).height
      OBVIOUS
    <2>2. /\ loop = "popping" /\ loop' = "idle"
          /\ q.deque # <<>> /\ o.deque # <<>>
          /\ h = Head(o.deque).height
          /\ order_diff_cache' = pop_front(q) /\ order_status_cache' = pop_front(o)
          /\ result' = Result("pair", h)
      BY <1>2, <2>1 DEF PopLoop, Return, DiffFront, StatusFront
    <2>3. PICK s0, d0, S, D : /\ s0 = before[1] /\ d0 = before[2]
                              /\ S = HeightSet(o) /\ D = HeightSet(q)
      OBVIOUS
    <2>4. /\ s0 \in Queues /\ d0 \in Queues /\ S \in SUBSET Nat /\ D \in SUBSET Nat
          /\ Progress(s0, d0, S, D) /\ Progress(d0, s0, D, S)
          /\ s0.last = o.last_ts /\ d0.last = q.last_ts
          /\ AStatuses = s0 /\ ADiffs = d0
      BY <2>1, <2>2, <2>3, PoppingFacts
    <2>5. /\ q \in Deques /\ Ordered(q) /\ Bounded(q) /\ o \in Deques /\ Ordered(o) /\ Bounded(o)
      BY <2>1, BInvParts
    <2>6. PICK p, r : p = pop_front(q) /\ r = pop_front(o)  OBVIOUS
    <2>7. /\ p.last_ts = q.last_ts /\ h \in D /\ \A x \in D : h =< x
          /\ \A x : x \in HeightSet(p) <=> x \in D /\ x # h
      BY <2>1, <2>2, <2>3, <2>5, <2>6, PopFacts
    <2>8. /\ r.last_ts = o.last_ts /\ h \in S /\ \A x \in S : h =< x
          /\ \A x : x \in HeightSet(r) <=> x \in S /\ x # h
      BY <2>2, <2>3, <2>5, <2>6, PopFacts
    <2>9. /\ IsLeast(h, Paired(s0, d0))
          /\ \A x : x \in S /\ x # h <=> x \in s0.heights /\ x > h
          /\ \A x : x \in D /\ x # h <=> x \in d0.heights /\ x > h
      BY <2>4, <2>7, <2>8, PairImplements
    <2>10. /\ HeightSet(r) = {x \in s0.heights : x > h}
           /\ HeightSet(p) = {x \in d0.heights : x > h}
      BY <2>7, <2>8, <2>9
    <2>11. /\ AStatuses' = [heights |-> HeightSet(r), last |-> s0.last]
           /\ ADiffs' = [heights |-> HeightSet(p), last |-> d0.last]
      BY <2>2, <2>4, <2>6, <2>7, <2>8 DEF AStatuses, ADiffs, AsSet
    <2>12. AStatuses' = Above(s0, h) /\ ADiffs' = Above(d0, h)
      BY <2>4, <2>10, <2>11, QueueRecord DEF Above
    <2>13. h \in Heights  BY <2>3, <2>5, <2>7, DequeFacts
    <2>14. Abstract!PPop
      BY <2>2, <2>4, <2>9, <2>12, <2>13
      DEF Abstract!PPop, Abstract!Paired, Abstract!Above, Abstract!Result, Abstract!IsLeast,
          Abstract!Heights, Paired, Above, Result, IsLeast, Heights, AStatuses, ADiffs
    <2>. QED  BY <2>14 DEF Abstract!PNext
  <1>. QED  BY <1>1, <1>2

\* Every step is a step of PairingQueues or leaves what it sees alone.
LEMMA PairingStep ==
    BInv /\ [BNext]_bvars
        => Abstract!PNext \/ (AStatuses' = AStatuses /\ ADiffs' = ADiffs /\ result' = result)
  <1>. SUFFICES ASSUME BInv, [BNext]_bvars
                PROVE  \/ Abstract!PNext
                       \/ AStatuses' = AStatuses /\ ADiffs' = ADiffs /\ result' = result
    OBVIOUS
  <1>1. CASE \E h \in Heights, size \in WireSizes, aged \in BOOLEAN :
                PushStatus(h, size, aged) \/ PushDiff(h, size, aged)
    BY <1>1, PairingPush
  <1>2. CASE CallPopCache
    <2>1. /\ loop = "idle" /\ loop' = "popping" /\ result' = result
          /\ before' = <<AsSet(order_status_cache), AsSet(order_diff_cache)>>
      BY <1>2 DEF CallPopCache
    <2>. QED  BY <2>1 DEF AStatuses, ADiffs
  <1>3. CASE PopLoop  BY <1>3, PairingLoop
  <1>4. CASE PopNothing  BY <1>4, PairingNothing
  <1>5. CASE Replaced
    <2>1. /\ loop' = "idle" /\ order_status_cache' = new /\ order_diff_cache' = new
          /\ result' = Result("none", 0)
      BY <1>5 DEF Replaced
    <2>2. AStatuses' = EmptyQueue /\ ADiffs' = EmptyQueue
      BY <2>1, NewFacts DEF AStatuses, ADiffs
    <2>3. Abstract!PReset
      BY <2>1, <2>2 DEF Abstract!PReset, Abstract!EmptyQueue, Abstract!Result, EmptyQueue, Result,
                        AStatuses, ADiffs
    <2>. QED  BY <2>3 DEF Abstract!PNext
  <1>6. CASE UNCHANGED bvars  BY <1>6 DEF bvars, AStatuses, ADiffs
  <1>. QED  BY <1>1, <1>2, <1>3, <1>4, <1>5, <1>6 DEF BNext

\* The deques with the loop of pop_cache implement the set queues that the
\* model of the listener uses (BatchQueue, pop_cache).
THEOREM QueuesImplementPairing == BSpec => ImplementsPairing
  <1>1. BSpec => []BInv  BY BInvInit, BInvStep, PTL DEF BSpec
  <1>2. BInv /\ [BNext]_bvars => [Abstract!PNext]_<<AStatuses, ADiffs, result>>
    BY PairingStep
  <1>. QED  BY <1>1, <1>2, PairingInit, PTL
            DEF BSpec, ImplementsPairing, Abstract!PSpec, AStatuses, ADiffs

-----------------------------------------------------------------------------
(* Subscriptions *)

Phases == {"closed", "subscribed", "ready", "refused", "open"}

Messages == [kind : {"Gap", "Snapshot"}, coins : SUBSET Coins]

\* The receiver keeps no more than the channel's capacity.
SubsTypeOK ==
    /\ ready \in BOOLEAN /\ book \in SUBSET Coins
    /\ rx \in Seq(Messages) /\ Len(rx) =< Capacity
    /\ lagged \in BOOLEAN
    /\ phase \in Phases
    /\ universe \in SUBSET Coins
    /\ subscriptions \in SUBSET Requests

\* The connection has missed nothing and will not find a Gap in what waits.
Continuous(s, lost) == ~lost /\ \A i \in DOMAIN s : s[i].kind # "Gap"

\* A connection that is closed has nothing waiting.
ClosedEmpty == phase = "closed" => rx = <<>> /\ ~lagged

\* A Gap reaches every receiver before the book can be loaded again, so a
\* connection without one found the book there and still does.
BookThere == phase \in {"ready", "open"} /\ Continuous(rx, lagged) => ready

\* The last message that waits has the coins of the book: whatever adds a book
\* publishes it, and what removes one sends a Gap.
LastCurrent ==
    phase # "closed" /\ Continuous(rx, lagged) /\ rx # <<>>
        => ready /\ rx[Len(rx)].coins = book

SubsInv ==
    /\ SubsTypeOK
    /\ ClosedEmpty
    /\ BookThere
    /\ LastCurrent
    /\ UniverseCurrent
    /\ AcceptedHasView

-----------------------------------------------------------------------------
(* The receiver's queue *)

\* A new receiver has nothing.
LEMMA EmptyFacts == <<>> \in Seq(Messages) /\ Len(<<>>) =< Capacity
  <1>1. Capacity \in Nat  BY SubscriptionsAssumption
  <1>2. <<>> \in Seq(Messages) /\ Len(<<>>) = 0  OBVIOUS
  <1>. QED  BY <1>1, <1>2

\* A message appended to the queue is its last, and the others stay in place.
LEMMA AppendFacts ==
    ASSUME NEW s \in Seq(Messages), NEW m \in Messages
    PROVE  /\ Append(s, m) \in Seq(Messages)
           /\ Append(s, m) # <<>>
           /\ Len(Append(s, m)) = Len(s) + 1
           /\ DOMAIN s = 1..Len(s) /\ DOMAIN Append(s, m) = 1..(Len(s) + 1)
           /\ \A i \in 1..Len(s) : Append(s, m)[i] = s[i]
           /\ Append(s, m)[Len(s) + 1] = m
  OBVIOUS

\* Taking the front moves the others up by one place.
LEMMA TailFacts ==
    ASSUME NEW s \in Seq(Messages), s # <<>>
    PROVE  /\ Tail(s) \in Seq(Messages)
           /\ Len(s) \in Nat \ {0}
           /\ Len(Tail(s)) = Len(s) - 1
           /\ DOMAIN s = 1..Len(s) /\ DOMAIN Tail(s) = 1..(Len(s) - 1)
           /\ \A i \in 1..(Len(s) - 1) : Tail(s)[i] = s[i + 1]
           /\ Head(s) = s[1] /\ s[1] \in Messages
           /\ Tail(s) = <<>> => Len(s) = 1
  <1>1. Len(Tail(s)) = Len(s) - 1 /\ Len(s) \in Nat \ {0}  OBVIOUS
  <1>2. Tail(s) = <<>> => Len(Tail(s)) = 0
    <2>1. Len(<<>>) = 0  OBVIOUS
    <2>2. PICK t : t = Tail(s)  OBVIOUS
    <2>3. t = <<>> => Len(t) = 0  BY <2>1
    <2>. QED  BY <2>2, <2>3
  <1>3. Tail(s) = <<>> => Len(s) = 1  BY <1>1, <1>2
  <1>. QED  BY <1>3

\* tx.send keeps the receiver within the channel's capacity; a receiver that
\* missed nothing has everything that waited, and the new message as its last.
LEMMA SendFacts ==
    ASSUME SubsTypeOK, ClosedEmpty, NEW m \in Messages, send(m)
    PROVE  /\ rx' \in Seq(Messages) /\ Len(rx') =< Capacity
           /\ lagged' \in BOOLEAN
           /\ phase = "closed" => rx' = <<>> /\ ~lagged'
           /\ phase # "closed" => rx' # <<>> /\ rx'[Len(rx')] = m
           /\ phase # "closed" /\ m.kind = "Gap" => ~Continuous(rx', lagged')
           /\ phase # "closed" /\ Continuous(rx', lagged') => Continuous(rx, lagged)
  <1>. USE SubscriptionsAssumption
  <1>1. CASE phase = "closed"  BY <1>1 DEF SubsTypeOK, send, ClosedEmpty, channel
  <1>2. CASE phase # "closed" /\ Len(rx) = Capacity
    <2>1. rx # <<>>  BY <1>2 DEF SubsTypeOK
    <2>2. rx' = Append(Tail(rx), m) /\ lagged' = TRUE
      BY <1>2 DEF send, SubsTypeOK
    <2>. QED  BY <1>2, <2>1, <2>2, TailFacts, AppendFacts DEF SubsTypeOK, Continuous
  <1>3. CASE phase # "closed" /\ Len(rx) # Capacity
    <2>1. rx' = Append(rx, m) /\ lagged' = lagged
      BY <1>3 DEF send, SubsTypeOK
    <2>2. Len(rx') = Len(rx) + 1 /\ DOMAIN rx' = 1..(Len(rx) + 1) /\ DOMAIN rx = 1..Len(rx)
      BY <2>1, AppendFacts DEF SubsTypeOK
    <2>3. rx'[Len(rx')] = m /\ Len(rx') \in DOMAIN rx'
      BY <2>1, <2>2, AppendFacts DEF SubsTypeOK
    <2>4. \A i \in DOMAIN rx : i \in DOMAIN rx' /\ rx'[i] = rx[i]
      BY <2>1, <2>2, AppendFacts DEF SubsTypeOK
    <2>. QED  BY <1>3, <2>1, <2>2, <2>3, <2>4, AppendFacts DEF SubsTypeOK, Continuous
  <1>. QED  BY <1>1, <1>2, <1>3

\* Subscription::validate accepts only the parameters of a view.
LEMMA ValidHasView ==
    ASSUME NEW s, ValidParams(s)
    PROVE  HasParams(s)
  BY DEF ValidParams, HasParams, ViewParams, None

-----------------------------------------------------------------------------
(* The steps *)

\* A step that publishes a message and leaves the connection alone: either it
\* is a Gap, or the book is there and the message has its coins.
LEMMA StepSend ==
    ASSUME SubsInv, NEW m \in Messages, send(m), UNCHANGED connection,
           ready' \in BOOLEAN, book' \in SUBSET Coins,
           m.kind = "Gap" \/ (ready' /\ m.coins = book')
    PROVE  SubsInv'
  <1>1. SubsTypeOK /\ ClosedEmpty /\ AcceptedHasView  BY DEF SubsInv
  <1>2. phase' = phase /\ universe' = universe /\ subscriptions' = subscriptions
    BY DEF connection
  <1>3. SubsTypeOK'  BY <1>1, <1>2, SendFacts DEF SubsTypeOK
  <1>4. ClosedEmpty'  BY <1>1, <1>2, SendFacts DEF ClosedEmpty
  <1>5. AcceptedHasView'  BY <1>1, <1>2 DEF AcceptedHasView, HasParams
  <1>6. phase # "closed" => rx' # <<>> /\ rx'[Len(rx')] = m
    BY <1>1, SendFacts
  <1>7. phase # "closed" /\ Continuous(rx', lagged') => ready' /\ m.coins = book'
    BY <1>1, SendFacts
  <1>8. BookThere'  BY <1>2, <1>7 DEF BookThere
  <1>9. LastCurrent'  BY <1>2, <1>6, <1>7 DEF LastCurrent
  <1>10. UniverseCurrent'  BY <1>2, <1>6 DEF UniverseCurrent
  <1>. QED  BY <1>3, <1>4, <1>5, <1>8, <1>9, <1>10 DEF SubsInv

\* The books in scope are coins.
LEMMA LoadedCoins == ASSUME NEW coins \in SUBSET Coins PROVE Loaded(coins) \in SUBSET Coins
  BY DEF Loaded

\* init_from_snapshot publishes nothing, but no connection that is past its
\* check can do without the Gap that came before.
LEMMA StepLoad ==
    ASSUME SubsInv, NEW coins \in SUBSET Coins, Load(coins)
    PROVE  SubsInv'
  <1>1. /\ ~ready /\ ready' = TRUE /\ book' = Loaded(coins)
        /\ rx' = rx /\ lagged' = lagged
        /\ phase' = phase /\ universe' = universe /\ subscriptions' = subscriptions
    BY DEF Load, channel, connection
  <1>2. SubsTypeOK'  BY <1>1, LoadedCoins DEF SubsInv, SubsTypeOK
  <1>3. ClosedEmpty'  BY <1>1 DEF SubsInv, ClosedEmpty
  <1>4. AcceptedHasView'  BY <1>1 DEF SubsInv, AcceptedHasView, HasParams
  <1>5. BookThere'  BY <1>1 DEF BookThere
  <1>6. ~(phase # "closed" /\ Continuous(rx, lagged) /\ rx # <<>>)
    BY <1>1 DEF SubsInv, LastCurrent
  <1>7. LastCurrent'  BY <1>1, <1>6 DEF LastCurrent
  <1>8. ~(phase = "open" /\ rx = <<>> /\ ~lagged)
    BY <1>1 DEF SubsInv, BookThere, Continuous
  <1>9. UniverseCurrent'  BY <1>1, <1>8 DEF UniverseCurrent
  <1>. QED  BY <1>2, <1>3, <1>4, <1>5, <1>7, <1>9 DEF SubsInv

\* The steps that publish: a reload and a fence send a Gap, the others the
\* coins of the book they leave.
LEMMA StepPublish ==
    ASSUME SubsInv,
           Fence \/ \E coins \in SUBSET Coins : Reload(coins) \/ AddEmptyBooks(coins) \/ Block(coins)
    PROVE  SubsInv'
  <1>. USE SubscriptionsAssumption
  <1>1. Gap \in Messages /\ Gap.kind = "Gap"  BY DEF Gap, Messages
  <1>2. \A b \in SUBSET Coins : Snapshot(b) \in Messages /\ Snapshot(b).coins = b
    BY DEF Snapshot, Messages
  <1>3. ready \in BOOLEAN /\ book \in SUBSET Coins  BY DEF SubsInv, SubsTypeOK
  <1>4. CASE Fence
    <2>1. ready' = FALSE /\ book' = {} /\ send(Gap) /\ UNCHANGED connection
      BY <1>4 DEF Fence
    <2>. QED  BY <1>1, <2>1, StepSend
  <1>5. ASSUME NEW coins \in SUBSET Coins, Reload(coins) PROVE SubsInv'
    <2>1. ready' = ready /\ book' = Loaded(coins) /\ send(Gap) /\ UNCHANGED connection
      BY <1>5 DEF Reload
    <2>. QED  BY <1>1, <1>3, <2>1, LoadedCoins, StepSend
  <1>6. ASSUME NEW coins \in SUBSET Coins, AddEmptyBooks(coins) PROVE SubsInv'
    <2>1. /\ ready /\ ready' = ready /\ book' = book \cup Loaded(coins)
          /\ send(Snapshot(book')) /\ UNCHANGED connection
      BY <1>6 DEF AddEmptyBooks
    <2>2. book' \in SUBSET Coins  BY <1>3, <2>1, LoadedCoins
    <2>. QED  BY <1>2, <1>3, <2>1, <2>2, StepSend
  <1>7. ASSUME NEW coins \in SUBSET Coins, Block(coins) PROVE SubsInv'
    <2>1. /\ ready /\ ready' = ready
          /\ book' = book \cup {c \in coins : contains(c) /\ ~(c \in SpotCoins /\ ignore_spot)}
          /\ send(Snapshot(book')) /\ UNCHANGED connection
      BY <1>7 DEF Block
    <2>2. book' \in SUBSET Coins  BY <1>3, <2>1
    <2>. QED  BY <1>2, <1>3, <2>1, <2>2, StepSend
  <1>. QED  BY <1>4, <1>5, <1>6, <1>7

\* A connection that returns holds nothing.
LEMMA StepClosed ==
    ASSUME SubsInv, Closed, UNCHANGED listener
    PROVE  SubsInv'
  <1>1. /\ phase' = "closed" /\ universe' = {} /\ subscriptions' = {}
        /\ rx' = <<>> /\ lagged' = FALSE /\ ready' = ready /\ book' = book
    BY DEF Closed, listener
  <1>2. SubsTypeOK'  BY <1>1, EmptyFacts DEF SubsInv, SubsTypeOK, Phases
  <1>. QED  BY <1>1, <1>2 DEF SubsInv, ClosedEmpty, BookThere, LastCurrent, UniverseCurrent, AcceptedHasView

\* The start of a connection: its receiver, its check and its universe.
LEMMA StepStart ==
    ASSUME SubsInv, Connect \/ CheckReady \/ TakeUniverse
    PROVE  SubsInv'
  <1>1. CASE Connect
    <2>1. /\ phase = "closed" /\ phase' = "subscribed"
          /\ UNCHANGED <<ready, book, rx, lagged, universe, subscriptions>>
      BY <1>1 DEF Connect, listener, channel
    <2>2. rx = <<>> /\ ~lagged  BY <2>1 DEF SubsInv, ClosedEmpty
    <2>3. SubsTypeOK'  BY <2>1 DEF SubsInv, SubsTypeOK, Phases
    <2>4. AcceptedHasView'  BY <2>1 DEF SubsInv, AcceptedHasView, HasParams
    <2>. QED
      BY <2>1, <2>2, <2>3, <2>4 DEF SubsInv, ClosedEmpty, BookThere, LastCurrent, UniverseCurrent
  <1>2. CASE CheckReady
    <2>1. /\ phase = "subscribed" /\ phase' \in {"ready", "refused"} /\ (phase' = "ready" => ready)
          /\ UNCHANGED <<ready, book, rx, lagged, universe, subscriptions>>
      BY <1>2 DEF CheckReady, listener, channel
    <2>2. SubsTypeOK'  BY <2>1 DEF SubsInv, SubsTypeOK, Phases
    <2>3. AcceptedHasView'  BY <2>1 DEF SubsInv, AcceptedHasView, HasParams
    <2>. QED
      BY <2>1, <2>2, <2>3 DEF SubsInv, ClosedEmpty, BookThere, LastCurrent, UniverseCurrent
  <1>3. CASE TakeUniverse
    <2>1. CASE phase = "ready"
      <3>1. /\ phase' = "open" /\ universe' = book
            /\ UNCHANGED <<ready, book, rx, lagged, subscriptions>>
        BY <1>3, <2>1 DEF TakeUniverse, listener, channel
      <3>2. SubsTypeOK'  BY <3>1 DEF SubsInv, SubsTypeOK, Phases
      <3>3. AcceptedHasView'  BY <3>1 DEF SubsInv, AcceptedHasView, HasParams
      <3>. QED
        BY <2>1, <3>1, <3>2, <3>3 DEF SubsInv, ClosedEmpty, BookThere, LastCurrent, UniverseCurrent
    <2>2. CASE phase # "ready"
      <3>1. Closed /\ UNCHANGED listener  BY <1>3, <2>2 DEF TakeUniverse
      <3>. QED  BY <3>1, StepClosed
    <2>. QED  BY <2>1, <2>2
  <1>. QED  BY <1>1, <1>2, <1>3

\* recv: the universe follows the messages, and the last of them has the coins
\* of the book.
LEMMA StepRecv ==
    ASSUME SubsInv, Recv
    PROVE  SubsInv'
  <1>1. CASE Closed
    <2>1. UNCHANGED listener  BY DEF Recv
    <2>. QED  BY <1>1, <2>1, StepClosed
  <1>2. CASE ~Closed
    <2>1. /\ phase = "open" /\ ~lagged /\ rx # <<>> /\ Head(rx).kind = "Snapshot"
          /\ universe' = new_universe(Head(rx).coins) /\ rx' = Tail(rx)
          /\ UNCHANGED <<ready, book, lagged, phase, subscriptions>>
      BY <1>2 DEF Recv, listener
    <2>2. rx \in Seq(Messages) /\ Len(rx) =< Capacity /\ Capacity \in Nat
      BY SubscriptionsAssumption DEF SubsInv, SubsTypeOK
    <2>3. /\ rx' \in Seq(Messages) /\ Len(rx) \in Nat \ {0} /\ Len(rx') = Len(rx) - 1
          /\ DOMAIN rx = 1..Len(rx) /\ DOMAIN rx' = 1..(Len(rx) - 1)
          /\ \A i \in 1..(Len(rx) - 1) : rx'[i] = rx[i + 1]
          /\ Head(rx) = rx[1] /\ rx[1] \in Messages
          /\ rx' = <<>> => Len(rx) = 1
      BY <2>1, <2>2, TailFacts
    <2>4. new_universe(rx[1].coins) \in SUBSET Coins
      BY <2>3 DEF new_universe, Messages
    <2>5. SubsTypeOK'  BY <2>1, <2>2, <2>3, <2>4 DEF SubsInv, SubsTypeOK
    <2>6. ClosedEmpty'  BY <2>1 DEF ClosedEmpty
    <2>7. AcceptedHasView'  BY <2>1 DEF SubsInv, AcceptedHasView, HasParams
    <2>8. Continuous(rx', lagged') => Continuous(rx, lagged)
      <3>1. SUFFICES ASSUME Continuous(rx', lagged'), NEW i \in DOMAIN rx
                     PROVE  rx[i].kind # "Gap"
        BY <2>1 DEF Continuous
      <3>2. CASE i = 1  BY <2>1, <2>3, <3>2
      <3>3. CASE i # 1
        <4>1. i - 1 \in DOMAIN rx' /\ rx'[i - 1] = rx[i]  BY <2>3, <3>3
        <4>. QED  BY <3>1, <4>1 DEF Continuous
      <3>. QED  BY <3>2, <3>3
    <2>9. BookThere'  BY <2>1, <2>8 DEF SubsInv, BookThere
    <2>10. ASSUME rx' # <<>> PROVE rx'[Len(rx')] = rx[Len(rx)]
      <3>1. Len(rx') # 0  BY <2>3, <2>10
      <3>. QED  BY <2>3, <3>1
    <2>11. LastCurrent'  BY <2>1, <2>8, <2>10 DEF SubsInv, LastCurrent
    <2>12. UniverseCurrent'
      <3>1. SUFFICES ASSUME rx' = <<>> PROVE universe' \ SpotCoins = book' \ SpotCoins
        BY DEF UniverseCurrent
      <3>2. Len(rx) = 1 /\ Continuous(rx, lagged)
        BY <2>1, <2>3, <3>1 DEF Continuous
      <3>3. rx[1].coins = book  BY <2>1, <3>2 DEF SubsInv, LastCurrent
      <3>. QED  BY <2>1, <2>3, <3>3 DEF new_universe
    <2>. QED  BY <2>5, <2>6, <2>7, <2>9, <2>11, <2>12 DEF SubsInv
  <1>. QED  BY <1>1, <1>2

\* A request changes the subscriptions only, and adds one only if it is valid.
LEMMA StepRequest ==
    ASSUME SubsInv, NEW s \in Requests, Subscribe(s) \/ Unsubscribe(s)
    PROVE  SubsInv'
  <1>1. /\ subscriptions' \in {subscriptions \cup {s}, subscriptions \ {s}}
        /\ UNCHANGED <<ready, book, rx, lagged, phase, universe>>
    BY DEF Subscribe, Unsubscribe, listener, channel
  <1>2. s \in subscriptions' /\ s \notin subscriptions => validate(s)
    BY DEF Subscribe, Unsubscribe
  <1>3. s.type = "L2Book" /\ validate(s) => HasParams(s)
    BY ValidHasView DEF validate
  <1>4. AcceptedHasView'
    <2>1. SUFFICES ASSUME NEW r \in subscriptions', r.type = "L2Book" PROVE HasParams(r)
      BY DEF AcceptedHasView, HasParams
    <2>2. CASE r \in subscriptions  BY <2>1, <2>2 DEF SubsInv, AcceptedHasView
    <2>3. CASE r \notin subscriptions  BY <1>1, <1>2, <1>3, <2>1, <2>3
    <2>. QED  BY <2>2, <2>3
  <1>5. SubsTypeOK'  BY <1>1 DEF SubsInv, SubsTypeOK
  <1>. QED  BY <1>1, <1>4, <1>5 DEF SubsInv, ClosedEmpty, BookThere, LastCurrent, UniverseCurrent

-----------------------------------------------------------------------------
\* The initial state has the invariant.
LEMMA SubsInvInit == SubsInit => SubsInv
  BY EmptyFacts
  DEF SubsInit, SubsInv, SubsTypeOK, Phases, ClosedEmpty, BookThere, LastCurrent, UniverseCurrent,
      AcceptedHasView

\* Every step of the listener or of the connection keeps it.
LEMMA SubsInvStep == SubsInv /\ [SubsNext]_svars => SubsInv'
  <1>. SUFFICES ASSUME SubsInv, [SubsNext]_svars PROVE SubsInv'
    OBVIOUS
  <1>1. CASE \E coins \in SUBSET Coins :
                Load(coins) \/ Reload(coins) \/ AddEmptyBooks(coins) \/ Block(coins)
    BY <1>1, StepLoad, StepPublish
  <1>2. CASE Fence  BY <1>2, StepPublish
  <1>3. CASE Connect \/ CheckReady \/ TakeUniverse  BY <1>3, StepStart
  <1>4. CASE Recv  BY <1>4, StepRecv
  <1>5. CASE Disconnect
    <2>1. Closed /\ UNCHANGED listener  BY <1>5 DEF Disconnect
    <2>. QED  BY <2>1, StepClosed
  <1>6. CASE \E s \in Requests : Subscribe(s) \/ Unsubscribe(s)  BY <1>6, StepRequest
  <1>7. CASE UNCHANGED svars
    BY <1>7 DEF svars, SubsInv, SubsTypeOK, ClosedEmpty, BookThere, LastCurrent, UniverseCurrent,
                AcceptedHasView, HasParams
  <1>. QED  BY <1>1, <1>2, <1>3, <1>4, <1>5, <1>6, <1>7 DEF SubsNext

\* The receiver stays within its capacity and every coin known to a connection
\* is one of the book's (handle_socket).
THEOREM SubscriptionsTypes == SubsSpec => []SubsTypeOK
  <1>1. SubsInv => SubsTypeOK  BY DEF SubsInv
  <1>. QED  BY <1>1, SubsInvInit, SubsInvStep, PTL DEF SubsSpec

\* A connection that has handled what was sent to it has the coins of the book,
\* however its start interleaves with loads, reloads, blocks and fences
\* (handle_socket, new_universe).
THEOREM ConnectionUniverseCurrent == SubsSpec => []UniverseCurrent
  <1>1. SubsInv => UniverseCurrent  BY DEF SubsInv
  <1>. QED  BY <1>1, SubsInvInit, SubsInvStep, PTL DEF SubsSpec

\* Every L2Book subscription that is held asks for a view that is built
\* (Subscription::validate, refresh_l2_snapshots).
THEOREM SubscriptionHasView == SubsSpec => []AcceptedHasView
  <1>1. SubsInv => AcceptedHasView  BY DEF SubsInv
  <1>. QED  BY <1>1, SubsInvInit, SubsInvStep, PTL DEF SubsSpec

=============================================================================
