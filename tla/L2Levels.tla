------------------------------ MODULE L2Levels ------------------------------
(***************************************************************************)
(* L2 aggregation (order_book/levels.rs) and the chain of views that       *)
(* refresh_l2_snapshots builds for a coin (listeners/order_book/utils.rs): *)
(* every view is aggregated from an earlier, finer one.                    *)
(*                                                                         *)
(* Prices are integers, 10^8 times the price, with their decimal digits.   *)
(* n_levels is left out: the server always aggregates whole books.         *)
(***************************************************************************)
EXTENDS Integers, Sequences, SequencesExt, FiniteSets, FiniteSetsExt

CONSTANTS
    Prices,         \* the prices of a book's levels
    Sizes           \* the sizes of a level

\* 10u64.pow, as far as a u64 goes.
pow10[p \in 0..19] == IF p = 0 THEN 1 ELSE 10 * pow10[p - 1]

\* A price has at most fourteen digits (it is below a million): num_digits counts
\* them by an f64's log10, which is off by one just below larger powers of ten.
ASSUME PricesAssumption ==
    /\ \A px \in Prices : px \in Nat /\ \E d \in 1..14 : px < pow10[d]
    /\ Sizes \subseteq Nat

VARIABLES
    side,
    levels          \* the full view of this side, best price first

l2vars == <<side, levels>>

Better(s, p, q) == IF s = "Ask" THEN p < q ELSE p > q

LevelsInit == side \in {"Bid", "Ask"} /\ levels = <<>>

\* Any book: its levels in the order of map_to_l2_levels' iterator.
AddLevel(px, sz) ==
    /\ levels # <<>> => Better(side, Last(levels).px, px)
    /\ levels' = Append(levels, [px |-> px, sz |-> sz, n |-> 1])
    /\ UNCHANGED side

LevelsNext == \E px \in Prices, sz \in Sizes : AddLevel(px, sz)

LevelsSpec == LevelsInit /\ [][LevelsNext]_l2vars

-----------------------------------------------------------------------------
num_digits(px) ==
    IF px = 0 THEN 1 ELSE CHOOSE d \in 1..19 : pow10[d - 1] =< px /\ px < pow10[d]

\* The width of px's bucket at n significant figures and mantissa m.
Increment(px, n, m) ==
    m * pow10[IF num_digits(px) > n THEN num_digits(px) - n ELSE 0]

RoundTo(px, s, inc) ==
    IF s = "Ask" THEN ((px + inc - 1) \div inc) * inc ELSE (px \div inc) * inc

\* Mutant of bucket: asks are rounded down, too.
bucket_Down(px, s, n, m) == RoundTo(px, "Bid", Increment(px, n, m))

bucket(px, s, n, m) == RoundTo(px, s, Increment(px, n, m))

\* Mutant of build_l2_level: a level at the bucket's own price opens another.
build_l2_level_Reopens(acc, s, n, m, level) ==
    IF acc = <<>> \/ ~Better(s, level.px, Last(acc).px)
    THEN Append(acc, [level EXCEPT !.px = bucket(level.px, s, n, m)])
    ELSE [acc EXCEPT ![Len(acc)].sz = @ + level.sz, ![Len(acc)].n = @ + level.n]

\* One level joins the current bucket (the last of acc) or opens the next.
build_l2_level(acc, s, n, m, level) ==
    IF acc = <<>> \/ Better(s, Last(acc).px, level.px)
    THEN Append(acc, [level EXCEPT !.px = bucket(level.px, s, n, m)])
    ELSE [acc EXCEPT ![Len(acc)].sz = @ + level.sz, ![Len(acc)].n = @ + level.n]

l2_levels_to_l2_levels(from, s, n, m) ==
    FoldLeft(LAMBDA acc, level : build_l2_level(acc, s, n, m, level), <<>>, from)

\* The views in the order they are built, with the views they are built from.
Views(full, s) ==
    LET agg(from, n, m) == l2_levels_to_l2_levels(from, s, n, m)
        five == agg(full, 5, 1)
        by2  == agg(five, 5, 2)
        by5  == agg(five, 5, 5)
        four == agg(by5, 4, 1)
        three == agg(four, 3, 1)
    IN  << [n |-> 5, m |-> 1, view |-> five],
           [n |-> 5, m |-> 2, view |-> by2],
           [n |-> 5, m |-> 5, view |-> by5],
           [n |-> 4, m |-> 1, view |-> four],
           [n |-> 3, m |-> 1, view |-> three],
           [n |-> 2, m |-> 1, view |-> agg(three, 2, 1)] >>

-----------------------------------------------------------------------------
SizesOf(l)  == [i \in DOMAIN l |-> l[i].sz]
CountsOf(l) == [i \in DOMAIN l |-> l[i].n]

\* The step of the view (n, m) at px: the width of px's bucket, but a view of fewer
\* than five figures, which is built from (5, 5), is never finer than (5, 5).  At
\* five digits or more (0.0001 and up) that is always the bucket's own width.
Step(px, n, m) ==
    IF n < 5 THEN Max({Increment(px, n, m), Increment(px, 5, 5)}) ELSE Increment(px, n, m)

Place(px, n, m) == RoundTo(px, side, Step(px, n, m))

\* The book grouped all at once: the levels of the view (n, m).
Grouped(n, m) ==
    LET At(px) == {i \in DOMAIN levels : Place(levels[i].px, n, m) = px}
    IN  {[px |-> px,
          sz |-> SumFunctionOnSet(SizesOf(levels), At(px)),
          n  |-> SumFunctionOnSet(CountsOf(levels), At(px))] :
            px \in {Place(levels[i].px, n, m) : i \in DOMAIN levels}}

\* refresh_l2_snapshots: although each view is aggregated from another view, it is
\* a grouping of the book itself, best price first, at every price by the step of
\* the view there, also around powers of ten, where steps change.
ViewsExact ==
    LET views == Views(levels, side) IN
    \A i \in DOMAIN views :
        LET v == views[i]
        IN  /\ ToSet(v.view) = Grouped(v.n, v.m)
            /\ \A j \in 1..(Len(v.view) - 1) : Better(side, v.view[j].px, v.view[j + 1].px)

\* bucket rounds against the reader: at no price does an aggregated view
\* promise more than the book has at that price or better.
NeverOverstated ==
    LET views == Views(levels, side)
        Up(l, px) == {k \in DOMAIN l : ~Better(side, px, l[k].px)}
    IN  \A i \in DOMAIN views :
            LET v == views[i].view IN
            \A k \in DOMAIN v :
                SumFunctionOnSet(SizesOf(v), Up(v, v[k].px))
                   =< SumFunctionOnSet(SizesOf(levels), Up(levels, v[k].px))

=============================================================================
