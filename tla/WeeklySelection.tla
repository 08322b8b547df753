--------------------------- MODULE WeeklySelection ---------------------------
(***************************************************************************)
(* What the weekly design promises: the two sleeves of a week are chosen   *)
(* once, and every rebalance decided in that week leaves a book of exactly *)
(* those names on those sides, neutral to the tolerance.                   *)
(***************************************************************************)
EXTENDS Integers, FiniteSets, Functions

CONSTANTS Symbols, Week, MaxResidual, None

VARIABLES selected, held

IsSelection(s) ==
    /\ s.long \cup s.short \subseteq Symbols /\ s.long \cap s.short = {}
    /\ s.long # {} /\ Cardinality(s.long) = Cardinality(s.short)

Sided(h, s) == /\ {x \in Symbols : h[x] > 0} = s.long
               /\ {x \in Symbols : h[x] < 0} = s.short
Abs(n) == IF n < 0 THEN -n ELSE n
Neutral(h) == Abs(SumFunction(h)) <= MaxResidual

Init == selected = [w \in Week |-> None] /\ held = [x \in Symbols |-> 0]

Select(w) ==
    /\ selected[w] = None /\ selected'[w] # None
    /\ IsSelection(selected'[w]) /\ selected' = [selected EXCEPT ![w] = selected'[w]]
    /\ UNCHANGED held

Rebalance(w) ==
    /\ selected[w] # None
    /\ Sided(held', selected[w]) /\ Neutral(held')
    /\ UNCHANGED selected

Next == \E w \in Week : Select(w) \/ Rebalance(w)

Spec == Init /\ [][Next]_<<selected, held>>
=============================================================================
