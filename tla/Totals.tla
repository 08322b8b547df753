------------------------------- MODULE Totals -------------------------------
(***************************************************************************)
(* The sum of a function over a finite set.                                *)
(***************************************************************************)
EXTENDS Integers, FiniteSetsExt

Total(w, S) == FoldSet(LAMBDA x, sum : w[x] + sum, 0, S)
=============================================================================
