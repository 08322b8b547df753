---------------------------- MODULE AccountLedger ----------------------------
(***************************************************************************)
(* What the durable commit protocol promises: the PAPER book is a single   *)
(* line of generations.  Each is computed on the book before it, at most   *)
(* one is staged and not yet committed, a cycle or slot is committed once, *)
(* and nothing committed ever changes.  Crashes, retries and the files in  *)
(* between are invisible at this level.                                    *)
(***************************************************************************)
EXTENDS Naturals, Sequences

CONSTANTS Generation,  \* names of generations, in the order they are computed
          Units        \* cycles and schedule slots

VARIABLES ledger,      \* the committed generations, oldest first
          staged       \* the generation that will be committed next, if any

Nothing == [id |-> 0, unit |-> 0, from |-> 0]
Book    == IF ledger = <<>> THEN 0 ELSE ledger[Len(ledger)].id

Init == ledger = <<>> /\ staged = Nothing

Stage(g, u) ==
    /\ staged = Nothing
    /\ g > Book
    /\ \A i \in 1..Len(ledger) : ledger[i].unit # u
    /\ staged' = [id |-> g, unit |-> u, from |-> Book]
    /\ UNCHANGED ledger

Commit ==
    /\ staged # Nothing
    /\ ledger' = Append(ledger, staged)
    /\ staged' = Nothing

Next == Commit \/ \E g \in Generation, u \in Units : Stage(g, u)

Spec == Init /\ [][Next]_<<ledger, staged>>
=============================================================================
