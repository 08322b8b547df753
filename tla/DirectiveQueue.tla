--------------------------- MODULE DirectiveQueue ---------------------------
(***************************************************************************)
(* What the directive lifecycle promises: an instruction the operator      *)
(* queues waits until one completed cycle applies it, or the operator      *)
(* takes it back; a cycle applies at most one, and none is applied twice.  *)
(***************************************************************************)
EXTENDS Naturals, Sequences

CONSTANTS Inode, None

VARIABLES waiting, withdrawn, applied

qvars == <<waiting, withdrawn, applied>>

Applied == {applied[c] : c \in DOMAIN applied} \ {None}

Init == waiting = {} /\ withdrawn = {} /\ applied = <<>>

\* A new file in the inbox, which may replace the one that was there.
Submit(i, old) ==
    /\ i \notin waiting \cup withdrawn \cup Applied
    /\ old \subseteq waiting
    /\ waiting' = (waiting \ old) \cup {i}
    /\ withdrawn' = withdrawn \cup old
    /\ UNCHANGED applied

Withdraw(i) ==
    /\ i \in waiting
    /\ waiting' = waiting \ {i}
    /\ withdrawn' = withdrawn \cup {i}
    /\ UNCHANGED applied

CompleteCycle(r) ==
    /\ r \in waiting \cup {None}
    /\ waiting' = waiting \ {r}
    /\ applied' = Append(applied, r)
    /\ UNCHANGED withdrawn

Next ==
    \/ \E i \in Inode, old \in SUBSET waiting : Submit(i, old)
    \/ \E i \in Inode : Withdraw(i)
    \/ \E r \in Inode \cup {None} : CompleteCycle(r)

Spec == Init /\ [][Next]_qvars
=============================================================================
