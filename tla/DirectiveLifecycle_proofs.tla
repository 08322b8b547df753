----------------------- MODULE DirectiveLifecycle_proofs -----------------------
(***************************************************************************)
(* The directive lifecycle for any number of files, cycles, claims and     *)
(* power losses: nothing halts a later run unless the operator has touched *)
(* a file that is being claimed, a cycle is completed on the directive its *)
(* packet was sealed with, and no directive is lost or applied twice.      *)
(***************************************************************************)
EXTENDS DirectiveLifecycle, FiniteSetTheorems, TLAPS

-----------------------------------------------------------------------------
\* The inductive invariant.

Next1 == Len(done) + 1

\* The claimed file is under the claim's name, whatever its bytes have become.
ClaimHeld == Named("claim") # {} /\ \A f \in Named("claim") : f.inode = active.inode

\* A claim that nothing but the completion of its cycle can end: its cycle is the next
\* one, its bytes are as sealed, and the operator has no name for them.
Secure ==
    /\ active # None /\ active.cycle = Next1
    /\ Intact("claim") /\ Named("dup") = {} /\ source # active.inode

\* A packet of the next cycle, or the reconcile that loads it, is bound to the claim.
Relied ==
    \/ evidence # None /\ evidence.cycle = Next1 /\ active # None
    \/ pending # None /\ pending.cycle = Next1 /\ pending.claim # None
    \/ task.for = "bind"

Claims == [id : Nat, cycle : Nat, inode : Inode, ver : Nat]

DataInv ==
    /\ source \in Inode \cup {None} /\ shadow \in Inode \cup {None}
    /\ store \subseteq [name : Names, id : Nat, inode : Inode]
    /\ done \in Seq(Claims \cup {None})
    /\ active \in Claims \cup {None}
    /\ ids \in Nat
    /\ bytes \in [Inode -> Nat]

\* The claim on disk agrees with what is archived and acknowledged.
AgreeInv ==
    /\ Acknowledged(ClaimCycle) /\ Inventory
    /\ active # None =>
         /\ active.id <= ids
         /\ Complete(active.cycle) => done[active.cycle] = active
         /\ ~Complete(active.cycle) => active.inode \notin Applied
    /\ \A c \in DOMAIN done : done[c] # None => done[c].cycle = c

\* One payload under the claim's names and one second name, and nothing that a completed
\* cycle applied can be claimed again.
NamesInv ==
    /\ \A f, g \in store : (f.name = "dup" <=> g.name = "dup") => f = g
    /\ source \notin Applied
    /\ \A f \in store : f.inode \in Applied => f.inode = active.inode /\ f.name # "dup"
    /\ shadow # None => task.pc \in {"verify", "inspect"} /\ shadow \in Held \ Applied

\* What each step of a call relies on.
PlaceInv ==
    /\ task.pc \in {"place", "verify", "restore", "abandon"} =>
           active # None /\ ~Complete(active.cycle) /\ Named("tomb") = {}
    /\ task.pc \in {"verify", "restore"} => Named("dup") = {}
    /\ task.pc = "restore" => ~Intact("claim")
    /\ task.pc \in {"verify", "restore", "inspect"} => source \notin Held
    /\ task.pc \in {"abandon", "ack", "retire"} => store = {}

CleanupInv ==
    /\ task.pc \in {"dup", "quarantine", "inspect", "bury"} => active # None /\ ClaimHeld
    /\ task.pc \in {"quarantine", "bury"} => Named("dup") = {}
    /\ task.pc \in {"verify", "quarantine", "inspect"} => ~Relied
    /\ task.pc \in {"cleanup", "bury", "unlink", "ack", "retire"} =>
           active # None /\ Receipted(active.cycle)
    /\ task.pc = "unlink" => Named("claim") = {} /\ Named("dup") = {}
    /\ task.pc = "retire" => active.cycle \in acks

ClaimInv ==
    /\ task.pc \in {"placed", "claiming"} /\ active # None =>
           ClaimHeld /\ Named("dup") = {} /\ source # active.inode
    /\ task.pc = "claiming" =>
           task.for # "finalize" /\ (active # None => task.for \in {"evidence", "bind"})
    /\ task.pc = "intent" =>
           /\ active = None /\ task.for = "evidence"
           /\ task.seen \in [inode : Inode, ver : Nat]
           /\ task.seen.inode \notin Applied

Pcs == {"idle", "check", "place", "verify", "restore", "abandon", "dup", "quarantine",
        "inspect", "cleanup", "bury", "unlink", "ack", "retire", "placed", "claiming", "intent"}

TaskInv ==
    /\ DOMAIN task = {"for", "cycle", "pc", "seen"}
    /\ task.pc \in Pcs /\ task.for \in Caller \cup {"idle"}
    /\ task.pc = "idle" <=> task = NoTask
    /\ task.for = "idle" => task = NoTask
    /\ task.for \in {"evidence", "bind"} => task.cycle = Next1
    /\ task.for = "evidence" => evidence = None
    /\ task.for = "bind" => Secure /\ pending # None /\ pending.cycle = Next1
    /\ PlaceInv /\ CleanupInv /\ ClaimInv

\* Packets: sealed in the order of their cycles, and bound to the active claim for as
\* long as their cycle is the next.
PacketInv ==
    /\ evidence # None =>
         /\ evidence.cycle \in Nat /\ evidence.cycle <= Next1
         /\ evidence.cycle = Next1 =>
                evidence.claim = active /\ (active # None => Secure)
         /\ pending # None => pending.cycle <= evidence.cycle
    /\ pending # None =>
         /\ pending.cycle \in Nat /\ pending.cycle <= Next1
         /\ pending.cycle = Next1 /\ pending.claim # None => active = pending.claim /\ Secure

ReconcilerInv ==
    reconciler # None =>
        /\ pending # None /\ reconciler.cycle \in Nat /\ reconciler.cycle <= pending.cycle
        /\ reconciler.claim # None => reconciler.claim.id \in Nat /\ reconciler.claim.id <= ids
        /\ reconciler.cycle = Next1 /\ reconciler.claim = active => pending.claim = active

WalInv ==
    wal # None =>
        /\ task = NoTask
        /\ wal.cycle \in {Len(done), Next1} /\ wal.cycle # 0
        /\ wal.claim \in Claims \cup {None}
        /\ Expected(wal.cycle, wal.claim, FALSE)
        /\ wal.cycle = Next1 =>
               pending # None /\ pending.cycle = Next1 /\ pending.claim = wal.claim

LifecycleInv ==
    DataInv /\ AgreeInv /\ NamesInv /\ TaskInv /\ PacketInv /\ ReconcilerInv /\ WalInv

-----------------------------------------------------------------------------
\* Operators.

LEMMA NamedWithin ==
    ASSUME Inventory, active # None
    PROVE  \A name : Named(name) = {f \in store : f.name = name}
  BY DEF Inventory, Named

\* The lists of what was applied and of what is held.
LEMMA AppliedHas ==
    ASSUME NEW c \in DOMAIN done, done[c] # None
    PROVE  done[c].inode \in Applied
  BY DEF Applied

LEMMA AppliedIs ==
    ASSUME NEW i \in Applied
    PROVE  \E c \in DOMAIN done : done[c] # None /\ i = done[c].inode
  BY DEF Applied

\* A completed claim is archived as it is and its file was applied.
LEMMA ReceiptedApplied ==
    ASSUME LifecycleInv, active # None, Receipted(active.cycle)
    PROVE  /\ done[active.cycle] = active /\ active.inode \in Applied
           /\ source # active.inode
  <1>1. active.cycle \in DOMAIN done /\ done[active.cycle] = active
    BY DEF LifecycleInv, AgreeInv, Receipted, Complete
  <1>2. active.inode \in Applied
    BY <1>1, AppliedHas
  <1> QED
    BY <1>1, <1>2 DEF LifecycleInv, NamesInv

LEMMA ReceiptedIsComplete == ASSUME NEW c, Receipted(c) PROVE Complete(c)
  BY DEF Receipted

\* The next cycle is not complete.
LEMMA NextIsOpen ==
    ASSUME DataInv PROVE ~Complete(Next1) /\ Next1 \in Nat /\ DOMAIN done = 1..Len(done) /\ Len(done) \in Nat
  BY DEF DataInv, Complete, Next1

LEMMA SecureIsOpen == ASSUME DataInv, Secure PROVE ~Complete(active.cycle) /\ ClaimHeld
  BY NextIsOpen DEF Secure, Intact, Matches, Observed, ClaimHeld

LEMMA HeldHas == ASSUME NEW f \in store PROVE f.inode \in Held
  BY DEF Held

LEMMA ClaimHeldIsHeld == ASSUME ClaimHeld PROVE active.inode \in Held
  BY HeldHas DEF ClaimHeld, Named

-----------------------------------------------------------------------------
\* The initial state.

LEMMA LifecycleInit == Init => LifecycleInv
  <1> SUFFICES ASSUME Init PROVE LifecycleInv
    OBVIOUS
  <1>1. /\ source = None /\ bytes = [i \in Inode |-> 0] /\ shadow = None
        /\ store = {} /\ active = None /\ acks = {} /\ done = <<>> /\ wal = None
        /\ task = NoTask /\ evidence = None /\ pending = None /\ reconciler = None /\ ids = 0
    BY DEF Init
  <1>2. Len(done) = 0 /\ DOMAIN done = {} /\ done \in Seq(Claims \cup {None})
    BY <1>1
  <1>3. DataInv
    BY <1>1, <1>2 DEF DataInv
  <1>4. Applied = {} /\ Held = {}
    BY <1>1, <1>2 DEF Applied, Held
  <1>5. AgreeInv
    BY <1>1, <1>2, <1>4 DEF AgreeInv, Acknowledged, Inventory, Receipted, Complete
  <1>6. NamesInv
    BY <1>1, <1>4 DEF NamesInv
  <1>7. TaskInv
    BY <1>1 DEF TaskInv, NoTask, Pcs, Caller, PlaceInv, CleanupInv, ClaimInv
  <1> QED
    BY <1>1, <1>3, <1>5, <1>6, <1>7 DEF LifecycleInv, PacketInv, ReconcilerInv, WalInv

-----------------------------------------------------------------------------
\* What the steps of a call have in common: they leave the archive, the packets and the
\* active claim alone, and a secure claim secure.

LEMMA TaskMoves ==
    ASSUME LifecycleInv, task # NoTask,
           UNCHANGED <<bytes, active, acks, done, wal, commands, ids>>,
           source' \in Inode \cup {None}, shadow' \in Inode \cup {None},
           store' \subseteq [name : Names, id : Nat, inode : Inode],
           Inventory', NamesInv', Relied /\ Secure => Secure',
           PlaceInv', CleanupInv', ClaimInv',
           \/ task' = NoTask
           \/ /\ DOMAIN task' = {"for", "cycle", "pc", "seen"}
              /\ task'.for = task.for /\ task'.cycle = task.cycle
              /\ task'.pc \in Pcs \ {"idle"}
    PROVE  LifecycleInv'
  <1>1. /\ bytes' = bytes /\ active' = active /\ acks' = acks /\ done' = done /\ wal' = wal
        /\ evidence' = evidence /\ pending' = pending /\ reconciler' = reconciler /\ ids' = ids
    BY DEF commands
  <1>2. wal = None
    BY DEF LifecycleInv, WalInv
  <1>3. DataInv'
    BY <1>1 DEF LifecycleInv, DataInv
  <1>4. AgreeInv'
    <2>1. Acknowledged(ClaimCycle)'
      BY <1>1 DEF LifecycleInv, AgreeInv, Acknowledged, ClaimCycle, Receipted, Complete
    <2>2. Applied' = Applied
      BY <1>1 DEF Applied
    <2> QED
      BY <1>1, <2>1, <2>2 DEF LifecycleInv, AgreeInv, Complete
  <1>5. TaskInv'
    <2>1. CASE task' = NoTask
      BY <2>1 DEF TaskInv, NoTask, Pcs, Caller
    <2>2. CASE task' # NoTask
      <3>1. task'.for # "idle" /\ task'.pc # "idle"
        BY <2>2 DEF LifecycleInv, TaskInv
      <3> QED
        BY <1>1, <2>2, <3>1 DEF LifecycleInv, TaskInv, Next1, Relied
    <2> QED
      BY <2>1, <2>2
  <1>6. PacketInv'
    BY <1>1 DEF LifecycleInv, PacketInv, Next1, Relied
  <1>7. ReconcilerInv' /\ WalInv'
    BY <1>1, <1>2 DEF LifecycleInv, ReconcilerInv, WalInv, Next1
  <1> QED
    BY <1>3, <1>4, <1>5, <1>6, <1>7 DEF LifecycleInv

\* A step that only decides where the call goes.
LEMMA TaskGoes ==
    ASSUME LifecycleInv, task # NoTask, NEW pc \in Pcs \ {"idle"},
           task' = [task EXCEPT !.pc = pc],
           UNCHANGED <<source, bytes, disk, commands, ids>>,
           shadow' = None,
           PlaceInv', CleanupInv', ClaimInv'
    PROVE  LifecycleInv'
  <1>1. UNCHANGED <<source, bytes, store, active, acks, done, wal, commands, ids>>
    BY DEF disk
  <1>2. Inventory' /\ NamesInv'
    BY <1>1 DEF LifecycleInv, AgreeInv, NamesInv, Inventory, Applied
  <1>3. Secure => Secure'
    BY <1>1 DEF Secure, Intact, Named, Matches, Observed, Next1
  <1>4. DOMAIN task' = {"for", "cycle", "pc", "seen"} /\ task'.for = task.for
        /\ task'.cycle = task.cycle /\ task'.pc = pc
    BY DEF LifecycleInv, TaskInv
  <1> QED
    BY <1>1, <1>2, <1>3, <1>4, TaskMoves DEF LifecycleInv, DataInv

\* A call that returns or raises.
LEMMA TaskLeaves ==
    ASSUME LifecycleInv, task # NoTask, Leave,
           UNCHANGED <<source, bytes, disk, ids>>,
           shadow' = None
    PROVE  LifecycleInv'
  <1>1. UNCHANGED <<source, bytes, store, active, acks, done, wal, commands, ids>> /\ task' = NoTask
    BY DEF disk, Leave
  <1>2. Inventory' /\ NamesInv'
    BY <1>1 DEF LifecycleInv, AgreeInv, NamesInv, Inventory, Applied
  <1>3. Secure => Secure'
    BY <1>1 DEF Secure, Intact, Named, Matches, Observed, Next1
  <1>4. PlaceInv' /\ CleanupInv' /\ ClaimInv'
    BY <1>1 DEF PlaceInv, CleanupInv, ClaimInv, NoTask
  <1> QED
    BY <1>1, <1>2, <1>3, <1>4, TaskMoves DEF LifecycleInv, DataInv

\* A move outside the inbox is durable before the next one.
LEMMA Durable ==
    ASSUME LifecycleInv, task.pc \notin {"verify", "inspect"} PROVE shadow = None
  BY DEF LifecycleInv, NamesInv

-----------------------------------------------------------------------------
\* The steps of a call that only look.

LEMMA TaskRuns == ASSUME LifecycleInv, task.pc # "idle" PROVE task # NoTask
  BY DEF LifecycleInv, TaskInv

LEMMA GotoIs ==
    ASSUME LifecycleInv, NEW pc \in Pcs \ {"idle"}, Goto(pc)
    PROVE  /\ task' = [task EXCEPT !.pc = pc] /\ task'.pc = pc /\ task'.for = task.for
           /\ task'.seen = task.seen /\ task'.cycle = task.cycle
           /\ DOMAIN task' = {"for", "cycle", "pc", "seen"}
           /\ UNCHANGED commands
  BY DEF Goto, LifecycleInv, TaskInv

LEMMA CheckStep == ASSUME LifecycleInv, Check PROVE LifecycleInv'
  <1>1. /\ task # NoTask /\ task.pc = "check" /\ task.for # "finalize" /\ shadow' = None
        /\ UNCHANGED <<source, bytes, store, active, acks, done, wal, ids>>
        /\ UNCHANGED <<source, bytes, disk, ids>>
    BY TaskRuns, Durable DEF Check, disk
  <1>2. CASE Leave
    BY <1>1, <1>2, TaskLeaves
  <1>3. CASE Goto("claiming") /\ active = None
    BY <1>1, <1>3, GotoIs, TaskGoes DEF Pcs, PlaceInv, CleanupInv, ClaimInv
  <1>4. CASE Goto("cleanup") /\ active # None /\ Receipted(active.cycle)
    BY <1>1, <1>4, GotoIs, TaskGoes DEF Pcs, PlaceInv, CleanupInv, ClaimInv, Receipted, Complete
  <1>5. CASE Goto("place") /\ active # None /\ ~Complete(active.cycle) /\ Named("tomb") = {}
    BY <1>1, <1>5, GotoIs, TaskGoes DEF Pcs, PlaceInv, CleanupInv, ClaimInv, Complete, Named
  <1> QED
    BY <1>2, <1>3, <1>4, <1>5 DEF Check

LEMMA CheckFinalizeStep == ASSUME LifecycleInv, CheckFinalize PROVE LifecycleInv'
  <1>1. /\ task # NoTask /\ task.pc = "check" /\ shadow' = None
        /\ UNCHANGED <<source, bytes, store, active, acks, done, wal, ids>>
        /\ UNCHANGED <<source, bytes, disk, ids>>
    BY TaskRuns, Durable DEF CheckFinalize, disk
  <1>2. CASE Leave
    BY <1>1, <1>2, TaskLeaves
  <1>3. CASE /\ Goto("cleanup") /\ active # None /\ Receipted(task.cycle)
             /\ done[task.cycle] = active
    <2>1. active.cycle = task.cycle
      BY <1>3 DEF LifecycleInv, AgreeInv, Receipted, Complete
    <2> QED
      BY <1>1, <1>3, <2>1, GotoIs, TaskGoes
         DEF Pcs, PlaceInv, CleanupInv, ClaimInv, Receipted, Complete
  <1> QED
    BY <1>2, <1>3 DEF CheckFinalize

LEMMA CleanupStep == ASSUME LifecycleInv, Cleanup PROVE LifecycleInv'
  <1>1. /\ task # NoTask /\ task.pc = "cleanup" /\ shadow' = None
        /\ active # None /\ Receipted(active.cycle)
        /\ UNCHANGED <<source, bytes, store, active, acks, done, wal, ids>>
        /\ UNCHANGED <<source, bytes, disk, ids>>
    BY TaskRuns, Durable DEF Cleanup, disk, LifecycleInv, TaskInv, CleanupInv
  <1>2. CASE Leave
    BY <1>1, <1>2, TaskLeaves
  <1>3. CASE Goto("dup") /\ Intact("claim")
    <2>1. ClaimHeld
      BY <1>3 DEF Intact, Matches, Observed, ClaimHeld
    <2> QED
      BY <1>1, <1>3, <2>1, GotoIs, TaskGoes
         DEF Pcs, PlaceInv, CleanupInv, ClaimInv, Receipted, Complete, ClaimHeld, Named
  <1>4. CASE Goto("unlink") /\ Named("claim") = {} /\ Named("dup") = {}
    BY <1>1, <1>4, GotoIs, TaskGoes
       DEF Pcs, PlaceInv, CleanupInv, ClaimInv, Receipted, Complete, Named
  <1> QED
    BY <1>2, <1>3, <1>4 DEF Cleanup

LEMMA PlacedStep == ASSUME LifecycleInv, Placed PROVE LifecycleInv'
  <1>1. /\ task # NoTask /\ task.pc = "placed" /\ shadow' = None
        /\ active # None => ClaimHeld /\ Named("dup") = {} /\ source # active.inode
        /\ UNCHANGED <<source, bytes, store, active, acks, done, wal, ids>>
        /\ UNCHANGED <<source, bytes, disk, ids>>
    BY TaskRuns, Durable DEF Placed, disk, LifecycleInv, TaskInv, ClaimInv
  <1>2. CASE Leave
    BY <1>1, <1>2, TaskLeaves
  <1>3. CASE Goto("claiming") /\ task.for \notin {"recover", "finalize"}
    <2>1. task.for \in {"evidence", "bind"}
      BY <1>1, <1>3 DEF LifecycleInv, TaskInv, Caller
    <2> QED
      BY <1>1, <1>3, <2>1, GotoIs, TaskGoes
         DEF Pcs, PlaceInv, CleanupInv, ClaimInv, ClaimHeld, Named
  <1> QED
    BY <1>2, <1>3 DEF Placed

LEMMA SourceChangedStep == ASSUME LifecycleInv, SourceChanged PROVE LifecycleInv'
  BY TaskRuns, Durable, TaskLeaves DEF SourceChanged

-----------------------------------------------------------------------------
\* The steps of a call that move a file.

\* What is in the inbox goes under a free name of the claim.
LEMMA Taken ==
    ASSUME LifecycleInv, active # None, source # None, NEW name \in {"claim", "dup"},
           TakeFromInbox(name), UNCHANGED <<bytes, active, done>>,
           Named(name) = {}, name = "claim" => Named("dup") = {} /\ Named("tomb") = {},
           task'.pc \in {"verify", "inspect"}
    PROVE  /\ source' = None /\ shadow' \in Inode
           /\ store' \subseteq [name : Names, id : Nat, inode : Inode]
           /\ Inventory' /\ NamesInv'
           /\ \A n : n # name => Named(n)' = Named(n)
           /\ source' \notin Held'
  <1> DEFINE new == File(name, source)
  <1>1. /\ source' = None /\ shadow' = source /\ store' = store \cup {new}
        /\ bytes' = bytes /\ active' = active /\ done' = done
    BY DEF TakeFromInbox
  <1>2. /\ source \in Inode /\ active.id \in Nat
        /\ new \in [name : Names, id : Nat, inode : Inode]
        /\ new.name = name /\ new.id = active.id /\ new.inode = source
    BY DEF LifecycleInv, DataInv, File, Names, Claims
  <1> HIDE DEF new
  <1>3. /\ Inventory /\ \A n : Named(n) = {f \in store : f.name = n}
    BY NamedWithin DEF LifecycleInv, AgreeInv
  <1>4. Inventory'
    BY <1>1, <1>2, <1>3 DEF Inventory
  <1>5. \A n : n # name => Named(n)' = Named(n)
    BY <1>1, <1>2 DEF Named
  <1>6. \A f \in store : ~(f.name = "dup" <=> name = "dup")
    <2>1. \A f \in store : f.name \in {"claim", "dup", "tomb"}
      BY DEF LifecycleInv, DataInv, Names
    <2>2. CASE name = "claim"
      BY <1>3, <2>1, <2>2
    <2>3. CASE name = "dup"
      BY <1>3, <2>3
    <2> QED
      BY <2>2, <2>3
  <1>7. \A f, g \in store' : (f.name = "dup" <=> g.name = "dup") => f = g
    BY <1>1, <1>2, <1>6 DEF LifecycleInv, NamesInv
  <1>8. Applied' = Applied /\ source \notin Applied
    BY <1>1 DEF Applied, LifecycleInv, NamesInv
  <1>9. source \in Held'
    BY <1>1, <1>2 DEF Held
  <1>10. Held' \subseteq Inode
    BY <1>1, <1>2 DEF Held, LifecycleInv, DataInv
  <1>11. None \notin Applied /\ None \notin Held'
    <2>1. None \notin Applied
      BY DirectiveAssumption DEF Applied, LifecycleInv, DataInv, Claims
    <2> QED
      BY <1>10, <2>1, DirectiveAssumption
  <1>12. NamesInv'
    BY <1>1, <1>2, <1>7, <1>8, <1>9, <1>11 DEF LifecycleInv, NamesInv
  <1> QED
    BY <1>1, <1>2, <1>4, <1>5, <1>11, <1>12 DEF LifecycleInv, DataInv

\* A payload leaves the state's directory, and nothing else moves.
LEMMA Dropped1 ==
    ASSUME LifecycleInv, active # None, store' \subseteq store, shadow' = None,
           UNCHANGED <<bytes, active, done>>,
           source' \in Inode \cup {None}, source' \notin Applied
    PROVE  /\ store' \subseteq [name : Names, id : Nat, inode : Inode]
           /\ Inventory' /\ NamesInv'
           /\ \A n : Named(n)' = Named(n) \cap store'
  BY DEF LifecycleInv, DataInv, AgreeInv, NamesInv, Inventory, Applied, Named

LEMMA PlaceStep == ASSUME LifecycleInv, Place PROVE LifecycleInv'
  <1>1. /\ task # NoTask /\ task.pc = "place" /\ shadow = None
        /\ active # None /\ ~Complete(active.cycle) /\ Named("tomb") = {}
        /\ UNCHANGED <<bytes, active, acks, done, wal, ids>>
    BY TaskRuns, Durable DEF Place, LifecycleInv, TaskInv, PlaceInv
  <1>2. CASE /\ Named("claim") = {} /\ Named("dup") = {} /\ source # None
             /\ TakeFromInbox("claim") /\ Goto("verify")
    <2>1. /\ task'.pc = "verify" /\ task'.for = task.for /\ task'.cycle = task.cycle
          /\ DOMAIN task' = {"for", "cycle", "pc", "seen"} /\ UNCHANGED commands
      BY <1>2, GotoIs DEF Pcs
    <2>2. /\ source' = None /\ shadow' \in Inode
          /\ store' \subseteq [name : Names, id : Nat, inode : Inode]
          /\ Inventory' /\ NamesInv'
          /\ \A n : n # "claim" => Named(n)' = Named(n)
          /\ source' \notin Held'
      BY <1>1, <1>2, <2>1, Taken
    <2>3. ~Secure
      BY <1>2 DEF Secure, Intact
    <2>5. ~Relied'
      <3>1. ~Relied
        BY <2>3 DEF Relied, LifecycleInv, PacketInv, TaskInv
      <3> QED
        BY <1>1, <2>1, <3>1 DEF Relied, Next1, commands
    <2>4. PlaceInv' /\ CleanupInv' /\ ClaimInv'
      BY <1>1, <1>2, <2>1, <2>2, <2>5 DEF PlaceInv, CleanupInv, ClaimInv, Complete
    <2> QED
      BY <1>1, <2>1, <2>2, <2>3, <2>4, TaskMoves DEF Pcs
  <1>3. CASE UNCHANGED <<source, shadow, store>> /\ Leave
    BY <1>1, <1>3, TaskLeaves DEF disk
  <1>4. CASE UNCHANGED <<source, shadow, store>> /\ Goto("dup") /\ Intact("claim")
    <2>1. ClaimHeld
      BY <1>4 DEF Intact, Matches, Observed, ClaimHeld
    <2> QED
      BY <1>1, <1>4, <2>1, GotoIs, TaskGoes
         DEF Pcs, PlaceInv, CleanupInv, ClaimInv, ClaimHeld, Named, disk
  <1> QED
    BY <1>2, <1>3, <1>4 DEF Place

LEMMA VerifyStep == ASSUME LifecycleInv, Verify PROVE LifecycleInv'
  <1>1. /\ task # NoTask /\ task.pc = "verify" /\ shadow' = None
        /\ active # None /\ ~Complete(active.cycle) /\ Named("tomb") = {} /\ Named("dup") = {}
        /\ source \notin Held
        /\ UNCHANGED <<source, bytes, store, active, acks, done, wal, ids>>
        /\ UNCHANGED <<source, bytes, disk, ids>>
    BY TaskRuns DEF Verify, Sync, LifecycleInv, TaskInv, PlaceInv, disk
  <1>2. CASE Leave
    BY <1>1, <1>2, TaskLeaves
  <1>3. CASE Goto("placed") /\ Intact("claim")
    <2>1. ClaimHeld
      BY <1>3 DEF Intact, Matches, Observed, ClaimHeld
    <2>2. source # active.inode
      BY <1>1, <2>1, ClaimHeldIsHeld
    <2> QED
      BY <1>1, <1>3, <2>1, <2>2, GotoIs, TaskGoes
         DEF Pcs, PlaceInv, CleanupInv, ClaimInv, ClaimHeld, Named
  <1>4. CASE Goto("restore") /\ ~Intact("claim")
    BY <1>1, <1>4, GotoIs, TaskGoes
       DEF Pcs, PlaceInv, CleanupInv, ClaimInv, Complete, Named, Intact, Matches, Observed, Held
  <1> QED
    BY <1>2, <1>3, <1>4 DEF Verify

LEMMA RestoreStep == ASSUME LifecycleInv, Restore PROVE LifecycleInv'
  <1>1. /\ task # NoTask /\ task.pc = "restore" /\ shadow' = None /\ shadow = None
        /\ active # None /\ ~Complete(active.cycle) /\ Named("tomb") = {} /\ Named("dup") = {}
        /\ ~Intact("claim")
        /\ UNCHANGED <<bytes, active, acks, done, wal, ids>>
    BY TaskRuns, Durable DEF Restore, LifecycleInv, TaskInv, PlaceInv
  <1>2. CASE Leave /\ UNCHANGED <<source, store>>
    BY <1>1, <1>2, TaskLeaves DEF disk
  <1>3. CASE /\ \E f \in Named("claim") : source' = f.inode /\ store' = store \ {f}
             /\ Goto("abandon")
    <2>1. PICK f \in Named("claim") : source' = f.inode /\ store' = store \ {f}
      BY <1>3
    <2>2. /\ task'.pc = "abandon" /\ task'.for = task.for /\ task'.cycle = task.cycle
          /\ DOMAIN task' = {"for", "cycle", "pc", "seen"} /\ UNCHANGED commands
      BY <1>3, GotoIs DEF Pcs
    <2>3. f \in store /\ f.inode \in Inode /\ f.inode \notin Applied
      BY <1>1, <2>1 DEF Named, LifecycleInv, DataInv, AgreeInv, NamesInv
    <2>4. /\ store' \subseteq [name : Names, id : Nat, inode : Inode]
          /\ Inventory' /\ NamesInv'
          /\ \A n : Named(n)' = Named(n) \cap store'
      BY <1>1, <2>1, <2>3, Dropped1
    <2>5. store' = {}
      <3>1. \A g \in store : g.name \in {"claim", "dup", "tomb"}
        BY DEF LifecycleInv, DataInv, Names
      <3>2. \A g \in store : g.name = "claim"
        BY <1>1, <3>1, NamedWithin DEF LifecycleInv, AgreeInv
      <3>3. \A g \in store : g = f
        BY <2>3, <3>2 DEF LifecycleInv, NamesInv
      <3> QED
        BY <2>1, <3>3
    <2>6. ~Secure
      BY <1>1 DEF Secure
    <2>7. PlaceInv' /\ CleanupInv' /\ ClaimInv'
      BY <1>1, <2>2, <2>4, <2>5 DEF PlaceInv, CleanupInv, ClaimInv, Complete
    <2> QED
      BY <1>1, <2>1, <2>2, <2>3, <2>4, <2>6, <2>7, TaskMoves DEF Pcs
  <1> QED
    BY <1>2, <1>3 DEF Restore

\* Retiring second names keeps the claim where it is.
LEMMA SecondsRetired ==
    ASSUME LifecycleInv, task # NoTask, active # None, ClaimHeld,
           UNCHANGED <<source, bytes, active, acks, done, wal, ids>>,
           shadow' = None, store' = store \ Named("dup"),
           NEW pc \in Pcs \ {"idle"}, Goto(pc),
           \/ pc = "dup"
           \/ pc = "quarantine" /\ source = active.inode
           \/ pc = AfterDup /\ source # active.inode
    PROVE  LifecycleInv'
  <1>1. /\ task' = [task EXCEPT !.pc = pc] /\ task'.pc = pc /\ task'.for = task.for
        /\ task'.cycle = task.cycle /\ DOMAIN task' = {"for", "cycle", "pc", "seen"}
        /\ UNCHANGED commands
    BY GotoIs
  <1>2. /\ store' \subseteq [name : Names, id : Nat, inode : Inode]
        /\ Inventory' /\ NamesInv'
        /\ \A n : Named(n)' = Named(n) \cap store'
    BY Dropped1 DEF LifecycleInv, NamesInv, DataInv
  <1>3. Named("dup")' = {} /\ Named("claim")' = Named("claim")
    BY <1>2 DEF Named
  <1>4. ClaimHeld'
    BY <1>3 DEF ClaimHeld
  <1>5. Secure => Secure'
    BY <1>3 DEF Secure, Intact, Matches, Observed, Next1
  <1>6. pc = "quarantine" => ~Relied'
    <2>1. pc = "quarantine" => ~Secure
      BY DEF Secure, AfterDup
    <2>2. Relied => Secure
      BY DEF Relied, LifecycleInv, PacketInv, TaskInv
    <2>3. Relied' <=> Relied
      BY <1>1 DEF Relied, Next1, commands
    <2> QED
      BY <2>1, <2>2, <2>3
  <1>7. pc \in {"dup", "quarantine", "bury", "placed"}
    BY DEF AfterDup
  <1>8. pc = "bury" => Receipted(active.cycle)'
    BY DEF AfterDup, Receipted, Complete
  <1>9. pc = "placed" => source' # active'.inode
    BY DEF AfterDup
  <1>10. PlaceInv' /\ CleanupInv' /\ ClaimInv'
    BY <1>1, <1>3, <1>4, <1>6, <1>7, <1>8, <1>9 DEF PlaceInv, CleanupInv, ClaimInv
  <1> QED
    BY <1>1, <1>2, <1>5, <1>10, TaskMoves DEF LifecycleInv, DataInv

LEMMA DupStep == ASSUME LifecycleInv, Dup PROVE LifecycleInv'
  <1> DEFINE second == source = active.inode
  <1>1. /\ task # NoTask /\ task.pc = "dup" /\ shadow' = None
        /\ active # None /\ ClaimHeld
        /\ UNCHANGED <<source, bytes, active, acks, done, wal, ids>>
    BY TaskRuns, Durable DEF Dup, LifecycleInv, TaskInv, CleanupInv
  <1>2. CASE Leave /\ UNCHANGED store
    BY <1>1, <1>2, TaskLeaves DEF disk
  <1>3. CASE store' = store \ Named("dup") /\ ~second /\ Goto(AfterDup)
    <2>1. AfterDup \in Pcs \ {"idle"}
      BY DEF AfterDup, Pcs
    <2> QED
      BY <1>1, <1>3, <2>1, SecondsRetired
  <1>4. CASE store' = store \ Named("dup") /\ second /\ Goto("dup")
    BY <1>1, <1>4, SecondsRetired DEF Pcs
  <1>5. CASE store' = store \ Named("dup") /\ second /\ Goto("quarantine")
    BY <1>1, <1>5, SecondsRetired DEF Pcs
  <1> QED
    BY <1>2, <1>3, <1>4, <1>5 DEF Dup

LEMMA QuarantineStep == ASSUME LifecycleInv, Quarantine PROVE LifecycleInv'
  <1>1. /\ task # NoTask /\ task.pc = "quarantine" /\ shadow = None
        /\ active # None /\ ClaimHeld /\ Named("dup") = {} /\ ~Relied
        /\ UNCHANGED <<bytes, active, acks, done, wal, ids>>
    BY TaskRuns, Durable DEF Quarantine, LifecycleInv, TaskInv, CleanupInv
  <1>2. CASE Leave /\ UNCHANGED <<source, shadow, store>>
    BY <1>1, <1>2, TaskLeaves DEF disk
  <1>3. CASE source # None /\ TakeFromInbox("dup") /\ Goto("inspect")
    <2>1. /\ task'.pc = "inspect" /\ task'.for = task.for /\ task'.cycle = task.cycle
          /\ DOMAIN task' = {"for", "cycle", "pc", "seen"} /\ UNCHANGED commands
      BY <1>3, GotoIs DEF Pcs
    <2>2. /\ source' = None /\ shadow' \in Inode
          /\ store' \subseteq [name : Names, id : Nat, inode : Inode]
          /\ Inventory' /\ NamesInv'
          /\ \A n : n # "dup" => Named(n)' = Named(n)
          /\ source' \notin Held'
      BY <1>1, <1>3, <2>1, Taken
    <2>3. ClaimHeld'
      BY <1>1, <2>2 DEF ClaimHeld
    <2>4. ~Relied'
      BY <1>1, <2>1 DEF Relied, Next1, commands
    <2>5. PlaceInv' /\ CleanupInv' /\ ClaimInv'
      BY <1>1, <2>1, <2>2, <2>3, <2>4 DEF PlaceInv, CleanupInv, ClaimInv
    <2> QED
      BY <1>1, <2>1, <2>2, <2>5, TaskMoves DEF Pcs
  <1> QED
    BY <1>2, <1>3 DEF Quarantine

LEMMA InspectStep == ASSUME LifecycleInv, Inspect PROVE LifecycleInv'
  <1>1. /\ task # NoTask /\ task.pc = "inspect" /\ shadow' = None
        /\ active # None /\ ClaimHeld /\ ~Relied /\ source \notin Held
        /\ UNCHANGED <<bytes, active, acks, done, wal, ids>>
    BY TaskRuns DEF Inspect, Sync, LifecycleInv, TaskInv, CleanupInv, PlaceInv
  <1>2. CASE store' = store \ Named("dup") /\ Goto(AfterDup) /\ UNCHANGED source
    <2>1. AfterDup \in Pcs \ {"idle"}
      BY DEF AfterDup, Pcs
    <2>2. source # active.inode
      BY <1>1, ClaimHeldIsHeld
    <2> QED
      BY <1>1, <1>2, <2>1, <2>2, SecondsRetired
  <1>3. CASE Leave /\ UNCHANGED <<source, store>>
    BY <1>1, <1>3, TaskLeaves DEF disk
  <1>4. CASE Leave /\ \E f \in Named("dup") : source' = f.inode /\ store' = store \ {f}
    <2>1. PICK f \in Named("dup") : source' = f.inode /\ store' = store \ {f}
      BY <1>4
    <2>2. f \in store /\ f.inode \in Inode /\ f.inode \notin Applied
      BY <2>1 DEF Named, LifecycleInv, DataInv, NamesInv
    <2>3. /\ store' \subseteq [name : Names, id : Nat, inode : Inode]
          /\ Inventory' /\ NamesInv'
      BY <1>1, <2>1, <2>2, Dropped1
    <2>4. task' = NoTask /\ UNCHANGED commands
      BY <1>4 DEF Leave
    <2>5. PlaceInv' /\ CleanupInv' /\ ClaimInv'
      BY <2>4 DEF PlaceInv, CleanupInv, ClaimInv, NoTask
    <2> QED
      BY <1>1, <2>1, <2>2, <2>3, <2>4, <2>5, TaskMoves
  <1> QED
    BY <1>2, <1>3, <1>4 DEF Inspect

\* A receipted claim's cycle is over: nothing relies on it any more.
LEMMA ReceiptedIsOver ==
    ASSUME LifecycleInv, active # None, Receipted(active.cycle) PROVE ~Secure
  BY SecureIsOpen DEF Receipted, LifecycleInv

LEMMA BuryStep == ASSUME LifecycleInv, Bury PROVE LifecycleInv'
  <1>1. /\ task # NoTask /\ task.pc = "bury" /\ shadow' = None /\ shadow = None
        /\ active # None /\ ClaimHeld /\ Named("dup") = {} /\ Receipted(active.cycle)
        /\ UNCHANGED <<source, bytes, active, acks, done, wal, ids>>
        /\ store' = (store \ Named("claim")) \cup {File("tomb", f.inode) : f \in Named("claim")}
    BY TaskRuns, Durable DEF Bury, LifecycleInv, TaskInv, CleanupInv
  <1>2. /\ task'.pc = "unlink" /\ task'.for = task.for /\ task'.cycle = task.cycle
        /\ DOMAIN task' = {"for", "cycle", "pc", "seen"} /\ UNCHANGED commands
    BY GotoIs DEF Pcs, Bury
  <1>3. PICK f : f \in Named("claim")
    BY <1>1 DEF ClaimHeld
  <1>4. f \in store /\ f.name = "claim" /\ f.inode = active.inode /\ f.inode \in Inode
        /\ active.id \in Nat
    BY <1>1, <1>3 DEF Named, LifecycleInv, DataInv, Claims, ClaimHeld
  <1>5. \A g \in store : g = f
    <2>1. \A g \in store : g.name # "dup"
      BY <1>1, NamedWithin DEF LifecycleInv, AgreeInv
    <2> QED
      BY <1>4, <2>1 DEF LifecycleInv, NamesInv
  <1>6. store = {f} /\ Named("claim") = {f}
    BY <1>3, <1>4, <1>5 DEF Named
  <1> DEFINE new == File("tomb", f.inode)
  <1>7. store' = {new}
    BY <1>1, <1>6
  <1>8. /\ new.name = "tomb" /\ new.id = active.id /\ new.inode = active.inode
        /\ new \in [name : Names, id : Nat, inode : Inode]
    BY <1>4 DEF File, Names
  <1> HIDE DEF new
  <1>9. Inventory' /\ Named("claim")' = {} /\ Named("dup")' = {}
    BY <1>1, <1>7, <1>8 DEF Inventory, Named
  <1>10. NamesInv'
    BY <1>1, <1>7, <1>8 DEF LifecycleInv, NamesInv, Applied
  <1>11. ~Secure
    BY <1>1, ReceiptedIsOver
  <1>12. PlaceInv' /\ CleanupInv' /\ ClaimInv'
    BY <1>1, <1>2, <1>9 DEF PlaceInv, CleanupInv, ClaimInv, Receipted, Complete
  <1> QED
    BY <1>1, <1>2, <1>7, <1>8, <1>9, <1>10, <1>11, <1>12, TaskMoves DEF Pcs, LifecycleInv, DataInv

LEMMA UnlinkTombStep == ASSUME LifecycleInv, UnlinkTomb PROVE LifecycleInv'
  <1>1. /\ task # NoTask /\ task.pc = "unlink" /\ shadow' = None
        /\ active # None /\ Receipted(active.cycle) /\ Named("claim") = {} /\ Named("dup") = {}
        /\ UNCHANGED <<source, bytes, active, acks, done, wal, ids>>
    BY TaskRuns, Durable DEF UnlinkTomb, LifecycleInv, TaskInv, CleanupInv
  <1>2. CASE Leave /\ UNCHANGED store
    BY <1>1, <1>2, TaskLeaves DEF disk
  <1>3. CASE store' = store \ Named("tomb") /\ Goto("ack")
    <2>1. /\ task'.pc = "ack" /\ task'.for = task.for /\ task'.cycle = task.cycle
          /\ DOMAIN task' = {"for", "cycle", "pc", "seen"} /\ UNCHANGED commands
      BY <1>3, GotoIs DEF Pcs
    <2>2. store' = {}
      <3>1. \A g \in store : g.name \in {"claim", "dup", "tomb"}
        BY DEF LifecycleInv, DataInv, Names
      <3> QED
        BY <1>1, <1>3, <3>1, NamedWithin DEF LifecycleInv, AgreeInv
    <2>3. Inventory' /\ NamesInv'
      BY <1>1, <2>2, Dropped1 DEF LifecycleInv, NamesInv, DataInv
    <2>4. ~Secure
      BY <1>1, ReceiptedIsOver
    <2>5. PlaceInv' /\ CleanupInv' /\ ClaimInv'
      BY <1>1, <2>1, <2>2 DEF PlaceInv, CleanupInv, ClaimInv, Receipted, Complete
    <2> QED
      BY <1>1, <2>1, <2>2, <2>3, <2>4, <2>5, TaskMoves DEF Pcs, LifecycleInv, DataInv
  <1> QED
    BY <1>2, <1>3 DEF UnlinkTomb

-----------------------------------------------------------------------------
\* The claim ends, begins, and is delivered.

\* A claim that is over, or that never came to hold its file, is removed.
LEMMA ClaimEnds ==
    ASSUME LifecycleInv, task # NoTask, active # None, store = {},
           Receipted(active.cycle) => active.cycle \in acks,
           active' = None, shadow' = None,
           UNCHANGED <<source, bytes, store, acks, done, wal, commands, ids>>,
           \/ task' = NoTask
           \/ task' = [task EXCEPT !.pc = "placed"]
    PROVE  LifecycleInv'
  <1>1. /\ bytes' = bytes /\ source' = source /\ acks' = acks /\ done' = done /\ wal' = wal
        /\ evidence' = evidence /\ pending' = pending /\ reconciler' = reconciler /\ ids' = ids
        /\ store' = {}
    BY DEF commands
  <1>2. wal = None
    BY DEF LifecycleInv, WalInv
  <1>3. ~Secure
    BY DEF Secure, Intact, Named
  <1>4. ~Relied
    BY <1>3 DEF Relied, LifecycleInv, PacketInv, TaskInv
  <1>5. DataInv'
    BY <1>1 DEF LifecycleInv, DataInv
  <1>6. AgreeInv'
    BY <1>1 DEF LifecycleInv, AgreeInv, Acknowledged, Inventory, ClaimCycle, Receipted, Complete
  <1>7. NamesInv'
    <2>1. Applied' = Applied
      BY <1>1 DEF Applied
    <2> QED
      BY <1>1, <2>1 DEF LifecycleInv, NamesInv
  <1>8. TaskInv'
    <2>1. CASE task' = NoTask
      BY <2>1 DEF TaskInv, NoTask, Pcs, Caller, PlaceInv, CleanupInv, ClaimInv
    <2>2. CASE task' = [task EXCEPT !.pc = "placed"]
      <3>1. /\ DOMAIN task' = {"for", "cycle", "pc", "seen"} /\ task'.pc = "placed"
            /\ task'.for = task.for /\ task'.cycle = task.cycle
        BY <2>2 DEF LifecycleInv, TaskInv
      <3>2. task'.pc # "idle" /\ task' # NoTask /\ task.for # "idle" /\ task.for # "bind"
        BY <1>4, <3>1 DEF NoTask, LifecycleInv, TaskInv, Relied
      <3> QED
        BY <1>1, <3>1, <3>2 DEF LifecycleInv, TaskInv, Pcs, PlaceInv, CleanupInv, ClaimInv, Next1
    <2> QED
      BY <2>1, <2>2
  <1>9. PacketInv'
    BY <1>1, <1>4 DEF LifecycleInv, PacketInv, Next1, Relied
  <1>10. ReconcilerInv' /\ WalInv'
    <2>1. ASSUME reconciler # None, reconciler.cycle = Next1 PROVE pending.claim = None
      BY <1>4, <2>1, NextIsOpen DEF Relied, LifecycleInv, ReconcilerInv, PacketInv
    <2> QED
      BY <1>1, <1>2, <2>1 DEF LifecycleInv, ReconcilerInv, WalInv, Next1
  <1> QED
    BY <1>5, <1>6, <1>7, <1>8, <1>9, <1>10 DEF LifecycleInv

LEMMA AbandonStep == ASSUME LifecycleInv, Abandon PROVE LifecycleInv'
  <1>1. task # NoTask /\ shadow = None
    BY TaskRuns, Durable DEF Abandon
  <1>2. active # None /\ ~Complete(active.cycle) /\ store = {}
    BY DEF Abandon, LifecycleInv, TaskInv, PlaceInv
  <1> QED
    BY <1>1, <1>2, ClaimEnds DEF Abandon, Leave, Receipted

LEMMA RetireStep == ASSUME LifecycleInv, Retire PROVE LifecycleInv'
  <1>1. task # NoTask /\ shadow = None
    BY TaskRuns, Durable DEF Retire
  <1>2. active # None /\ active.cycle \in acks /\ store = {}
    BY DEF Retire, LifecycleInv, TaskInv, PlaceInv, CleanupInv
  <1> QED
    BY <1>1, <1>2, ClaimEnds DEF Retire, Goto

LEMMA AcknowledgeStep == ASSUME LifecycleInv, Acknowledge PROVE LifecycleInv'
  <1>1. /\ task # NoTask /\ task.pc = "ack" /\ shadow' = None
        /\ active # None /\ Receipted(active.cycle) /\ store = {}
        /\ UNCHANGED <<source, bytes, store, active, done, wal, ids>>
        /\ acks' = acks \cup {active.cycle}
    BY TaskRuns, Durable DEF Acknowledge, LifecycleInv, TaskInv, CleanupInv, PlaceInv
  <1>2. /\ task' = [task EXCEPT !.pc = "retire"] /\ task'.pc = "retire" /\ task'.for = task.for
        /\ task'.cycle = task.cycle /\ DOMAIN task' = {"for", "cycle", "pc", "seen"}
        /\ evidence' = evidence /\ pending' = pending /\ reconciler' = reconciler
    BY GotoIs DEF Acknowledge, Pcs, commands
  <1>3. DataInv'
    BY <1>1 DEF LifecycleInv, DataInv
  <1>4. Applied' = Applied
    BY <1>1 DEF Applied
  <1>5. AgreeInv'
    BY <1>1, <1>4 DEF LifecycleInv, AgreeInv, Acknowledged, Inventory, ClaimCycle, Receipted, Complete
  <1>6. NamesInv'
    BY <1>1, <1>4 DEF LifecycleInv, NamesInv
  <1>7. TaskInv'
    <2>1. task'.pc # "idle" /\ task' # NoTask /\ task.for # "idle"
      BY <1>1, <1>2 DEF NoTask, LifecycleInv, TaskInv
    <2>2. ~Secure
      BY <1>1, ReceiptedIsOver
    <2>3. PlaceInv' /\ CleanupInv' /\ ClaimInv'
      BY <1>1, <1>2 DEF PlaceInv, CleanupInv, ClaimInv, Receipted, Complete
    <2> QED
      BY <1>1, <1>2, <2>1, <2>2, <2>3 DEF LifecycleInv, TaskInv, Pcs, Next1
  <1>8. PacketInv'
    BY <1>1, <1>2 DEF LifecycleInv, PacketInv, Next1, Secure, Intact, Named, Matches, Observed
  <1>9. ReconcilerInv' /\ WalInv'
    BY <1>1, <1>2 DEF LifecycleInv, ReconcilerInv, WalInv, Next1
  <1> QED
    BY <1>3, <1>5, <1>6, <1>7, <1>8, <1>9 DEF LifecycleInv

\* A step that touches neither the files, the names nor the archive.
LEMMA StateKept ==
    ASSUME LifecycleInv, UNCHANGED <<source, bytes, shadow, store, active, acks, done, ids>>,
           shadow = None
    PROVE  /\ DataInv' /\ AgreeInv' /\ NamesInv'
           /\ Next1' = Next1 /\ (Secure <=> Secure')
           /\ \A cycle, claim : Expected(cycle, claim, FALSE) => Expected(cycle, claim, FALSE)'
  BY DEF LifecycleInv, DataInv, AgreeInv, NamesInv, Acknowledged, Inventory, ClaimCycle, Receipted,
         Complete, Applied, Next1, Secure, Intact, Named, Matches, Observed, Expected

LEMMA NoTaskInv == ASSUME task' = NoTask PROVE TaskInv'
  BY DEF TaskInv, NoTask, Pcs, Caller, PlaceInv, CleanupInv, ClaimInv

LEMMA ClaimStep == ASSUME LifecycleInv, Claim PROVE LifecycleInv'
  <1>1. /\ task # NoTask /\ task.pc = "claiming" /\ shadow = None /\ shadow' = shadow /\ wal = None
        /\ UNCHANGED <<source, bytes, shadow, store, active, acks, done, wal, ids>>
        /\ UNCHANGED <<source, bytes, disk, ids>>
    BY TaskRuns, Durable DEF Claim, disk, LifecycleInv, WalInv
  <1>2. CASE Leave
    BY <1>1, <1>2, TaskLeaves
  <1>3. CASE /\ Deliver
             /\ active # None => active.cycle = task.cycle /\ Intact("claim")
             /\ active = None => task.for # "recover"
    <2> DEFINE packet == [cycle |-> task.cycle, claim |-> active]
    <2>1. task.for \in {"evidence", "bind"}
      BY <1>1, <1>3 DEF LifecycleInv, TaskInv, ClaimInv, Caller
    <2>2. task.cycle = Next1 /\ Next1 \in Nat
      BY <2>1, NextIsOpen DEF LifecycleInv, TaskInv
    <2>3. active # None => Secure
      BY <1>1, <1>3, <2>2 DEF LifecycleInv, TaskInv, ClaimInv, Secure
    <2>4. packet.cycle = Next1 /\ packet.claim = active
      BY <2>2
    <2> HIDE DEF packet
    <2>5. /\ DataInv' /\ AgreeInv' /\ NamesInv' /\ TaskInv' /\ WalInv'
          /\ Next1' = Next1 /\ (Secure <=> Secure')
      BY <1>1, <1>3, StateKept, NoTaskInv DEF Deliver, WalInv
    <2>6. CASE task.for = "evidence"
      <3>1. evidence' = packet /\ pending' = pending /\ reconciler' = reconciler
        BY <1>3, <2>6 DEF Deliver, packet
      <3>2. PacketInv'
        BY <1>1, <2>2, <2>3, <2>4, <2>5, <3>1 DEF LifecycleInv, PacketInv
      <3>3. ReconcilerInv'
        BY <1>1, <2>5, <3>1 DEF LifecycleInv, ReconcilerInv
      <3> QED
        BY <2>5, <3>2, <3>3 DEF LifecycleInv
    <2>7. CASE task.for = "bind"
      <3>1. /\ reconciler' \in {packet, None} /\ pending' = pending /\ evidence' = evidence
            /\ reconciler' # None => active = pending.claim
        BY <1>3, <2>7 DEF Deliver, packet
      <3>2. pending # None /\ pending.cycle = Next1 /\ Secure
        BY <2>7 DEF LifecycleInv, TaskInv
      <3>3. PacketInv'
        BY <1>1, <2>5, <3>1 DEF LifecycleInv, PacketInv
      <3>4. ReconcilerInv'
        BY <1>1, <2>2, <2>4, <2>5, <3>1, <3>2
           DEF ReconcilerInv, Secure, LifecycleInv, AgreeInv, DataInv, Claims
      <3> QED
        BY <2>5, <3>3, <3>4 DEF LifecycleInv
    <2> QED
      BY <2>1, <2>6, <2>7
  <1>4. CASE /\ active = None /\ source # None /\ task.for # "recover"
             /\ task' = [task EXCEPT !.seen = Observed(source), !.pc = "intent"]
             /\ UNCHANGED commands
    <2>1. task.for = "evidence"
      BY <1>1, <1>4 DEF LifecycleInv, TaskInv, ClaimInv, Caller, Secure
    <2>2. /\ task'.pc = "intent" /\ task'.for = task.for /\ task'.cycle = task.cycle
          /\ DOMAIN task' = {"for", "cycle", "pc", "seen"}
          /\ task'.seen = Observed(source)
      BY <1>4 DEF LifecycleInv, TaskInv
    <2>3. /\ Observed(source) \in [inode : Inode, ver : Nat] /\ Observed(source).inode \notin Applied
      BY <1>4 DEF Observed, LifecycleInv, DataInv, NamesInv
    <2>4. Inventory' /\ NamesInv' /\ (Secure => Secure')
      BY <1>1, StateKept DEF AgreeInv
    <2>5. Applied' = Applied
      BY <1>1 DEF Applied
    <2>6. PlaceInv' /\ CleanupInv' /\ ClaimInv'
      BY <1>1, <1>4, <2>1, <2>2, <2>3, <2>5 DEF PlaceInv, CleanupInv, ClaimInv
    <2> QED
      BY <1>1, <1>4, <2>2, <2>4, <2>6, TaskMoves DEF Pcs, LifecycleInv, DataInv
  <1> QED
    <2>1. \/ Leave
          \/ Deliver /\ active # None /\ active.cycle = task.cycle /\ Intact("claim")
          \/ Deliver /\ active = None /\ task.for # "recover"
          \/ /\ active = None /\ source # None /\ task.for # "recover"
             /\ task' = [task EXCEPT !.seen = Observed(source), !.pc = "intent"]
             /\ UNCHANGED commands
      BY DEF Claim
    <2> QED
      BY <1>2, <1>3, <1>4, <2>1

LEMMA WriteIntentStep == ASSUME LifecycleInv, WriteIntent PROVE LifecycleInv'
  <1> DEFINE new == [id |-> ids + 1, cycle |-> task.cycle,
                     inode |-> task.seen.inode, ver |-> task.seen.ver]
  <1>1. /\ task # NoTask /\ task.pc = "intent" /\ shadow = None /\ shadow' = None /\ wal = None
        /\ active = None /\ task.for = "evidence" /\ task.seen \in [inode : Inode, ver : Nat]
        /\ task.seen.inode \notin Applied /\ evidence = None /\ task.cycle = Next1
        /\ UNCHANGED <<source, bytes, store, acks, done, wal>>
        /\ ids' = ids + 1 /\ active' = new
    BY TaskRuns, Durable DEF WriteIntent, LifecycleInv, TaskInv, ClaimInv, WalInv
  <1>2. /\ task'.pc = "place" /\ task'.for = "evidence" /\ task'.cycle = Next1
        /\ DOMAIN task' = {"for", "cycle", "pc", "seen"}
        /\ evidence' = None /\ pending' = pending /\ reconciler' = reconciler
    BY <1>1, GotoIs DEF WriteIntent, Pcs, commands
  <1>3. store = {} /\ Next1 \in Nat /\ ~Complete(Next1) /\ ids \in Nat
    BY <1>1, NextIsOpen DEF LifecycleInv, AgreeInv, Inventory, DataInv
  <1>4. /\ new \in Claims /\ new.id = ids + 1 /\ new.cycle = Next1
        /\ new.inode \notin Applied
    BY <1>1, <1>3 DEF Claims
  <1> HIDE DEF new
  <1>5. new # None
    BY <1>4, IntentAssumption DEF Claims
  <1>6. Applied' = Applied /\ Next1' = Next1 /\ DOMAIN done' = DOMAIN done
    BY <1>1 DEF Applied, Next1
  <1>7. DataInv'
    BY <1>1, <1>3, <1>4 DEF LifecycleInv, DataInv
  <1>8. AgreeInv'
    <2>1. Acknowledged(ClaimCycle)'
      BY <1>1, <1>5 DEF LifecycleInv, AgreeInv, Acknowledged, ClaimCycle, Receipted, Complete
    <2>2. Inventory'
      BY <1>1, <1>3 DEF Inventory
    <2> QED
      BY <1>1, <1>3, <1>4, <1>6, <2>1, <2>2 DEF LifecycleInv, AgreeInv, Complete
  <1>9. NamesInv'
    BY <1>1, <1>3, <1>6 DEF LifecycleInv, NamesInv
  <1>10. TaskInv'
    <2>1. PlaceInv' /\ CleanupInv' /\ ClaimInv'
      BY <1>1, <1>2, <1>3, <1>4, <1>5, <1>6 DEF PlaceInv, CleanupInv, ClaimInv, Complete, Named
    <2>2. task' # NoTask
      BY <1>2 DEF NoTask
    <2> QED
      BY <1>2, <1>6, <2>1, <2>2 DEF TaskInv, Pcs, Caller
  <1>11. PacketInv'
    BY <1>1, <1>2, <1>6 DEF LifecycleInv, PacketInv, Secure
  <1>12. ReconcilerInv' /\ WalInv'
    <2>1. ASSUME reconciler # None PROVE reconciler.claim # new
      BY <1>3, <1>4, <1>5, <2>1 DEF LifecycleInv, ReconcilerInv
    <2> QED
      BY <1>1, <1>2, <1>3, <1>6, <2>1 DEF LifecycleInv, ReconcilerInv, WalInv
  <1> QED
    BY <1>7, <1>8, <1>9, <1>10, <1>11, <1>12 DEF LifecycleInv

-----------------------------------------------------------------------------
\* The commands.

LEMMA BeginStep ==
    ASSUME LifecycleInv, NEW for \in Caller, NEW c, Begin(for, c),
           for \in {"evidence", "bind"} => c = Next1,
           for = "evidence" => evidence = None,
           for = "bind" => Secure /\ pending # None /\ pending.cycle = Next1
    PROVE  LifecycleInv'
  <1>1. /\ task = NoTask /\ wal = None /\ shadow = None /\ shadow' = None
        /\ task' = [NoTask EXCEPT !.for = for, !.cycle = c, !.pc = "check"]
        /\ UNCHANGED <<source, bytes, shadow, store, active, acks, done, ids>>
        /\ wal' = None /\ evidence' = evidence /\ pending' = pending /\ reconciler' = reconciler
    BY DEF Begin, disk, commands, LifecycleInv, NamesInv, NoTask
  <1>2. /\ DOMAIN task' = {"for", "cycle", "pc", "seen"} /\ task'.for = for /\ task'.cycle = c
        /\ task'.pc = "check"
    BY <1>1 DEF NoTask
  <1>3. DataInv' /\ AgreeInv' /\ NamesInv' /\ Next1' = Next1 /\ (Secure <=> Secure')
    BY <1>1, StateKept
  <1>4. TaskInv'
    <2>1. task' # NoTask /\ for # "idle"
      BY <1>2 DEF NoTask, Caller
    <2>2. PlaceInv' /\ CleanupInv' /\ ClaimInv'
      BY <1>2 DEF PlaceInv, CleanupInv, ClaimInv
    <2> QED
      BY <1>1, <1>2, <1>3, <2>1, <2>2 DEF TaskInv, Pcs
  <1>5. PacketInv' /\ ReconcilerInv' /\ WalInv'
    BY <1>1, <1>3 DEF LifecycleInv, PacketInv, ReconcilerInv, WalInv
  <1> QED
    BY <1>3, <1>4, <1>5 DEF LifecycleInv

LEMMA StartStep == ASSUME LifecycleInv, Start PROVE LifecycleInv'
  <1>1. CASE StartEvidence
    BY <1>1, BeginStep DEF StartEvidence, Next1, Caller
  <1>2. CASE StartBind /\ pending.claim # None
    BY <1>2, BeginStep DEF StartBind, Next1, Caller, LifecycleInv, PacketInv
  <1>3. CASE StartBind /\ pending.claim = None
    <2>1. /\ task = NoTask /\ wal = None /\ active = None /\ pending # None
          /\ pending.cycle = Next1 /\ reconciler' = pending
          /\ UNCHANGED <<source, bytes, shadow, store, active, acks, done, ids>>
          /\ wal' = wal /\ task' = task /\ evidence' = evidence /\ pending' = pending
      BY <1>3 DEF StartBind, disk, Next1
    <2>2. shadow = None
      BY <2>1 DEF LifecycleInv, NamesInv, NoTask
    <2>3. DataInv' /\ AgreeInv' /\ NamesInv' /\ Next1' = Next1 /\ (Secure <=> Secure')
      BY <2>1, <2>2, StateKept
    <2>4. TaskInv' /\ PacketInv'
      BY <2>1, <2>3, NoTaskInv DEF LifecycleInv, PacketInv
    <2>5. ReconcilerInv' /\ WalInv'
      BY <1>3, <2>1, <2>3 DEF LifecycleInv, PacketInv, ReconcilerInv, WalInv
    <2> QED
      BY <2>3, <2>4, <2>5 DEF LifecycleInv
  <1>4. CASE StartRecover
    BY <1>4, BeginStep DEF StartRecover, Caller
  <1>5. CASE StartFinalize
    BY <1>5, BeginStep DEF StartFinalize, Caller
  <1> QED
    BY <1>1, <1>2, <1>3, <1>4, <1>5 DEF Start

\* What is staged is on the active claim.
LEMMA ExpectedIsActive ==
    ASSUME NEW cycle, NEW claim, Expected(cycle, claim, FALSE) PROVE claim = active
  BY DEF Expected

LEMMA SealPacketStep == ASSUME LifecycleInv, SealPacket PROVE LifecycleInv'
  <1>1. /\ evidence # None /\ pending' = evidence /\ evidence' = None
        /\ UNCHANGED <<source, bytes, shadow, store, active, acks, done, wal, task, reconciler, ids>>
    BY DEF SealPacket, disk
  <1>2. /\ evidence.cycle \in Nat /\ evidence.cycle <= Next1 /\ Next1 \in Nat
        /\ evidence.cycle = Next1 => evidence.claim = active /\ (active # None => Secure)
        /\ pending # None => pending.cycle \in Nat /\ pending.cycle <= evidence.cycle
    BY <1>1, NextIsOpen DEF LifecycleInv, PacketInv
  <1>3. /\ DataInv' /\ AgreeInv' /\ Next1' = Next1 /\ (Secure <=> Secure')
        /\ \A cycle, claim : Expected(cycle, claim, FALSE) => Expected(cycle, claim, FALSE)'
    BY <1>1 DEF LifecycleInv, DataInv, AgreeInv, Acknowledged, Inventory, ClaimCycle, Receipted,
         Complete, Applied, Next1, Secure, Intact, Named, Matches, Observed, Expected
  <1>4. NamesInv'
    BY <1>1 DEF LifecycleInv, NamesInv, Applied, Held
  <1>5. TaskInv'
    <2>1. Relied' => Relied
      BY <1>1, <1>2, <1>3 DEF Relied
    <2>2. PlaceInv' /\ CleanupInv' /\ ClaimInv'
      BY <1>1, <2>1 DEF LifecycleInv, TaskInv, PlaceInv, CleanupInv, ClaimInv, Complete, Receipted,
                        Intact, Named, Matches, Observed, ClaimHeld, Applied, Held
    <2>3. task.for = "bind" => evidence.cycle = Next1
      BY <1>2 DEF LifecycleInv, TaskInv
    <2> QED
      BY <1>1, <1>3, <2>2, <2>3 DEF LifecycleInv, TaskInv
  <1>6. PacketInv'
    BY <1>1, <1>2, <1>3 DEF LifecycleInv, PacketInv
  <1>7. ReconcilerInv'
    BY <1>1, <1>2, <1>3 DEF LifecycleInv, ReconcilerInv
  <1>8. WalInv'
    <2>1. ASSUME wal # None, wal.cycle = Next1
          PROVE  evidence.cycle = Next1 /\ evidence.claim = wal.claim
      <3>1. wal.claim = active /\ pending # None /\ pending.cycle = Next1
        BY <2>1, ExpectedIsActive DEF LifecycleInv, WalInv
      <3>2. evidence.cycle = Next1
        BY <1>2, <3>1
      <3> QED
        BY <1>2, <3>1, <3>2
    <2>2. wal' = wal /\ task' = task /\ done' = done
      BY <1>1
    <2>3. WalInv
      BY DEF LifecycleInv
    <2> QED
      BY <1>1, <1>3, <2>1, <2>2, <2>3 DEF WalInv
  <1> QED
    BY <1>3, <1>4, <1>5, <1>6, <1>7, <1>8 DEF LifecycleInv

LEMMA StageStep == ASSUME LifecycleInv, Stage PROVE LifecycleInv'
  <1>1. /\ task = NoTask /\ task' = NoTask /\ reconciler # None /\ reconciler' = None
        /\ UNCHANGED <<source, bytes, shadow, store, active, acks, done, evidence, pending, ids>>
        /\ \/ wal' = wal
           \/ /\ wal' = reconciler /\ reconciler.cycle = Next1
              /\ Expected(reconciler.cycle, reconciler.claim, FALSE)
    BY DEF Stage, Next1
  <1>2. shadow = None
    BY <1>1 DEF LifecycleInv, NamesInv, NoTask
  <1>3. /\ DataInv' /\ AgreeInv' /\ NamesInv' /\ Next1' = Next1 /\ (Secure <=> Secure')
        /\ \A cycle, claim : Expected(cycle, claim, FALSE) => Expected(cycle, claim, FALSE)'
    BY <1>1, <1>2, StateKept
  <1>4. TaskInv' /\ PacketInv' /\ ReconcilerInv'
    BY <1>1, <1>3, NoTaskInv DEF LifecycleInv, PacketInv, ReconcilerInv
  <1>5. CASE wal' = wal
    <2>1. WalInv'
      BY <1>1, <1>3, <1>5 DEF LifecycleInv, WalInv
    <2> QED
      BY <1>3, <1>4, <2>1 DEF LifecycleInv
  <1>6. CASE /\ wal' = reconciler /\ reconciler.cycle = Next1
             /\ Expected(reconciler.cycle, reconciler.claim, FALSE)
    <2>1. reconciler.claim = active /\ active \in Claims \cup {None}
      BY <1>6, ExpectedIsActive DEF LifecycleInv, DataInv
    <2>2. pending # None /\ pending.cycle = Next1 /\ pending.claim = active
          /\ Next1 \in Nat /\ Next1 # 0
      BY <1>1, <1>6, <2>1, NextIsOpen DEF LifecycleInv, ReconcilerInv, PacketInv, Next1
    <2>3. WalInv'
      BY <1>1, <1>3, <1>6, <2>1, <2>2 DEF WalInv
    <2> QED
      BY <1>3, <1>4, <2>3 DEF LifecycleInv
  <1> QED
    BY <1>1, <1>5, <1>6

\* A cycle is completed on the staged packet.
LEMMA Completes ==
    ASSUME LifecycleInv, Replay, ~Complete(wal.cycle)
    PROVE  /\ wal.cycle = Next1 /\ pending # None /\ pending.claim = wal.claim
           /\ wal.claim = active /\ done' = Append(done, wal.claim)
           /\ Len(done') = Next1 /\ done'[Next1] = wal.claim
           /\ DOMAIN done' = 1..Next1 /\ Next1 \in Nat \ {0}
           /\ \A c \in DOMAIN done : done'[c] = done[c] /\ c # Next1
           /\ active # None => Secure /\ active.cycle = Next1 /\ active.inode \notin Applied
  <1>1. /\ wal # None /\ done' = Append(done, wal.claim)
        /\ wal.claim \in Claims \cup {None} /\ done \in Seq(Claims \cup {None})
        /\ wal.cycle \in {Len(done), Next1} /\ wal.cycle # 0
    BY DEF Replay, Receipt, LifecycleInv, WalInv, DataInv
  <1>2. Len(done) \in Nat /\ DOMAIN done = 1..Len(done) /\ Next1 \in Nat \ {0}
    BY <1>1 DEF Next1
  <1>3. wal.cycle = Next1
    BY <1>1, <1>2 DEF Complete
  <1>4. pending # None /\ pending.cycle = Next1 /\ pending.claim = wal.claim /\ wal.claim = active
    BY <1>1, <1>3, ExpectedIsActive DEF LifecycleInv, WalInv
  <1>5. active # None => Secure /\ active.cycle = Next1 /\ active.inode \notin Applied
    BY <1>4, SecureIsOpen DEF LifecycleInv, PacketInv, Secure, AgreeInv
  <1>6. /\ Len(done') = Next1 /\ done'[Next1] = wal.claim /\ DOMAIN done' = 1..Next1
        /\ \A c \in DOMAIN done : done'[c] = done[c] /\ c # Next1
    BY <1>1, <1>2 DEF Next1
  <1> QED
    BY <1>1, <1>2, <1>3, <1>4, <1>5, <1>6

LEMMA AppliedGrows ==
    ASSUME LifecycleInv, Replay, ~Complete(wal.cycle)
    PROVE  Applied' = Applied \cup (IF active = None THEN {} ELSE {active.inode})
  <1>1. \A c : c \in DOMAIN done' <=> c \in DOMAIN done \/ c = Next1
    BY Completes, NextIsOpen DEF LifecycleInv, Next1
  <1>2. \A i : i \in Applied' <=> \E c \in DOMAIN done' : done'[c] # None /\ i = done'[c].inode
    BY DEF Applied
  <1>3. \A i : i \in Applied <=> \E c \in DOMAIN done : done[c] # None /\ i = done[c].inode
    BY DEF Applied
  <1> QED
    BY <1>1, <1>2, <1>3, Completes

LEMMA ReplayStep == ASSUME LifecycleInv, Replay PROVE LifecycleInv'
  <1>1. /\ task = NoTask /\ task' = NoTask /\ wal # None /\ shadow = None
        /\ UNCHANGED <<source, bytes, shadow, store, active, acks, ids>>
        /\ evidence' = evidence /\ pending' = pending /\ reconciler' = reconciler
        /\ Expected(wal.cycle, wal.claim, FALSE)
    BY DEF Replay, commands, LifecycleInv, NamesInv, NoTask, WalInv
  <1>2. CASE Complete(wal.cycle)
    <2>1. wal' = None /\ done' = done
      BY <1>2 DEF Replay
    <2>2. DataInv' /\ AgreeInv' /\ NamesInv' /\ Next1' = Next1 /\ (Secure <=> Secure')
      BY <1>1, <2>1, StateKept
    <2>3. TaskInv' /\ PacketInv' /\ ReconcilerInv' /\ WalInv'
      BY <1>1, <2>1, <2>2, NoTaskInv DEF LifecycleInv, PacketInv, ReconcilerInv, WalInv
    <2> QED
      BY <2>2, <2>3 DEF LifecycleInv
  <1>3. CASE ~Complete(wal.cycle)
    <2>1. /\ wal.cycle = Next1 /\ wal.claim = active /\ done' = Append(done, wal.claim)
          /\ Len(done') = Next1 /\ done'[Next1] = active
          /\ DOMAIN done' = 1..Next1 /\ Next1 \in Nat \ {0}
          /\ \A c \in DOMAIN done : done'[c] = done[c] /\ c # Next1
          /\ active # None => Secure /\ active.cycle = Next1 /\ active.inode \notin Applied
      BY <1>3, Completes
    <2>2. wal' = wal
      BY <1>3 DEF Replay
    <2>3. /\ \A c : c \in DOMAIN done' <=> c \in DOMAIN done \/ c = Next1
          /\ Next1' = Next1 + 1
      BY <2>1, NextIsOpen DEF LifecycleInv, Next1
    <2>4. DataInv'
      BY <1>1, <2>1 DEF LifecycleInv, DataInv
    <2>5. Acknowledged(ClaimCycle)'
      BY <1>1, <2>1, <2>3 DEF LifecycleInv, AgreeInv, Acknowledged, ClaimCycle, Receipted, Complete
    <2>6. AgreeInv'
      <3>1. Inventory'
        BY <1>1 DEF LifecycleInv, AgreeInv, Inventory
      <3>2. active # None => Complete(active.cycle)' /\ done'[active.cycle] = active
        BY <1>1, <2>1, <2>3 DEF Complete
      <3>3. \A c \in DOMAIN done' : done'[c] # None => done'[c].cycle = c
        BY <2>1, <2>3 DEF LifecycleInv, AgreeInv
      <3> QED
        BY <1>1, <2>5, <3>1, <3>2, <3>3 DEF LifecycleInv, AgreeInv
    <2>7. NamesInv'
      <3>1. Applied' = Applied \cup (IF active = None THEN {} ELSE {active.inode})
        BY <1>3, AppliedGrows
      <3>2. active # None => source # active.inode /\ Named("dup") = {}
        BY <2>1 DEF Secure
      <3>3. \A f \in store : active # None /\ f.name # "dup"
        BY <3>2, NamedWithin DEF LifecycleInv, AgreeInv, Inventory
      <3> QED
        BY <1>1, <3>1, <3>2, <3>3 DEF LifecycleInv, NamesInv
    <2>8. TaskInv'
      BY <1>1, NoTaskInv
    <2>9. PacketInv' /\ ReconcilerInv'
      BY <1>1, <2>1, <2>3 DEF LifecycleInv, PacketInv, ReconcilerInv
    <2>10. WalInv'
      <3>1. Expected(wal.cycle, wal.claim, FALSE)'
        BY <1>1, <2>1, <2>2, <2>5
           DEF Expected, Inventory, Intact, Named, Matches, Observed
      <3> QED
        BY <1>1, <2>1, <2>2, <2>3, <3>1 DEF LifecycleInv, WalInv
    <2> QED
      BY <2>4, <2>6, <2>7, <2>8, <2>9, <2>10 DEF LifecycleInv
  <1> QED
    BY <1>2, <1>3

LEMMA CrashStep == ASSUME LifecycleInv, Crash PROVE LifecycleInv'
  <1>1. /\ task' = NoTask /\ evidence' = None /\ reconciler' = None /\ shadow' = None
        /\ pending' = pending
        /\ UNCHANGED <<bytes, store, active, acks, done, wal, ids>>
        /\ source' = source \/ (source = None /\ source' = shadow)
    BY DEF Crash, disk
  <1>2. Applied' = Applied /\ Next1' = Next1
    BY <1>1 DEF Applied, Next1
  <1>3. DataInv' /\ AgreeInv'
    BY <1>1, <1>2 DEF LifecycleInv, DataInv, AgreeInv, Acknowledged, Inventory, ClaimCycle,
                      Receipted, Complete
  <1>4. None \notin Applied
    BY DirectiveAssumption DEF Applied, LifecycleInv, DataInv, Claims
  <1>5. NamesInv'
    BY <1>1, <1>2, <1>4 DEF LifecycleInv, NamesInv
  <1>6. TaskInv'
    BY <1>1, NoTaskInv
  <1>7. Relied => source' = source
    BY <1>1 DEF LifecycleInv, NamesInv, TaskInv, CleanupInv
  <1>8. PacketInv'
    <2>1. Relied /\ Secure => Secure'
      BY <1>1, <1>2, <1>7 DEF Secure, Intact, Named, Matches, Observed
    <2> QED
      BY <1>1, <1>2, <2>1 DEF LifecycleInv, PacketInv, Relied
  <1>9. ReconcilerInv'
    BY <1>1 DEF ReconcilerInv
  <1>10. WalInv'
    <2>1. \A cycle, claim : Expected(cycle, claim, FALSE) => Expected(cycle, claim, FALSE)'
      BY <1>1 DEF Acknowledged, Inventory, ClaimCycle, Receipted, Complete,
                  Intact, Named, Matches, Observed, Expected
    <2> QED
      BY <1>1, <1>2, <2>1 DEF LifecycleInv, WalInv
  <1> QED
    BY <1>3, <1>5, <1>6, <1>8, <1>9, <1>10 DEF LifecycleInv

-----------------------------------------------------------------------------
\* The operator.

\* The inbox comes to hold another file, or none: never one the state holds or a cycle
\* has applied.
LEMMA SourceMoves ==
    ASSUME LifecycleInv, source' \in Inode \cup {None}, source' \notin Held \cup Applied,
           UNCHANGED <<bytes, shadow, disk, task, commands, ids>>
    PROVE  LifecycleInv'
  <1>1. /\ UNCHANGED <<bytes, shadow, store, active, acks, done, wal, task, ids>>
        /\ evidence' = evidence /\ pending' = pending /\ reconciler' = reconciler
    BY DEF disk, commands
  <1>2. Applied' = Applied /\ Held' = Held /\ Next1' = Next1
        /\ (\A name : Named(name)' = Named(name) /\ Intact(name)' = Intact(name))
    BY <1>1 DEF Applied, Held, Next1, Named, Intact, Matches, Observed
  <1>3. ClaimHeld => ClaimHeld' /\ source' # active.inode
    BY <1>1, <1>2, ClaimHeldIsHeld DEF ClaimHeld
  <1>4. DataInv' /\ AgreeInv' /\ NamesInv'
    BY <1>1, <1>2 DEF LifecycleInv, DataInv, AgreeInv, NamesInv, Acknowledged, Inventory,
                      ClaimCycle, Receipted, Complete
  <1>5. Secure => Secure'
    BY <1>1, <1>2, <1>3, SecureIsOpen DEF LifecycleInv, Secure
  <1>6. Relied' => Relied
    BY <1>1, <1>2 DEF Relied
  <1>7. TaskInv'
    <2>1. PlaceInv'
      BY <1>1, <1>2 DEF LifecycleInv, TaskInv, PlaceInv, Complete
    <2>2. CleanupInv' /\ ClaimInv'
      BY <1>1, <1>2, <1>3, <1>6 DEF LifecycleInv, TaskInv, CleanupInv, ClaimInv, Receipted, Complete
    <2> QED
      BY <1>1, <1>2, <1>5, <2>1, <2>2 DEF LifecycleInv, TaskInv
  <1>8. PacketInv' /\ ReconcilerInv'
    BY <1>1, <1>2, <1>5 DEF LifecycleInv, PacketInv, ReconcilerInv
  <1>9. WalInv'
    BY <1>1, <1>2 DEF LifecycleInv, WalInv, Expected, Acknowledged, Inventory, ClaimCycle,
                      Receipted, Complete
  <1> QED
    BY <1>4, <1>7, <1>8, <1>9 DEF LifecycleInv

LEMMA EditStep == ASSUME LifecycleInv, EditInPlace PROVE LifecycleInv'
  <1>1. /\ UNCHANGED <<source, shadow, store, active, acks, done, wal, task, ids>>
        /\ evidence' = evidence /\ pending' = pending /\ reconciler' = reconciler
        /\ source # None /\ bytes' = [bytes EXCEPT ![source] = @ + 1]
    BY DEF EditInPlace, disk, commands
  <1>2. Applied' = Applied /\ Held' = Held /\ Next1' = Next1
        /\ (\A name : Named(name)' = Named(name))
    BY <1>1 DEF Applied, Held, Next1, Named
  <1>3. \A i : i # source => Matches(i)' = Matches(i)
    <2>1. \A i : i # source => bytes'[i] = bytes[i]
      BY <1>1 DEF LifecycleInv, DataInv
    <2> QED
      BY <1>1, <2>1 DEF Matches, Observed
  <1>4. Intact("claim") /\ source # active.inode => Intact("claim")'
    BY <1>2, <1>3 DEF Intact, Matches, Observed
  <1>5. source \notin Held => (Intact("claim")' => Intact("claim"))
    <2>1. \A f \in Named("claim") : f.inode \in Held
      BY HeldHas DEF Named
    <2> QED
      BY <1>2, <1>3, <2>1 DEF Intact
  <1>6. DataInv' /\ AgreeInv' /\ NamesInv'
    BY <1>1, <1>2 DEF LifecycleInv, DataInv, AgreeInv, NamesInv, Acknowledged, Inventory,
                      ClaimCycle, Receipted, Complete
  <1>7. Secure => Secure'
    BY <1>1, <1>2, <1>4 DEF Secure
  <1>8. Relied' => Relied
    BY <1>1, <1>2 DEF Relied
  <1>9. TaskInv'
    <2>1. PlaceInv'
      BY <1>1, <1>2, <1>5 DEF LifecycleInv, TaskInv, PlaceInv, Complete
    <2>2. CleanupInv' /\ ClaimInv'
      BY <1>1, <1>2, <1>8 DEF LifecycleInv, TaskInv, CleanupInv, ClaimInv, ClaimHeld, Receipted,
                              Complete
    <2> QED
      BY <1>1, <1>2, <1>7, <2>1, <2>2 DEF LifecycleInv, TaskInv
  <1>10. PacketInv' /\ ReconcilerInv'
    BY <1>1, <1>2, <1>7 DEF LifecycleInv, PacketInv, ReconcilerInv
  <1>11. WalInv'
    <2> SUFFICES ASSUME wal # None PROVE WalInv'
      BY <1>1 DEF WalInv
    <2>1. wal.claim = active /\ Expected(wal.cycle, wal.claim, FALSE)
      BY ExpectedIsActive DEF LifecycleInv, WalInv
    <2>2. active # None => source # active.inode
      <3>1. CASE wal.cycle = Next1
        BY <2>1, <3>1 DEF LifecycleInv, WalInv, PacketInv, Secure
      <3>2. CASE wal.cycle # Next1
        <4>1. active # None => active.cycle = wal.cycle
          BY <2>1 DEF Expected
        <4>2. Complete(wal.cycle)
          BY <3>2, NextIsOpen DEF LifecycleInv, WalInv, Complete
        <4> QED
          BY <4>1, <4>2, ReceiptedApplied DEF LifecycleInv, AgreeInv, Receipted
      <3> QED
        BY <3>1, <3>2
    <2>3. Expected(wal.cycle, wal.claim, FALSE)'
      BY <1>1, <1>2, <1>4, <2>1, <2>2 DEF Expected, Acknowledged, Inventory, ClaimCycle,
                                          Receipted, Complete
    <2> QED
      BY <1>1, <1>2, <2>3 DEF LifecycleInv, WalInv
  <1> QED
    BY <1>6, <1>9, <1>10, <1>11 DEF LifecycleInv

LEMMA NoneIsNoFile == ASSUME DataInv PROVE None \notin Held \cup Applied
  BY DirectiveAssumption DEF DataInv, Held, Applied, Claims

LEMMA OperatorStep == ASSUME LifecycleInv, Operator PROVE LifecycleInv'
  <1>1. CASE Withdraw
    BY <1>1, NoneIsNoFile, SourceMoves DEF Withdraw, LifecycleInv
  <1>2. CASE \E i \in Inode : Submit(i)
    BY <1>2, SourceMoves DEF Submit, Fresh
  <1> QED
    BY <1>1, <1>2, EditStep DEF Operator

LEMMA LifecycleStep == LifecycleInv /\ [Next]_vars => LifecycleInv'
  <1> SUFFICES ASSUME LifecycleInv, [Next]_vars PROVE LifecycleInv'
    OBVIOUS
  <1>1. CASE UNCHANGED vars
    <2>1. /\ UNCHANGED <<source, bytes, shadow, store, active, acks, done, wal, task, ids>>
          /\ evidence' = evidence /\ pending' = pending /\ reconciler' = reconciler
      BY <1>1 DEF vars, disk, commands
    <2>2. /\ DataInv' /\ AgreeInv' /\ NamesInv' /\ Next1' = Next1 /\ (Secure <=> Secure')
          /\ (Relied <=> Relied')
          /\ \A cycle, claim : Expected(cycle, claim, FALSE) => Expected(cycle, claim, FALSE)'
      BY <2>1 DEF LifecycleInv, DataInv, AgreeInv, NamesInv, Acknowledged, Inventory, ClaimCycle,
         Receipted, Complete, Applied, Held, Next1, Secure, Relied, Intact, Named, Matches,
         Observed, Expected
    <2>3. PlaceInv' /\ CleanupInv' /\ ClaimInv'
      BY <2>1, <2>2 DEF LifecycleInv, TaskInv, PlaceInv, CleanupInv, ClaimInv, ClaimHeld, Named,
                        Intact, Matches, Observed, Held, Applied, Receipted, Complete
    <2> QED
      BY <2>1, <2>2, <2>3 DEF LifecycleInv, TaskInv, PacketInv, ReconcilerInv, WalInv
  <1>2. CASE Next
    BY <1>2, OperatorStep, StartStep, CheckStep, CheckFinalizeStep, PlaceStep, VerifyStep,
       RestoreStep, AbandonStep, DupStep, QuarantineStep, InspectStep, CleanupStep, BuryStep,
       UnlinkTombStep, AcknowledgeStep, RetireStep, PlacedStep, ClaimStep, WriteIntentStep,
       SourceChangedStep, SealPacketStep, StageStep, ReplayStep, CrashStep
       DEF Next, Step
  <1> QED
    BY <1>1, <1>2

\* Every reachable state is in the inductive invariant: names, archive and
\* acknowledgements agree, and a sealed packet's claim cannot be taken from it.
THEOREM LifecycleSafe == Spec => []LifecycleInv
  BY LifecycleInit, LifecycleStep, PTL DEF Spec

-----------------------------------------------------------------------------
\* Nothing is refused.

LEMMA AtMostOneFile ==
    ASSUME LifecycleInv, active # None
    PROVE  Cardinality(Named("claim")) + Cardinality(Named("tomb")) <= 1
  <1>1. \A f, g \in Named("claim") \cup Named("tomb") : f = g
    BY DEF Named, LifecycleInv, NamesInv
  <1>2. \A f \in Named("claim") : f.name = "claim"
    BY DEF Named
  <1>3. \A f \in Named("tomb") : f.name = "tomb"
    BY DEF Named
  <1>4. CASE Named("claim") = {} /\ Named("tomb") = {}
    BY <1>4, FS_EmptySet
  <1>5. ASSUME NEW f \in Named("claim")
        PROVE  Cardinality(Named("claim")) = 1 /\ Cardinality(Named("tomb")) = 0
    <2>1. Named("claim") = {f} /\ Named("tomb") = {}
      BY <1>1, <1>2, <1>3
    <2> QED
      BY <2>1, FS_EmptySet, FS_Singleton
  <1>6. ASSUME NEW f \in Named("tomb")
        PROVE  Cardinality(Named("claim")) = 0 /\ Cardinality(Named("tomb")) = 1
    <2>1. Named("tomb") = {f} /\ Named("claim") = {}
      BY <1>1, <1>2, <1>3
    <2> QED
      BY <2>1, FS_EmptySet, FS_Singleton
  <1> QED
    BY <1>4, <1>5, <1>6

-----------------------------------------------------------------------------
\* What becomes of a claim.

\* Beside what the property says, a claim still finds in the inbox what it has read or
\* is about to retire, unless the operator has touched it there.
HonourInv ==
    /\ ClaimHonoured
    /\ task.pc = "intent" /\ ~disturbed =>
           source = task.seen.inode /\ bytes[task.seen.inode] = task.seen.ver
    /\ task.pc \in {"quarantine", "inspect"} => ~Complete(active.cycle)
    /\ task.pc = "quarantine" /\ ~disturbed => source = active.inode

LEMMA CompleteIsReceipted ==
    ASSUME LifecycleInv, active # None, Complete(active.cycle)
    PROVE  Receipted(active.cycle) /\ source # active.inode
  <1>1. Receipted(active.cycle)
    BY DEF LifecycleInv, AgreeInv, Receipted
  <1> QED
    BY <1>1, ReceiptedApplied

\* An incomplete claim whose file nobody touched is as it was read, under every name.
LEMMA UndisturbedIntact ==
    ASSUME HonourInv, active # None, ~Complete(active.cycle), ~disturbed, NEW name,
           Named(name) # {}
    PROVE  Intact(name)
  BY DEF HonourInv, ClaimHonoured, AsSeen, Intact, Matches, Observed, Named

\* A step that moves no file and starts no claim.
LEMMA HonourKept ==
    ASSUME HonourInv, UNCHANGED <<source, bytes, store, active, done, disturbed>>,
           task'.pc \notin {"intent", "quarantine", "inspect"} \/ task' = task
    PROVE  HonourInv'
  BY DEF HonourInv, ClaimHonoured, Complete, AsSeen, Named, Matches, Observed

LEMMA LeftOrGone ==
    ASSUME LifecycleInv, NEW pc \in Pcs \ {"idle", "intent", "quarantine", "inspect"},
           Leave \/ Goto(pc) \/ Deliver
    PROVE  task'.pc \notin {"intent", "quarantine", "inspect"}
  BY GotoIs DEF Leave, Deliver, NoTask

\* The steps of a call that only look.
LEMMA LookingHonours ==
    ASSUME LifecycleInv, HonourInv,
           \/ Check \/ CheckFinalize \/ Verify \/ Cleanup \/ Acknowledge \/ Placed
           \/ SourceChanged
    PROVE  HonourInv'
  <1>1. UNCHANGED <<source, bytes, store, active, done, disturbed>>
    BY DEF Check, CheckFinalize, Verify, Cleanup, Acknowledge, Placed, SourceChanged, disk, history
  <1>2. CASE Check
    BY <1>1, <1>2, LeftOrGone, HonourKept DEF Check, Pcs
  <1>3. CASE CheckFinalize
    BY <1>1, <1>3, LeftOrGone, HonourKept DEF CheckFinalize, Pcs
  <1>4. CASE Verify
    BY <1>1, <1>4, LeftOrGone, HonourKept DEF Verify, Pcs
  <1>5. CASE Cleanup
    BY <1>1, <1>5, LeftOrGone, HonourKept DEF Cleanup, Pcs
  <1>6. CASE Acknowledge
    BY <1>1, <1>6, LeftOrGone, HonourKept DEF Acknowledge, Pcs
  <1>7. CASE Placed
    BY <1>1, <1>7, LeftOrGone, HonourKept DEF Placed, Pcs
  <1>8. CASE SourceChanged
    BY <1>1, <1>8, LeftOrGone, HonourKept DEF SourceChanged, Pcs
  <1> QED
    BY <1>2, <1>3, <1>4, <1>5, <1>6, <1>7, <1>8

\* What is moved to the claim's name is what was read, unless it was touched.
LEMMA PlaceHonours == ASSUME LifecycleInv, HonourInv, Place PROVE HonourInv'
  <1>1. /\ task.pc = "place" /\ active # None /\ ~Complete(active.cycle) /\ Named("tomb") = {}
        /\ UNCHANGED <<bytes, active, done, disturbed>>
    BY DEF Place, LifecycleInv, TaskInv, PlaceInv, history
  <1>2. CASE UNCHANGED <<source, shadow, store>>
    BY <1>1, <1>2, LeftOrGone, HonourKept DEF Place, Pcs, TakeFromInbox
  <1>3. CASE Named("claim") = {} /\ TakeFromInbox("claim") /\ Goto("verify")
    <2> DEFINE new == File("claim", source)
    <2>1. /\ store' = store \cup {new} /\ new.name = "claim" /\ new.id = active.id
          /\ new.inode = source
      BY <1>3 DEF TakeFromInbox, File
    <2> HIDE DEF new
    <2>2. task'.pc = "verify"
      BY <1>3, GotoIs DEF Pcs
    <2>3. new \in Named("claim")' /\ Named("tomb")' = {}
      BY <1>1, <2>1 DEF Named
    <2>4. disturbed \/ source = active.inode
      BY <1>1, <1>3 DEF HonourInv, ClaimHonoured, AsSeen
    <2>5. ClaimHonoured'
      BY <1>1, <2>1, <2>3, <2>4 DEF HonourInv, ClaimHonoured, AsSeen, Complete
    <2> QED
      BY <2>2, <2>5 DEF HonourInv
  <1> QED
    BY <1>2, <1>3 DEF Place

\* Only what somebody touched is put back.
LEMMA RestoreHonours == ASSUME LifecycleInv, HonourInv, Restore PROVE HonourInv'
  <1>1. /\ task.pc = "restore" /\ active # None /\ ~Complete(active.cycle)
        /\ Named("tomb") = {} /\ Named("dup") = {} /\ ~Intact("claim")
        /\ UNCHANGED <<bytes, active, done, disturbed>>
    BY DEF Restore, LifecycleInv, TaskInv, PlaceInv, history
  <1>2. CASE Leave /\ UNCHANGED <<source, store>>
    BY <1>1, <1>2, LeftOrGone, HonourKept DEF Pcs
  <1>3. CASE /\ \E f \in Named("claim") : source' = f.inode /\ store' = store \ {f}
             /\ Goto("abandon")
    <2>1. disturbed
      BY <1>1, <1>3, UndisturbedIntact
    <2>2. Named("tomb")' = {} /\ Named("dup")' = {}
      BY <1>1, <1>3 DEF Named
    <2>3. ClaimHonoured'
      BY <1>1, <2>1, <2>2 DEF HonourInv, ClaimHonoured, Complete
    <2> QED
      BY <1>3, <2>3, LeftOrGone DEF HonourInv, Pcs
  <1> QED
    BY <1>2, <1>3 DEF Restore

LEMMA ClaimEndsHonoured ==
    ASSUME LifecycleInv, HonourInv, Abandon \/ Retire PROVE HonourInv'
  <1>1. active' = None
    BY DEF Abandon, Retire
  <1>2. task'.pc \notin {"intent", "quarantine", "inspect"}
    BY LeftOrGone DEF Abandon, Retire, Pcs
  <1> QED
    BY <1>1, <1>2 DEF HonourInv, ClaimHonoured

\* A second name is retired, and the claim's own name stays.
LEMMA RetiredHonours ==
    ASSUME LifecycleInv, HonourInv, active # None, ClaimHeld, store' = store \ Named("dup"),
           UNCHANGED <<source, bytes, active, done, disturbed>>
    PROVE  ClaimHonoured'
  <1>1. Named("claim")' = Named("claim") /\ Named("tomb")' = Named("tomb") /\ Named("dup")' = {}
    BY DEF Named
  <1>2. Named("claim") # {}
    BY DEF ClaimHeld
  <1> QED
    BY <1>1, <1>2 DEF HonourInv, ClaimHonoured, AsSeen, Complete, Matches, Observed

LEMMA DupHonours == ASSUME LifecycleInv, HonourInv, Dup PROVE HonourInv'
  <1>1. /\ active # None /\ ClaimHeld
        /\ UNCHANGED <<source, bytes, active, done, disturbed>>
    BY DEF Dup, LifecycleInv, TaskInv, CleanupInv, history
  <1>2. CASE Leave /\ UNCHANGED store
    BY <1>1, <1>2, LeftOrGone, HonourKept DEF Pcs
  <1>3. ASSUME store' = store \ Named("dup"), NEW pc \in {"dup", "placed", "bury"}, Goto(pc)
        PROVE  HonourInv'
    <2>1. ClaimHonoured'
      BY <1>1, <1>3, RetiredHonours
    <2> QED
      BY <1>3, <2>1, LeftOrGone DEF HonourInv, Pcs
  <1>4. CASE store' = store \ Named("dup") /\ source = active.inode /\ Goto("quarantine")
    <2>1. ClaimHonoured'
      BY <1>1, <1>4, RetiredHonours
    <2>2. ~Complete(active.cycle)
      BY <1>1, <1>4, CompleteIsReceipted
    <2>3. task'.pc = "quarantine"
      BY <1>4, GotoIs DEF Pcs
    <2> QED
      BY <1>1, <1>4, <2>1, <2>2, <2>3 DEF HonourInv, Complete
  <1> QED
    BY <1>2, <1>3, <1>4 DEF Dup, AfterDup

LEMMA QuarantineHonours == ASSUME LifecycleInv, HonourInv, Quarantine PROVE HonourInv'
  <1>1. /\ task.pc = "quarantine" /\ active # None /\ ClaimHeld /\ ~Complete(active.cycle)
        /\ disturbed \/ source = active.inode
        /\ UNCHANGED <<bytes, active, done, disturbed>>
    BY DEF Quarantine, LifecycleInv, TaskInv, CleanupInv, HonourInv, history
  <1>2. CASE Leave /\ UNCHANGED <<source, shadow, store>>
    BY <1>1, <1>2, LeftOrGone, HonourKept DEF Pcs
  <1>3. CASE TakeFromInbox("dup") /\ Goto("inspect")
    <2> DEFINE new == File("dup", source)
    <2>1. store' = store \cup {new} /\ new.name = "dup" /\ new.inode = source
      BY <1>3 DEF TakeFromInbox, File
    <2> HIDE DEF new
    <2>2. task'.pc = "inspect"
      BY <1>3, GotoIs DEF Pcs
    <2>3. Named("claim")' # {} /\ Named("tomb")' = Named("tomb")
      BY <1>1, <2>1 DEF Named, ClaimHeld
    <2>4. ClaimHonoured'
      BY <1>1, <2>1, <2>3 DEF HonourInv, ClaimHonoured, AsSeen, Complete
    <2> QED
      BY <1>1, <2>2, <2>4 DEF HonourInv, Complete
  <1> QED
    BY <1>2, <1>3 DEF Quarantine

LEMMA InspectHonours == ASSUME LifecycleInv, HonourInv, Inspect PROVE HonourInv'
  <1>1. /\ task.pc = "inspect" /\ active # None /\ ClaimHeld /\ ~Complete(active.cycle)
        /\ UNCHANGED <<bytes, active, done, disturbed>>
    BY DEF Inspect, LifecycleInv, TaskInv, CleanupInv, HonourInv, history
  <1>2. CASE store' = store \ Named("dup") /\ Goto(AfterDup) /\ UNCHANGED source
    <2>1. ClaimHonoured'
      BY <1>1, <1>2, RetiredHonours
    <2> QED
      BY <1>2, <2>1, LeftOrGone DEF HonourInv, Pcs, AfterDup
  <1>3. CASE Leave /\ UNCHANGED <<source, store>>
    BY <1>1, <1>3, LeftOrGone, HonourKept DEF Pcs
  <1>4. CASE /\ ~Intact("dup") /\ Leave
             /\ \E f \in Named("dup") : source' = f.inode /\ store' = store \ {f}
    <2>1. disturbed
      BY <1>1, <1>4, UndisturbedIntact
    <2>2. Named("tomb")' = Named("tomb") /\ Named("claim")' # {}
      <3>1. PICK f \in Named("dup") : store' = store \ {f}
        BY <1>4
      <3>2. f \notin Named("claim") /\ f \notin Named("tomb")
        BY DEF Named
      <3> QED
        BY <1>1, <3>1, <3>2 DEF Named, ClaimHeld
    <2>3. ClaimHonoured'
      BY <1>1, <2>1, <2>2 DEF HonourInv, ClaimHonoured, Complete
    <2> QED
      BY <1>4, <2>3, LeftOrGone DEF HonourInv, Pcs
  <1> QED
    BY <1>2, <1>3, <1>4 DEF Inspect

\* The payload of a completed cycle is buried and unlinked, unchanged.
LEMMA ConsumeHonours == ASSUME LifecycleInv, HonourInv, Bury \/ UnlinkTomb PROVE HonourInv'
  <1>1. /\ active # None /\ Complete(active.cycle)
        /\ UNCHANGED <<source, bytes, active, done, disturbed>>
    BY DEF Bury, UnlinkTomb, LifecycleInv, TaskInv, CleanupInv, Receipted, history
  <1>2. Named("dup") = {} /\ \A f \in store : Matches(f.inode)
    BY <1>1 DEF HonourInv, ClaimHonoured
  <1>3. task'.pc \notin {"intent", "quarantine", "inspect"}
    BY LeftOrGone DEF Bury, UnlinkTomb, Pcs
  <1>4. \A f \in store' : \/ f \in store
                          \/ f.name = "tomb" /\ \E g \in store : f.inode = g.inode
    <2>1. \A i : File("tomb", i).name = "tomb" /\ File("tomb", i).inode = i
      BY DEF File
    <2>2. Named("claim") \subseteq store
      BY DEF Named
    <2> QED
      BY <2>1, <2>2 DEF Bury, UnlinkTomb
  <1>5. Named("dup")' = {} /\ \A f \in store' : Matches(f.inode)'
    BY <1>1, <1>2, <1>4 DEF Named, Matches, Observed
  <1> QED
    BY <1>1, <1>3, <1>5 DEF HonourInv, ClaimHonoured, Complete

LEMMA ClaimHonours == ASSUME LifecycleInv, HonourInv, Claim PROVE HonourInv'
  <1>1. UNCHANGED <<source, bytes, store, active, done>>
    BY DEF Claim, disk
  <1>2. CASE disturbed' = disturbed /\ (Leave \/ Deliver)
    BY <1>1, <1>2, LeftOrGone, HonourKept DEF Pcs
  <1>3. CASE /\ active = None
             /\ task' = [task EXCEPT !.seen = Observed(source), !.pc = "intent"]
    <2>1. task'.pc = "intent" /\ task'.seen = Observed(source)
      BY <1>3 DEF LifecycleInv, TaskInv
    <2> QED
      BY <1>1, <1>3, <2>1 DEF HonourInv, ClaimHonoured, Observed
  <1> QED
    BY <1>2, <1>3 DEF Claim

\* The intent names what was read, and the next cycle.
LEMMA WriteIntentHonours == ASSUME LifecycleInv, HonourInv, WriteIntent PROVE HonourInv'
  <1>1. /\ task.pc = "intent" /\ active = None /\ task.cycle = Next1
        /\ UNCHANGED <<source, bytes, store, done, disturbed>>
        /\ active'.cycle = Next1 /\ active'.inode = task.seen.inode /\ active'.ver = task.seen.ver
    BY DEF WriteIntent, LifecycleInv, TaskInv, ClaimInv, history
  <1>2. store = {} /\ ~Complete(Next1)
    BY <1>1, NextIsOpen DEF LifecycleInv, AgreeInv, Inventory
  <1>3. task'.pc = "place"
    BY GotoIs DEF WriteIntent, Pcs
  <1>4. disturbed' \/ AsSeen'
    BY <1>1, <1>2 DEF HonourInv, AsSeen
  <1>5. Named("tomb")' = {} /\ Named("dup")' = {}
    BY <1>1, <1>2 DEF Named
  <1>6. ~Complete(active.cycle)' /\ active'.cycle = (Len(done) + 1)'
    BY <1>1, <1>2 DEF Complete, Next1
  <1> QED
    BY <1>3, <1>4, <1>5, <1>6 DEF HonourInv, ClaimHonoured

\* What a completed cycle was computed on is as it was sealed.
LEMMA ReplayHonours == ASSUME LifecycleInv, HonourInv, Replay PROVE HonourInv'
  <1>1. task' = task /\ UNCHANGED <<source, bytes, store, active, disturbed>>
    BY DEF Replay, history
  <1>2. CASE Complete(wal.cycle)
    BY <1>1, <1>2, HonourKept DEF Replay
  <1>3. CASE ~Complete(wal.cycle)
    <2>1. /\ task = NoTask /\ DOMAIN done' = 1..Next1 /\ Next1 \in Nat \ {0}
          /\ active # None => Secure /\ active.cycle = Next1
      BY <1>3, Completes DEF Replay
    <2>2. ASSUME active # None
          PROVE  Named("dup") = {} /\ \A f \in store : Matches(f.inode)
      <3>1. Intact("claim") /\ Named("dup") = {} /\ ~Complete(active.cycle)
        BY <2>1, <2>2, SecureIsOpen DEF Secure, LifecycleInv
      <3>2. Named("tomb") = {}
        BY <2>2, <3>1 DEF HonourInv, ClaimHonoured
      <3>3. \A f \in store : f \in Named("claim")
        BY <2>2, <3>1, <3>2, NamedWithin DEF LifecycleInv, AgreeInv, DataInv, Names
      <3> QED
        BY <3>1, <3>3 DEF Intact
    <2>3. active # None => Complete(active.cycle)'
      BY <1>1, <2>1 DEF Complete
    <2>4. ClaimHonoured'
      BY <1>1, <2>2, <2>3 DEF ClaimHonoured, Named, Matches, Observed
    <2> QED
      BY <1>1, <2>1, <2>4 DEF HonourInv, NoTask
  <1> QED
    BY <1>2, <1>3

\* A power loss brings a name back, and takes none away.
LEMMA CrashHonours == ASSUME LifecycleInv, HonourInv, Crash PROVE HonourInv'
  <1>1. /\ task'.pc = "idle" /\ (source # None => source' = source)
        /\ UNCHANGED <<bytes, store, active, done, disturbed>>
    BY DEF Crash, disk, history, NoTask
  <1>2. active # None => active.inode # None
    BY DirectiveAssumption DEF LifecycleInv, DataInv, Claims
  <1>3. active # None => (AsSeen => AsSeen')
    BY <1>1, <1>2 DEF AsSeen, Named
  <1>4. ClaimHonoured'
    BY <1>1, <1>3 DEF HonourInv, ClaimHonoured, Complete, Named, Matches, Observed
  <1> QED
    BY <1>1, <1>4 DEF HonourInv

\* A call that starts, and the commands beside the lifecycle.
LEMMA OthersHonour ==
    ASSUME LifecycleInv, HonourInv, Start \/ SealPacket \/ Stage PROVE HonourInv'
  <1>1. UNCHANGED <<source, bytes, store, active, done, disturbed>>
    BY DEF Start, StartEvidence, StartBind, StartRecover, StartFinalize, Begin, SealPacket, Stage,
           disk, history
  <1>2. task'.pc = "check" \/ task' = task
    BY DEF Start, StartEvidence, StartBind, StartRecover, StartFinalize, Begin, SealPacket, Stage,
           NoTask
  <1> QED
    BY <1>1, <1>2, HonourKept

\* What the operator touches is the file that is claimed, or another one.
LEMMA TouchHonours ==
    ASSUME LifecycleInv, HonourInv, source # None, Disturb,
           UNCHANGED <<store, active, done, task>>,
           \A i \in Inode : i # source => bytes'[i] = bytes[i]
    PROVE  HonourInv'
  <1>1. /\ active # None => active.inode \in Inode /\ Claimed = active.inode
        /\ disturbed' = (disturbed \/ source = Claimed)
    BY DEF LifecycleInv, DataInv, Claims, Claimed, Disturb
  <1>2. ClaimHonoured'
    <2> SUFFICES ASSUME active # None PROVE ClaimHonoured'
      BY DEF ClaimHonoured
    <2>1. CASE Complete(active.cycle)
      <3>1. source # active.inode /\ bytes'[active.inode] = bytes[active.inode]
        BY <1>1, <2>1, CompleteIsReceipted
      <3>2. \A f \in store : Matches(f.inode) => f.inode = active.inode
        BY DEF Matches, Observed
      <3> QED
        BY <2>1, <3>1, <3>2 DEF HonourInv, ClaimHonoured, Complete, Named, Matches, Observed
    <2>2. CASE ~Complete(active.cycle)
      <3>1. /\ disturbed' \/ (source # active.inode /\ AsSeen)
            /\ active.cycle = Len(done) + 1 /\ Named("tomb") = {}
            /\ Named("claim") = {} => Named("dup") = {}
        BY <1>1, <2>2 DEF HonourInv, ClaimHonoured
      <3>2. disturbed' \/ AsSeen'
        BY <1>1, <3>1 DEF AsSeen, Named
      <3> QED
        BY <2>2, <3>1, <3>2 DEF ClaimHonoured, Complete, Named
    <2> QED
      BY <2>1, <2>2
  <1>3. task.pc = "intent" => Claimed = task.seen.inode
    BY DEF LifecycleInv, TaskInv, ClaimInv, Claimed
  <1>4. task.pc \in {"quarantine", "inspect"} => active # None
    BY DEF LifecycleInv, TaskInv, CleanupInv
  <1> QED
    BY <1>1, <1>2, <1>3, <1>4 DEF HonourInv, Complete

LEMMA OperatorHonours == ASSUME LifecycleInv, HonourInv, Operator PROVE HonourInv'
  <1>1. CASE Withdraw
    BY <1>1, TouchHonours DEF Withdraw, disk
  <1>2. CASE EditInPlace
    BY <1>2, TouchHonours DEF EditInPlace, disk, LifecycleInv, DataInv
  <1>3. ASSUME NEW i \in Inode, Submit(i) PROVE HonourInv'
    <2>1. CASE source # None
      BY <1>3, <2>1, TouchHonours DEF Submit, disk
    <2>2. CASE source = None
      <3>1. UNCHANGED <<bytes, store, active, done, task, disturbed>>
        BY <1>3, <2>2 DEF Submit, disk
      <3>2. active # None => active.inode # None
        BY DirectiveAssumption DEF LifecycleInv, DataInv, Claims
      <3>3. task.pc = "intent" => task.seen.inode # None
        BY DirectiveAssumption DEF LifecycleInv, TaskInv, ClaimInv
      <3>4. task.pc = "quarantine" => active # None
        BY DEF LifecycleInv, TaskInv, CleanupInv
      <3>5. ClaimHonoured'
        BY <2>2, <3>1, <3>2 DEF HonourInv, ClaimHonoured, AsSeen, Complete, Named, Matches, Observed
      <3> QED
        BY <2>2, <3>1, <3>2, <3>3, <3>4, <3>5 DEF HonourInv, Complete
    <2> QED
      BY <2>1, <2>2
  <1> QED
    BY <1>1, <1>2, <1>3 DEF Operator

LEMMA HonourStep == LifecycleInv /\ HonourInv /\ [Next]_vars => HonourInv'
  <1> SUFFICES ASSUME LifecycleInv, HonourInv, [Next]_vars PROVE HonourInv'
    OBVIOUS
  <1>1. CASE UNCHANGED vars
    BY <1>1, HonourKept DEF vars, disk, history
  <1>2. CASE Next
    BY <1>2, OperatorHonours, OthersHonour, LookingHonours, PlaceHonours, RestoreHonours,
       ClaimEndsHonoured, DupHonours, QuarantineHonours, InspectHonours, ConsumeHonours,
       ClaimHonours, WriteIntentHonours, ReplayHonours, CrashHonours
       DEF Next, Step
  <1> QED
    BY <1>1, <1>2

\* Of all that crashes, power losses and other commands leave, nothing halts a later
\* command: the checks for a conflict never find one, what is staged can always be
\* replayed, a completed claim can be consumed, and a claim that is not complete can be
\* carried on by its cycle unless the operator touched its file.
THEOREM OnlyTheOperatorHalts == Spec => []HaltedByOperatorOnly
  <1>1. Init => HonourInv
    BY DEF Init, HonourInv, ClaimHonoured, NoTask
  <1>2. LifecycleInv /\ HonourInv => HaltedByOperatorOnly
    <2> SUFFICES ASSUME LifecycleInv, HonourInv PROVE HaltedByOperatorOnly
      OBVIOUS
    <2>1. NeverInConflict
      BY AtMostOneFile DEF NeverInConflict, LifecycleInv, AgreeInv
    <2>2. StagedStaysValid
      BY DEF StagedStaysValid, LifecycleInv, WalInv, Expected
    <2> QED
      BY <2>1, <2>2 DEF HaltedByOperatorOnly, HonourInv
  <1> QED
    BY <1>1, <1>2, HonourStep, LifecycleSafe, PTL DEF Spec

-----------------------------------------------------------------------------
\* What a cycle applies.

\* Only the replay of a staged packet completes a cycle.
LEMMA OnlyReplayCompletes ==
    ASSUME [Next]_vars, done' # done PROVE Replay /\ ~Complete(wal.cycle)
  <1>1. ~Operator
    BY DEF Operator, Withdraw, EditInPlace, Submit, disk
  <1>2. ~Start
    BY DEF Start, StartEvidence, StartBind, StartRecover, StartFinalize, Begin, disk
  <1>3. ~Check /\ ~CheckFinalize /\ ~Place /\ ~Verify /\ ~Restore /\ ~Abandon
    BY DEF Check, CheckFinalize, Place, Verify, Restore, Abandon, disk
  <1>4. ~Dup /\ ~Quarantine /\ ~Inspect /\ ~Cleanup /\ ~Bury /\ ~UnlinkTomb
    BY DEF Dup, Quarantine, Inspect, Cleanup, Bury, UnlinkTomb, disk
  <1>5. ~Acknowledge /\ ~Retire /\ ~Placed /\ ~Claim /\ ~WriteIntent /\ ~SourceChanged
    BY DEF Acknowledge, Retire, Placed, Claim, WriteIntent, SourceChanged, disk
  <1>6. ~SealPacket /\ ~Stage /\ ~Crash /\ ~UNCHANGED vars
    BY DEF SealPacket, Stage, Crash, vars, disk
  <1>7. Replay
    BY <1>1, <1>2, <1>3, <1>4, <1>5, <1>6 DEF Next, Step
  <1> QED
    BY <1>7 DEF Replay

\* A cycle is completed on the directive, or the absence of one, that the packet its
\* agents were given was sealed with.
THEOREM SealedIsApplied == Spec => AppliedAsSealed
  <1>1. ASSUME LifecycleInv, [Next]_vars, Len(done') > Len(done)
        PROVE  pending # None /\ done'[Len(done')] = pending.claim
    <2>1. Replay /\ ~Complete(wal.cycle)
      BY <1>1, OnlyReplayCompletes, NextIsOpen DEF LifecycleInv
    <2> QED
      BY <1>1, <2>1, Completes
  <1>2. LifecycleInv /\ [Next]_vars =>
            [Len(done') > Len(done) => pending # None /\ done'[Len(done')] = pending.claim]_vars
    BY <1>1
  <1> QED
    BY <1>2, LifecycleSafe, PTL DEF Spec, AppliedAsSealed

-----------------------------------------------------------------------------
\* The queue that the files, names and archive implement.

Waiting == ({source} \cup Held) \ ({None} \cup Applied)
AppliedBar == [c \in DOMAIN done |-> IF done[c] = None THEN None ELSE done[c].inode]

\* Nothing that waits is gained or lost, and nothing is applied.
Rests == Waiting' = Waiting /\ withdrawn' = withdrawn /\ done' = done

LEMMA RestsIf ==
    ASSUME done' = done, withdrawn' = withdrawn,
           \A x : x \notin {None} \cup Applied =>
               ((x = source' \/ x \in Held') <=> (x = source \/ x \in Held))
    PROVE  Rests
  BY DEF Rests, Waiting, Applied

LEMMA RestsUnmoved ==
    ASSUME UNCHANGED <<source, store, done, withdrawn>> PROVE Rests
  BY RestsIf DEF Held

LEMMA TakeRests ==
    ASSUME NEW name, TakeFromInbox(name), UNCHANGED <<done, withdrawn>> PROVE Rests
  <1>1. /\ source' = None /\ store' = store \cup {File(name, source)}
        /\ File(name, source).inode = source
    BY DEF TakeFromInbox, File
  <1>2. \A x : x \in Held' <=> x \in Held \/ x = source
    BY <1>1 DEF Held
  <1> QED
    BY <1>1, <1>2, RestsIf

LEMMA PutBackRests ==
    ASSUME NEW f \in store, source = None, source' = f.inode, store' = store \ {f},
           UNCHANGED <<done, withdrawn>>
    PROVE  Rests
  <1>1. \A x : x \in Held' \/ x = f.inode <=> x \in Held
    BY DEF Held
  <1> QED
    BY <1>1, RestsIf

\* A second name is the claimed file's, which stays under the claim's name.
LEMMA RetiredRests ==
    ASSUME ClaimHeld, store' = store \ Named("dup"), Named("dup") # {} => Intact("dup"),
           UNCHANGED <<source, done, withdrawn>>
    PROVE  Rests
  <1>1. \A f \in Named("dup") : f.inode = active.inode
    BY DEF Intact, Matches, Observed
  <1>2. PICK g \in store' : g.inode = active.inode
    BY DEF ClaimHeld, Named
  <1>3. active.inode \in Held'
    BY <1>2 DEF Held
  <1>4. \A x : x \in Held' <=> x \in Held
    BY <1>1, <1>3 DEF Held
  <1> QED
    BY <1>4, RestsIf

LEMMA BuryRests == ASSUME Bury PROVE Rests
  <1>1. /\ store' = (store \ Named("claim")) \cup {File("tomb", f.inode) : f \in Named("claim")}
        /\ UNCHANGED <<source, done, withdrawn>>
    BY DEF Bury, history
  <1>2. \A i : File("tomb", i).inode = i
    BY DEF File
  <1>3. Named("claim") \subseteq store
    BY DEF Named
  <1>4. \A x : x \in Held' <=> \E g \in store' : x = g.inode
    BY DEF Held
  <1>5. \A x : x \in Held <=> \E g \in store : x = g.inode
    BY DEF Held
  <1>6. ASSUME NEW x, x \in Held' PROVE x \in Held
    BY <1>1, <1>2, <1>3, <1>4, <1>5, <1>6
  <1>7. ASSUME NEW x, x \in Held PROVE x \in Held'
    <2>1. PICK g \in store : x = g.inode
      BY <1>5, <1>7
    <2>2. CASE g \in Named("claim")
      <3>1. File("tomb", g.inode) \in store'
        BY <1>1, <2>2
      <3> QED
        BY <1>2, <1>4, <2>1, <3>1
    <2>3. CASE g \notin Named("claim")
      BY <1>1, <1>4, <2>1, <2>3
    <2> QED
      BY <2>2, <2>3
  <1> QED
    BY <1>1, <1>6, <1>7, RestsIf

LEMMA UnlinkRests == ASSUME LifecycleInv, UnlinkTomb PROVE Rests
  <1>1. CASE UNCHANGED store
    BY <1>1, RestsUnmoved DEF UnlinkTomb, history
  <1>2. CASE store' = store \ Named("tomb") /\ (Named("tomb") # {} => Intact("tomb"))
    <2>1. active.inode \in Applied
      BY ReceiptedApplied DEF UnlinkTomb, LifecycleInv, TaskInv, CleanupInv
    <2>2. \A f \in Named("tomb") : f.inode \in Applied
      BY <1>2, <2>1 DEF Intact, Matches, Observed
    <2>3. \A x : x \notin Applied => (x \in Held' <=> x \in Held)
      BY <1>2, <2>2 DEF Held
    <2> QED
      BY <2>3, RestsIf DEF UnlinkTomb, history
  <1> QED
    BY <1>1, <1>2 DEF UnlinkTomb

LEMMA StepRests == ASSUME LifecycleInv, Step PROVE Rests
  <1>1. CASE Check \/ CheckFinalize \/ Verify \/ Cleanup \/ Placed \/ Claim \/ SourceChanged
    BY <1>1, RestsUnmoved
       DEF Check, CheckFinalize, Verify, Cleanup, Placed, Claim, SourceChanged, disk, history
  <1>2. CASE Abandon \/ Acknowledge \/ Retire \/ WriteIntent
    BY <1>2, RestsUnmoved DEF Abandon, Acknowledge, Retire, WriteIntent, history
  <1>3. CASE Place
    BY <1>3, RestsUnmoved, TakeRests DEF Place, history
  <1>4. CASE Restore
    BY <1>4, RestsUnmoved, PutBackRests DEF Restore, Named, history
  <1>5. CASE Dup
    BY <1>5, RestsUnmoved, RetiredRests DEF Dup, LifecycleInv, TaskInv, CleanupInv, history
  <1>6. CASE Quarantine
    BY <1>6, RestsUnmoved, TakeRests DEF Quarantine, history
  <1>7. CASE Inspect
    <2>1. CASE Intact("dup")
      BY <1>7, <2>1, RetiredRests DEF Inspect, LifecycleInv, TaskInv, CleanupInv, history
    <2>2. CASE ~Intact("dup")
      BY <1>7, <2>2, RestsUnmoved, PutBackRests DEF Inspect, Named, history
    <2> QED
      BY <2>1, <2>2
  <1> QED
    BY <1>1, <1>2, <1>3, <1>4, <1>5, <1>6, <1>7, BuryRests, UnlinkRests DEF Step

LEMMA OtherRests ==
    ASSUME LifecycleInv, Start \/ SealPacket \/ Stage \/ EditInPlace \/ Crash
    PROVE  Rests
  <1>1. CASE Start
    BY <1>1, RestsUnmoved
       DEF Start, StartEvidence, StartBind, StartRecover, StartFinalize, Begin, disk, history
  <1>2. CASE SealPacket \/ Stage \/ EditInPlace
    BY <1>2, RestsUnmoved DEF SealPacket, Stage, EditInPlace, disk, history
  <1>3. CASE Crash
    <2>1. /\ UNCHANGED <<store, done, withdrawn>>
          /\ source' = source \/ (source = None /\ source' = shadow)
      BY <1>3 DEF Crash, disk, history
    <2>2. source' = source \/ (source = None /\ source' \in Held \cup {None})
      BY <2>1 DEF LifecycleInv, NamesInv
    <2>3. Held' = Held
      BY <2>1 DEF Held
    <2> QED
      BY <2>1, <2>2, <2>3, RestsIf
  <1> QED
    BY <1>1, <1>2, <1>3

\* What the queue sees of the steps that are not at rest.
SubmitStep(i) ==
    /\ i \in Inode /\ i \notin Waiting \cup withdrawn \cup Applied
    /\ Dropped \subseteq Waiting
    /\ Waiting' = (Waiting \ Dropped) \cup {i} /\ withdrawn' = withdrawn \cup Dropped
    /\ done' = done

WithdrawStep(i) ==
    /\ i \in Inode /\ i \in Waiting /\ Waiting' = Waiting \ {i}
    /\ withdrawn' = withdrawn \cup {i} /\ done' = done

CompleteStep(r) ==
    /\ r \in (Waiting \cap Inode) \cup {None} /\ Waiting' = Waiting \ {r}
    /\ AppliedBar' = Append(AppliedBar, r) /\ withdrawn' = withdrawn

LEMMA SubmitShows == ASSUME LifecycleInv, NEW i \in Inode, Submit(i) PROVE SubmitStep(i)
  <1>1. Held' = Held /\ Applied' = Applied /\ done' = done
    BY DEF Submit, disk, Held, Applied
  <1>2. i # None /\ i \notin Held \cup Applied
    BY DirectiveAssumption DEF Submit, Fresh
  <1> QED
    BY <1>1, <1>2 DEF SubmitStep, Submit, Fresh, Waiting, Dropped

LEMMA WithdrawShows == ASSUME LifecycleInv, Withdraw PROVE Rests \/ WithdrawStep(source)
  <1>1. Held' = Held /\ Applied' = Applied /\ done' = done /\ source' = None /\ source \in Inode
        /\ withdrawn' = withdrawn \cup Dropped
    BY DEF Withdraw, disk, Held, Applied, LifecycleInv, DataInv
  <1>2. CASE source \in Held \cup Applied
    BY <1>1, <1>2 DEF Rests, Waiting, Dropped
  <1>3. CASE source \notin Held \cup Applied
    BY <1>1, <1>3, DirectiveAssumption DEF WithdrawStep, Waiting, Dropped
  <1> QED
    BY <1>2, <1>3

LEMMA ReplayShows ==
    ASSUME LifecycleInv, Replay
    PROVE  Rests \/ CompleteStep(IF active = None THEN None ELSE active.inode)
  <1>1. CASE Complete(wal.cycle)
    BY <1>1, RestsUnmoved DEF Replay, history
  <1>2. CASE ~Complete(wal.cycle)
    <2> DEFINE r == IF active = None THEN None ELSE active.inode
    <2>1. /\ DOMAIN done' = 1..Next1 /\ Next1 \in Nat \ {0} /\ done'[Next1] = active
          /\ \A c \in DOMAIN done : done'[c] = done[c] /\ c # Next1
          /\ active # None => Secure /\ active.inode \notin Applied
      BY <1>2, Completes
    <2>2. DOMAIN done = 1..Len(done) /\ Len(done) \in Nat /\ Next1 = Len(done) + 1
      BY NextIsOpen DEF LifecycleInv, Next1
    <2>3. Held' = Held /\ source' = source /\ withdrawn' = withdrawn
      BY DEF Replay, Held, history
    <2>4. Applied' = Applied \cup (IF active = None THEN {} ELSE {active.inode})
      BY <1>2, AppliedGrows
    <2>5. active # None => active.inode \in Held /\ active.inode \in Inode
      BY <2>1, SecureIsOpen, ClaimHeldIsHeld DEF LifecycleInv, DataInv, Claims
    <2>6. r \in (Waiting \cap Inode) \cup {None}
      BY <2>1, <2>5, DirectiveAssumption DEF Waiting
    <2>7. Waiting' = Waiting \ {r}
      BY <2>3, <2>4 DEF Waiting
    <2>8. AppliedBar' = Append(AppliedBar, r)
      <3>1. AppliedBar \in Seq(Inode \cup {None}) /\ Len(AppliedBar) = Len(done)
        BY <2>2 DEF AppliedBar, LifecycleInv, DataInv, Claims
      <3>2. Append(AppliedBar, r) = [c \in 1..Next1 |-> IF c = Next1 THEN r ELSE AppliedBar[c]]
        BY <2>2, <3>1
      <3>3. AppliedBar' = [c \in 1..Next1 |-> IF done'[c] = None THEN None ELSE done'[c].inode]
        BY <2>1 DEF AppliedBar
      <3>4. \A c \in 1..Next1 : (IF done'[c] = None THEN None ELSE done'[c].inode)
                                    = IF c = Next1 THEN r ELSE AppliedBar[c]
        <4> SUFFICES ASSUME NEW c \in 1..Next1
                     PROVE  (IF done'[c] = None THEN None ELSE done'[c].inode)
                                = IF c = Next1 THEN r ELSE AppliedBar[c]
          OBVIOUS
        <4>1. CASE c = Next1
          BY <2>1, <4>1
        <4>2. CASE c # Next1
          <5>1. c \in DOMAIN done
            BY <2>2, <4>2
          <5> QED
            BY <2>1, <4>2, <5>1 DEF AppliedBar
        <4> QED
          BY <4>1, <4>2
      <3> HIDE DEF r
      <3> QED
        BY <3>2, <3>3, <3>4
    <2> QED
      BY <2>3, <2>6, <2>7, <2>8 DEF CompleteStep
  <1> QED
    BY <1>1, <1>2

LEMMA LifecycleShows ==
    ASSUME LifecycleInv, [Next]_vars
    PROVE  \/ Rests
           \/ \E i \in Inode : SubmitStep(i) \/ WithdrawStep(i)
           \/ \E r \in Inode \cup {None} : CompleteStep(r)
  <1>1. CASE UNCHANGED vars
    BY <1>1, RestsUnmoved DEF vars, disk, history
  <1>2. CASE Operator
    BY <1>2, SubmitShows, WithdrawShows, OtherRests DEF Operator, WithdrawStep
  <1>3. CASE Replay
    BY <1>3, ReplayShows DEF CompleteStep
  <1> QED
    BY <1>1, <1>2, <1>3, StepRests, OtherRests DEF Next

\* The queue's own name for what was applied.
LEMMA QueueApplied == ASSUME LifecycleInv PROVE {AppliedBar[c] : c \in DOMAIN AppliedBar} \ {None} = Applied
  <1>1. DOMAIN AppliedBar = DOMAIN done
        /\ \A c \in DOMAIN done : AppliedBar[c] = IF done[c] = None THEN None ELSE done[c].inode
    BY DEF AppliedBar
  <1>2. None \notin Applied
    BY NoneIsNoFile DEF LifecycleInv
  <1>3. \A c \in DOMAIN done : done[c] # None => done[c].inode # None
    BY <1>2, AppliedHas
  <1>4. \A i : i \in Applied <=> \E c \in DOMAIN done : done[c] # None /\ i = done[c].inode
    BY DEF Applied
  <1> QED
    BY <1>1, <1>3, <1>4

\* An instruction is never lost and never applied twice, whatever the operator does to the
\* inbox meanwhile and wherever power fails.
THEOREM QueueImplemented == Spec => ImplementsQueue
  <1>1. Init => Queue!Init
    BY DEF Init, Queue!Init, Held, Applied
  <1>2. LifecycleInv /\ [Next]_vars => [Queue!Next]_(Queue!qvars)
    <2> SUFFICES ASSUME LifecycleInv, [Next]_vars PROVE [Queue!Next]_(Queue!qvars)
      OBVIOUS
    <2>1. CASE Rests
      BY <2>1 DEF Rests, Waiting, Queue!qvars
    <2>2. ASSUME NEW i \in Inode, SubmitStep(i) PROVE Queue!Next
      <3>1. Queue!Submit(i, Dropped)
        BY <2>2, QueueApplied DEF SubmitStep, Waiting, AppliedBar, Queue!Submit, Queue!Applied
      <3>2. Dropped \in SUBSET (({source} \cup Held) \ ({None} \cup Applied))
        BY <2>2 DEF SubmitStep, Waiting
      <3> QED
        BY <3>1, <3>2 DEF Queue!Next
    <2>3. ASSUME NEW i \in Inode, WithdrawStep(i) PROVE Queue!Next
      BY <2>3 DEF WithdrawStep, Waiting, Queue!Withdraw, Queue!Next
    <2>4. ASSUME NEW r \in Inode \cup {None}, CompleteStep(r) PROVE Queue!Next
      <3>1. Queue!CompleteCycle(r)
        BY <2>4 DEF CompleteStep, Waiting, AppliedBar, Queue!CompleteCycle
      <3> QED
        BY <3>1 DEF Queue!Next
    <2> QED
      BY <2>1, <2>2, <2>3, <2>4, LifecycleShows
  <1> QED
    BY <1>1, <1>2, LifecycleSafe, PTL DEF Spec, ImplementsQueue, Queue!Spec
=============================================================================
