------------------------- MODULE DirectiveLifecycle -------------------------
(***************************************************************************)
(* One-shot operator directives: a file in the inbox is claimed for a      *)
(* cycle, bound into its decision, archived in the completed generation    *)
(* and consumed.  Every call holds the state lock, so one task at a time   *)
(* changes the state's own files, but the operator edits, replaces and     *)
(* removes the inbox file between any two of its steps, and a power loss   *)
(* ends it between any two.                                                *)
(*                                                                         *)
(* A file is its inode with the version of its bytes; the claim, tombstone *)
(* and quarantine names carry the claim id.  A rename out of the inbox is  *)
(* durable only after the inbox directory is synced: until then a power    *)
(* loss may bring the old name back beside the new one.                    *)
(***************************************************************************)
EXTENDS Naturals, Sequences, FiniteSets

CONSTANTS
    Inode,      \* files the operator may queue
    None,
    MaxCycles,  \* bound: completed cycles
    MaxClaims,  \* bound: claim ids
    MaxEdits,   \* bound: edits of one file in place
    MaxCrash    \* bound: power losses

ASSUME DirectiveAssumption ==
    /\ None \notin Inode
    /\ MaxCycles \in Nat /\ MaxClaims \in Nat /\ MaxEdits \in Nat /\ MaxCrash \in Nat

VARIABLES
    source,     \* the inbox name
    bytes,      \* the version of each file's bytes
    store,      \* the names in directive-claims-v1
    shadow,     \* the file whose removal from the inbox is not yet durable
    active,     \* active.json: the claim intent
    acks,       \* consumptions/: the cycles acknowledged
    done,       \* completed cycles, with the claim their receipt archives
    wal,        \* the staged reconcile transaction
    task,       \* the call that holds the state lock
    evidence,   \* desk_evidence.py between its claim and its packet
    pending,    \* the sealed packet
    reconciler, \* desk_reconcile.py between loading the claim and staging
    ids,        \* claim ids used
    withdrawn,  \* history: files the operator removed or replaced
    disturbed,  \* history: the operator edited, removed or replaced the file of the last
                \* claim by its inbox name, since that claim read it
    crashes

disk == <<store, active, acks, done, wal>>
commands == <<evidence, pending, reconciler>>
history == <<withdrawn, disturbed>>
vars == <<source, bytes, shadow, disk, task, commands, ids, history, crashes>>

Cycle  == 1..MaxCycles
Names  == {"claim", "dup", "tomb"}
Intent == [id : 1..MaxClaims, cycle : Cycle, inode : Inode, ver : 0..MaxEdits]
Caller == {"evidence", "bind", "recover", "finalize"}
Packet == [cycle : Cycle, claim : Intent \cup {None}]

\* No claim is the absence of one.
ASSUME IntentAssumption == None \notin [id : Nat, cycle : Nat, inode : Inode, ver : Nat]

NoTask == [for |-> "idle", cycle |-> 0, pc |-> "idle", seen |-> None]

Init ==
    /\ source = None /\ bytes = [i \in Inode |-> 0] /\ shadow = None
    /\ store = {} /\ active = None /\ acks = {} /\ done = <<>> /\ wal = None
    /\ task = NoTask
    /\ evidence = None /\ pending = None /\ reconciler = None
    /\ ids = 0 /\ withdrawn = {} /\ disturbed = FALSE /\ crashes = 0

-----------------------------------------------------------------------------
\* What a task finds on disk.

Named(name) == {f \in store : active # None /\ f.name = name /\ f.id = active.id}
File(name, i) == [name |-> name, id |-> active.id, inode |-> i]

\* What one stable read of a regular file yields.
Observed(i) == [inode |-> i, ver |-> bytes[i]]

\* The bytes and the file are the ones the intent names.
Matches(i) == Observed(i) = [inode |-> active.inode, ver |-> active.ver]
Intact(name) == Named(name) # {} /\ \A f \in Named(name) : Matches(f.inode)

Complete(c) == c \in DOMAIN done
Receipted(c) == Complete(c) /\ done[c] # None

\* Every archived directive but one allowed cycle's is acknowledged, and the reverse.
Acknowledged(allowed) ==
    /\ \A c \in DOMAIN done : Receipted(c) => c \in acks \cup allowed
    /\ \A c \in acks : Receipted(c)

\* No payload without its intent.
Inventory == \A f \in store : active # None /\ f.id = active.id

\* The archive of a completed cycle names the active claim.
Archived == done[active.cycle] = active

ClaimCycle == IF active = None THEN {} ELSE {active.cycle}

ExpectedUnlessAbsent(cycle, claim, consumed) ==
    \/ claim = None
    \/ active = claim /\ Intact("claim")
    \/ consumed /\ active = None /\ Receipted(cycle) /\ done[cycle] = claim

\* The checks a reconcile intent is held against, at staging and again at replay.
Expected(cycle, claim, consumed) ==
    /\ Acknowledged(ClaimCycle) /\ Inventory
    /\ IF claim = None THEN active = None
       ELSE \/ /\ active = claim /\ active.cycle = cycle
               /\ Intact("claim") /\ Named("tomb") = {} /\ Named("dup") = {}
            \/ consumed /\ active = None /\ Receipted(cycle) /\ done[cycle] = claim

-----------------------------------------------------------------------------
\* The operator edits the inbox by its path.

Held == {f.inode : f \in store}
Applied == {done[c].inode : c \in {d \in DOMAIN done : done[d] # None}}

Fresh(i) == i \notin {source} \cup withdrawn \cup Held \cup Applied

\* The inbox file, unless its claim holds it too.
Dropped == {source} \ ({None} \cup Held \cup Applied)

\* The file that is claimed, or that a claim has read and is about to name.
Claimed ==
    IF active # None THEN active.inode
    ELSE IF task.pc = "intent" THEN task.seen.inode ELSE None

\* Whatever is done to the inbox by its path is done to that file if it is there.
Disturb == disturbed' = (disturbed \/ source = Claimed)

Submit(i) ==
    /\ Fresh(i)
    /\ source' = i
    /\ withdrawn' = withdrawn \cup Dropped
    /\ IF source = None THEN UNCHANGED disturbed ELSE Disturb
    /\ UNCHANGED <<bytes, shadow, disk, task, commands, ids, crashes>>

Withdraw ==
    /\ source # None
    /\ source' = None
    /\ withdrawn' = withdrawn \cup Dropped
    /\ Disturb
    /\ UNCHANGED <<bytes, shadow, disk, task, commands, ids, crashes>>

EditInPlace ==
    /\ source # None /\ bytes[source] < MaxEdits
    /\ bytes' = [bytes EXCEPT ![source] = @ + 1]
    /\ Disturb
    /\ UNCHANGED <<source, shadow, disk, task, commands, ids, withdrawn, crashes>>

-----------------------------------------------------------------------------
\* A call under the state lock.

\* The call goes on, or it returns or raises.
Goto(pc) == task' = [task EXCEPT !.pc = pc] /\ UNCHANGED commands
Leave == task' = NoTask /\ UNCHANGED commands

\* Every call but the reconcile replay refuses while a reconcile intent is pending.
Begin(for, c) ==
    /\ task = NoTask /\ wal = None
    /\ task' = [NoTask EXCEPT !.for = for, !.cycle = c, !.pc = "check"]
    /\ UNCHANGED <<source, bytes, shadow, disk, commands, ids, history, crashes>>

StartEvidence ==
    /\ evidence = None /\ Len(done) < MaxCycles
    /\ Begin("evidence", Len(done) + 1)

\* directive_lifecycle_status: the claim is there, alone and uncommitted.
ClaimedPending ==
    /\ Acknowledged(ClaimCycle) /\ Inventory
    /\ Intact("claim") /\ Named("tomb") = {} /\ Named("dup") = {}
    /\ source # active.inode /\ ~Complete(active.cycle)

\* desk_reconcile.py loads the packet: an absent claim must still be absent, a bound
\* one is looked at and then claimed again.
StartBind ==
    /\ reconciler = None /\ pending # None /\ pending.cycle = Len(done) + 1
    /\ IF pending.claim = None
       THEN /\ task = NoTask /\ wal = None
            /\ active = None /\ Acknowledged({}) /\ Inventory
            /\ reconciler' = pending
            /\ UNCHANGED <<source, bytes, shadow, disk, task, evidence, pending, ids,
                           history, crashes>>
       ELSE active = pending.claim /\ ClaimedPending /\ Begin("bind", pending.cycle)

StartRecover == Begin("recover", 0)
StartFinalize == Len(done) > 0 /\ Begin("finalize", Len(done))

CheckWithoutCleanup ==
    /\ task.pc = "check" /\ task.for # "finalize"
    /\ IF active = None THEN Goto("claiming")
       ELSE IF Complete(active.cycle) THEN Leave ELSE Goto("place")
    /\ UNCHANGED <<source, bytes, shadow, disk, ids, history, crashes>>

\* _recover_completed_claim_unlocked: what the claim on disk calls for.
Check ==
    /\ task.pc = "check" /\ task.for # "finalize"
    /\ IF ~Acknowledged(ClaimCycle) \/ ~Inventory THEN Leave
       ELSE IF active = None THEN Goto("claiming")
       ELSE IF Receipted(active.cycle) THEN IF Archived THEN Goto("cleanup") ELSE Leave
       ELSE IF Complete(active.cycle) \/ Named("tomb") # {} THEN Leave
       ELSE Goto("place")
    /\ UNCHANGED <<source, bytes, shadow, disk, ids, history, crashes>>

\* finalize_cycle_directive: only its own cycle's claim may lack an acknowledgement.
CheckFinalize ==
    /\ task.pc = "check" /\ task.for = "finalize"
    /\ IF /\ Acknowledged(ClaimCycle \cap {task.cycle}) /\ Inventory
          /\ active # None /\ Receipted(task.cycle) /\ done[task.cycle] = active
       THEN Goto("cleanup") ELSE Leave
    /\ UNCHANGED <<source, bytes, shadow, disk, ids, history, crashes>>

\* A rename that never replaces, and the syncs of both directories after it.
TakeFromInbox(name) ==
    /\ store' = store \cup {File(name, source)}
    /\ shadow' = source /\ source' = None

Sync == shadow' = None

\* The claimed payload is in the state's directory, or what is in the inbox moves there.
Place ==
    /\ task.pc = "place"
    /\ IF Named("claim") = {} /\ Named("dup") = {} /\ source # None
       THEN TakeFromInbox("claim") /\ Goto("verify")
       ELSE /\ IF Intact("claim") THEN Goto("dup") ELSE Leave
            /\ UNCHANGED <<source, shadow, store>>
    /\ UNCHANGED <<bytes, active, acks, done, wal, ids, history, crashes>>

\* Synced; the file that was moved need not be the one the intent names.
Verify ==
    /\ task.pc = "verify"
    /\ Sync
    /\ IF Intact("claim") THEN Goto("placed")
       ELSE IF source # None THEN Leave ELSE Goto("restore")
    /\ UNCHANGED <<source, bytes, disk, ids, history, crashes>>

Restore ==
    /\ task.pc = "restore"
    /\ IF source # None THEN Leave /\ UNCHANGED <<source, store>>
       ELSE /\ \E f \in Named("claim") : source' = f.inode /\ store' = store \ {f}
            /\ Goto("abandon")
    /\ UNCHANGED <<bytes, shadow, active, acks, done, wal, ids, history, crashes>>

Abandon ==
    /\ task.pc = "abandon"
    /\ active' = None
    /\ Leave
    /\ UNCHANGED <<source, bytes, shadow, store, acks, done, wal, ids, history, crashes>>

AfterDup == IF Receipted(active.cycle) THEN "bury" ELSE "placed"

\* A second name for the claimed file, left by a power loss, is retired.
Dup ==
    /\ task.pc = "dup"
    /\ LET second == source = active.inode IN
       IF (Named("dup") # {} /\ ~Intact("dup")) \/ (second /\ ~Matches(source))
       THEN Leave /\ UNCHANGED store
       ELSE /\ store' = store \ Named("dup")
            /\ IF ~second THEN Goto(AfterDup)
               ELSE IF Named("dup") # {} THEN Goto("dup") ELSE Goto("quarantine")
    /\ UNCHANGED <<source, bytes, shadow, active, acks, done, wal, ids, history, crashes>>

\* The operator may have replaced the second name since it was looked at.
Quarantine ==
    /\ task.pc = "quarantine"
    /\ IF source = None THEN Leave /\ UNCHANGED <<source, shadow, store>>
       ELSE TakeFromInbox("dup") /\ Goto("inspect")
    /\ UNCHANGED <<bytes, active, acks, done, wal, ids, history, crashes>>

InspectBlind ==
    /\ task.pc = "inspect"
    /\ Sync
    /\ store' = store \ Named("dup")
    /\ Goto(AfterDup)
    /\ UNCHANGED <<source, bytes, active, acks, done, wal, ids, history, crashes>>

Inspect ==
    /\ task.pc = "inspect"
    /\ Sync
    /\ IF Intact("dup") THEN store' = store \ Named("dup") /\ Goto(AfterDup) /\ UNCHANGED source
       ELSE /\ IF source # None THEN UNCHANGED <<source, store>>
               ELSE \E f \in Named("dup") : source' = f.inode /\ store' = store \ {f}
            /\ Leave
    /\ UNCHANGED <<bytes, active, acks, done, wal, ids, history, crashes>>

\* Consuming the claim of a completed cycle.
Cleanup ==
    /\ task.pc = "cleanup"
    /\ IF Named("claim") # {}
       THEN IF Named("tomb") = {} /\ Intact("claim") THEN Goto("dup") ELSE Leave
       ELSE IF Named("dup") # {} THEN Leave ELSE Goto("unlink")
    /\ UNCHANGED <<source, bytes, shadow, disk, ids, history, crashes>>

Bury ==
    /\ task.pc = "bury"
    /\ store' = (store \ Named("claim")) \cup {File("tomb", f.inode) : f \in Named("claim")}
    /\ Goto("unlink")
    /\ UNCHANGED <<source, bytes, shadow, active, acks, done, wal, ids, history, crashes>>

UnlinkTomb ==
    /\ task.pc = "unlink"
    /\ IF Named("tomb") # {} /\ ~Intact("tomb") THEN Leave /\ UNCHANGED store
       ELSE store' = store \ Named("tomb") /\ Goto("ack")
    /\ UNCHANGED <<source, bytes, shadow, active, acks, done, wal, ids, history, crashes>>

RetireUnacknowledged ==
    /\ task.pc = "ack"
    /\ active' = None
    /\ Goto("placed")
    /\ UNCHANGED <<source, bytes, shadow, store, acks, done, wal, ids, history, crashes>>

Acknowledge ==
    /\ task.pc = "ack"
    /\ acks' = acks \cup {active.cycle}
    /\ Goto("retire")
    /\ UNCHANGED <<source, bytes, shadow, store, active, done, wal, ids, history, crashes>>

Retire ==
    /\ task.pc = "retire"
    /\ active' = None
    /\ Goto("placed")
    /\ UNCHANGED <<source, bytes, shadow, store, acks, done, wal, ids, history, crashes>>

\* Recovery and finalization are over; claim_next_directive goes on.
Placed ==
    /\ task.pc = "placed"
    /\ IF task.for \in {"recover", "finalize"} THEN Leave ELSE Goto("claiming")
    /\ UNCHANGED <<source, bytes, shadow, disk, ids, history, crashes>>

\* The claim, or its absence, goes to the packet or to the reconcile.
Deliver ==
    LET packet == [cycle |-> task.cycle, claim |-> active] IN
    /\ task' = NoTask
    /\ IF task.for = "evidence" THEN evidence' = packet /\ UNCHANGED <<pending, reconciler>>
       ELSE /\ reconciler' = IF active = pending.claim THEN packet ELSE None
            /\ UNCHANGED <<evidence, pending>>

Claim ==
    /\ task.pc = "claiming"
    /\ IF active # None
       THEN /\ IF active.cycle = task.cycle /\ Intact("claim") THEN Deliver ELSE Leave
            /\ UNCHANGED disturbed
       ELSE IF task.for = "recover" \/ Complete(task.cycle) THEN Leave /\ UNCHANGED disturbed
       ELSE IF source = None THEN Deliver /\ UNCHANGED disturbed
       ELSE /\ task' = [task EXCEPT !.seen = Observed(source), !.pc = "intent"]
            /\ disturbed' = FALSE
            /\ UNCHANGED commands
    /\ UNCHANGED <<source, bytes, shadow, disk, ids, withdrawn, crashes>>

\* The second read of the inbox agreed with the first; what it is now is another matter.
WriteIntent ==
    /\ task.pc = "intent" /\ ids < MaxClaims
    /\ ids' = ids + 1
    /\ active' = [id |-> ids + 1, cycle |-> task.cycle,
                  inode |-> task.seen.inode, ver |-> task.seen.ver]
    /\ Goto("place")
    /\ UNCHANGED <<source, bytes, shadow, store, acks, done, wal, history, crashes>>

SourceChanged ==
    /\ task.pc = "intent"
    /\ ~(source # None /\ ids < MaxClaims /\ task.seen = Observed(source))
    /\ Leave
    /\ UNCHANGED <<source, bytes, shadow, disk, ids, history, crashes>>

-----------------------------------------------------------------------------
\* The commands around the lifecycle.

\* What a generation archives of the directive it was computed on.
Receipt(packet) == packet.claim

SealPacket ==
    /\ evidence # None
    /\ pending' = evidence /\ evidence' = None
    /\ UNCHANGED <<source, bytes, shadow, disk, task, reconciler, ids, history, crashes>>

Stage ==
    /\ task = NoTask /\ reconciler # None
    /\ reconciler' = None
    /\ wal' = IF /\ wal = None /\ reconciler.cycle = Len(done) + 1
                 /\ Expected(reconciler.cycle, reconciler.claim, FALSE)
              THEN reconciler ELSE wal
    /\ UNCHANGED <<source, bytes, shadow, store, active, acks, done, task, evidence,
                   pending, ids, history, crashes>>

\* The staged generation is published with the directive it was computed on, and the
\* intent removed once it is.
Replay ==
    /\ task = NoTask /\ wal # None
    /\ Expected(wal.cycle, wal.claim, TRUE)
    /\ IF Complete(wal.cycle)
       THEN wal' = None /\ UNCHANGED done
       ELSE done' = Append(done, Receipt(wal)) /\ UNCHANGED wal
    /\ UNCHANGED <<source, bytes, shadow, store, active, acks, task, commands, ids,
                   history, crashes>>

\* A power loss, or the end of every command.
Crash ==
    /\ crashes < MaxCrash
    /\ crashes' = crashes + 1
    /\ task' = NoTask /\ evidence' = None /\ reconciler' = None
    /\ source' \in {source} \cup (IF source = None THEN {shadow} ELSE {})
    /\ shadow' = None
    /\ UNCHANGED <<bytes, disk, pending, ids, history>>

Operator == Withdraw \/ EditInPlace \/ \E i \in Inode : Submit(i)
Start == StartEvidence \/ StartBind \/ StartRecover \/ StartFinalize
Step ==
    \/ Check \/ CheckFinalize \/ Place \/ Verify \/ Restore \/ Abandon
    \/ Dup \/ Quarantine \/ Inspect
    \/ Cleanup \/ Bury \/ UnlinkTomb \/ Acknowledge \/ Retire
    \/ Placed \/ Claim \/ WriteIntent \/ SourceChanged

Next == Operator \/ Start \/ Step \/ SealPacket \/ Stage \/ Replay \/ Crash

Spec == Init /\ [][Next]_vars

\* A call that holds the lock goes on, a staged generation is replayed by whoever comes
\* next, and the recovery that precedes every run of the desk keeps being run.
FairSpec == Spec /\ WF_vars(Step) /\ WF_vars(Replay) /\ SF_vars(StartRecover)

-----------------------------------------------------------------------------
\* Every variable holds what the code can put there.
TypeOK ==
    /\ source \in Inode \cup {None} /\ shadow \in Inode \cup {None}
    /\ bytes \in [Inode -> 0..MaxEdits]
    /\ store \subseteq [name : Names, id : 1..MaxClaims, inode : Inode]
    /\ active \in Intent \cup {None} /\ acks \subseteq Cycle
    /\ done \in Seq(Intent \cup {None}) /\ Len(done) <= MaxCycles
    /\ wal \in Packet \cup {None}
    /\ task.for \in Caller \cup {"idle"} /\ task.cycle \in 0..MaxCycles
    /\ task.seen \in [inode : Inode, ver : 0..MaxEdits] \cup {None}
    /\ evidence \in Packet \cup {None} /\ pending \in Packet \cup {None}
    /\ reconciler \in Packet \cup {None}
    /\ withdrawn \subseteq Inode /\ disturbed \in BOOLEAN
    /\ ids \in 0..MaxClaims /\ crashes \in 0..MaxCrash

\* The checks that halt every later run on a conflict (an archived directive without its
\* acknowledgement, an acknowledgement without its archive, a payload without its
\* intent, a completed cycle beside a claim it did not archive) never find one.
NeverInConflict ==
    /\ Acknowledged(ClaimCycle) /\ Inventory
    /\ active # None /\ Complete(active.cycle) => done[active.cycle] = active
    /\ active # None => Cardinality(Named("claim")) + Cardinality(Named("tomb")) <= 1

\* Nothing the operator or another command does between staging and replay can make
\* the replay refuse.
StagedStaysValid == task = NoTask /\ wal # None => Expected(wal.cycle, wal.claim, TRUE)

\* The claim's file can still be found as the claim read it: under the claim's name, or
\* still in the inbox.
AsSeen ==
    /\ bytes[active.inode] = active.ver
    /\ \A f \in store : f.inode = active.inode
    /\ Named("claim") # {} \/ source = active.inode

\* A claim can be carried on by the next run of its cycle, unless the operator has
\* touched its file by the inbox name since it was read, and a claim whose cycle is
\* complete can be consumed whatever the operator does.
ClaimHonoured ==
    active # None =>
        IF Complete(active.cycle)
        THEN Named("dup") = {} /\ \A f \in store : Matches(f.inode)
        ELSE /\ active.cycle = Len(done) + 1 /\ Named("tomb") = {}
             /\ Named("claim") = {} => Named("dup") = {}
             /\ disturbed \/ AsSeen

\* Of all that crashes, power losses and other commands leave, nothing halts a later
\* command: what can is the operator's touching a file that is being claimed.
HaltedByOperatorOnly == NeverInConflict /\ StagedStaysValid /\ ClaimHonoured

\* A cycle is completed on the bytes its agents were given: what the receipt archives
\* is what the packet bound.
AppliedAsSealed ==
    [][Len(done') > Len(done) => pending # None /\ done'[Len(done')] = pending.claim]_vars

Queue == INSTANCE DirectiveQueue WITH
    waiting   <- ({source} \cup Held) \ ({None} \cup Applied),
    withdrawn <- withdrawn,
    applied   <- [c \in DOMAIN done |-> IF done[c] = None THEN None ELSE done[c].inode]

\* An instruction is never lost and never applied twice, whatever the operator does to
\* the inbox meanwhile and wherever power fails.
ImplementsQueue == Queue!Spec

\* The directive of a completed cycle is consumed in the end.
DirectiveConsumed ==
    \A c \in Cycle : Receipted(c) ~> (c \in acks /\ (active = None \/ active.cycle # c))
=============================================================================
