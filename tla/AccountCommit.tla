---------------------------- MODULE AccountCommit ----------------------------
(***************************************************************************)
(* The durable commit protocol of the PAPER account.                       *)
(*                                                                         *)
(* Every change of the book is one generation: a reconcile of a cycle or a *)
(* heartbeat of a schedule slot.  A command line task loads the account,   *)
(* computes the next one, stages a complete intent (a write-ahead file)    *)
(* under the state lock, and replays the intent file by file, publishing   *)
(* complete.json last.  Any task may crash between two file writes; the    *)
(* next task replays the intent it left.                                   *)
(*                                                                         *)
(* A generation is named by the instant its account was computed, so one   *)
(* number stands for its commit id, its event timestamp and the canonical  *)
(* hash of its account: uuid4, the wall clock and SHA-256 keep different   *)
(* generations different and the first two computations in order.  A file  *)
(* holds the number of the generation whose bytes it contains, None when   *)
(* it is absent; what those bytes say is the record intent[n].             *)
(***************************************************************************)
EXTENDS Naturals, Sequences, FiniteSets

CONSTANTS
    Proc,        \* operating-system processes that run desk tasks
    NoProc,      \* nobody: an unlocked lock
    Slot,        \* heartbeat schedule slots
    NoUnit,      \* a task that works on no cycle and no slot yet
    Guarded,     \* tasks that run under the launchers' desk-cycle.lock
    MaxCommit,   \* bound: how many generations are ever computed
    MaxCrash     \* bound: how many times a task dies

None  == 0
Id    == 1..MaxCommit
Id0   == 0..MaxCommit
Cycle == 1..(MaxCommit + 1)
Unit  == Cycle \cup Slot
Kind  == {"reconcile", "heartbeat"}
Task  == {"prepare", "reconcile", "heartbeat", "recover"}

ASSUME BoundsAssumption == MaxCommit \in Nat /\ MaxCrash \in Nat
ASSUME ProcAssumption   == NoProc \notin Proc
ASSUME UnitAssumption   == Slot \cap Nat = {} /\ NoUnit \notin Unit
ASSUME GuardAssumption  == Guarded \subseteq Task

\* The files of a generation, besides account.json and the event chain.
File == {"artifacts", "state", "equity", "ledger", "index", "report", "complete"}

\* The order in which a replay publishes a generation, one file write a step.
HeartbeatOrder ==
    [begin |-> "account", account |-> "state", state |-> "artifacts",
     artifacts |-> "index", index |-> "event", event |-> "complete",
     complete |-> "verify"]

AfterBookLast ==
    [reconcile |-> [begin |-> "artifacts", artifacts |-> "state",
                    state |-> "equity", equity |-> "ledger", ledger |-> "event",
                    event |-> "account", account |-> "report",
                    report |-> "complete", complete |-> "verify"],
     heartbeat |-> HeartbeatOrder]

After ==
    [reconcile |-> [begin |-> "account", account |-> "artifacts",
                    artifacts |-> "state", state |-> "equity",
                    equity |-> "ledger", ledger |-> "event", event |-> "report",
                    report |-> "complete", complete |-> "verify"],
     heartbeat |-> HeartbeatOrder]

Replaying == {"account", "artifacts", "state", "equity", "ledger", "index",
              "event", "report", "complete", "verify"}
Recovering == {"recoverReconcile", "recoverHeartbeat"}
PC == {"idle", "checkSlot", "readCycles", "resolve", "load", "seal",
       "compute", "stage", "intent"} \cup Recovering \cup Replaying

\* base is the account hash the intent declares, from the account its state was
\* really computed on, prev and prevMark the heads of the two hash chains.
Intent == [kind : Kind, unit : Unit, base : Id0, from : Id0, prev : Id0,
           prevMark : Id0]
Bundle == [cycle : Cycle \cup {NoUnit}, base : Id0]
Local  == [pc : PC, task : Task \cup {"none"}, unit : Unit \cup {NoUnit},
           base : Id0, draft : Id0]

NoIntent == [kind |-> "reconcile", unit |-> 1, base |-> None, from |-> None,
             prev |-> None, prevMark |-> None]
NoBundle == [cycle |-> NoUnit, base |-> None]
Idle     == [pc |-> "idle", task |-> "none", unit |-> NoUnit, base |-> None,
             draft |-> None]

VARIABLES
    account,   \* account.json
    wal,       \* reconcile-transaction.json and heartbeat-transaction.json
    intent,    \* contents of every generation staged so far
    file,      \* the files and ledger rows of each cycle and slot
    events,    \* account-events.jsonl
    protocol,  \* reconcile-protocol.json exists
    bundle,    \* the sealed decision under pending/ (cycle and account digest)
    flock,     \* holder of the exclusive flock on the state directory
    launcher,  \* holder of desk-cycle.lock
    proc,      \* local state of each process
    nextId,    \* the next instant an account is computed at
    crashes    \* crashes so far

disk == <<account, wal, intent, file, events, protocol, bundle>>
vars == <<disk, flock, launcher, proc, nextId, crashes>>

-----------------------------------------------------------------------------
(* What the readers of the state directory compute from its files.         *)

\* n is the largest member of S, None when S is empty.
IsLatest(n, S) == n \in S \cup {None} /\ \A m \in S : m <= n

Published == {events[i] : i \in 1..Len(events)}
Head0     == IF events = <<>> THEN None ELSE events[Len(events)]

\* The one intent on disk, whichever of the two files holds it.
Pending == IF wal["reconcile"] # None THEN wal["reconcile"] ELSE wal["heartbeat"]

Own(n) == IF intent[n].kind = "reconcile"
          THEN {"artifacts", "state", "equity", "ledger", "report"}
          ELSE {"artifacts", "state", "index"}

\* Every file the completion manifest of n lists is there with n's bytes, and
\* so is n's event.
Intact(n) ==
    /\ file[intent[n].unit]["complete"] = n
    /\ \A f \in Own(n) : file[intent[n].unit][f] = n
    /\ n \in Published

CycleComplete(c) == file[c]["complete"] # None /\ Intact(file[c]["complete"])

Marks == {file[s]["index"] : s \in Slot} \ {None}

\* The official heartbeat rows form a hash chain in time order, every one of
\* them complete, except that the row being replayed may be the incomplete last.
HeartbeatHistory(allowed) ==
    \A m \in Marks :
        /\ IsLatest(intent[m].prevMark, {k \in Marks : k < m})
        /\ IF m = allowed THEN IsLatest(m, Marks) ELSE Intact(m)

\* The event a generation declares would extend the chain as it stands.
ExtendsChain(n) ==
    IF events = <<>> THEN intent[n].prev = None
    ELSE intent[n].prev = Head0 /\ intent[n].base = Head0 /\ Head0 <= n

ChainLinked ==
    \A i \in 1..Len(events) :
        /\ intent[events[i]].prev = IF i = 1 THEN None ELSE events[i - 1]
        /\ i > 1 => intent[events[i]].base = events[i - 1] /\ events[i - 1] <= events[i]

\* Generations that name an account event: cycles by their marker, slots by
\* their index row.
Declares(u) == IF u \in Slot THEN file[u]["index"] ELSE file[u]["complete"]
Declaring(n) == {u \in Unit : Declares(u) = n}

\* Every event has one intact declaring generation and every generation has
\* its event; the intent being replayed may be ahead on either side.
EventReferences(allowed) ==
    /\ ChainLinked
    /\ allowed # None =>
        IF allowed \in Published THEN Head0 = allowed ELSE ExtendsChain(allowed)
    /\ \A u \in Unit : Declares(u) # None =>
        /\ Declares(u) \in Published \cup {allowed}
        /\ intent[Declares(u)].kind = IF u \in Slot THEN "heartbeat" ELSE "reconcile"
        /\ Declaring(Declares(u)) = {u}
    /\ \A n \in Published :
        IF intent[n].kind = "reconcile"
        THEN n = allowed \/ (Declaring(n) # {} /\ Intact(n))
        ELSE Declaring(n) # {} /\ (n = allowed \/ Intact(n))

HistoryEstablished ==
    \/ events # <<>>
    \/ protocol
    \/ \E k \in Kind : wal[k] # None
    \/ \E u \in Unit, f \in File : file[u][f] # None

ChainEstablished == \E u \in Unit : Declares(u) # None

-----------------------------------------------------------------------------
Init ==
    /\ account = None
    /\ wal = [k \in Kind |-> None]
    /\ intent = [n \in Id |-> NoIntent]
    /\ file = [u \in Unit |-> [f \in File |-> None]]
    /\ events = <<>>
    /\ protocol = FALSE
    /\ bundle = NoBundle
    /\ flock = NoProc
    /\ launcher = NoProc
    /\ proc = [p \in Proc |-> Idle]
    /\ nextId = 1
    /\ crashes = 0

Goto(p, l) == proc' = [proc EXCEPT ![p].pc = l]

\* The task ends, with or without an error: its locks go with it.
Exit(p) ==
    /\ proc' = [proc EXCEPT ![p] = Idle]
    /\ launcher' = IF launcher = p THEN NoProc ELSE launcher

\* Where a task continues after recover_reconcile_transaction (l = "recoverReconcile")
\* or recover_heartbeat_transaction returned; "idle" ends the task.
Continue(p, l, recovered) ==
    IF proc[p].draft # None THEN "idle"
    ELSE IF l = "recoverReconcile"
         THEN CASE proc[p].task # "reconcile" -> "recoverHeartbeat"
                [] proc[p].task = "reconcile" /\ recovered -> "idle"
                [] OTHER -> "resolve"
         ELSE CASE proc[p].task = "heartbeat" -> "checkSlot"
                [] proc[p].task = "prepare" -> "readCycles"
                [] OTHER -> "idle"

Return(p, l, recovered) ==
    IF Continue(p, l, recovered) = "idle" THEN Exit(p)
    ELSE Goto(p, Continue(p, l, recovered)) /\ UNCHANGED launcher

LaunchPastReconcile(p, t, u) ==
    /\ proc[p].pc = "idle"
    /\ t \in Guarded => launcher = NoProc
    /\ launcher' = IF t \in Guarded THEN p ELSE launcher
    /\ proc' = [proc EXCEPT ![p] =
            [Idle EXCEPT !.pc = IF t = "heartbeat" THEN "recoverHeartbeat"
                                ELSE "recoverReconcile",
                         !.task = t, !.unit = u]]
    /\ UNCHANGED <<disk, flock, nextId, crashes>>

Launch(p, t, u) ==
    /\ proc[p].pc = "idle"
    /\ t \in Guarded => launcher = NoProc
    /\ launcher' = IF t \in Guarded THEN p ELSE launcher
    /\ proc' = [proc EXCEPT ![p] = [Idle EXCEPT !.pc = "recoverReconcile",
                                                !.task = t, !.unit = u]]
    /\ UNCHANGED <<disk, flock, nextId, crashes>>

\* A scheduled or a manual run of one of the command line tasks.
StartPrepare(p)      == Launch(p, "prepare", NoUnit)
StartReconcile(p)    == Launch(p, "reconcile", NoUnit)
StartRecover(p)      == Launch(p, "recover", NoUnit)
StartHeartbeat(p, s) == Launch(p, "heartbeat", s)

-----------------------------------------------------------------------------
(* Recovery: replay of the intent on disk.                                 *)

KindAt(p) == IF proc[p].pc = "recoverReconcile" THEN "reconcile" ELSE "heartbeat"
OtherKind(k) == IF k = "reconcile" THEN "heartbeat" ELSE "reconcile"

AdmissibleAnyMarker(k) ==
    LET n == wal[k] IN
    /\ wal[OtherKind(k)] = None
    /\ k = "heartbeat" => HeartbeatHistory(n)
    /\ EventReferences(n)
    /\ IF Intact(n) THEN account = n ELSE account \in {intent[n].base, n}

\* The checks a recovery makes before it writes anything.
Admissible(k) ==
    LET n == wal[k] u == intent[n].unit IN
    /\ wal[OtherKind(k)] = None
    /\ k = "heartbeat" => HeartbeatHistory(n)
    /\ EventReferences(n)
    /\ file[u]["complete"] \in {None, n}
    /\ IF Intact(n) THEN account = n ELSE account \in {intent[n].base, n}

\* No intent: {"recovered": False}.
NothingPending(p) ==
    /\ proc[p].pc \in Recovering
    /\ flock = NoProc
    /\ wal[KindAt(p)] = None
    /\ Return(p, proc[p].pc, FALSE)
    /\ UNCHANGED <<disk, flock, nextId, crashes>>

RetireIntentOnBook(p) ==
    LET k == KindAt(p) IN
    /\ proc[p].pc \in Recovering
    /\ flock = NoProc
    /\ wal[k] # None
    /\ Admissible(k)
    /\ account = wal[k]
    /\ wal' = [wal EXCEPT ![k] = None]
    /\ Return(p, proc[p].pc, TRUE)
    /\ UNCHANGED <<account, intent, file, events, protocol, bundle, flock, nextId,
                   crashes>>

\* The crash hit between the completion marker and the removal of the intent.
RetireIntent(p) ==
    LET k == KindAt(p) IN
    /\ proc[p].pc \in Recovering
    /\ flock = NoProc
    /\ wal[k] # None
    /\ Admissible(k)
    /\ Intact(wal[k])
    /\ wal' = [wal EXCEPT ![k] = None]
    /\ Return(p, proc[p].pc, TRUE)
    /\ UNCHANGED <<account, intent, file, events, protocol, bundle, flock, nextId,
                   crashes>>

BeginReplay(p) ==
    LET k == KindAt(p) IN
    /\ proc[p].pc \in Recovering
    /\ flock = NoProc
    /\ wal[k] # None
    /\ Admissible(k)
    /\ ~Intact(wal[k])
    /\ flock' = p
    /\ Goto(p, After[k]["begin"])
    /\ UNCHANGED <<disk, launcher, nextId, crashes>>

Replays(p, l) == proc[p].pc = l /\ flock = p
Advance(p)    == Goto(p, After[intent[Pending].kind][proc[p].pc])

\* One file of the generation now holds the intent's bytes.
Put(f) == file' = [file EXCEPT ![intent[Pending].unit][f] = Pending]

SaveAccount(p) ==
    /\ Replays(p, "account")
    /\ account' = Pending
    /\ Advance(p)
    /\ UNCHANGED <<wal, intent, file, events, protocol, bundle, flock, launcher,
                   nextId, crashes>>

\* Files of the generation that are overwritten without any check.
SaveOutput(p) ==
    /\ proc[p].pc \in {"artifacts", "state", "report", "complete"}
    /\ Replays(p, proc[p].pc)
    /\ Put(proc[p].pc)
    /\ Advance(p)
    /\ UNCHANGED <<account, wal, intent, events, protocol, bundle, flock, launcher,
                   nextId, crashes>>

\* A row of this cycle must be this very row, and rows stay in time order.
EquityAccepted ==
    /\ file[intent[Pending].unit]["equity"] \in {None, Pending}
    /\ \A c \in Cycle : file[c]["equity"] <= Pending

LedgerAccepted == file[intent[Pending].unit]["ledger"] \in {None, Pending}

\* A slot keeps its first row, and a new row extends the heartbeat chain.
MarkAccepted ==
    LET row == file[intent[Pending].unit]["index"] IN
    /\ HeartbeatHistory(Pending)
    /\ row \in {None, Pending}
    /\ row = None => IsLatest(intent[Pending].prevMark, Marks)

AppendRow(p, row, accepted) ==
    /\ Replays(p, row)
    /\ accepted
    /\ Put(row)
    /\ Advance(p)
    /\ UNCHANGED <<account, wal, intent, events, protocol, bundle, flock, launcher,
                   nextId, crashes>>

RecordEquity(p)    == AppendRow(p, "equity", EquityAccepted)
AppendLedger(p)    == AppendRow(p, "ledger", LedgerAccepted)
AppendHeartbeat(p) == AppendRow(p, "index", MarkAccepted)

AppendAccountEvent(p) ==
    /\ Replays(p, "event")
    /\ EventReferences(Pending)
    /\ events' = IF Pending \in Published THEN events ELSE Append(events, Pending)
    /\ Advance(p)
    /\ UNCHANGED <<account, wal, intent, file, protocol, bundle, flock, launcher,
                   nextId, crashes>>

FinishReplay(p) ==
    LET k == intent[Pending].kind IN
    /\ Replays(p, "verify")
    /\ Intact(Pending)
    /\ account = Pending
    /\ wal' = [wal EXCEPT ![k] = None]
    /\ flock' = NoProc
    /\ Return(p, IF k = "reconcile" THEN "recoverReconcile" ELSE "recoverHeartbeat",
              TRUE)
    /\ UNCHANGED <<account, intent, file, events, protocol, bundle, nextId, crashes>>

-----------------------------------------------------------------------------
(* Tasks: from the loaded account to the staged intent.                    *)

\* A heartbeat whose slot has a row stops there: the slot is settled, or its
\* completion is damaged and the task halts.
SlotSettled(p) ==
    /\ proc[p].pc = "checkSlot"
    /\ file[proc[p].unit]["index"] # None
    /\ Exit(p)
    /\ UNCHANGED <<disk, flock, nextId, crashes>>

SlotOpenUnchecked(p) ==
    /\ proc[p].pc = "checkSlot"
    /\ Goto(p, "load")
    /\ UNCHANGED <<disk, flock, launcher, nextId, crashes>>

SlotOpen(p) ==
    /\ proc[p].pc = "checkSlot"
    /\ file[proc[p].unit]["index"] = None
    /\ Goto(p, "load")
    /\ UNCHANGED <<disk, flock, launcher, nextId, crashes>>

CompleteCycles == {c \in Cycle : CycleComplete(c)}

ReadCyclesSkipping(p) ==
    /\ proc[p].pc = "readCycles"
    /\ \E c \in 0..(MaxCommit + 1) :
        /\ IsLatest(c, CompleteCycles)
        /\ proc' = [proc EXCEPT ![p].unit = c + 2, ![p].pc = "load"]
    /\ UNCHANGED <<disk, flock, launcher, nextId, crashes>>

\* A prepare opens the cycle after the last complete one.  It reads the markers
\* without the state lock, and before it loads the account.
ReadCycles(p) ==
    /\ proc[p].pc = "readCycles"
    /\ \E c \in 0..MaxCommit :
        /\ IsLatest(c, CompleteCycles)
        /\ proc' = [proc EXCEPT ![p].unit = c + 1, ![p].pc = "load"]
    /\ UNCHANGED <<disk, flock, launcher, nextId, crashes>>

ResolvePending(p) ==
    /\ proc[p].pc = "resolve"
    /\ bundle # NoBundle
    /\ proc' = [proc EXCEPT ![p].unit = bundle.cycle, ![p].base = bundle.base,
                            ![p].pc = "load"]
    /\ UNCHANGED <<disk, flock, launcher, nextId, crashes>>

\* An absent account is a cold start only when nothing says otherwise, and a
\* reconcile insists on the account its decision was sealed for.
Loadable(p) ==
    /\ account = None => ~HistoryEstablished
    /\ proc[p].task = "reconcile" => account = proc[p].base

LoadAccount(p) ==
    /\ proc[p].pc = "load"
    /\ flock = NoProc
    /\ Loadable(p)
    /\ proc' = [proc EXCEPT ![p].base = account,
            ![p].pc = IF proc[p].task = "prepare" THEN "seal" ELSE "compute"]
    /\ UNCHANGED <<disk, flock, launcher, nextId, crashes>>

SealBundle(p) ==
    /\ proc[p].pc = "seal"
    /\ bundle' = [cycle |-> proc[p].unit, base |-> proc[p].base]
    /\ Exit(p)
    /\ UNCHANGED <<account, wal, intent, file, events, protocol, flock, nextId, crashes>>

\* Funding is settled and the book is marked as of now, on the loaded account.
ComputeAccount(p) ==
    /\ proc[p].pc = "compute"
    /\ nextId <= MaxCommit
    /\ proc' = [proc EXCEPT ![p].draft = nextId, ![p].pc = "stage"]
    /\ nextId' = nextId + 1
    /\ UNCHANGED <<disk, flock, launcher, crashes>>

\* Stale prices, a refused decision, an unreachable exchange: the task stops
\* before it stages anything.
GiveUp(p) ==
    /\ proc[p].pc \in {"compute", "seal"}
    /\ Exit(p)
    /\ UNCHANGED <<disk, flock, nextId, crashes>>

\* expected_base_account_sha256, the digest read together with the account.
BaseOfReread(p) == account
BaseOf(p) == proc[p].base

\* What staging requires before it writes its first file.
StageableOwnKindOnly(p) ==
    /\ account = BaseOf(p)
    /\ wal[proc[p].task] = None
    /\ proc[p].task = "heartbeat" => HeartbeatHistory(None)

Stageable(p) ==
    /\ account = BaseOf(p)
    /\ wal["reconcile"] = None
    /\ wal["heartbeat"] = None
    /\ proc[p].task = "heartbeat" => HeartbeatHistory(None)

\* A reconcile makes sure that the protocol file exists before its intent does.
Stage(p) ==
    /\ proc[p].pc = "stage"
    /\ flock = NoProc
    /\ Stageable(p)
    /\ flock' = p
    /\ protocol' = (protocol \/ proc[p].task = "reconcile")
    /\ Goto(p, "intent")
    /\ UNCHANGED <<account, wal, intent, file, events, bundle, launcher, nextId,
                   crashes>>

\* prepare_account_event: the verified chain ends in the base account.
EventPreparable(p) ==
    /\ EventReferences(None)
    /\ events = <<>> => ~ChainEstablished
    /\ events # <<>> => Head0 = BaseOf(p) /\ Head0 <= proc[p].draft

WriteIntent(p) ==
    LET k == proc[p].task n == proc[p].draft IN
    /\ proc[p].pc = "intent"
    /\ flock = p
    /\ EventPreparable(p)
    /\ \E mark \in Id0 :
        /\ IF k = "heartbeat" THEN IsLatest(mark, Marks) ELSE mark = None
        /\ intent' = [intent EXCEPT ![n] =
                [kind |-> k, unit |-> proc[p].unit, base |-> BaseOf(p),
                 from |-> proc[p].base, prev |-> Head0, prevMark |-> mark]]
    /\ wal' = [wal EXCEPT ![k] = n]
    /\ flock' = NoProc
    /\ Goto(p, IF k = "reconcile" THEN "recoverReconcile" ELSE "recoverHeartbeat")
    /\ UNCHANGED <<account, file, events, protocol, bundle, launcher, nextId, crashes>>

-----------------------------------------------------------------------------
\* A recovery that raises instead of replaying the intent on disk.
RecoveryRefused(p) ==
    \/ /\ proc[p].pc \in Recovering
       /\ flock = NoProc
       /\ wal[KindAt(p)] # None
       /\ ~Admissible(KindAt(p))
    \/ Replays(p, "equity") /\ ~EquityAccepted
    \/ Replays(p, "ledger") /\ ~LedgerAccepted
    \/ Replays(p, "index") /\ ~MarkAccepted
    \/ Replays(p, "event") /\ ~EventReferences(Pending)
    \/ Replays(p, "verify") /\ ~(Intact(Pending) /\ account = Pending)

\* A task that stops on a failed check before it has staged an intent.
TaskRefused(p) ==
    \/ proc[p].pc = "resolve" /\ bundle = NoBundle
    \/ proc[p].pc = "load" /\ flock = NoProc /\ ~Loadable(p)
    \/ proc[p].pc = "stage" /\ flock = NoProc /\ ~Stageable(p)
    \/ proc[p].pc = "intent" /\ ~EventPreparable(p)

Unlock(p) == flock' = IF flock = p THEN NoProc ELSE flock

\* The exception ends the task; whatever it wrote so far stays on disk.
Halt(p) ==
    /\ RecoveryRefused(p) \/ TaskRefused(p)
    /\ Exit(p)
    /\ Unlock(p)
    /\ UNCHANGED <<disk, nextId, crashes>>

\* SIGKILL, a timeout or a power loss; the kernel drops both locks.
Crash(p) ==
    /\ proc[p].pc # "idle"
    /\ crashes < MaxCrash
    /\ crashes' = crashes + 1
    /\ Exit(p)
    /\ Unlock(p)
    /\ UNCHANGED <<disk, nextId>>

Start(p) ==
    \/ StartPrepare(p)
    \/ StartReconcile(p)
    \/ StartRecover(p)
    \/ \E s \in Slot : StartHeartbeat(p, s)

Recover(p) ==
    \/ NothingPending(p)
    \/ RetireIntent(p)
    \/ BeginReplay(p)
    \/ SaveAccount(p)
    \/ SaveOutput(p)
    \/ RecordEquity(p)
    \/ AppendLedger(p)
    \/ AppendHeartbeat(p)
    \/ AppendAccountEvent(p)
    \/ FinishReplay(p)

Work(p) ==
    \/ SlotSettled(p)
    \/ SlotOpen(p)
    \/ ReadCycles(p)
    \/ ResolvePending(p)
    \/ LoadAccount(p)
    \/ SealBundle(p)
    \/ ComputeAccount(p)
    \/ GiveUp(p)
    \/ Stage(p)
    \/ WriteIntent(p)

Next == \E p \in Proc : Start(p) \/ Recover(p) \/ Work(p) \/ Halt(p) \/ Crash(p)

Spec == Init /\ [][Next]_vars

-----------------------------------------------------------------------------
(* Properties.                                                             *)

\* Every variable holds what the code can put there.
TypeOK ==
    /\ account \in Id0
    /\ wal \in [Kind -> Id0]
    /\ intent \in [Id -> Intent]
    /\ file \in [Unit -> [File -> Id0]]
    /\ events \in Seq(Id)
    /\ protocol \in BOOLEAN
    /\ bundle \in Bundle
    /\ flock \in Proc \cup {NoProc}
    /\ launcher \in Proc \cup {NoProc}
    /\ proc \in [Proc -> Local]
    /\ nextId \in 1..(MaxCommit + 1)
    /\ crashes \in 0..MaxCrash

\* Recovery refuses to guess between two unfinished transactions, so no order of
\* staging, crashing and recovering may leave both files on disk.
AtMostOneIntent == wal["reconcile"] = None \/ wal["heartbeat"] = None

\* The book and the event chain move together: with no intent on disk account.json
\* is the account of the last event; during a replay both are at the base or at the
\* target, and the book moves first.
BookFollowsChain ==
    IF Pending = None THEN account = Head0
    ELSE /\ account \in {intent[Pending].base, Pending}
         /\ Head0 \in {intent[Pending].prev, Pending}
         /\ Head0 = Pending => account = Pending

\* complete.json is the only public commit point: wherever it stands, every file,
\* row and event its manifest lists stands too.
MarkerMeansIntact ==
    \A u \in Unit : file[u]["complete"] # None => Intact(file[u]["complete"])

\* With no intent on disk nothing is half published: a cycle or slot that has any
\* file or row of a generation has its marker.
NothingHalfPublished ==
    Pending = None =>
        \A u \in Unit : (\E f \in File : file[u][f] # None) =>
            file[u]["complete"] # None /\ Intact(file[u]["complete"])

\* What is published is whole: a marker never stands beside a missing or replaced file,
\* and files without their marker only while the intent that completes them is on disk.
PublishedWhole == MarkerMeansIntact /\ NothingHalfPublished

\* Whatever was staged can be replayed: no history of staging, crashes and other
\* tasks leads recovery to a check it fails, which would stop the desk for good.
RecoveryNeverRefuses == \A p \in Proc : ~RecoveryRefused(p)

\* The book only ever moves to an account that was computed on the book it replaces.
NoLostUpdate ==
    [][account' # account => account' # None /\ intent[account'].from = account]_vars

\* Once a cycle or slot has its marker, none of its files or rows changes.
CommittedIsImmutable ==
    [][\A u \in Unit : file[u]["complete"] # None => file'[u] = file[u]]_vars

\* An intent on disk does not stay there: the scheduled heartbeats replay it, however
\* often tasks crash, until it is committed and removed.
IntentResolved == Pending # None ~> Pending = None

\* The unlocked step of every task is taken if it stays possible, and the scheduler
\* keeps launching heartbeats whenever the launchers' lock is free.
FairSpec ==
    /\ Spec
    /\ \A p \in Proc : WF_vars(Recover(p) \/ Work(p) \/ Halt(p))
    /\ \A p \in Proc : SF_vars(\E s \in Slot : StartHeartbeat(p, s))

\* The abstract ledger this protocol implements: what is committed are the events
\* whose generation is intact, what is staged is the intent until its marker is out.
Entry(n)  == [id |-> n, unit |-> intent[n].unit, from |-> intent[n].from]
Committed == IF events # <<>> /\ ~Intact(Head0) THEN Len(events) - 1 ELSE Len(events)

Ledger == INSTANCE AccountLedger WITH
    Generation <- Id,
    Units <- Unit,
    ledger <- [i \in 1..Committed |-> Entry(events[i])],
    staged <- IF Pending = None \/ Intact(Pending)
              THEN [id |-> 0, unit |-> 0, from |-> 0] ELSE Entry(Pending)

\* Every behaviour of the commit protocol is a behaviour of the abstract ledger.
ImplementsLedger == Ledger!Spec

=============================================================================
