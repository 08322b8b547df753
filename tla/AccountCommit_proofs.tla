------------------------ MODULE AccountCommit_proofs ------------------------
(***************************************************************************)
(* Proofs about AccountCommit, for every number of processes, slots,       *)
(* generations and crashes, and whichever tasks the launchers guard.       *)
(***************************************************************************)
EXTENDS AccountCommit, TLAPS

\* The writes of a replay, by the kind of the generation.
Writes == [reconcile |-> {"account", "artifacts", "state", "equity", "ledger",
                          "event", "report", "complete", "verify"},
           heartbeat |-> {"account", "state", "artifacts", "index", "event",
                          "complete", "verify"}]

Locking == {"intent"} \cup Replaying

\* The state lock is held exactly by the process that stages or replays.
LockInv == \A p \in Proc : flock = p <=> proc[p].pc \in Locking

\* What a task knows at each of its steps.
LocalOK(r) ==
    /\ r.task = "heartbeat" => r.unit \in Slot
    /\ r.pc = "readCycles" => r.task = "prepare"
    /\ r.pc = "resolve" => r.task = "reconcile"
    /\ r.pc = "checkSlot" => r.task = "heartbeat"
    /\ r.pc = "seal" => r.task = "prepare"
    /\ r.pc = "load" => r.task \in {"prepare"} \cup Kind
    /\ r.pc \in {"compute", "stage", "intent"} => r.task \in Kind
    /\ r.pc \in {"load", "seal", "compute", "stage", "intent"}
         => r.unit \in IF r.task = "heartbeat" THEN Slot ELSE Cycle
    /\ r.pc \in {"stage", "intent"} => r.draft \in Id

LocalInv == \A p \in Proc : LocalOK(proc[p])

BundleInv == bundle # NoBundle => bundle.cycle \in Cycle

\* Where the one intent on disk is while it is staged and replayed.
IntentInv ==
    /\ AtMostOneIntent
    /\ \A k \in Kind : wal[k] # None => intent[wal[k]].kind = k
    /\ \A p \in Proc : proc[p].pc = "intent" => Pending = None
    /\ \A p \in Proc : proc[p].pc \in Replaying =>
         Pending # None /\ proc[p].pc \in Writes[intent[Pending].kind]

ControlInv == TypeOK /\ LockInv /\ LocalInv /\ BundleInv /\ IntentInv

-----------------------------------------------------------------------------
\* A fresh desk, with no file and no task, is in control.
LEMMA ControlInit == Init => ControlInv
<1> SUFFICES ASSUME Init PROVE ControlInv
  OBVIOUS
<1> USE BoundsAssumption, ProcAssumption, UnitAssumption DEF Init, None
<1>1. account \in Id0 /\ wal \in [Kind -> Id0] /\ nextId \in 1..(MaxCommit + 1)
      /\ crashes \in 0..MaxCrash
  BY DEF Id0
<1>2. intent \in [Id -> Intent]
  <2>1. NoIntent \in Intent
    BY DEF NoIntent, Intent, Kind, Unit, Cycle, Id0
  <2> QED BY <2>1
<1>3. file \in [Unit -> [File -> Id0]]
  BY DEF Id0
<1>4. events \in Seq(Id)
  OBVIOUS
<1>10. protocol \in BOOLEAN
  BY Zenon
<1>11. flock \in Proc \cup {NoProc} /\ launcher \in Proc \cup {NoProc}
  OBVIOUS
<1>9. bundle \in Bundle
  BY DEF NoBundle, Bundle, Id0
<1>5. proc \in [Proc -> Local]
  <2>1. Idle \in Local
    BY DEF Idle, Local, PC, Id0
  <2> QED BY <2>1
<1>6. LockInv
  BY DEF LockInv, Locking, Idle, Replaying
<1>7. LocalInv
  BY DEF LocalInv, LocalOK, Idle
<1>8. BundleInv /\ IntentInv
  BY DEF BundleInv, IntentInv, AtMostOneIntent, Kind, Idle, Replaying
<1> QED
  BY <1>1, <1>2, <1>3, <1>4, <1>5, <1>6, <1>7, <1>8, <1>9, <1>10, <1>11
  DEF ControlInv, TypeOK

-----------------------------------------------------------------------------
\* A step that leaves the account, the intents, the files and the chain alone, and
\* after which process p is in state r and holds no lock.
Leaves(p, r) ==
    /\ r \in Local
    /\ LocalOK(r)
    /\ r.pc \notin Locking
    /\ proc' = [proc EXCEPT ![p] = r]
    /\ launcher' \in Proc \cup {NoProc}

\* Both ways a recovery call returns keep the task's local state consistent.
LEMMA ReturnLeaves ==
  ASSUME TypeOK, LocalInv, NEW p \in Proc, NEW l, NEW b \in BOOLEAN, Return(p, l, b)
  PROVE  \E r : Leaves(p, r)
<1>1. CASE Continue(p, l, b) = "idle"
  <2>1. Exit(p)
    BY <1>1 DEF Return
  <2>2. Idle \in Local
    BY BoundsAssumption DEF Idle, Local, PC, Id0, None
  <2>3. LocalOK(Idle) /\ Idle.pc \notin Locking
    BY DEF Idle, LocalOK, Locking, Replaying
  <2>4. proc' = [proc EXCEPT ![p] = Idle] /\ launcher' \in Proc \cup {NoProc}
    BY <2>1 DEF Exit, TypeOK
  <2> QED BY <2>2, <2>3, <2>4 DEF Leaves
<1>2. CASE Continue(p, l, b) # "idle"
  <2> DEFINE c == Continue(p, l, b)
             r == [proc[p] EXCEPT !.pc = c]
  <2>1. proc[p] \in Local /\ LocalOK(proc[p])
    BY DEF TypeOK, LocalInv
  <2>2. c \in {"resolve", "recoverHeartbeat", "checkSlot", "readCycles"}
    BY <1>2 DEF Continue
  <2>3. r \in Local
    BY <2>1, <2>2 DEF Local, PC, Recovering
  <2>4. LocalOK(r)
    BY <1>2, <2>1, <2>2 DEF LocalOK, Continue, Local, Task
  <2>5. proc' = [proc EXCEPT ![p] = r] /\ launcher' = launcher
    BY <1>2 DEF Return, Goto
  <2>6. r.pc \notin Locking
    BY <2>1, <2>2 DEF Locking, Replaying, Local
  <2> QED BY <2>3, <2>4, <2>5, <2>6 DEF Leaves, TypeOK
<1> QED BY <1>1, <1>2

-----------------------------------------------------------------------------
\* The variables every process may change and that control does not depend on.
RestTyped ==
    /\ account \in Id0
    /\ file \in [Unit -> [File -> Id0]]
    /\ events \in Seq(Id)
    /\ protocol \in BOOLEAN
    /\ bundle \in Bundle
    /\ BundleInv
    /\ nextId \in 1..(MaxCommit + 1)
    /\ crashes \in 0..MaxCrash

\* A step after which p holds no lock, and which may remove intents only when nobody
\* else is staging or replaying, preserves the control invariant.
LEMMA LeavingStep ==
  ASSUME ControlInv, NEW p \in Proc, NEW r, Leaves(p, r), RestTyped',
         flock' = IF flock = p THEN NoProc ELSE flock,
         intent' = intent,
         wal' \in [Kind -> Id0],
         \A k \in Kind : wal'[k] \in {wal[k], None},
         wal' = wal \/ flock \in {NoProc, p}
  PROVE  ControlInv'
<1> USE ProcAssumption
<1>1. TypeOK'
  BY DEF ControlInv, TypeOK, Leaves, RestTyped
<1>2. \A q \in Proc : proc'[q] = IF q = p THEN r ELSE proc[q]
  BY DEF ControlInv, TypeOK, Leaves
<1>3. LockInv'
  BY <1>2 DEF ControlInv, LockInv, TypeOK, Leaves
<1>4. LocalInv'
  BY <1>2 DEF ControlInv, LocalInv, Leaves
<1>5. BundleInv'
  BY DEF RestTyped
<1>6. IntentInv'
  <2>1. AtMostOneIntent'
    BY DEF ControlInv, IntentInv, AtMostOneIntent, Kind
  <2>2. (\A k \in Kind : wal[k] # None => intent[wal[k]].kind = k)'
    BY DEF ControlInv, IntentInv
  <2>3. ASSUME NEW q \in Proc, proc'[q].pc \in Locking
        PROVE  q # p /\ proc'[q] = proc[q] /\ wal' = wal
    BY <1>2, <2>3 DEF ControlInv, LockInv, Leaves
  <2>4. (\A q \in Proc : proc[q].pc = "intent" => Pending = None)'
    BY <2>3 DEF ControlInv, IntentInv, Pending, Locking
  <2>5. (\A q \in Proc : proc[q].pc \in Replaying =>
           Pending # None /\ proc[q].pc \in Writes[intent[Pending].kind])'
    BY <2>3 DEF ControlInv, IntentInv, Pending, Locking
  <2> QED BY <2>1, <2>2, <2>4, <2>5 DEF IntentInv
<1> QED BY <1>1, <1>3, <1>4, <1>5, <1>6 DEF ControlInv

\* A step after which p holds the state lock, to write an intent or to replay it.
LEMMA HoldingStep ==
  ASSUME ControlInv, NEW p \in Proc, NEW l, RestTyped',
         proc' = [proc EXCEPT ![p].pc = l],
         flock \in {NoProc, p}, flock' = p,
         launcher' = launcher, intent' = intent, wal' = wal,
         \/ l = "intent" /\ proc[p].pc = "stage" /\ Pending = None
         \/ l \in Replaying /\ Pending # None /\ l \in Writes[intent[Pending].kind]
  PROVE  ControlInv'
<1> USE ProcAssumption
<1>1. l \in PC /\ l \in Locking
  BY DEF PC, Locking
<1>2. proc[p] \in Local /\ \A q \in Proc : proc[q] \in Local
  BY DEF ControlInv, TypeOK
<1>3. [proc[p] EXCEPT !.pc = l] \in Local
  BY <1>1, <1>2 DEF Local
<1>4. TypeOK'
  BY <1>3 DEF ControlInv, TypeOK, RestTyped
<1>5. \A q \in Proc : proc'[q] = IF q = p THEN [proc[p] EXCEPT !.pc = l] ELSE proc[q]
  BY DEF ControlInv, TypeOK
<1>6. proc'[p].pc = l
  BY <1>2, <1>5 DEF Local
<1>7. LockInv'
  BY <1>1, <1>5, <1>6 DEF ControlInv, LockInv
<1>8. LocalInv'
  <2>1. LocalOK([proc[p] EXCEPT !.pc = l])
    BY <1>2 DEF ControlInv, LocalInv, LocalOK, Local, Replaying
  <2> QED BY <1>5, <2>1 DEF ControlInv, LocalInv
<1>9. BundleInv'
  BY DEF RestTyped
<1>10. IntentInv'
  <2>1. \A q \in Proc : proc'[q].pc \in Locking => q = p
    BY <1>7 DEF LockInv
  <2> QED BY <1>6, <2>1 DEF ControlInv, IntentInv, AtMostOneIntent, Pending, Locking, Replaying
<1> QED BY <1>4, <1>7, <1>8, <1>9, <1>10 DEF ControlInv

-----------------------------------------------------------------------------
\* A task that ends (returns, raises or is killed) keeps no lock and no local state.
LEMMA ExitLeaves ==
  ASSUME TypeOK, NEW p \in Proc, Exit(p)
  PROVE  Leaves(p, Idle)
<1>1. Idle \in Local
  BY BoundsAssumption DEF Idle, Local, PC, Id0, None
<1>2. LocalOK(Idle) /\ Idle.pc \notin Locking
  BY DEF Idle, LocalOK, Locking, Replaying
<1> QED BY <1>1, <1>2 DEF Leaves, Exit, TypeOK

\* A step that writes no file but the intents leaves their types alone.
LEMMA RestUnchanged ==
  ASSUME ControlInv, UNCHANGED <<account, file, events, protocol, bundle, nextId, crashes>>
  PROVE  RestTyped'
BY DEF ControlInv, TypeOK, BundleInv, RestTyped

\* Starting a task, ending one, and a recovery that finds nothing to do.
\* Launching a task, with the launchers' lock or without, writes nothing.
LEMMA StartStep ==
  ASSUME ControlInv, NEW p \in Proc, Start(p)
  PROVE  ControlInv'
<1>1. PICK t \in Task, u \in Slot \cup {NoUnit} :
        Launch(p, t, u) /\ (t = "heartbeat" => u \in Slot)
  BY DEF Start, StartPrepare, StartReconcile, StartRecover, StartHeartbeat, Task
<1> DEFINE r == [Idle EXCEPT !.pc = "recoverReconcile", !.task = t, !.unit = u]
<1>2. proc' = [proc EXCEPT ![p] = r] /\ launcher' \in Proc \cup {NoProc}
      /\ proc[p].pc = "idle"
  BY <1>1 DEF Launch, ControlInv, TypeOK
<1>3. r \in Local
  <2>1. Idle \in Local
    BY BoundsAssumption DEF Idle, Local, PC, Id0, None
  <2> QED BY <2>1 DEF Local, PC, Recovering, Unit
<1>4. LocalOK(r) /\ r.pc \notin Locking
  BY <1>1 DEF LocalOK, Idle, Locking, Replaying
<1>5. Leaves(p, r)
  BY <1>2, <1>3, <1>4 DEF Leaves
<1>6. flock # p
  BY <1>2 DEF ControlInv, LockInv, Locking, Replaying
<1>7. UNCHANGED <<disk, flock, nextId, crashes>>
  BY <1>1 DEF Launch
<1>8. RestTyped'
  BY <1>7, RestUnchanged DEF disk
<1> QED
  BY <1>5, <1>6, <1>7, <1>8, LeavingStep DEF disk, ControlInv, TypeOK

\* A failed check or a kill ends the task and drops its locks, and nothing else.
LEMMA EndStep ==
  ASSUME ControlInv, NEW p \in Proc, Halt(p) \/ Crash(p)
  PROVE  ControlInv'
<1>1. Exit(p) /\ Unlock(p) /\ UNCHANGED <<disk, nextId>>
      /\ crashes' \in 0..MaxCrash
  BY BoundsAssumption DEF Halt, Crash, ControlInv, TypeOK
<1>2. RestTyped'
  BY <1>1 DEF RestTyped, ControlInv, TypeOK, BundleInv, disk
<1>3. Leaves(p, Idle)
  BY <1>1, ExitLeaves DEF ControlInv
<1> QED
  BY <1>1, <1>2, <1>3, LeavingStep DEF Unlock, disk, ControlInv, TypeOK

-----------------------------------------------------------------------------
\* A recovery call that found no intent, or only removed one that was already
\* published, hands over to the next step of its task.
LEMMA ReturnStep ==
  ASSUME ControlInv, NEW p \in Proc, NEW l, NEW b \in BOOLEAN, Return(p, l, b),
         flock' = IF flock = p THEN NoProc ELSE flock,
         wal' = wal \/ flock \in {NoProc, p},
         wal' = wal \/ \E k \in Kind : wal' = [wal EXCEPT ![k] = None],
         UNCHANGED <<account, intent, file, events, protocol, bundle, nextId, crashes>>
  PROVE  ControlInv'
<1>1. PICK r : Leaves(p, r)
  BY ReturnLeaves DEF ControlInv
<1>2. RestTyped'
  BY RestUnchanged
<1>3. wal' \in [Kind -> Id0] /\ \A k \in Kind : wal'[k] \in {wal[k], None}
  BY BoundsAssumption DEF ControlInv, TypeOK, Id0, None
<1> QED
  BY <1>1, <1>2, <1>3, LeavingStep

\* The intent on disk is a generation with a kind and a cycle or slot.
LEMMA PendingTyped ==
  ASSUME TypeOK, Pending # None
  PROVE  Pending \in Id /\ intent[Pending] \in Intent /\ intent[Pending].kind \in Kind
         /\ intent[Pending].unit \in Unit
<1>1. wal["reconcile"] \in Id0 /\ wal["heartbeat"] \in Id0
  BY DEF TypeOK, Kind
<1>2. Pending \in Id
  BY <1>1, BoundsAssumption DEF Pending, Id, Id0, None
<1>3. intent[Pending] \in Intent
  BY <1>2 DEF TypeOK
<1> QED BY <1>2, <1>3 DEF Intent

\* Every step of recover_reconcile_transaction and recover_heartbeat_transaction
\* preserves the control invariant.
LEMMA RecoverStep ==
  ASSUME ControlInv, NEW p \in Proc, Recover(p)
  PROVE  ControlInv'
<1> USE ProcAssumption DEF ControlInv
<1>1. KindAt(p) \in Kind
  BY DEF KindAt, Kind
<1>2. ASSUME NEW l, Replays(p, l), l \in Replaying
      PROVE  Pending # None /\ l \in Writes[intent[Pending].kind]
             /\ proc[p].pc = l /\ flock = p
  BY <1>2 DEF Replays, IntentInv
<1>4. ASSUME NEW l, Replays(p, l), l \in Replaying \ {"verify"}, Advance(p),
             RestTyped', UNCHANGED <<wal, intent, flock, launcher>>
      PROVE  ControlInv'
  <2> DEFINE m == After[intent[Pending].kind][l]
  <2>1. m \in Replaying /\ m \in Writes[intent[Pending].kind]
    BY <1>2, PendingTyped, <1>4 DEF After, HeartbeatOrder, Writes, Replaying, Kind
  <2>2. proc' = [proc EXCEPT ![p].pc = m]
    BY <1>2, <1>4 DEF Advance, Goto
  <2> QED BY <1>2, <1>4, <2>1, <2>2, HoldingStep
<1>5. CASE NothingPending(p)
  <2>1. flock # p
    BY <1>5 DEF NothingPending
  <2> QED BY <1>5, <2>1, ReturnStep DEF NothingPending, disk
<1>6. CASE RetireIntent(p)
  <2>1. flock = NoProc
    BY <1>6 DEF RetireIntent
  <2> QED BY <1>1, <1>6, <2>1, ReturnStep DEF RetireIntent
<1>7. CASE BeginReplay(p)
  <2> DEFINE k == KindAt(p)
             m == After[k]["begin"]
  <2>1. wal[k] # None /\ Pending = wal[k]
    BY <1>1, <1>7 DEF BeginReplay, Pending, IntentInv, AtMostOneIntent, Kind
  <2>2. intent[Pending].kind = k
    BY <1>1, <2>1 DEF IntentInv
  <2>3. m \in Replaying /\ m \in Writes[intent[Pending].kind]
    BY <1>1, <2>2 DEF After, HeartbeatOrder, Writes, Replaying, Kind
  <2>4. RestTyped'
    BY <1>7, RestUnchanged DEF BeginReplay, disk
  <2> QED
    BY <1>7, <2>1, <2>3, <2>4, HoldingStep DEF BeginReplay, Goto, disk
<1>8. CASE SaveAccount(p)
  <2>1. RestTyped'
    BY <1>2, PendingTyped, <1>8 DEF SaveAccount, RestTyped, TypeOK, BundleInv, Id, Id0, Replaying
  <2> QED BY <1>4, <1>8, <2>1 DEF SaveAccount, Replaying
<1>9. ASSUME NEW f \in File, Pending # None, Put(f)
      PROVE  file' \in [Unit -> [File -> Id0]]
  <2> DEFINE u == intent[Pending].unit
  <2>1. Pending \in Id0 /\ u \in Unit
    BY <1>9, PendingTyped, BoundsAssumption DEF Id, Id0
  <2>2. file \in [Unit -> [File -> Id0]]
    BY DEF TypeOK
  <2>3. [file[u] EXCEPT ![f] = Pending] \in [File -> Id0]
    BY <2>1, <2>2
  <2>4. file' = [file EXCEPT ![u] = [file[u] EXCEPT ![f] = Pending]]
    BY <1>9 DEF Put
  <2> QED BY <2>1, <2>2, <2>3, <2>4
<1>10. CASE SaveOutput(p)
  <2>1. file' \in [Unit -> [File -> Id0]]
    BY <1>2, <1>9, <1>10 DEF SaveOutput, File, Replaying
  <2>2. RestTyped'
    BY <1>10, <2>1 DEF SaveOutput, RestTyped, TypeOK, BundleInv
  <2> QED BY <1>4, <1>10, <2>2 DEF SaveOutput, Replaying
<1>11. ASSUME NEW f \in {"equity", "ledger", "index"}, NEW ok, AppendRow(p, f, ok)
       PROVE  ControlInv'
  <2>1. file' \in [Unit -> [File -> Id0]]
    BY <1>2, <1>9, <1>11 DEF AppendRow, File, Replaying
  <2>2. RestTyped'
    BY <1>11, <2>1 DEF AppendRow, RestTyped, TypeOK, BundleInv
  <2> QED BY <1>4, <1>11, <2>2 DEF AppendRow, Replaying
<1>12. CASE RecordEquity(p)
  BY <1>11, <1>12 DEF RecordEquity
<1>13. CASE AppendLedger(p)
  BY <1>11, <1>13 DEF AppendLedger
<1>14. CASE AppendHeartbeat(p)
  BY <1>11, <1>14 DEF AppendHeartbeat
<1>15. CASE AppendAccountEvent(p)
  <2>1. events' \in Seq(Id)
    BY <1>2, PendingTyped, <1>15 DEF AppendAccountEvent, TypeOK, Replaying
  <2>2. RestTyped'
    BY <1>15, <2>1 DEF AppendAccountEvent, RestTyped, TypeOK, BundleInv
  <2> QED BY <1>4, <1>15, <2>2 DEF AppendAccountEvent, Replaying
<1>16. CASE FinishReplay(p)
  <2>1. Pending # None /\ flock = p
    BY <1>2, <1>16 DEF FinishReplay, Replaying
  <2> QED BY PendingTyped, <1>16, <2>1, ReturnStep DEF FinishReplay
<1> QED
  BY <1>5, <1>6, <1>7, <1>8, <1>10, <1>12, <1>13, <1>14, <1>15, <1>16 DEF Recover

-----------------------------------------------------------------------------
\* The head of the account-event chain is a generation, or there is none.
LEMMA Head0Typed ==
  ASSUME TypeOK
  PROVE  Head0 \in Id0 /\ (events # <<>> => Head0 = events[Len(events)] /\ Head0 \in Id)
<1>1. CASE events = <<>>
  BY <1>1, BoundsAssumption DEF Head0, Id0, None
<1>2. CASE events # <<>>
  <2>1. Len(events) \in 1..Len(events) /\ events[Len(events)] \in Id
    BY <1>2 DEF TypeOK
  <2> QED BY <1>2, <2>1, BoundsAssumption DEF Head0, Id, Id0
<1> QED BY <1>1, <1>2

\* The one step that puts an intent on disk does so under the state lock, with no
\* other intent there.
LEMMA WriteIntentStep ==
  ASSUME ControlInv, NEW p \in Proc, WriteIntent(p)
  PROVE  ControlInv'
<1> USE ProcAssumption
<1> DEFINE k == proc[p].task
           n == proc[p].draft
           l == IF k = "reconcile" THEN "recoverReconcile" ELSE "recoverHeartbeat"
           r == [proc[p] EXCEPT !.pc = l]
<1>1. proc[p] \in Local /\ LocalOK(proc[p]) /\ proc[p].pc = "intent" /\ flock = p
  BY DEF ControlInv, TypeOK, LocalInv, WriteIntent
<1>2. k \in Kind /\ n \in Id /\ n # None /\ n \in Id0
  BY <1>1, BoundsAssumption DEF LocalOK, Id, Id0, None
<1>3. proc[p].unit \in Unit /\ proc[p].base \in Id0
  BY <1>1 DEF LocalOK, Unit, Local
<1>4. wal["reconcile"] = None /\ wal["heartbeat"] = None
  BY <1>1 DEF ControlInv, IntentInv, AtMostOneIntent, Pending
<1>5. PICK mark \in Id0 :
        intent' = [intent EXCEPT ![n] =
          [kind |-> k, unit |-> proc[p].unit, base |-> proc[p].base,
           from |-> proc[p].base, prev |-> Head0, prevMark |-> mark]]
  BY DEF WriteIntent, BaseOf
<1>6. intent' \in [Id -> Intent] /\ intent'[n].kind = k
  <2>1. Head0 \in Id0
    BY Head0Typed DEF ControlInv
  <2> DEFINE x == [kind |-> k, unit |-> proc[p].unit, base |-> proc[p].base,
                   from |-> proc[p].base, prev |-> Head0, prevMark |-> mark]
  <2>2. x \in Intent /\ x.kind = k
    BY <1>2, <1>3, <2>1 DEF Intent
  <2> QED BY <1>2, <1>5, <2>2 DEF ControlInv, TypeOK
<1>7. wal' = [wal EXCEPT ![k] = n] /\ flock' = NoProc /\ proc' = [proc EXCEPT ![p] = r]
      /\ UNCHANGED <<account, file, events, protocol, bundle, launcher, nextId, crashes>>
  BY DEF WriteIntent, Goto
<1>8. r \in Local /\ r.pc = l /\ l \in Recovering
  BY <1>1 DEF Local, PC, Recovering
<1>9. TypeOK'
  <2>1. wal' \in [Kind -> Id0]
    BY <1>2, <1>7 DEF ControlInv, TypeOK
  <2>2. proc' \in [Proc -> Local]
    BY <1>7, <1>8 DEF ControlInv, TypeOK
  <2> QED BY <1>6, <1>7, <2>1, <2>2 DEF ControlInv, TypeOK
<1>10. \A q \in Proc : proc'[q] = IF q = p THEN r ELSE proc[q]
  BY <1>7 DEF ControlInv, TypeOK
<1>11. \A q \in Proc : proc'[q].pc \notin Locking
  <2>1. r.pc \notin Locking
    BY <1>8 DEF Locking, Replaying, Recovering
  <2>2. \A q \in Proc : q # p => proc[q].pc \notin Locking
    BY <1>1 DEF ControlInv, LockInv
  <2> HIDE DEF r
  <2> QED BY <1>10, <2>1, <2>2
<1>12. LockInv'
  BY <1>7, <1>11 DEF LockInv
<1>13. LocalInv'
  <2>1. LocalOK(r)
    BY <1>1, <1>8 DEF LocalOK, Local, Recovering
  <2> QED BY <1>10, <2>1 DEF ControlInv, LocalInv
<1>14. BundleInv'
  BY <1>7 DEF ControlInv, BundleInv
<1>15. IntentInv'
  <2>1. \A j \in Kind : wal'[j] = IF j = k THEN n ELSE None
    <3>1. wal \in [Kind -> Id0] /\ \A j \in Kind : wal[j] = None
      BY <1>4 DEF ControlInv, TypeOK, Kind
    <3> QED BY <1>2, <1>7, <3>1
  <2>2. AtMostOneIntent'
    BY <1>2, <2>1 DEF AtMostOneIntent, Kind
  <2>3. (\A j \in Kind : wal[j] # None => intent[wal[j]].kind = j)'
    BY <1>6, <2>1
  <2> QED BY <1>11, <2>2, <2>3 DEF IntentInv, Locking
<1> QED BY <1>9, <1>12, <1>13, <1>14, <1>15 DEF ControlInv

\* Every step of a task between its recovery and its staged intent preserves the
\* control invariant.
LEMMA WorkStep ==
  ASSUME ControlInv, NEW p \in Proc, Work(p)
  PROVE  ControlInv'
<1> USE ProcAssumption
<1>1. proc[p] \in Local /\ LocalOK(proc[p]) /\ proc[p].unit \in Unit \cup {NoUnit}
  BY DEF ControlInv, TypeOK, LocalInv, Local
<1>2. ASSUME NEW r, Leaves(p, r), RestTyped', flock \in {NoProc, p} => flock = NoProc,
             UNCHANGED <<wal, intent, flock>>
      PROVE  ControlInv'
  BY <1>2, LeavingStep DEF ControlInv, TypeOK
<1>3. proc[p].pc \notin Locking => (flock \in {NoProc, p} => flock = NoProc)
  BY DEF ControlInv, LockInv
<1>4. ASSUME NEW l \in PC, Goto(p, l), launcher' = launcher, l \notin Locking,
             LocalOK([proc[p] EXCEPT !.pc = l])
      PROVE  Leaves(p, [proc[p] EXCEPT !.pc = l])
  <2>1. [proc[p] EXCEPT !.pc = l] \in Local /\ [proc[p] EXCEPT !.pc = l].pc = l
    BY <1>1 DEF Local
  <2> QED BY <1>4, <2>1 DEF Leaves, Goto, ControlInv, TypeOK
<1>5. CASE SlotSettled(p)
  BY <1>2, <1>3, <1>5, ExitLeaves, RestUnchanged
  DEF SlotSettled, disk, ControlInv, Locking, Replaying
<1>6. CASE SlotOpen(p)
  <2>1. LocalOK([proc[p] EXCEPT !.pc = "load"])
    BY <1>1, <1>6 DEF SlotOpen, LocalOK, Local, Kind
  <2>2. Leaves(p, [proc[p] EXCEPT !.pc = "load"])
    BY <1>4, <1>6, <2>1 DEF SlotOpen, PC, Locking, Replaying
  <2> QED
    BY <1>2, <1>3, <1>6, <2>2, RestUnchanged DEF SlotOpen, disk, Locking, Replaying
<1>7. CASE ReadCycles(p)
  <2>1. PICK c \in 0..MaxCommit :
          proc' = [proc EXCEPT ![p].unit = c + 1, ![p].pc = "load"]
    BY <1>7 DEF ReadCycles
  <2> DEFINE r == [proc[p] EXCEPT !.unit = c + 1, !.pc = "load"]
  <2>2. c + 1 \in Cycle
    BY BoundsAssumption DEF Cycle
  <2>3. r \in Local /\ r.pc \notin Locking
    BY <1>1, <2>2 DEF Local, Unit, PC, Locking, Replaying
  <2>4. LocalOK(r)
    BY <1>1, <1>7, <2>2 DEF ReadCycles, LocalOK, Local
  <2>5. Leaves(p, r)
    BY <1>7, <2>1, <2>3, <2>4 DEF Leaves, ReadCycles, ControlInv, TypeOK
  <2> QED
    BY <1>2, <1>3, <1>7, <2>5, RestUnchanged DEF ReadCycles, disk, Locking, Replaying
<1>8. CASE ResolvePending(p)
  <2> DEFINE r == [proc[p] EXCEPT !.unit = bundle.cycle, !.base = bundle.base,
                                  !.pc = "load"]
  <2>1. bundle.cycle \in Cycle /\ bundle.base \in Id0
    BY <1>8 DEF ResolvePending, ControlInv, BundleInv, TypeOK, Bundle
  <2>2. r \in Local /\ r.pc \notin Locking
    BY <1>1, <2>1 DEF Local, Unit, PC, Locking, Replaying
  <2>3. LocalOK(r)
    BY <1>1, <1>8, <2>1 DEF ResolvePending, LocalOK, Local, Kind
  <2>4. Leaves(p, r)
    BY <1>8, <2>2, <2>3 DEF Leaves, ResolvePending, ControlInv, TypeOK
  <2> QED
    BY <1>2, <1>3, <1>8, <2>4, RestUnchanged DEF ResolvePending, disk, Locking, Replaying
<1>9. CASE LoadAccount(p)
  <2> DEFINE l == IF proc[p].task = "prepare" THEN "seal" ELSE "compute"
             r == [proc[p] EXCEPT !.base = account, !.pc = l]
  <2>1. r \in Local /\ r.pc \notin Locking
    BY <1>1 DEF Local, PC, Locking, Replaying, ControlInv, TypeOK
  <2>2. LocalOK(r)
    BY <1>1, <1>9 DEF LoadAccount, LocalOK, Local, Kind
  <2>3. Leaves(p, r)
    BY <1>9, <2>1, <2>2 DEF Leaves, LoadAccount, ControlInv, TypeOK
  <2> QED
    BY <1>2, <1>3, <1>9, <2>3, RestUnchanged DEF LoadAccount, disk, Locking, Replaying
<1>10. CASE SealBundle(p)
  <2>1. proc[p].unit \in Cycle /\ proc[p].base \in Id0
    BY <1>1, <1>10 DEF SealBundle, LocalOK, Local
  <2>2. RestTyped'
    BY <1>10, <2>1 DEF SealBundle, RestTyped, BundleInv, Bundle, ControlInv, TypeOK
  <2>3. Leaves(p, Idle)
    BY <1>10, ExitLeaves DEF SealBundle, ControlInv
  <2> QED
    BY <1>2, <1>3, <1>10, <2>2, <2>3 DEF SealBundle, Locking, Replaying
<1>11. CASE ComputeAccount(p)
  <2> DEFINE r == [proc[p] EXCEPT !.draft = nextId, !.pc = "stage"]
  <2>1. nextId \in Id /\ nextId \in Id0 /\ nextId' \in 1..(MaxCommit + 1)
    BY <1>11, BoundsAssumption DEF ComputeAccount, ControlInv, TypeOK, Id, Id0
  <2>2. r \in Local /\ r.pc \notin Locking
    BY <1>1, <2>1 DEF Local, PC, Locking, Replaying
  <2>3. LocalOK(r)
    BY <1>1, <1>11, <2>1 DEF ComputeAccount, LocalOK, Local, Kind
  <2>4. Leaves(p, r)
    BY <1>11, <2>2, <2>3 DEF Leaves, ComputeAccount, ControlInv, TypeOK
  <2>5. RestTyped'
    BY <1>11, <2>1 DEF ComputeAccount, disk, RestTyped, BundleInv, ControlInv, TypeOK
  <2> QED
    BY <1>2, <1>3, <1>11, <2>4, <2>5 DEF ComputeAccount, disk, Locking, Replaying
<1>12. CASE GiveUp(p)
  BY <1>2, <1>3, <1>12, ExitLeaves, RestUnchanged
  DEF GiveUp, disk, ControlInv, Locking, Replaying
<1>13. CASE Stage(p)
  <2>1. protocol' \in BOOLEAN
    BY <1>13, Zenon DEF Stage
  <2>2. RestTyped'
    BY <1>13, <2>1 DEF Stage, RestTyped, BundleInv, ControlInv, TypeOK
  <2>3. Pending = None
    BY <1>13 DEF Stage, Stageable, Pending
  <2> QED
    BY <1>13, <2>2, <2>3, HoldingStep DEF Stage, Goto
<1>14. CASE WriteIntent(p)
  BY <1>14, WriteIntentStep
<1> QED
  BY <1>5, <1>6, <1>7, <1>8, <1>9, <1>10, <1>11, <1>12, <1>13, <1>14 DEF Work

-----------------------------------------------------------------------------
\* No step of any process leaves the control invariant.
LEMMA ControlStep ==
  ControlInv /\ [Next]_vars => ControlInv'
<1> SUFFICES ASSUME ControlInv, [Next]_vars PROVE ControlInv'
  OBVIOUS
<1>1. CASE UNCHANGED vars
  BY <1>1 DEF vars, disk, ControlInv, TypeOK, LockInv, LocalInv, BundleInv, IntentInv,
              AtMostOneIntent, Pending
<1>2. ASSUME NEW p \in Proc, Start(p) PROVE ControlInv'
  BY <1>2, StartStep
<1>3. ASSUME NEW p \in Proc, Recover(p) PROVE ControlInv'
  BY <1>3, RecoverStep
<1>4. ASSUME NEW p \in Proc, Work(p) PROVE ControlInv'
  BY <1>4, WorkStep
<1>5. ASSUME NEW p \in Proc, Halt(p) \/ Crash(p) PROVE ControlInv'
  BY <1>5, EndStep
<1> QED BY <1>1, <1>2, <1>3, <1>4, <1>5 DEF Next

\* Locks, intents and local states agree at all times: the state lock is held exactly
\* by the process that stages or replays, and a replaying process works on the one
\* intent on disk.  This is the invariant the two theorems below follow from.
THEOREM ControlInvariant == Spec => []ControlInv
BY ControlInit, ControlStep, PTL DEF Spec

\* The type invariant of the commit protocol: no sequence of runs, crashes and
\* recoveries takes a file, a lock or a process outside what the code writes there.
THEOREM TypeCorrect == Spec => []TypeOK
<1>1. ControlInv => TypeOK
  BY DEF ControlInv
<1> QED BY <1>1, ControlInvariant, PTL

\* Reconcile and heartbeat never leave both of their intent files on disk, so recovery
\* never has to choose between two unfinished transactions.
THEOREM SingleIntent == Spec => []AtMostOneIntent
<1>1. ControlInv => AtMostOneIntent
  BY DEF ControlInv, IntentInv
<1> QED BY <1>1, ControlInvariant, PTL

-----------------------------------------------------------------------------
(* The book and the event chain.                                           *)

\* What the one process holding the state lock knows of the book.
HolderKnowsBook ==
    \A p \in Proc :
        /\ proc[p].pc = "intent" => account = proc[p].base
        /\ proc[p].pc \in Replaying \ {"account"} => account = Pending
        /\ proc[p].pc \in {"report", "complete", "verify"} => Head0 = Pending

BaseIsOrigin == Pending # None => intent[Pending].from = intent[Pending].base

BookInv == BookFollowsChain /\ HolderKnowsBook /\ BaseIsOrigin

\* A fresh desk has no book, no chain and no intent.
LEMMA BookInit == Init => BookInv
BY DEF Init, BookInv, BookFollowsChain, HolderKnowsBook, BaseIsOrigin, Pending, Head0,
       Idle, None, Kind, Replaying

\* A step that leaves the book, the intents and the chain alone, and after which the
\* process that moved does not stage or replay.
LEMMA BookLeft ==
  ASSUME ControlInv, BookInv, NEW p \in Proc, NEW r, proc' = [proc EXCEPT ![p] = r],
         r.pc \notin Locking, UNCHANGED <<account, wal, intent, events>>
  PROVE  BookInv'
<1>1. Pending' = Pending /\ Head0' = Head0
  BY DEF Pending, Head0
<1>2. \A q \in Proc : proc'[q] = IF q = p THEN r ELSE proc[q]
  BY DEF ControlInv, TypeOK
<1>3. HolderKnowsBook'
  BY <1>1, <1>2 DEF BookInv, HolderKnowsBook, Locking, Replaying
<1> QED
  BY <1>1, <1>3 DEF BookInv, BookFollowsChain, BaseIsOrigin

\* With the intent gone nobody replays, and the book must be the head of the chain.
LEMMA BookRetired ==
  ASSUME ControlInv, ControlInv', NEW k \in Kind, wal[k] # None,
         wal' = [wal EXCEPT ![k] = None], account = Head0,
         \A q \in Proc : proc'[q].pc \notin Locking,
         UNCHANGED <<account, events>>
  PROVE  BookInv'
<1>1. Pending' = None
  BY DEF ControlInv, IntentInv, AtMostOneIntent, TypeOK, Kind, Pending
<1>2. Head0' = Head0
  BY DEF Head0
<1>3. HolderKnowsBook'
  BY DEF HolderKnowsBook, Locking, Replaying
<1> QED BY <1>1, <1>2, <1>3 DEF BookInv, BookFollowsChain, BaseIsOrigin

\* A replay step that leaves book and chain alone.
LEMMA BookAdvance ==
  ASSUME ControlInv, BookInv, NEW p \in Proc, NEW l, NEW m,
         Replays(p, l), l \in Replaying \ {"verify"},
         proc' = [proc EXCEPT ![p].pc = m],
         UNCHANGED <<account, wal, intent, events>>,
         l # "account", l # "event",
         m # "intent", m \in {"report", "complete", "verify"} =>
                            l \in {"report", "complete", "verify"}
  PROVE  BookInv'
<1>1. Pending' = Pending /\ Head0' = Head0
  BY DEF Pending, Head0
<1>2. \A q \in Proc : proc'[q] = IF q = p THEN [proc[p] EXCEPT !.pc = m] ELSE proc[q]
  BY DEF ControlInv, TypeOK
<1>3. proc[p] \in Local
  BY DEF ControlInv, TypeOK
<1>4. proc'[p].pc = m
  BY <1>2, <1>3 DEF Local
<1>5. account = Pending /\ (l \in {"report", "complete", "verify"} => Head0 = Pending)
  BY DEF BookInv, HolderKnowsBook, Replays
<1>6. ASSUME NEW q \in Proc
      PROVE  (/\ proc[q].pc = "intent" => account = proc[q].base
              /\ proc[q].pc \in Replaying \ {"account"} => account = Pending
              /\ proc[q].pc \in {"report", "complete", "verify"} => Head0 = Pending)'
  <2>1. CASE q = p
    BY <1>1, <1>4, <1>5, <2>1
  <2>2. CASE q # p
    BY <1>1, <1>2, <2>2 DEF BookInv, HolderKnowsBook
  <2> QED BY <2>1, <2>2
<1> QED
  BY <1>1, <1>6 DEF BookInv, BookFollowsChain, BaseIsOrigin, HolderKnowsBook

\* Launching a task leaves the book and the chain alone.
LEMMA BookStart ==
  ASSUME ControlInv, BookInv, NEW p \in Proc, Start(p)
  PROVE  BookInv'
<1>1. PICK t \in Task, u \in Slot \cup {NoUnit} : Launch(p, t, u)
  BY DEF Start, StartPrepare, StartReconcile, StartRecover, StartHeartbeat, Task
<1>2. [Idle EXCEPT !.pc = "recoverReconcile", !.task = t, !.unit = u].pc \notin Locking
  BY DEF Idle, Locking, Replaying
<1> QED BY <1>1, <1>2, BookLeft DEF Launch, disk

\* A task that stops or dies leaves book and chain as its replay last wrote them.
LEMMA BookEnd ==
  ASSUME ControlInv, BookInv, NEW p \in Proc, Halt(p) \/ Crash(p)
  PROVE  BookInv'
<1>1. Leaves(p, Idle)
  BY ExitLeaves DEF Halt, Crash, ControlInv
<1> QED BY <1>1, BookLeft DEF Leaves, Halt, Crash, disk

\* Loading, computing and staging keep the book invariant: an intent is written only
\* for the account it was computed on, while that account is the head of the chain.
LEMMA BookWork ==
  ASSUME ControlInv, BookInv, NEW p \in Proc, Work(p), ControlInv'
  PROVE  BookInv'
<1>1. proc[p] \in Local
  BY DEF ControlInv, TypeOK
<1>2. ASSUME UNCHANGED <<account, wal, intent, events>>,
             NEW r, proc' = [proc EXCEPT ![p] = r], r.pc \notin Locking
      PROVE  BookInv'
  BY <1>2, BookLeft
<1>3. ASSUME Exit(p), UNCHANGED <<account, wal, intent, events>>
      PROVE  BookInv'
  BY <1>2, <1>3, ExitLeaves DEF Leaves, ControlInv
<1>4. CASE SlotSettled(p) \/ SealBundle(p) \/ GiveUp(p)
  BY <1>3, <1>4 DEF SlotSettled, SealBundle, GiveUp, disk
<1>5. CASE SlotOpen(p)
  <2>1. [proc[p] EXCEPT !.pc = "load"].pc \notin Locking
    BY <1>1 DEF Local, Locking, Replaying
  <2> QED BY <1>2, <1>5, <2>1 DEF SlotOpen, Goto, disk
<1>6. CASE ReadCycles(p)
  <2>1. PICK c \in 0..MaxCommit :
          proc' = [proc EXCEPT ![p].unit = c + 1, ![p].pc = "load"]
    BY <1>6 DEF ReadCycles
  <2>2. [proc[p] EXCEPT !.unit = c + 1, !.pc = "load"].pc \notin Locking
    BY <1>1 DEF Local, Locking, Replaying
  <2>3. proc' = [proc EXCEPT ![p] = [proc[p] EXCEPT !.unit = c + 1, !.pc = "load"]]
    BY <2>1
  <2> QED BY <1>2, <1>6, <2>2, <2>3 DEF ReadCycles, disk
<1>7. CASE ResolvePending(p)
  <2>1. [proc[p] EXCEPT !.unit = bundle.cycle, !.base = bundle.base, !.pc = "load"].pc
          \notin Locking
    BY <1>1 DEF Local, Locking, Replaying
  <2> QED BY <1>2, <1>7, <2>1 DEF ResolvePending, disk
<1>8. CASE LoadAccount(p)
  <2> DEFINE l == IF proc[p].task = "prepare" THEN "seal" ELSE "compute"
  <2>1. [proc[p] EXCEPT !.base = account, !.pc = l].pc \notin Locking
    BY <1>1 DEF Local, Locking, Replaying
  <2> QED BY <1>2, <1>8, <2>1 DEF LoadAccount, disk
<1>9. CASE ComputeAccount(p)
  <2>1. [proc[p] EXCEPT !.draft = nextId, !.pc = "stage"].pc \notin Locking
    BY <1>1 DEF Local, Locking, Replaying
  <2> QED BY <1>2, <1>9, <2>1 DEF ComputeAccount, disk
<1>10. CASE Stage(p)
  <2>1. Pending' = Pending /\ Head0' = Head0
    BY <1>10 DEF Stage, Pending, Head0
  <2>2. account = proc[p].base
    BY <1>10 DEF Stage, Stageable, BaseOf
  <2>3. \A q \in Proc :
          proc'[q] = IF q = p THEN [proc[p] EXCEPT !.pc = "intent"] ELSE proc[q]
    BY <1>10 DEF Stage, Goto, ControlInv, TypeOK
  <2>4. HolderKnowsBook'
    BY <1>1, <1>10, <2>1, <2>2, <2>3
    DEF BookInv, HolderKnowsBook, Stage, Local, Replaying
  <2> QED BY <1>10, <2>1, <2>4 DEF Stage, BookInv, BookFollowsChain, BaseIsOrigin
<1>11. CASE WriteIntent(p)
  <2> DEFINE k == proc[p].task
             n == proc[p].draft
  <2>1. LocalOK(proc[p]) /\ proc[p].pc = "intent"
    BY <1>11 DEF WriteIntent, ControlInv, LocalInv
  <2>2. k \in Kind /\ n \in Id /\ n # None
    BY <2>1, BoundsAssumption DEF LocalOK, Id, None
  <2>3. Pending = None /\ account = Head0 /\ account = proc[p].base
    BY <2>1 DEF ControlInv, IntentInv, BookInv, BookFollowsChain, HolderKnowsBook
  <2>4. wal["reconcile"] = None /\ wal["heartbeat"] = None
    BY <2>3 DEF Pending
  <2>5. Pending' = n
    BY <1>11, <2>2, <2>4 DEF WriteIntent, Pending, ControlInv, TypeOK, Kind
  <2>6. /\ intent'[n].base = proc[p].base
        /\ intent'[n].from = proc[p].base
        /\ intent'[n].prev = Head0
    <3>1. PICK mark \in Id0 :
            intent' = [intent EXCEPT ![n] =
              [kind |-> k, unit |-> proc[p].unit, base |-> proc[p].base,
               from |-> proc[p].base, prev |-> Head0, prevMark |-> mark]]
      BY <1>11 DEF WriteIntent, BaseOf
    <3>2. intent \in [Id -> Intent]
      BY DEF ControlInv, TypeOK
    <3> QED BY <2>2, <3>1, <3>2
  <2>7. account' = account /\ Head0' = Head0
    BY <1>11 DEF WriteIntent, Head0
  <2>8. \A q \in Proc : proc'[q].pc \notin Locking
    <3>1. flock' = NoProc
      BY <1>11 DEF WriteIntent
    <3> QED BY <3>1, ProcAssumption DEF ControlInv, LockInv
  <2>9. HolderKnowsBook'
    BY <2>8 DEF HolderKnowsBook, Locking, Replaying
  <2> QED
    BY <2>2, <2>3, <2>5, <2>6, <2>7, <2>9 DEF BookInv, BookFollowsChain, BaseIsOrigin
<1> QED
  BY <1>4, <1>5, <1>6, <1>7, <1>8, <1>9, <1>10, <1>11 DEF Work

\* Every write of a replay keeps the book invariant: account.json moves first, the
\* event of the same intent later, and the intent goes last.
LEMMA BookRecover ==
  ASSUME ControlInv, BookInv, NEW p \in Proc, Recover(p), ControlInv'
  PROVE  BookInv'
<1>1. proc[p] \in Local /\ KindAt(p) \in Kind
  BY DEF ControlInv, TypeOK, KindAt, Kind
<1>2. ASSUME NEW l, Replays(p, l), l \in Replaying
      PROVE  /\ Pending # None
             /\ intent[Pending].kind \in Kind
             /\ l \in Writes[intent[Pending].kind]
             /\ \A q \in Proc : q # p => proc[q].pc \notin Locking
  <2>1. Pending # None /\ l \in Writes[intent[Pending].kind]
    BY <1>2 DEF Replays, ControlInv, IntentInv
  <2>2. \A q \in Proc : q # p => proc[q].pc \notin Locking
    BY <1>2 DEF Replays, ControlInv, LockInv
  <2> QED BY <2>1, <2>2, PendingTyped DEF ControlInv
<1>3. ASSUME NEW l, NEW m, proc' = [proc EXCEPT ![p].pc = m]
      PROVE  /\ proc'[p].pc = m
             /\ \A q \in Proc : q # p => proc'[q] = proc[q]
  BY <1>1, <1>3 DEF ControlInv, TypeOK, Local
<1>4. CASE NothingPending(p)
  <2>1. PICK r : Leaves(p, r)
    BY <1>4, ReturnLeaves DEF NothingPending, ControlInv
  <2> QED BY <1>4, <2>1, BookLeft DEF Leaves, NothingPending, disk
<1>5. CASE RetireIntent(p)
  <2> DEFINE k == KindAt(p)
  <2>1. wal[k] # None /\ Pending = wal[k]
    BY <1>1, <1>5 DEF RetireIntent, Pending, ControlInv, IntentInv, AtMostOneIntent, Kind
  <2>2. account = Pending
    BY <1>5, <2>1 DEF RetireIntent, Admissible
  <2>3. Head0 = Pending
    BY <1>5, <2>1 DEF RetireIntent, Admissible, Intact, EventReferences
  <2>4. \A q \in Proc : proc'[q].pc \notin Locking
    BY <1>5, ProcAssumption DEF RetireIntent, ControlInv, LockInv
  <2> QED
    BY <1>1, <1>5, <2>1, <2>2, <2>3, <2>4, BookRetired DEF RetireIntent
<1>6. CASE BeginReplay(p)
  <2> DEFINE k == KindAt(p)
  <2>1. proc' = [proc EXCEPT ![p].pc = "account"]
    <3>1. After[k]["begin"] = "account"
      BY <1>1 DEF After, HeartbeatOrder, Kind
    <3> QED BY <1>6, <3>1 DEF BeginReplay, Goto
  <2>2. Pending' = Pending /\ Head0' = Head0
    BY <1>6 DEF BeginReplay, disk, Pending, Head0
  <2>3. HolderKnowsBook'
    BY <1>3, <1>6, <2>1, <2>2 DEF BeginReplay, disk, BookInv, HolderKnowsBook
  <2> QED
    BY <1>6, <2>2, <2>3 DEF BeginReplay, disk, BookInv, BookFollowsChain, BaseIsOrigin
<1>7. CASE SaveAccount(p)
  <2>1. Pending # None /\ \A q \in Proc : q # p => proc[q].pc \notin Locking
    BY <1>2, <1>7 DEF SaveAccount, Replaying
  <2>2. account' = Pending /\ Pending' = Pending /\ Head0' = Head0
    BY <1>7 DEF SaveAccount, Pending, Head0
  <2>3. PICK m \in {"artifacts", "state"} : proc' = [proc EXCEPT ![p].pc = m]
    <3>1. After[intent[Pending].kind]["account"] \in {"artifacts", "state"}
      BY <1>2, <1>7 DEF SaveAccount, After, HeartbeatOrder, Kind, Replaying
    <3> QED BY <1>7, <3>1 DEF SaveAccount, Advance, Goto, Replays
  <2>4. HolderKnowsBook'
    BY <1>3, <2>1, <2>2, <2>3 DEF HolderKnowsBook, Locking, Replaying
  <2> QED
    BY <1>7, <2>1, <2>2, <2>4
    DEF SaveAccount, BookInv, BookFollowsChain, BaseIsOrigin
<1>8. ASSUME NEW l \in {"artifacts", "state", "equity", "ledger", "index", "report",
                        "complete"},
             Replays(p, l), Advance(p), UNCHANGED <<account, wal, intent, events>>
      PROVE  BookInv'
  <2> DEFINE m == After[intent[Pending].kind][l]
  <2>1. intent[Pending].kind \in Kind /\ l \in Writes[intent[Pending].kind]
    BY <1>2, <1>8 DEF Replaying
  <2>2. m # "intent" /\ (m \in {"report", "complete", "verify"} =>
                            l \in {"report", "complete", "verify"})
    BY <2>1 DEF After, HeartbeatOrder, Writes, Kind
  <2>3. proc' = [proc EXCEPT ![p].pc = m]
    BY <1>8 DEF Advance, Goto, Replays
  <2> QED BY <1>8, <2>2, <2>3, BookAdvance DEF Replaying
<1>9. CASE SaveOutput(p)
  BY <1>8, <1>9 DEF SaveOutput
<1>10. CASE RecordEquity(p)
  BY <1>8, <1>10 DEF RecordEquity, AppendRow
<1>11. CASE AppendLedger(p)
  BY <1>8, <1>11 DEF AppendLedger, AppendRow
<1>12. CASE AppendHeartbeat(p)
  BY <1>8, <1>12 DEF AppendHeartbeat, AppendRow
<1>13. CASE AppendAccountEvent(p)
  <2>1. \A q \in Proc : q # p => proc[q].pc \notin Locking
    BY <1>2, <1>13 DEF AppendAccountEvent, Replaying
  <2>2. account = Pending
    BY <1>13 DEF AppendAccountEvent, Replays, BookInv, HolderKnowsBook, Replaying
  <2>3. Pending' = Pending /\ account' = account /\ wal' = wal /\ intent' = intent
    BY <1>13 DEF AppendAccountEvent, Pending
  <2>4. Head0' = Pending
    <3>1. CASE Pending \in Published
      BY <1>2, <1>13, <3>1 DEF AppendAccountEvent, EventReferences, Head0, Replaying
    <3>2. CASE Pending \notin Published
      <4>1. events \in Seq(Id) /\ Pending \in Id /\ events' = Append(events, Pending)
        BY <1>2, <1>13, <3>2, PendingTyped
        DEF AppendAccountEvent, ControlInv, TypeOK, Replaying
      <4>2. Len(events') = Len(events) + 1 /\ events'[Len(events) + 1] = Pending
            /\ events' # <<>>
        BY <4>1
      <4> QED BY <4>2 DEF Head0
    <3> QED BY <3>1, <3>2
  <2>5. \E m : proc' = [proc EXCEPT ![p].pc = m] /\ m # "intent"
    <3>1. After[intent[Pending].kind]["event"] # "intent"
      BY <1>2, <1>13 DEF AppendAccountEvent, After, HeartbeatOrder, Kind, Replaying
    <3> QED BY <1>13, <3>1 DEF AppendAccountEvent, Advance, Goto, Replays
  <2>6. HolderKnowsBook'
    BY <1>3, <2>1, <2>2, <2>3, <2>4, <2>5 DEF HolderKnowsBook, Locking, Replaying
  <2> QED
    BY <2>2, <2>3, <2>4, <2>6 DEF BookInv, BookFollowsChain, BaseIsOrigin
<1>14. CASE FinishReplay(p)
  <2> DEFINE k == intent[Pending].kind
  <2>1. Pending # None /\ k \in Kind
    BY <1>2, <1>14 DEF FinishReplay, Replaying
  <2>2. account = Pending /\ Head0 = Pending
    BY <1>14 DEF FinishReplay, Replays, BookInv, HolderKnowsBook
  <2>3. wal[k] # None
    BY <2>1 DEF Pending, ControlInv, IntentInv, Kind
  <2>4. \A q \in Proc : proc'[q].pc \notin Locking
    BY <1>14, ProcAssumption DEF FinishReplay, ControlInv, LockInv
  <2> QED
    BY <1>14, <2>1, <2>2, <2>3, <2>4, BookRetired DEF FinishReplay
<1> QED
  BY <1>4, <1>5, <1>6, <1>7, <1>9, <1>10, <1>11, <1>12, <1>13, <1>14 DEF Recover

-----------------------------------------------------------------------------
\* No step of any process leaves the book invariant.
LEMMA BookStep ==
  ControlInv /\ ControlInv' /\ BookInv /\ [Next]_vars => BookInv'
<1> SUFFICES ASSUME ControlInv, ControlInv', BookInv, [Next]_vars PROVE BookInv'
  OBVIOUS
<1>1. CASE UNCHANGED vars
  BY <1>1 DEF vars, disk, BookInv, BookFollowsChain, HolderKnowsBook, BaseIsOrigin,
              Pending, Head0
<1>2. ASSUME NEW p \in Proc, Start(p) PROVE BookInv'
  BY <1>2, BookStart
<1>3. ASSUME NEW p \in Proc, Recover(p) PROVE BookInv'
  BY <1>3, BookRecover
<1>4. ASSUME NEW p \in Proc, Work(p) PROVE BookInv'
  BY <1>4, BookWork
<1>5. ASSUME NEW p \in Proc, Halt(p) \/ Crash(p) PROVE BookInv'
  BY <1>5, BookEnd
<1> QED BY <1>1, <1>2, <1>3, <1>4, <1>5 DEF Next

\* The book, the event chain and the intent agree at all times, and so does what the
\* process holding the state lock knows about them.
THEOREM BookInvariant == Spec => []BookInv
BY ControlInvariant, BookInit, BookStep, PTL DEF Spec

\* The book and the event chain move together, the book first, whatever tasks overlap
\* and wherever they crash.
THEOREM BookChain == Spec => []BookFollowsChain
<1>1. BookInv => BookFollowsChain
  BY DEF BookInv
<1> QED BY <1>1, BookInvariant, PTL

\* Only a replay moves the book, and only to the account of the intent on disk.
LEMMA OnlyReplaySaves ==
  ASSUME [Next]_vars, account' # account
  PROVE  \E p \in Proc : SaveAccount(p)
<1>1. ~UNCHANGED vars
  BY DEF vars, disk
<1>2. PICK p \in Proc : Start(p) \/ Recover(p) \/ Work(p) \/ Halt(p) \/ Crash(p)
  BY <1>1 DEF Next
<1>3. ~Start(p)
  BY DEF Start, StartPrepare, StartReconcile, StartRecover, StartHeartbeat, Launch, disk
<1>4. ~Work(p)
  BY DEF Work, SlotSettled, SlotOpen, ReadCycles, ResolvePending, LoadAccount, SealBundle,
         ComputeAccount, GiveUp, Stage, WriteIntent, disk
<1>5. ~(Halt(p) \/ Crash(p))
  BY DEF Halt, Crash, disk
<1> QED
  BY <1>2, <1>3, <1>4, <1>5
  DEF Recover, NothingPending, RetireIntent, BeginReplay, SaveOutput, RecordEquity,
      AppendLedger, AppendHeartbeat, AppendRow, AppendAccountEvent, FinishReplay, disk

\* The book is only ever replaced by an account computed on the book it replaces.
THEOREM LostUpdateNever == Spec => NoLostUpdate
<1>1. ControlInv /\ BookInv /\ [Next]_vars =>
        [account' # account => account' # None /\ intent[account'].from = account]_vars
  <2> SUFFICES ASSUME ControlInv, BookInv, [Next]_vars, account' # account
               PROVE  account' # None /\ intent[account'].from = account
    OBVIOUS
  <2>1. PICK p \in Proc : SaveAccount(p)
    BY OnlyReplaySaves
  <2>2. Pending # None /\ account' = Pending
    BY <2>1 DEF SaveAccount, Replays, ControlInv, IntentInv, Replaying
  <2>3. account = intent[Pending].base
    BY <2>2 DEF BookInv, BookFollowsChain
  <2> QED BY <2>2, <2>3 DEF BookInv, BaseIsOrigin
<1> QED
  BY <1>1, ControlInvariant, BookInvariant, PTL DEF Spec, NoLostUpdate

-----------------------------------------------------------------------------
(* The published files.                                                    *)

\* The generations that an intent, a file or the chain names.
Used == {n \in Id : \/ \E k \in Kind : wal[k] = n
                    \/ \E u \in Unit, f \in File : file[u][f] = n
                    \/ n \in Published}

Drafting == {p \in Proc : proc[p].pc \in {"stage", "intent"}}

\* A computed account is nobody else's, and nothing on disk names it before its intent.
FreshInv ==
    /\ \A n \in Used : n < nextId
    /\ \A p \in Drafting : proc[p].draft < nextId /\ proc[p].draft \notin Used
    /\ \A p, q \in Drafting : proc[p].draft = proc[q].draft => p = q

\* The files that hold the generation when a replay comes to each of its writes.
Done == [reconcile |-> [account |-> {}, artifacts |-> {}, state |-> {"artifacts"},
                        equity |-> {"artifacts", "state"},
                        ledger |-> {"artifacts", "state", "equity"},
                        event |-> {"artifacts", "state", "equity", "ledger"},
                        report |-> {"artifacts", "state", "equity", "ledger"},
                        complete |-> {"artifacts", "state", "equity", "ledger", "report"},
                        verify |-> {}],
         heartbeat |-> [account |-> {}, state |-> {}, artifacts |-> {"state"},
                        index |-> {"state", "artifacts"},
                        event |-> {"state", "artifacts", "index"},
                        complete |-> {"state", "artifacts", "index"},
                        verify |-> {}]]

\* A replay writes into a unit without a marker, and has written what comes first.
WrittenInv == \A p \in Proc : proc[p].pc \in Replaying =>
    /\ \A f \in Done[intent[Pending].kind][proc[p].pc] : file[intent[Pending].unit][f] = Pending
    /\ proc[p].pc # "verify" => file[intent[Pending].unit]["complete"] = None

\* Files without a marker belong to the intent on disk.
HalfInv == \A u \in Unit :
    (\E f \in File : file[u][f] # None) /\ file[u]["complete"] = None =>
        Pending # None /\ intent[Pending].unit = u

\* The inductive invariant of what a reader may find.
PublishInv == FreshInv /\ WrittenInv /\ HalfInv /\ MarkerMeansIntact

\* A desk with no file publishes nothing.
LEMMA PublishInit == Init => PublishInv
<1> SUFFICES ASSUME Init PROVE PublishInv
  OBVIOUS
<1>1. \A p \in Proc : proc[p].pc = "idle"
  BY DEF Init, Idle
<1>2. Used = {}
  BY DEF Init, Used, None, Id, Published
<1>3. \A u \in Unit, f \in File : file[u][f] = None
  BY DEF Init
<1> QED
  BY <1>1, <1>2, <1>3
  DEF PublishInv, FreshInv, Drafting, WrittenInv, HalfInv, MarkerMeansIntact, Replaying, File

\* A step after which nothing more is used and nobody else drafts.
LEMMA FreshKept ==
  ASSUME FreshInv, Used' \subseteq Used, nextId' = nextId,
         \A q \in Proc : proc'[q].pc \in {"stage", "intent"} =>
             proc[q].pc \in {"stage", "intent"} /\ proc'[q].draft = proc[q].draft
  PROVE  FreshInv'
<1>1. \A q \in Drafting' : q \in Drafting /\ proc'[q].draft = proc[q].draft
  BY DEF Drafting
<1> QED BY <1>1 DEF FreshInv

\* A step that leaves the intents, the files and the chain alone, and after which the
\* process that moved neither drafts nor replays.
LEMMA PublishLeft ==
  ASSUME ControlInv, PublishInv, NEW p \in Proc, NEW r, proc' = [proc EXCEPT ![p] = r],
         r.pc \notin Replaying \cup {"stage", "intent"},
         UNCHANGED <<wal, intent, file, events, nextId>>
  PROVE  PublishInv'
<1>1. \A q \in Proc : proc'[q] = IF q = p THEN r ELSE proc[q]
  BY DEF ControlInv, TypeOK
<1>2. Pending' = Pending /\ Published' = Published /\ Used' = Used
  BY DEF Pending, Published, Used
<1>3. FreshInv'
  BY <1>1, <1>2, FreshKept DEF PublishInv
<1>4. WrittenInv' /\ HalfInv'
  BY <1>1, <1>2 DEF PublishInv, WrittenInv, HalfInv
<1>5. MarkerMeansIntact'
  BY <1>2 DEF PublishInv, MarkerMeansIntact, Intact, Own
<1> QED BY <1>3, <1>4, <1>5 DEF PublishInv

\* Both ways a recovery call returns, as a step of one process.
LEMMA ReturnMoves ==
  ASSUME TypeOK, NEW p \in Proc, NEW l, NEW b \in BOOLEAN, Return(p, l, b)
  PROVE  \E r : /\ proc' = [proc EXCEPT ![p] = r]
                /\ r.pc \notin Replaying \cup {"stage", "intent"}
<1>1. CASE Continue(p, l, b) = "idle"
  <2>1. Idle.pc = "idle"
    BY DEF Idle
  <2>2. proc' = [proc EXCEPT ![p] = Idle]
    BY <1>1 DEF Return, Exit
  <2> QED BY <2>1, <2>2 DEF Replaying
<1>2. CASE Continue(p, l, b) # "idle"
  <2>1. Continue(p, l, b) \in {"resolve", "recoverHeartbeat", "checkSlot", "readCycles"}
    BY <1>2 DEF Continue
  <2>2. proc' = [proc EXCEPT ![p] = [proc[p] EXCEPT !.pc = Continue(p, l, b)]]
    BY <1>2 DEF Return, Goto
  <2>3. [proc[p] EXCEPT !.pc = Continue(p, l, b)].pc = Continue(p, l, b)
    BY DEF TypeOK, Local
  <2> QED BY <2>1, <2>2, <2>3 DEF Replaying
<1> QED BY <1>1, <1>2

\* An intent goes away only when its generation is published.
LEMMA PublishRetired ==
  ASSUME ControlInv, PublishInv, NEW p \in Proc, NEW r, NEW k \in Kind,
         proc' = [proc EXCEPT ![p] = r], r.pc \notin Replaying \cup {"stage", "intent"},
         flock \in {NoProc, p}, Pending # None, wal[k] # None, Intact(Pending),
         wal' = [wal EXCEPT ![k] = None], UNCHANGED <<intent, file, events, nextId>>
  PROVE  PublishInv'
<1> USE ProcAssumption
<1>1. \A q \in Proc : proc'[q] = IF q = p THEN r ELSE proc[q]
  BY DEF ControlInv, TypeOK
<1>2. \A q \in Proc : proc'[q].pc \notin Replaying
  BY <1>1 DEF ControlInv, LockInv, Locking
<1>3. Published' = Published
  BY DEF Published
<1>4. Used' \subseteq Used
  BY <1>3, BoundsAssumption DEF Used, ControlInv, TypeOK, Id, None
<1>5. FreshInv'
  BY <1>1, <1>4, FreshKept DEF PublishInv
<1>6. WrittenInv'
  BY <1>2 DEF WrittenInv
<1>7. HalfInv'
  <2>1. file[intent[Pending].unit]["complete"] = Pending
    BY DEF Intact
  <2> QED BY <2>1 DEF PublishInv, HalfInv
<1>8. MarkerMeansIntact'
  BY <1>3 DEF PublishInv, MarkerMeansIntact, Intact, Own
<1> QED BY <1>5, <1>6, <1>7, <1>8 DEF PublishInv

\* The chain's head is published.
LEMMA HeadPublished ==
  ASSUME TypeOK, Head0 # None
  PROVE  Head0 \in Published
<1>1. events # <<>> /\ Head0 = events[Len(events)]
  BY DEF Head0
<1>2. Len(events) \in 1..Len(events)
  BY <1>1 DEF TypeOK
<1> QED BY <1>1, <1>2 DEF Published

\* A marker names a generation whose unit carries that marker.
LEMMA MarkerTyped ==
  ASSUME TypeOK, MarkerMeansIntact, NEW u \in Unit, file[u]["complete"] # None
  PROVE  LET n == file[u]["complete"] IN
           /\ n \in Id /\ n \in Used /\ intent[n].unit \in Unit
           /\ file[intent[n].unit]["complete"] = n /\ Intact(n)
<1> DEFINE n == file[u]["complete"]
<1>1. n \in Id0
  BY DEF TypeOK, File
<1>2. n \in Id
  BY <1>1, BoundsAssumption DEF Id, Id0, None
<1>3. n \in Used
  BY <1>2 DEF Used, File
<1>4. intent[n].unit \in Unit
  BY <1>2 DEF TypeOK, Intent
<1>5. Intact(n)
  BY DEF MarkerMeansIntact
<1> QED BY <1>2, <1>3, <1>4, <1>5 DEF Intact

\* What the replaying process knows of its generation.
LEMMA ReplayKnows ==
  ASSUME ControlInv, PublishInv, NEW p \in Proc, NEW l, Replays(p, l), l \in Replaying
  PROVE  /\ Pending # None /\ Pending \in Id /\ Pending \in Used
         /\ intent[Pending].unit \in Unit /\ intent[Pending].kind \in Kind
         /\ l \in Writes[intent[Pending].kind]
         /\ \A q \in Proc : q # p => proc[q].pc \notin Locking
         /\ \A f \in Done[intent[Pending].kind][l] : file[intent[Pending].unit][f] = Pending
         /\ l # "verify" => file[intent[Pending].unit]["complete"] = None
<1>1. Pending # None /\ l \in Writes[intent[Pending].kind]
  BY DEF Replays, ControlInv, IntentInv
<1>2. \A q \in Proc : q # p => proc[q].pc \notin Locking
  BY DEF Replays, ControlInv, LockInv
<1>3. Pending \in Used
  <2>1. \E k \in Kind : wal[k] = Pending
    BY DEF Pending, Kind
  <2> QED BY <1>1, <2>1, PendingTyped DEF Used, ControlInv
<1> QED
  BY <1>1, <1>2, <1>3, PendingTyped DEF ControlInv, PublishInv, WrittenInv, Replays

\* One write of a replay never touches a unit that has its marker.
LEMMA PublishPut ==
  ASSUME ControlInv, BookInv, PublishInv, NEW p \in Proc, NEW f \in File,
         f \in Replaying, Replays(p, f), Put(f), Advance(p),
         UNCHANGED <<wal, intent, events, nextId>>
  PROVE  PublishInv'
<1> DEFINE n == Pending
           u == intent[n].unit
           k == intent[n].kind
           m == After[k][f]
<1>1. /\ n # None /\ n \in Id /\ n \in Used /\ u \in Unit /\ k \in Kind /\ f \in Writes[k]
      /\ \A q \in Proc : q # p => proc[q].pc \notin Locking
      /\ \A g \in Done[k][f] : file[u][g] = n
      /\ file[u]["complete"] = None
  BY ReplayKnows DEF File
<1>2. \A v \in Unit, g \in File : file'[v][g] = IF v = u /\ g = f THEN n ELSE file[v][g]
  BY <1>1 DEF Put, ControlInv, TypeOK
<1>3. Pending' = n /\ Published' = Published /\ intent' = intent
  BY DEF Pending, Published
<1>4. /\ m \in Replaying /\ m \in DOMAIN Done[k] /\ Done[k][m] \subseteq File
      /\ Done[k][m] \subseteq Done[k][f] \cup {f}
      /\ m # "verify" => f # "complete"
  BY <1>1 DEF After, HeartbeatOrder, Done, Writes, Kind, Replaying, File
<1>5. proc' = [proc EXCEPT ![p].pc = m] /\ proc[p] \in Local
  BY DEF Advance, Goto, Replays, ControlInv, TypeOK
<1>6. /\ proc'[p].pc = m
      /\ \A q \in Proc : q # p => proc'[q] = proc[q] /\ proc[q].pc \notin Locking
  BY <1>1, <1>5 DEF ControlInv, TypeOK, Local
<1>7. FreshInv'
  <2>1. Used' \subseteq Used
    BY <1>1, <1>2, <1>3 DEF Used
  <2>2. m \notin {"stage", "intent"}
    BY <1>4 DEF Replaying
  <2> QED BY <1>6, <2>1, <2>2, FreshKept DEF PublishInv
<1>8. WrittenInv'
  <2> SUFFICES ASSUME NEW q \in Proc, proc'[q].pc \in Replaying
               PROVE  /\ \A g \in Done[k][proc'[q].pc] : file'[u][g] = n
                      /\ proc'[q].pc # "verify" => file'[u]["complete"] = None
    BY <1>3 DEF WrittenInv
  <2>1. q = p
    BY <1>6 DEF Locking
  <2> QED BY <2>1, <1>1, <1>2, <1>4, <1>6 DEF File
<1>9. HalfInv'
  BY <1>1, <1>2, <1>3 DEF PublishInv, HalfInv, File
<1>10. ASSUME NEW v \in Unit, NEW x \in Id, file'[v]["complete"] = x
       PROVE  /\ file'[intent[x].unit]["complete"] = x
              /\ \A g \in Own(x) : file'[intent[x].unit][g] = x
              /\ x \in Published
  <2>1. CASE v = u
    <3>1. f = "complete" /\ x = n
      BY <2>1, <1>1, <1>2, <1>10, BoundsAssumption DEF File, Id, None
    <3>2. Own(n) \subseteq Done[k][f] /\ Own(n) \subseteq File /\ "complete" \notin Own(n)
      BY <3>1, <1>1 DEF Own, Done, Kind, File
    <3>3. n \in Published
      BY <1>1, <3>1, HeadPublished
      DEF BookInv, HolderKnowsBook, Replays, ControlInv
    <3> QED
      BY <3>1, <3>2, <3>3, <1>1, <1>2 DEF File
  <2>2. CASE v # u
    <3> DEFINE w == intent[x].unit
    <3>1. file[v]["complete"] = x /\ x # None
      BY <2>2, <1>2, <1>10, BoundsAssumption DEF File, Id, None
    <3>2. w \in Unit /\ file[w]["complete"] = x /\ Intact(x)
      BY <3>1, MarkerTyped DEF ControlInv, PublishInv
    <3>3. w # u
      BY <3>1, <3>2, <1>1
    <3>4. Own(x) \subseteq File
      BY DEF Own, File
    <3> QED BY <3>2, <3>3, <3>4, <1>2 DEF Intact, File
  <2> QED BY <2>1, <2>2
<1>11. MarkerMeansIntact'
  <2> SUFFICES ASSUME NEW v \in Unit, file'[v]["complete"] # None
               PROVE  Intact(file[v]["complete"])'
    BY DEF MarkerMeansIntact
  <2> DEFINE x == file'[v]["complete"]
  <2>1. x \in Id0
    <3>1. n \in Id0 /\ file[v]["complete"] \in Id0
      BY <1>1, BoundsAssumption DEF ControlInv, TypeOK, File, Id, Id0
    <3> QED BY <1>2, <3>1 DEF File
  <2>2. x \in Id
    BY <2>1, BoundsAssumption DEF Id, Id0, None
  <2> QED BY <1>3, <1>10, <2>2 DEF Intact, Own
<1> QED BY <1>7, <1>8, <1>9, <1>11 DEF PublishInv

\* The event of a replay is appended once, at the end of the chain.
LEMMA EventAppended ==
  ASSUME ControlInv, NEW p \in Proc, AppendAccountEvent(p)
  PROVE  /\ Published' = Published \cup {Pending}
         /\ IF Pending \in Published THEN events' = events
            ELSE /\ events' = Append(events, Pending)
                 /\ Len(events') = Len(events) + 1
                 /\ \A i \in 1..Len(events) : events'[i] = events[i]
                 /\ events'[Len(events) + 1] = Pending
                 /\ 1..Len(events') = 1..Len(events) \cup {Len(events) + 1}
<1>1. CASE Pending \in Published
  BY <1>1 DEF AppendAccountEvent, Published
<1>2. CASE Pending \notin Published
  <2>1. events' = Append(events, Pending) /\ events \in Seq(Id)
    BY <1>2 DEF AppendAccountEvent, ControlInv, TypeOK
  <2>2. Len(events') = Len(events) + 1
    BY <2>1
  <2>3. \A i \in 1..Len(events) : events'[i] = events[i]
    BY <2>1
  <2>4. events'[Len(events) + 1] = Pending
    BY <2>1
  <2>5. 1..Len(events') = 1..Len(events) \cup {Len(events) + 1}
    BY <2>1, <2>2
  <2>6. Published' = Published \cup {Pending}
    BY <2>3, <2>4, <2>5 DEF Published
  <2> QED BY <1>2, <2>1, <2>2, <2>3, <2>4, <2>5, <2>6
<1> QED BY <1>1, <1>2

\* The event of a replay is appended while its unit still has no marker.
LEMMA PublishEvent ==
  ASSUME ControlInv, PublishInv, NEW p \in Proc, AppendAccountEvent(p)
  PROVE  PublishInv'
<1> DEFINE n == Pending
           u == intent[n].unit
           k == intent[n].kind
           m == After[k]["event"]
<1>1. Replays(p, "event") /\ UNCHANGED <<wal, intent, file, nextId>> /\ Advance(p)
  BY DEF AppendAccountEvent
<1>2. /\ n # None /\ n \in Id /\ n \in Used /\ u \in Unit /\ k \in Kind
      /\ "event" \in Writes[k]
      /\ \A q \in Proc : q # p => proc[q].pc \notin Locking
      /\ \A g \in Done[k]["event"] : file[u][g] = n
      /\ file[u]["complete"] = None
  BY <1>1, ReplayKnows DEF Replaying
<1>3. Pending' = n
  BY <1>1 DEF Pending
<1>4. Published' = Published \cup {n}
  BY EventAppended
<1>5. /\ m \in Replaying /\ m \notin {"stage", "intent", "verify"}
      /\ Done[k][m] \subseteq Done[k]["event"]
  BY <1>2 DEF After, HeartbeatOrder, Done, Writes, Kind, Replaying
<1>6. proc' = [proc EXCEPT ![p].pc = m] /\ proc[p] \in Local
  BY <1>1 DEF Advance, Goto, Replays, ControlInv, TypeOK
<1>7. /\ proc'[p].pc = m
      /\ \A q \in Proc : q # p => proc'[q] = proc[q] /\ proc[q].pc \notin Locking
  BY <1>2, <1>6 DEF ControlInv, TypeOK, Local
<1>8. FreshInv'
  <2>1. Used' \subseteq Used
    BY <1>1, <1>2, <1>4 DEF Used
  <2> QED BY <1>1, <1>5, <1>7, <2>1, FreshKept DEF PublishInv
<1>9. WrittenInv'
  <2> SUFFICES ASSUME NEW q \in Proc, proc'[q].pc \in Replaying
               PROVE  /\ \A g \in Done[k][proc'[q].pc] : file[u][g] = n
                      /\ file[u]["complete"] = None
    BY <1>1, <1>3 DEF WrittenInv
  <2>1. q = p
    BY <1>7 DEF Locking
  <2> QED BY <2>1, <1>2, <1>5, <1>7
<1>10. HalfInv'
  BY <1>1, <1>3 DEF PublishInv, HalfInv
<1>11. MarkerMeansIntact'
  BY <1>1, <1>4 DEF PublishInv, MarkerMeansIntact, Intact, Own
<1> QED BY <1>8, <1>9, <1>10, <1>11 DEF PublishInv

\* A replay begins on a unit that has no marker: another one was refused, and its own
\* would make the generation whole.
LEMMA PublishBegin ==
  ASSUME ControlInv, PublishInv, NEW p \in Proc, BeginReplay(p)
  PROVE  PublishInv'
<1> DEFINE k == KindAt(p)
           n == wal[k]
<1> USE ProcAssumption
<1>1. n # None /\ k \in Kind /\ UNCHANGED disk /\ nextId' = nextId /\ flock = NoProc
  BY DEF BeginReplay, KindAt, Kind
<1>2. Pending = n /\ intent[n].kind = k /\ n \in Id /\ intent[n].unit \in Unit
  <2>1. Pending = n
    BY <1>1 DEF Pending, ControlInv, IntentInv, AtMostOneIntent, Kind
  <2> QED BY <1>1, <2>1, PendingTyped DEF ControlInv, IntentInv
<1>3. file[intent[n].unit]["complete"] = None
  <2>1. file[intent[n].unit]["complete"] \in {None, n} /\ ~Intact(n)
    BY DEF BeginReplay, Admissible
  <2> QED BY <1>2, <2>1 DEF PublishInv, MarkerMeansIntact
<1>4. proc' = [proc EXCEPT ![p].pc = "account"] /\ proc[p] \in Local
  <2>1. After[k]["begin"] = "account"
    BY <1>1 DEF After, HeartbeatOrder, Kind
  <2> QED BY <2>1 DEF BeginReplay, Goto, ControlInv, TypeOK
<1>5. /\ proc'[p].pc = "account"
      /\ \A q \in Proc : q # p => proc'[q] = proc[q] /\ proc[q].pc \notin Locking
  BY <1>1, <1>4 DEF ControlInv, TypeOK, Local, LockInv
<1>6. Pending' = Pending /\ Published' = Published /\ Used' = Used
  BY <1>1 DEF disk, Pending, Published, Used
<1>7. FreshInv'
  BY <1>1, <1>5, <1>6, FreshKept DEF PublishInv
<1>8. WrittenInv'
  <2> SUFFICES ASSUME NEW q \in Proc, proc'[q].pc \in Replaying
               PROVE  /\ \A g \in Done[k][proc'[q].pc] : file[intent[n].unit][g] = n
                      /\ file[intent[n].unit]["complete"] = None
    BY <1>1, <1>2, <1>6 DEF WrittenInv, disk
  <2>1. q = p
    BY <1>5 DEF Locking
  <2>2. Done[k]["account"] = {}
    BY <1>1 DEF Done, Kind
  <2> QED BY <2>1, <2>2, <1>3, <1>5
<1>9. HalfInv' /\ MarkerMeansIntact'
  BY <1>1, <1>6 DEF PublishInv, HalfInv, MarkerMeansIntact, Intact, Own, disk
<1> QED BY <1>7, <1>8, <1>9 DEF PublishInv

\* An account is computed at an instant that nothing on disk and no other task names.
LEMMA PublishComputed ==
  ASSUME ControlInv, PublishInv, NEW p \in Proc, ComputeAccount(p)
  PROVE  PublishInv'
<1>1. proc[p] \in Local /\ UNCHANGED disk /\ nextId' = nextId + 1 /\ nextId \in Nat
  BY BoundsAssumption DEF ComputeAccount, ControlInv, TypeOK
<1>2. proc' = [proc EXCEPT ![p] = [proc[p] EXCEPT !.draft = nextId, !.pc = "stage"]]
  BY DEF ComputeAccount
<1>3. /\ proc'[p].draft = nextId /\ proc'[p].pc = "stage"
      /\ \A q \in Proc : q # p => proc'[q] = proc[q]
  <2>1. LET r == [proc[p] EXCEPT !.draft = nextId, !.pc = "stage"]
        IN r.draft = nextId /\ r.pc = "stage"
    BY <1>1 DEF Local
  <2> QED BY <1>2, <2>1 DEF ControlInv, TypeOK
<1>4. Pending' = Pending /\ Published' = Published /\ Used' = Used
  BY <1>1 DEF disk, Pending, Published, Used
<1>5. Drafting' = Drafting \cup {p} /\ \A q \in Drafting : q # p => proc'[q] = proc[q]
  <2>1. \A q \in Proc : proc'[q].pc \in {"stage", "intent"} <=>
                          q = p \/ proc[q].pc \in {"stage", "intent"}
    BY <1>3
  <2> QED BY <1>3, <2>1 DEF Drafting
<1>6. p \notin Drafting
  BY DEF Drafting, ComputeAccount
<1>7. \A n \in Used : n \in Nat /\ n < nextId
  BY <1>1, BoundsAssumption DEF PublishInv, FreshInv, Used, Id
<1>8. \A q \in Drafting : proc[q].draft \in Nat /\ proc[q].draft < nextId
  <2>1. \A q \in Drafting : proc[q].draft \in Id0
    BY DEF ControlInv, TypeOK, Local, Drafting
  <2> QED BY <2>1, BoundsAssumption DEF PublishInv, FreshInv, Id0
<1>9. FreshInv'
  <2>1. \A n \in Used' : n < nextId'
    BY <1>1, <1>4, <1>7
  <2>2. \A q \in Drafting' : proc'[q].draft < nextId' /\ proc'[q].draft \notin Used'
    <3>1. \A q \in Drafting : proc'[q].draft = proc[q].draft
      BY <1>5, <1>6
    <3>2. nextId \notin Used
      BY <1>1, <1>7
    <3> QED BY <1>1, <1>3, <1>4, <1>5, <1>8, <3>1, <3>2 DEF PublishInv, FreshInv
  <2>3. \A q, s \in Drafting' : proc'[q].draft = proc'[s].draft => q = s
    <3>1. \A q \in Drafting : proc'[q].draft = proc[q].draft /\ proc[q].draft # nextId
      BY <1>1, <1>5, <1>6, <1>8
    <3> QED BY <1>3, <1>5, <3>1 DEF PublishInv, FreshInv
  <2> QED BY <2>1, <2>2, <2>3 DEF FreshInv
<1>10. WrittenInv'
  <2>1. \A q \in Proc : proc'[q].pc \in Replaying => proc'[q] = proc[q]
    BY <1>3 DEF Replaying
  <2> QED BY <2>1, <1>1, <1>4 DEF PublishInv, WrittenInv, disk
<1>11. HalfInv' /\ MarkerMeansIntact'
  BY <1>1, <1>4 DEF PublishInv, HalfInv, MarkerMeansIntact, Intact, Own, disk
<1> QED BY <1>9, <1>10, <1>11 DEF PublishInv

\* An intent is written under a name that no file, row or event bears yet.
LEMMA PublishIntent ==
  ASSUME ControlInv, PublishInv, NEW p \in Proc, WriteIntent(p)
  PROVE  PublishInv'
<1> DEFINE k == proc[p].task
           n == proc[p].draft
<1> USE ProcAssumption
<1>1. /\ proc[p].pc = "intent" /\ p \in Drafting /\ n \in Id /\ k \in Kind
      /\ n \notin Used /\ n < nextId /\ Pending = None
  BY DEF WriteIntent, ControlInv, LocalInv, LocalOK, IntentInv, PublishInv, FreshInv, Drafting
<1>2. /\ UNCHANGED <<file, events, nextId>>
      /\ wal' = [wal EXCEPT ![k] = n]
      /\ \A x \in Id : x # n => intent'[x] = intent[x]
  BY DEF WriteIntent, ControlInv, TypeOK
<1>3. \A q \in Proc : proc'[q].pc \notin Replaying
  <2>1. flock' = NoProc /\ \A q \in Proc : q # p => proc'[q] = proc[q]
    BY DEF WriteIntent, Goto, ControlInv, TypeOK
  <2>2. \A q \in Proc : q # p => proc[q].pc \notin Replaying
    BY DEF WriteIntent, ControlInv, LockInv, Locking
  <2>3. proc'[p].pc \in {"recoverReconcile", "recoverHeartbeat"}
    BY DEF WriteIntent, Goto, ControlInv, TypeOK, Local
  <2> QED BY <2>1, <2>2, <2>3 DEF Replaying
<1>4. /\ \A q \in Proc : q # p => proc'[q] = proc[q]
      /\ proc'[p].pc \notin {"stage", "intent"}
  <2>1. proc'[p].pc \in {"recoverReconcile", "recoverHeartbeat"}
    BY DEF WriteIntent, Goto, ControlInv, TypeOK, Local
  <2> QED BY <2>1 DEF WriteIntent, Goto, ControlInv, TypeOK
<1>5. Published' = Published /\ Used' \subseteq Used \cup {n}
  <2>1. \A j \in Kind : wal'[j] = IF j = k THEN n ELSE wal[j]
    BY <1>2 DEF ControlInv, TypeOK
  <2> QED BY <1>2, <2>1 DEF Published, Used
<1>6. FreshInv'
  <2>1. \A q \in Drafting' : q \in Drafting /\ q # p /\ proc'[q].draft = proc[q].draft
    BY <1>4 DEF Drafting
  <2> QED BY <1>1, <1>2, <1>5, <2>1 DEF PublishInv, FreshInv
<1>7. WrittenInv'
  BY <1>3 DEF WrittenInv
<1>8. HalfInv'
  BY <1>1, <1>2 DEF PublishInv, HalfInv
<1>9. ASSUME NEW u \in Unit, file[u]["complete"] # None
      PROVE  Intact(file[u]["complete"])'
  <2> DEFINE x == file[u]["complete"]
  <2>1. x \in Id /\ x \in Used /\ Intact(x)
    BY <1>9, MarkerTyped DEF ControlInv, PublishInv
  <2>2. intent'[x] = intent[x] /\ file' = file
    BY <1>1, <1>2, <2>1
  <2> QED BY <1>5, <2>1, <2>2 DEF Intact, Own
<1>10. MarkerMeansIntact'
  BY <1>2, <1>9 DEF MarkerMeansIntact
<1> QED BY <1>6, <1>7, <1>8, <1>10 DEF PublishInv

\* A task takes the state lock with the account it has computed.
LEMMA PublishStaged ==
  ASSUME ControlInv, PublishInv, NEW p \in Proc, Stage(p)
  PROVE  PublishInv'
<1>1. proc[p] \in Local /\ UNCHANGED <<wal, intent, file, events, nextId>>
  BY DEF Stage, ControlInv, TypeOK
<1>2. /\ proc'[p].pc = "intent" /\ proc'[p].draft = proc[p].draft /\ proc[p].pc = "stage"
      /\ \A q \in Proc : q # p => proc'[q] = proc[q]
  BY <1>1 DEF Stage, Goto, ControlInv, TypeOK, Local
<1>3. Pending' = Pending /\ Published' = Published /\ Used' = Used
  BY <1>1 DEF Pending, Published, Used
<1>4. FreshInv'
  BY <1>1, <1>2, <1>3, FreshKept DEF PublishInv
<1>5. WrittenInv'
  <2>1. \A q \in Proc : proc'[q].pc \in Replaying => proc'[q] = proc[q]
    BY <1>2 DEF Replaying
  <2> QED BY <2>1, <1>1, <1>3 DEF PublishInv, WrittenInv
<1>6. HalfInv' /\ MarkerMeansIntact'
  BY <1>1, <1>3 DEF PublishInv, HalfInv, MarkerMeansIntact, Intact, Own
<1> QED BY <1>4, <1>5, <1>6 DEF PublishInv

\* Tasks that read, seal, end or die publish nothing.
LEMMA PublishWork ==
  ASSUME ControlInv, PublishInv, NEW p \in Proc,
         Start(p) \/ Work(p) \/ Halt(p) \/ Crash(p)
  PROVE  PublishInv'
<1> DEFINE quiet == UNCHANGED <<wal, intent, file, events, nextId>>
<1>1. proc[p] \in Local
  BY DEF ControlInv, TypeOK
<1>2. ASSUME Exit(p), quiet PROVE PublishInv'
  <2>1. Idle.pc \notin Replaying \cup {"stage", "intent"}
    BY DEF Idle, Replaying
  <2> QED BY <1>2, <2>1, PublishLeft DEF Exit
<1>3. CASE Start(p)
  <2>1. PICK t \in Task, u \in Slot \cup {NoUnit} : Launch(p, t, u)
    BY <1>3 DEF Start, StartPrepare, StartReconcile, StartRecover, StartHeartbeat, Task
  <2>2. [Idle EXCEPT !.pc = "recoverReconcile", !.task = t, !.unit = u].pc
          \notin Replaying \cup {"stage", "intent"}
    BY DEF Idle, Replaying
  <2> QED BY <2>1, <2>2, PublishLeft DEF Launch, disk
<1>4. CASE SlotSettled(p) \/ SealBundle(p) \/ GiveUp(p) \/ Halt(p) \/ Crash(p)
  BY <1>2, <1>4 DEF SlotSettled, SealBundle, GiveUp, Halt, Crash, disk
<1>5. CASE SlotOpen(p)
  <2>1. [proc[p] EXCEPT !.pc = "load"].pc \notin Replaying \cup {"stage", "intent"}
    BY <1>1 DEF Local, Replaying
  <2> QED BY <1>5, <2>1, PublishLeft DEF SlotOpen, Goto, disk
<1>6. CASE ReadCycles(p)
  <2>1. PICK c \in 0..MaxCommit :
          proc' = [proc EXCEPT ![p] = [proc[p] EXCEPT !.unit = c + 1, !.pc = "load"]]
    BY <1>6 DEF ReadCycles
  <2>2. [proc[p] EXCEPT !.unit = c + 1, !.pc = "load"].pc
          \notin Replaying \cup {"stage", "intent"}
    BY <1>1 DEF Local, Replaying
  <2> QED BY <1>6, <2>1, <2>2, PublishLeft DEF ReadCycles, disk
<1>7. CASE ResolvePending(p)
  <2>1. [proc[p] EXCEPT !.unit = bundle.cycle, !.base = bundle.base, !.pc = "load"].pc
          \notin Replaying \cup {"stage", "intent"}
    BY <1>1 DEF Local, Replaying
  <2>2. /\ proc' = [proc EXCEPT ![p] = [proc[p] EXCEPT !.unit = bundle.cycle,
                                          !.base = bundle.base, !.pc = "load"]]
        /\ quiet
    BY <1>7 DEF ResolvePending, disk
  <2> QED BY <2>1, <2>2, PublishLeft
<1>8. CASE LoadAccount(p)
  <2> DEFINE l == IF proc[p].task = "prepare" THEN "seal" ELSE "compute"
  <2>1. [proc[p] EXCEPT !.base = account, !.pc = l].pc
          \notin Replaying \cup {"stage", "intent"}
    BY <1>1 DEF Local, Replaying
  <2>2. /\ proc' = [proc EXCEPT ![p] = [proc[p] EXCEPT !.base = account, !.pc = l]]
        /\ quiet
    BY <1>8 DEF LoadAccount, disk
  <2> QED BY <2>1, <2>2, PublishLeft
<1>9. CASE ComputeAccount(p) \/ Stage(p) \/ WriteIntent(p)
  BY <1>9, PublishComputed, PublishStaged, PublishIntent
<1> QED BY <1>3, <1>4, <1>5, <1>6, <1>7, <1>8, <1>9 DEF Work

\* Every write of a replay keeps what is published whole.
LEMMA PublishRecover ==
  ASSUME ControlInv, BookInv, PublishInv, NEW p \in Proc, Recover(p)
  PROVE  PublishInv'
<1> USE ProcAssumption
<1>1. CASE NothingPending(p)
  <2>1. PICK r : /\ proc' = [proc EXCEPT ![p] = r]
                 /\ r.pc \notin Replaying \cup {"stage", "intent"}
    BY <1>1, ReturnMoves DEF NothingPending, ControlInv
  <2>2. UNCHANGED <<wal, intent, file, events, nextId>>
    BY <1>1 DEF NothingPending, disk
  <2> QED BY <2>1, <2>2, PublishLeft
<1>2. CASE RetireIntent(p)
  <2> DEFINE k == KindAt(p)
  <2>1. k \in Kind /\ wal[k] # None /\ Pending = wal[k]
    BY <1>2 DEF RetireIntent, KindAt, Kind, Pending, ControlInv, IntentInv, AtMostOneIntent
  <2>2. PICK r : /\ proc' = [proc EXCEPT ![p] = r]
                 /\ r.pc \notin Replaying \cup {"stage", "intent"}
    BY <1>2, ReturnMoves DEF RetireIntent, ControlInv
  <2>3. /\ flock = NoProc /\ Intact(Pending) /\ wal' = [wal EXCEPT ![k] = None]
        /\ UNCHANGED <<intent, file, events, nextId>>
    BY <1>2, <2>1 DEF RetireIntent
  <2> QED BY <2>1, <2>2, <2>3, PublishRetired
<1>3. CASE SaveAccount(p)
  <2> DEFINE k == intent[Pending].kind
             m == After[k]["account"]
  <2>1. /\ Pending # None /\ k \in Kind
        /\ \A q \in Proc : q # p => proc[q].pc \notin Locking
        /\ file[intent[Pending].unit]["complete"] = None
    BY <1>3, ReplayKnows DEF SaveAccount, Replaying
  <2>2. UNCHANGED <<wal, intent, file, events, nextId>>
    BY <1>3 DEF SaveAccount
  <2>3. Pending' = Pending /\ Published' = Published /\ Used' = Used
    BY <2>2 DEF Pending, Published, Used
  <2>4. m \in Replaying /\ m \notin {"stage", "intent", "verify"} /\ Done[k][m] = {}
    BY <2>1 DEF After, HeartbeatOrder, Done, Kind, Replaying
  <2>5. /\ proc'[p].pc = m
        /\ \A q \in Proc : q # p => proc'[q] = proc[q] /\ proc[q].pc \notin Locking
    BY <1>3, <2>1 DEF SaveAccount, Advance, Goto, Replays, ControlInv, TypeOK, Local
  <2>6. FreshInv'
    BY <2>2, <2>3, <2>4, <2>5, FreshKept DEF PublishInv
  <2>7. WrittenInv'
    <3> SUFFICES ASSUME NEW q \in Proc, proc'[q].pc \in Replaying
                 PROVE  /\ \A g \in Done[k][proc'[q].pc] :
                             file[intent[Pending].unit][g] = Pending
                        /\ file[intent[Pending].unit]["complete"] = None
      BY <2>2, <2>3 DEF WrittenInv
    <3>1. q = p
      BY <2>5 DEF Locking
    <3> QED BY <3>1, <2>1, <2>4, <2>5
  <2>8. HalfInv' /\ MarkerMeansIntact'
    BY <2>2, <2>3 DEF PublishInv, HalfInv, MarkerMeansIntact, Intact, Own
  <2> QED BY <2>6, <2>7, <2>8 DEF PublishInv
<1>4. CASE SaveOutput(p)
  <2>1. proc[p].pc \in File /\ proc[p].pc \in Replaying
    BY <1>4 DEF SaveOutput, File, Replaying
  <2> QED BY <1>4, <2>1, PublishPut DEF SaveOutput
<1>5. CASE RecordEquity(p) \/ AppendLedger(p) \/ AppendHeartbeat(p)
  <2>1. PICK f \in {"equity", "ledger", "index"} :
          /\ Replays(p, f) /\ Put(f) /\ Advance(p)
          /\ UNCHANGED <<wal, intent, events, nextId>>
    BY <1>5 DEF RecordEquity, AppendLedger, AppendHeartbeat, AppendRow
  <2>2. f \in File /\ f \in Replaying
    BY DEF File, Replaying
  <2> QED BY <2>1, <2>2, PublishPut
<1>6. CASE FinishReplay(p)
  <2> DEFINE k == intent[Pending].kind
  <2>1. Pending # None /\ k \in Kind
    BY <1>6, ReplayKnows DEF FinishReplay, Replaying
  <2>2. wal[k] # None
    BY <2>1 DEF Pending, ControlInv, IntentInv, Kind
  <2>3. PICK r : /\ proc' = [proc EXCEPT ![p] = r]
                 /\ r.pc \notin Replaying \cup {"stage", "intent"}
    BY <1>6, ReturnMoves DEF FinishReplay, ControlInv
  <2>4. flock = p /\ Intact(Pending)
    BY <1>6 DEF FinishReplay, Replays
  <2> QED BY <1>6, <2>1, <2>2, <2>3, <2>4, PublishRetired DEF FinishReplay
<1> QED
  BY <1>1, <1>2, <1>3, <1>4, <1>5, <1>6, PublishBegin, PublishEvent DEF Recover

\* No step of any process leaves the invariant of the published files.
LEMMA PublishStep ==
  ControlInv /\ BookInv /\ PublishInv /\ [Next]_vars => PublishInv'
<1> SUFFICES ASSUME ControlInv, BookInv, PublishInv, [Next]_vars PROVE PublishInv'
  OBVIOUS
<1>1. CASE UNCHANGED vars
  BY <1>1 DEF vars, disk, PublishInv, FreshInv, Drafting, Used, WrittenInv, HalfInv,
              MarkerMeansIntact, Intact, Own, Pending, Published
<1>2. ASSUME NEW p \in Proc, Start(p) \/ Work(p) \/ Halt(p) \/ Crash(p) PROVE PublishInv'
  BY <1>2, PublishWork
<1>3. ASSUME NEW p \in Proc, Recover(p) PROVE PublishInv'
  BY <1>3, PublishRecover
<1> QED BY <1>1, <1>2, <1>3 DEF Next

\* Generations are never confused, a replay writes only into a unit without a marker,
\* in its order, and files without a marker belong to the intent on disk.
THEOREM PublishInvariant == Spec => []PublishInv
BY ControlInvariant, BookInvariant, PublishInit, PublishStep, PTL DEF Spec

\* Wherever complete.json stands, every file, row and event it lists stands; and with
\* no intent on disk nothing is half published, wherever tasks crash.
THEOREM WholeWhenPublished == Spec => []PublishedWhole
<1>1. PublishInv => PublishedWhole
  BY DEF PublishInv, HalfInv, PublishedWhole, NothingHalfPublished, MarkerMeansIntact
<1> QED BY <1>1, PublishInvariant, PTL

\* Files are written only by the replay, into the unit of the intent on disk.
LEMMA OnlyReplayWrites ==
  ASSUME ControlInv, [Next]_vars, file' # file
  PROVE  \E p \in Proc, f \in File \cap Replaying : Replays(p, f) /\ Put(f)
<1>1. ~UNCHANGED vars
  BY DEF vars, disk
<1>2. PICK p \in Proc : Start(p) \/ Recover(p) \/ Work(p) \/ Halt(p) \/ Crash(p)
  BY <1>1 DEF Next
<1>3. ~Start(p) /\ ~Halt(p) /\ ~Crash(p)
  BY DEF Start, StartPrepare, StartReconcile, StartRecover, StartHeartbeat, Launch, Halt,
         Crash, disk
<1>4. ~Work(p)
  BY DEF Work, SlotSettled, SlotOpen, ReadCycles, ResolvePending, LoadAccount, SealBundle,
         ComputeAccount, GiveUp, Stage, WriteIntent, disk
<1>5. SaveOutput(p) \/ RecordEquity(p) \/ AppendLedger(p) \/ AppendHeartbeat(p)
  BY <1>2, <1>3, <1>4
  DEF Recover, NothingPending, RetireIntent, BeginReplay, SaveAccount, AppendAccountEvent,
      FinishReplay, disk
<1>6. CASE SaveOutput(p)
  BY <1>6 DEF SaveOutput, File, Replaying
<1>7. CASE RecordEquity(p) \/ AppendLedger(p) \/ AppendHeartbeat(p)
  BY <1>7 DEF RecordEquity, AppendLedger, AppendHeartbeat, AppendRow, File, Replaying
<1> QED BY <1>5, <1>6, <1>7

\* Once a cycle or slot has its marker, none of its files or rows changes again, whichever
\* task recovers what a crash left.
THEOREM CommittedStays == Spec => CommittedIsImmutable
<1>1. ControlInv /\ PublishInv /\ [Next]_vars =>
        [\A u \in Unit : file[u]["complete"] # None => file'[u] = file[u]]_vars
  <2> SUFFICES ASSUME ControlInv, PublishInv, [Next]_vars,
                      NEW u \in Unit, file[u]["complete"] # None
               PROVE  file'[u] = file[u]
    OBVIOUS
  <2>1. CASE file' = file
    BY <2>1
  <2>2. CASE file' # file
    <3>1. PICK p \in Proc, f \in File \cap Replaying : Replays(p, f) /\ Put(f)
      BY <2>2, OnlyReplayWrites
    <3>2. file[intent[Pending].unit]["complete"] = None
      BY <3>1, ReplayKnows DEF File
    <3>3. u # intent[Pending].unit
      BY <3>2
    <3> QED BY <3>1, <3>3 DEF Put, ControlInv, TypeOK
  <2> QED BY <2>1, <2>2
<1> QED
  BY <1>1, ControlInvariant, PublishInvariant, PTL DEF Spec, CommittedIsImmutable

-----------------------------------------------------------------------------
(***************************************************************************)
(* AccountCommit as the launchers run it: prepare, reconcile and heartbeat *)
(* hold desk-cycle.lock, a manual recovery does not.  Then no recovery     *)
(* ever refuses an intent, and the protocol implements the abstract        *)
(* ledger.                                                                 *)
(***************************************************************************)
\* The tasks the launchers start, and that they start them under their lock.
Scheduled == {"prepare", "reconcile", "heartbeat"}
Launched  == Scheduled \subseteq Guarded

\* The generations that are published or will be, and the units they stand for.
Live  == {n \in Id : n \in Published \/ n = Pending}
Taken == {intent[n].unit : n \in Published}

\* What a task reads from disk between its recovery and its lock stays as it was.
Quiet == {"checkSlot", "readCycles", "load", "seal", "compute", "stage", "intent"}

\* The launchers run one task at a time, and a prepare or a heartbeat goes on only
\* after both recoveries have left no intent on disk.
GuardInv ==
    /\ \A p \in Proc : proc[p].pc # "idle" /\ proc[p].task \in Scheduled => launcher = p
    /\ \A p \in Proc : proc[p].task \in {"prepare", "heartbeat"} =>
         /\ proc[p].pc = "recoverHeartbeat" /\ proc[p].draft = None
              => wal["reconcile"] = None
         /\ proc[p].pc \in Quiet => Pending = None

\* The event chain is linked and in time order, and the intent on disk is its last link
\* or the next one.
ChainInv ==
    /\ ChainLinked
    /\ \A i, j \in 1..Len(events) : i < j => events[i] < events[j]
    /\ Pending # None =>
         /\ \A m \in Published : m <= Pending
         /\ IF Pending \in Published THEN Head0 = Pending ELSE ExtendsChain(Pending)

\* Every file belongs to the generation of its unit, and to no other.
OwnerInv ==
    /\ \A u \in Unit, f \in File : file[u][f] # None =>
         /\ file[u][f] \in Live
         /\ intent[file[u][f]].unit = u
         /\ f \in Own(file[u][f]) \cup {"complete"}
    /\ \A n \in Live : intent[n].unit \in
         IF intent[n].kind = "heartbeat" THEN Slot ELSE Cycle
    /\ \A m, n \in Live : intent[m].unit = intent[n].unit => m = n

\* Every event has its files, except that those of the intent may still be written.
EventInv ==
    /\ \A n \in Published : n = Pending \/ Intact(n)
    /\ Pending \in Published => \A f \in Done[intent[Pending].kind]["event"] :
         file[intent[Pending].unit][f] = Pending
    /\ \A p \in Proc : proc[p].pc = "verify" =>
         file[intent[Pending].unit]["complete"] = Pending

\* The heartbeat rows are a chain, and a heartbeat on disk extends it.
MarkInv ==
    /\ \A m \in Marks : IsLatest(intent[m].prevMark, {k \in Marks : k < m})
    /\ Pending # None /\ intent[Pending].kind = "heartbeat" =>
         IsLatest(intent[Pending].prevMark, Marks \ {Pending})

\* A task works on a unit that no published generation stands for: a sealed decision's
\* cycle is free for as long as the account it was sealed for is the head.
UnitInv ==
    /\ bundle # NoBundle =>
         /\ bundle.base \in Published \cup {None}
         /\ bundle.base = Head0 => bundle.cycle \notin Taken
    /\ \A p \in Proc :
         /\ proc[p].pc \in {"load", "seal", "compute", "stage", "intent"}
              /\ proc[p].task \in {"prepare", "heartbeat"} => proc[p].unit \notin Taken
         /\ proc[p].pc = "seal" => proc[p].base = Head0
         /\ proc[p].pc \in {"load", "compute", "stage", "intent"}
              /\ proc[p].task = "reconcile" =>
                bundle # NoBundle /\ bundle = [cycle |-> proc[p].unit, base |-> proc[p].base]

\* The inductive invariant of a desk run by its launchers.
LaunchedInv ==
    GuardInv /\ ChainInv /\ OwnerInv /\ EventInv /\ MarkInv /\ UnitInv

-----------------------------------------------------------------------------
(* One scheduled task at a time.                                           *)

\* A step of p to state r which removes intents at most, and which takes the launchers'
\* lock only when it is free.
LEMMA GuardMoves ==
  ASSUME ControlInv, GuardInv, NEW p \in Proc, NEW r, proc' = [proc EXCEPT ![p] = r],
         launcher \in {NoProc, p} \/ launcher' = launcher,
         \/ \A k \in Kind : wal'[k] \in {wal[k], None}
         \/ launcher = p,
         r.pc # "idle" /\ r.task \in Scheduled => launcher' = p,
         r.task \in {"prepare", "heartbeat"} =>
            /\ r.pc = "recoverHeartbeat" /\ r.draft = None => wal'["reconcile"] = None
            /\ r.pc \in Quiet => Pending' = None
  PROVE  GuardInv'
<1> USE ProcAssumption
<1>1. \A q \in Proc : proc'[q] = IF q = p THEN r ELSE proc[q]
  BY DEF ControlInv, TypeOK
<1>2. ASSUME NEW q \in Proc, q # p, proc[q].pc # "idle", proc[q].task \in Scheduled
      PROVE  launcher' = q /\ \A k \in Kind : wal'[k] \in {wal[k], None}
  BY <1>2 DEF GuardInv
<1>3. ASSUME NEW q \in Proc, proc'[q].pc # "idle", proc'[q].task \in Scheduled
      PROVE  launcher' = q
  BY <1>1, <1>2, <1>3
<1>4. ASSUME NEW q \in Proc, proc'[q].task \in {"prepare", "heartbeat"},
             proc'[q].pc = "recoverHeartbeat", proc'[q].draft = None
      PROVE  wal'["reconcile"] = None
  BY <1>1, <1>2, <1>4 DEF GuardInv, Scheduled, Kind
<1>5. ASSUME NEW q \in Proc, proc'[q].task \in {"prepare", "heartbeat"},
             proc'[q].pc \in Quiet
      PROVE  Pending' = None
  <2>1. CASE q = p
    BY <1>1, <1>5, <2>1
  <2>2. CASE q # p
    <3>1. Pending = None /\ \A k \in Kind : wal'[k] \in {wal[k], None}
      BY <1>1, <1>2, <1>5, <2>2 DEF GuardInv, Scheduled, Quiet
    <3> QED BY <3>1 DEF Pending, Kind
  <2> QED BY <2>1, <2>2
<1> QED BY <1>3, <1>4, <1>5 DEF GuardInv

\* Where a recovery call hands over to: the next recovery of its task, or the task's work
\* after the second one.
LEMMA ReturnShape ==
  ASSUME TypeOK, NEW p \in Proc, NEW l, NEW b \in BOOLEAN, Return(p, l, b)
  PROVE  \/ Exit(p)
         \/ \E c \in {"resolve", "recoverHeartbeat", "checkSlot", "readCycles"} :
              /\ proc' = [proc EXCEPT ![p] = [proc[p] EXCEPT !.pc = c]]
              /\ launcher' = launcher
              /\ proc[p].draft = None
              /\ proc[p].task \in {"prepare", "heartbeat"} =>
                   (c = "recoverHeartbeat" <=> l = "recoverReconcile") /\ c # "resolve"
<1>1. CASE Continue(p, l, b) = "idle"
  BY <1>1 DEF Return
<1>2. CASE Continue(p, l, b) # "idle"
  <2>1. Continue(p, l, b) \in {"resolve", "recoverHeartbeat", "checkSlot", "readCycles"}
    BY <1>2 DEF Continue
  <2>2. /\ proc[p].draft = None
        /\ proc[p].task \in {"prepare", "heartbeat"} =>
             /\ Continue(p, l, b) = "recoverHeartbeat" <=> l = "recoverReconcile"
             /\ Continue(p, l, b) # "resolve"
    BY <1>2 DEF Continue
  <2>3. proc' = [proc EXCEPT ![p] = [proc[p] EXCEPT !.pc = Continue(p, l, b)]]
        /\ launcher' = launcher
    BY <1>2 DEF Return, Goto
  <2> QED BY <2>1, <2>2, <2>3
<1> QED BY <1>1, <1>2

\* A recovery call that returns, with its intent gone.
LEMMA GuardReturn ==
  ASSUME ControlInv, GuardInv, NEW p \in Proc, proc[p].pc # "idle",
         NEW l, NEW b \in BOOLEAN, Return(p, l, b),
         \A k \in Kind : wal'[k] \in {wal[k], None},
         proc[p].task \in {"prepare", "heartbeat"} /\ proc[p].draft = None =>
            IF l = "recoverReconcile" THEN wal'["reconcile"] = None ELSE Pending' = None
  PROVE  GuardInv'
<1>1. proc[p] \in Local
  BY DEF ControlInv, TypeOK
<1>2. CASE Exit(p)
  <2>1. Idle.pc = "idle" /\ Idle.task = "none"
    BY DEF Idle
  <2>2. launcher \in {NoProc, p} \/ launcher' = launcher
    BY <1>2 DEF Exit
  <2> QED BY <1>2, <2>1, <2>2, GuardMoves DEF Exit
<1>3. CASE ~Exit(p)
  <2>1. PICK c \in {"resolve", "recoverHeartbeat", "checkSlot", "readCycles"} :
              /\ proc' = [proc EXCEPT ![p] = [proc[p] EXCEPT !.pc = c]]
              /\ launcher' = launcher
              /\ proc[p].draft = None
              /\ proc[p].task \in {"prepare", "heartbeat"} =>
                   (c = "recoverHeartbeat" <=> l = "recoverReconcile") /\ c # "resolve"
    BY <1>3, ReturnShape DEF ControlInv
  <2> DEFINE r == [proc[p] EXCEPT !.pc = c]
  <2>2. r.pc = c /\ r.task = proc[p].task /\ r.draft = proc[p].draft
    BY <1>1 DEF Local
  <2>3. r.task \in Scheduled => launcher = p
    BY <2>2 DEF GuardInv
  <2> HIDE DEF r
  <2> QED BY <2>1, <2>2, <2>3, GuardMoves DEF Quiet, r
<1> QED BY <1>2, <1>3

\* Launching, working, ending: the launchers' lock is passed from task to task.
LEMMA GuardStep ==
  ASSUME ControlInv, GuardInv, Launched, NEW p \in Proc,
         Start(p) \/ Recover(p) \/ Work(p) \/ Halt(p) \/ Crash(p)
  PROVE  GuardInv'
<1> USE ProcAssumption
<1>1. proc[p] \in Local
  BY DEF ControlInv, TypeOK
<1>2. ASSUME Exit(p), wal' = wal PROVE GuardInv'
  <2>1. Idle.pc = "idle" /\ Idle.task = "none"
    BY DEF Idle
  <2>2. launcher \in {NoProc, p} \/ launcher' = launcher
    BY <1>2 DEF Exit
  <2> QED BY <1>2, <2>1, <2>2, GuardMoves DEF Exit
<1>3. ASSUME NEW c \in PC, Goto(p, c), wal' = wal, launcher' = launcher,
             proc[p].pc # "idle",
             c \in Quiet => proc[p].pc \in Quiet, c # "recoverHeartbeat"
      PROVE  GuardInv'
  <2> DEFINE r == [proc[p] EXCEPT !.pc = c]
  <2>1. r.pc = c /\ r.task = proc[p].task /\ proc' = [proc EXCEPT ![p] = r]
    BY <1>1, <1>3 DEF Local, Goto
  <2>2. Pending' = Pending
    BY <1>3 DEF Pending
  <2>3. r.task \in Scheduled => launcher = p
    BY <1>3, <2>1 DEF GuardInv
  <2>4. r.task \in {"prepare", "heartbeat"} /\ r.pc \in Quiet => Pending' = None
    BY <1>3, <2>1, <2>2 DEF GuardInv
  <2> HIDE DEF r
  <2> QED BY <1>3, <2>1, <2>3, <2>4, GuardMoves
<1>4. CASE Start(p)
  <2>1. PICK t \in Task, u \in Slot \cup {NoUnit} : Launch(p, t, u)
    BY <1>4 DEF Start, StartPrepare, StartReconcile, StartRecover, StartHeartbeat, Task
  <2> DEFINE r == [Idle EXCEPT !.pc = "recoverReconcile", !.task = t, !.unit = u]
  <2>2. r.pc = "recoverReconcile" /\ r.task = t
    BY DEF Idle
  <2>3. /\ proc' = [proc EXCEPT ![p] = r] /\ wal' = wal
        /\ IF t \in Guarded THEN launcher = NoProc /\ launcher' = p ELSE launcher' = launcher
    BY <2>1 DEF Launch, disk
  <2> HIDE DEF r
  <2> QED BY <2>2, <2>3, GuardMoves DEF Launched, Quiet
<1>5. CASE Halt(p) \/ Crash(p)
  BY <1>2, <1>5 DEF Halt, Crash, disk
<1>6. CASE Recover(p)
  <2>1. ASSUME NEW l \in Replaying, Replays(p, l), l # "verify", Advance(p),
               wal' = wal, launcher' = launcher
        PROVE  GuardInv'
    <3> DEFINE c == After[intent[Pending].kind][l]
    <3>1. c \in Replaying
      BY <2>1, PendingTyped
      DEF ControlInv, IntentInv, Replays, After, HeartbeatOrder, Writes, Replaying, Kind
    <3>2. c \in PC /\ c \notin Quiet /\ c # "recoverHeartbeat"
      BY <3>1 DEF PC, Quiet, Replaying
    <3>3. proc[p].pc # "idle" /\ Goto(p, c)
      BY <2>1 DEF Replays, Replaying, Advance
    <3> QED BY <1>3, <2>1, <3>2, <3>3
  <2>2. CASE NothingPending(p)
    <3>1. proc[p].pc # "idle" /\ wal' = wal
      BY <2>2 DEF NothingPending, Recovering, disk
    <3>2. proc[p].task \in {"prepare", "heartbeat"} /\ proc[p].draft = None =>
            IF proc[p].pc = "recoverReconcile" THEN wal'["reconcile"] = None
                                               ELSE Pending' = None
      BY <2>2, <3>1 DEF NothingPending, KindAt, GuardInv, Pending, Recovering
    <3> QED BY <2>2, <3>1, <3>2, GuardReturn DEF NothingPending
  <2>3. CASE RetireIntent(p)
    <3>1. /\ proc[p].pc \in Recovering /\ wal[KindAt(p)] # None
          /\ wal' = [wal EXCEPT ![KindAt(p)] = None]
      BY <2>3 DEF RetireIntent
    <3>2. Pending' = None /\ \A k \in Kind : wal'[k] = None
      BY <3>1 DEF Pending, KindAt, Kind, ControlInv, TypeOK, IntentInv, AtMostOneIntent
    <3> QED BY <2>3, <3>1, <3>2, GuardReturn DEF RetireIntent, Recovering, Kind
  <2>4. CASE BeginReplay(p)
    <3>1. After[KindAt(p)]["begin"] = "account"
      BY DEF KindAt, After, HeartbeatOrder
    <3>2. "account" \in PC /\ "account" \notin Quiet /\ proc[p].pc # "idle"
      BY <2>4 DEF PC, Replaying, Quiet, BeginReplay, Recovering
    <3> QED BY <1>3, <2>4, <3>1, <3>2 DEF BeginReplay, disk
  <2>5. CASE SaveAccount(p)
    BY <2>1, <2>5 DEF SaveAccount, Replaying
  <2>6. CASE SaveOutput(p)
    BY <2>1, <2>6 DEF SaveOutput, Replaying
  <2>7. CASE RecordEquity(p) \/ AppendLedger(p) \/ AppendHeartbeat(p)
    BY <2>1, <2>7 DEF RecordEquity, AppendLedger, AppendHeartbeat, AppendRow, Replaying
  <2>8. CASE AppendAccountEvent(p)
    BY <2>1, <2>8 DEF AppendAccountEvent, Replaying
  <2>9. CASE FinishReplay(p)
    <3> DEFINE k == intent[Pending].kind
    <3>1. Pending # None /\ proc[p].pc # "idle" /\ k \in Kind
      BY <2>9, PendingTyped DEF FinishReplay, Replays, ControlInv, IntentInv, Replaying
    <3>2. wal' = [wal EXCEPT ![k] = None] /\ wal[k] # None
      BY <2>9, <3>1 DEF FinishReplay, Pending, ControlInv, IntentInv, Kind
    <3>3. Pending' = None /\ \A j \in Kind : wal'[j] = None
      BY <3>1, <3>2 DEF Pending, Kind, ControlInv, TypeOK, IntentInv, AtMostOneIntent
    <3> QED BY <2>9, <3>1, <3>3, GuardReturn DEF FinishReplay, Kind
  <2> QED
    BY <1>6, <2>2, <2>3, <2>4, <2>5, <2>6, <2>7, <2>8, <2>9 DEF Recover
<1>7. CASE Work(p)
  <2>1. CASE SlotSettled(p) \/ SealBundle(p) \/ GiveUp(p)
    BY <1>2, <2>1 DEF SlotSettled, SealBundle, GiveUp, disk
  <2>2. CASE SlotOpen(p)
    BY <1>3, <2>2 DEF SlotOpen, PC, Quiet, disk
  <2>3. CASE Stage(p)
    BY <1>3, <2>3 DEF Stage, PC, Quiet, disk
  <2>4. ASSUME NEW r, proc' = [proc EXCEPT ![p] = r], r.task = proc[p].task,
               r.pc \in Quiet, proc[p].pc \in Quiet \ {"idle"},
               UNCHANGED <<wal, launcher>>
        PROVE  GuardInv'
    <3>1. Pending' = Pending /\ proc[p].pc # "idle" /\ r.pc # "recoverHeartbeat"
      BY <2>4 DEF Pending, Quiet
    <3>2. r.task \in Scheduled => launcher = p
      BY <2>4, <3>1 DEF GuardInv
    <3>3. r.task \in {"prepare", "heartbeat"} => Pending' = None
      BY <2>4, <3>1 DEF GuardInv
    <3> QED BY <2>4, <3>1, <3>2, <3>3, GuardMoves
  <2>5. CASE ReadCycles(p)
    <3>1. PICK c \in 0..MaxCommit :
            proc' = [proc EXCEPT ![p] = [proc[p] EXCEPT !.unit = c + 1, !.pc = "load"]]
      BY <2>5 DEF ReadCycles
    <3> DEFINE r == [proc[p] EXCEPT !.unit = c + 1, !.pc = "load"]
    <3>2. r.pc = "load" /\ r.task = proc[p].task
      BY <1>1 DEF Local
    <3> HIDE DEF r
    <3> QED BY <2>4, <2>5, <3>1, <3>2 DEF ReadCycles, Quiet, disk, r
  <2>6. CASE ResolvePending(p)
    <3> DEFINE r == [proc[p] EXCEPT !.unit = bundle.cycle, !.base = bundle.base,
                                    !.pc = "load"]
    <3>1. r.pc = "load" /\ r.task = proc[p].task /\ r.task = "reconcile"
      BY <1>1, <2>6 DEF Local, ResolvePending, ControlInv, LocalInv, LocalOK
    <3>2. proc' = [proc EXCEPT ![p] = r] /\ wal' = wal /\ launcher' = launcher
      BY <2>6 DEF ResolvePending, disk
    <3>3. launcher = p
      BY <2>6, <3>1 DEF ResolvePending, GuardInv, Scheduled
    <3> HIDE DEF r
    <3> QED BY <3>1, <3>2, <3>3, GuardMoves
  <2>7. CASE LoadAccount(p)
    <3> DEFINE l == IF proc[p].task = "prepare" THEN "seal" ELSE "compute"
               r == [proc[p] EXCEPT !.base = account, !.pc = l]
    <3>1. r.pc = l /\ r.task = proc[p].task
      BY <1>1 DEF Local
    <3>2. proc' = [proc EXCEPT ![p] = r] /\ wal' = wal /\ launcher' = launcher
      BY <2>7 DEF LoadAccount, disk
    <3> HIDE DEF r
    <3> QED BY <2>4, <2>7, <3>1, <3>2 DEF LoadAccount, Quiet
  <2>8. CASE ComputeAccount(p)
    <3> DEFINE r == [proc[p] EXCEPT !.draft = nextId, !.pc = "stage"]
    <3>1. r.pc = "stage" /\ r.task = proc[p].task
      BY <1>1 DEF Local
    <3>2. proc' = [proc EXCEPT ![p] = r] /\ wal' = wal /\ launcher' = launcher
      BY <2>8 DEF ComputeAccount, disk
    <3> HIDE DEF r
    <3> QED BY <2>4, <2>8, <3>1, <3>2 DEF ComputeAccount, Quiet
  <2>9. CASE WriteIntent(p)
    <3> DEFINE c == IF proc[p].task = "reconcile" THEN "recoverReconcile"
                                                  ELSE "recoverHeartbeat"
               r == [proc[p] EXCEPT !.pc = c]
    <3>1. r.pc = c /\ r.task = proc[p].task /\ r.draft = proc[p].draft
      BY <1>1 DEF Local
    <3>2. r.task \in Kind /\ r.draft # None
      BY <2>9, <3>1, BoundsAssumption
      DEF WriteIntent, ControlInv, LocalInv, LocalOK, Id, None
    <3>3. proc' = [proc EXCEPT ![p] = r] /\ launcher' = launcher
      BY <2>9 DEF WriteIntent, Goto
    <3>4. launcher = p
      BY <2>9, <3>1, <3>2 DEF WriteIntent, GuardInv, Scheduled, Kind
    <3> HIDE DEF r
    <3> QED BY <3>1, <3>2, <3>3, <3>4, GuardMoves DEF Quiet
  <2> QED
    BY <1>7, <2>1, <2>2, <2>3, <2>5, <2>6, <2>7, <2>8, <2>9 DEF Work
<1> QED BY <1>4, <1>5, <1>6, <1>7

-----------------------------------------------------------------------------
(* The chain, the owners of the files and the heartbeat rows.              *)

\* What the invariants say of the chain and of the files.
FilesInv == ChainInv /\ OwnerInv /\ EventInv /\ MarkInv

\* The head of the chain is one of its events, and the latest.
LEMMA HeadLatest ==
  ASSUME TypeOK, ChainInv
  PROVE  /\ Head0 \in Published \cup {None}
         /\ \A m \in Published : m <= Head0 /\ m \in Id
<1>1. CASE events = <<>>
  BY <1>1 DEF Head0, Published
<1>2. CASE events # <<>>
  <2>1. Len(events) \in 1..Len(events) /\ Head0 = events[Len(events)]
    BY <1>2 DEF TypeOK, Head0
  <2>2. \A i \in 1..Len(events) : events[i] \in Id
    BY DEF TypeOK
  <2>3. \A i \in 1..Len(events) : i = Len(events) \/ i < Len(events)
    BY <2>1
  <2>4. ASSUME NEW i \in 1..Len(events) PROVE events[i] <= Head0
    <3>1. events[i] \in Nat /\ events[Len(events)] \in Nat
      BY <2>1, <2>2, BoundsAssumption DEF Id
    <3>2. CASE i = Len(events)
      BY <2>1, <3>1, <3>2
    <3>3. CASE i < Len(events)
      BY <2>1, <3>1, <3>3 DEF ChainInv
    <3> QED BY <2>3, <3>2, <3>3
  <2> QED BY <2>1, <2>2, <2>4 DEF Published
<1> QED BY <1>1, <1>2

\* A step that writes no intent, file or event, and brings nobody to the end of a replay.
LEMMA FilesLeft ==
  ASSUME FilesInv, UNCHANGED <<wal, intent, file, events>>,
         \A q \in Proc : proc'[q].pc = "verify" => proc[q].pc = "verify"
  PROVE  FilesInv'
<1>1. Pending' = Pending /\ Published' = Published /\ Head0' = Head0 /\ Live' = Live
      /\ Marks' = Marks
  BY DEF Pending, Published, Head0, Live, Marks
<1>2. ChainInv'
  BY <1>1 DEF FilesInv, ChainInv, ChainLinked, ExtendsChain
<1>3. OwnerInv'
  BY <1>1 DEF FilesInv, OwnerInv, Own
<1>4. EventInv'
  BY <1>1 DEF FilesInv, EventInv, Intact, Own
<1>5. MarkInv'
  BY <1>1 DEF FilesInv, MarkInv, IsLatest
<1> QED BY <1>2, <1>3, <1>4, <1>5 DEF FilesInv

\* An intent that is removed is published and whole.
LEMMA FilesRetired ==
  ASSUME ControlInv, FilesInv, NEW p \in Proc, NEW r, NEW k \in Kind,
         proc' = [proc EXCEPT ![p] = r], r.pc \notin Replaying,
         flock \in {NoProc, p}, Pending # None, wal[k] # None, Intact(Pending),
         wal' = [wal EXCEPT ![k] = None], UNCHANGED <<intent, file, events>>
  PROVE  FilesInv'
<1> USE ProcAssumption
<1>1. \A q \in Proc : proc'[q].pc \notin Replaying
  <2>1. \A q \in Proc : proc'[q] = IF q = p THEN r ELSE proc[q]
    BY DEF ControlInv, TypeOK
  <2> QED BY <2>1 DEF ControlInv, LockInv, Locking
<1>2. Pending' = None
  BY DEF Pending, Kind, ControlInv, TypeOK, IntentInv, AtMostOneIntent
<1>3. Published' = Published /\ Head0' = Head0 /\ Marks' = Marks
      /\ Pending \in Published /\ None \notin Published
  <2>1. Published' = Published /\ Head0' = Head0 /\ Marks' = Marks
    BY DEF Published, Head0, Marks
  <2>2. \A m \in Published : m \in Id
    BY HeadLatest DEF ControlInv, FilesInv
  <2> QED BY <2>1, <2>2, BoundsAssumption DEF Intact, Id, None
<1>4. Live' = Live
  BY <1>2, <1>3, BoundsAssumption DEF Live, Id, None
<1>5. ChainInv'
  BY <1>2, <1>3 DEF FilesInv, ChainInv, ChainLinked
<1>6. OwnerInv'
  BY <1>4 DEF FilesInv, OwnerInv, Own
<1>7. EventInv'
  BY <1>1, <1>2, <1>3 DEF FilesInv, EventInv, Intact, Own, Replaying
<1>8. MarkInv'
  BY <1>2, <1>3 DEF FilesInv, MarkInv, IsLatest
<1> QED BY <1>5, <1>6, <1>7, <1>8 DEF FilesInv

\* What a generation's files may hold before its replay is done.
LEMMA OwnFiles ==
  ASSUME TypeOK, OwnerInv, Pending # None, NEW f \in File
  PROVE  file[intent[Pending].unit][f] \in {None, Pending}
<1>1. Pending \in Live /\ intent[Pending].unit \in Unit
  BY PendingTyped DEF Live
<1> QED BY <1>1 DEF OwnerInv

\* A heartbeat row belongs to a generation no later than the intent on disk.
LEMMA MarksLive ==
  ASSUME TypeOK, OwnerInv
  PROVE  \A m \in Marks : m \in Live /\ m # None /\ file[intent[m].unit]["index"] = m
                          /\ intent[m].unit \in Slot /\ m \in Used
<1> SUFFICES ASSUME NEW s \in Slot, file[s]["index"] # None
             PROVE  LET m == file[s]["index"] IN
                      /\ m \in Live /\ file[intent[m].unit]["index"] = m
                      /\ intent[m].unit \in Slot /\ m \in Used
  BY DEF Marks
<1>1. s \in Unit /\ "index" \in File
  BY DEF Unit, File
<1>2. file[s]["index"] \in Live /\ intent[file[s]["index"]].unit = s
  BY <1>1 DEF OwnerInv
<1> QED BY <1>1, <1>2 DEF Live, Used

\* One write of a replay, into the unit of the intent on disk.
LEMMA FilesPut ==
  ASSUME ControlInv, PublishInv, FilesInv, NEW p \in Proc, NEW f \in File,
         f \in Replaying, Replays(p, f), Put(f), Advance(p),
         UNCHANGED <<wal, intent, events>>
  PROVE  FilesInv'
<1> DEFINE n == Pending
           u == intent[n].unit
           k == intent[n].kind
           m == After[k][f]
<1>1. /\ n # None /\ n \in Id /\ u \in Unit /\ k \in Kind /\ f \in Writes[k]
      /\ \A q \in Proc : q # p => proc[q].pc \notin Locking
      /\ file[u]["complete"] = None
  BY ReplayKnows DEF File
<1>2. \A v \in Unit, g \in File : file'[v][g] = IF v = u /\ g = f THEN n ELSE file[v][g]
  BY <1>1 DEF Put, ControlInv, TypeOK
<1>3. Pending' = n /\ Published' = Published /\ Head0' = Head0 /\ Live' = Live
  BY DEF Pending, Published, Head0, Live
<1>4. n \in Live /\ f \in Own(n) \cup {"complete"}
  BY <1>1 DEF Live, Own, Writes, Kind, File
<1>5. m = "verify" => f = "complete"
  BY <1>1 DEF After, HeartbeatOrder, Writes, Kind, File
<1>6. /\ proc'[p].pc = m
      /\ \A q \in Proc : q # p => proc'[q] = proc[q] /\ proc[q].pc \notin Locking
  <2>1. proc' = [proc EXCEPT ![p].pc = m] /\ proc[p] \in Local
    BY DEF Advance, Goto, Replays, ControlInv, TypeOK
  <2> QED BY <1>1, <2>1 DEF ControlInv, TypeOK, Local
<1>7. ChainInv'
  BY <1>3 DEF FilesInv, ChainInv, ChainLinked, ExtendsChain
<1>8. OwnerInv'
  <2>1. ASSUME NEW v \in Unit, NEW g \in File, file'[v][g] # None
        PROVE  /\ file'[v][g] \in Live
               /\ intent[file'[v][g]].unit = v
               /\ g \in Own(file'[v][g]) \cup {"complete"}
    BY <1>2, <1>4, <2>1 DEF FilesInv, OwnerInv
  <2> QED BY <1>3, <2>1 DEF FilesInv, OwnerInv, Own
<1>9. EventInv'
  <2>1. ASSUME NEW x \in Published, x # n
        PROVE  /\ file'[intent[x].unit]["complete"] = x
               /\ \A g \in Own(x) : file'[intent[x].unit][g] = x
    <3>1. Intact(x) /\ x # None /\ intent[x].unit \in Unit
      BY <2>1, HeadLatest, BoundsAssumption
      DEF FilesInv, EventInv, ControlInv, TypeOK, Intent, Id, None
    <3>2. intent[x].unit # u
      BY <1>1, <3>1 DEF Intact
    <3> QED BY <1>2, <3>1, <3>2 DEF Intact, Own, File
  <2>2. n \in Published => \A g \in Done[k]["event"] : file'[u][g] = n
    <3>1. Done[k]["event"] \subseteq File
      BY <1>1 DEF Done, Kind, File
    <3> QED BY <1>1, <1>2, <3>1 DEF FilesInv, EventInv
  <2>3. ASSUME NEW q \in Proc, proc'[q].pc = "verify"
        PROVE  file'[u]["complete"] = n
    <3>1. q = p
      BY <1>6, <2>3 DEF Locking, Replaying
    <3> QED BY <1>1, <1>2, <1>5, <1>6, <2>3, <3>1 DEF File
  <2> QED BY <1>3, <2>1, <2>2, <2>3 DEF EventInv, Intact, Own
<1>10. MarkInv'
  <2>1. CASE f # "index"
    <3>1. Marks' = Marks
      BY <1>2, <2>1 DEF Marks, Unit, File
    <3> QED BY <1>3, <3>1 DEF FilesInv, MarkInv, IsLatest
  <2>2. CASE f = "index"
    <3>1. k = "heartbeat" /\ u \in Slot
      BY <1>1, <1>4, <2>2 DEF Writes, Kind, FilesInv, OwnerInv
    <3>2. file[u]["index"] \in {None, n}
      BY <1>1, OwnFiles DEF FilesInv, ControlInv, File
    <3>3. Marks' = Marks \cup {n}
      <4>1. \A s \in Slot : file'[s]["index"] = IF s = u THEN n ELSE file[s]["index"]
        BY <1>2, <2>2 DEF Unit, File
      <4> QED BY <1>1, <3>1, <3>2, <4>1 DEF Marks
    <3>4. \A x \in Marks : x \in Nat /\ x <= n
      <4>1. \A x \in Marks : x \in Live
        BY MarksLive DEF FilesInv, ControlInv
      <4> QED
        BY <1>1, <4>1, BoundsAssumption DEF FilesInv, ChainInv, Live, Id
    <3>5. n \in Nat
      BY <1>1, BoundsAssumption DEF Id
    <3>6. \A x \in Marks : x # n => {y \in Marks' : y < x} = {y \in Marks : y < x}
      BY <3>3, <3>4, <3>5
    <3>7. {y \in Marks' : y < n} = Marks \ {n} /\ Marks' \ {n} = Marks \ {n}
      BY <3>3, <3>4, <3>5
    <3>8. IsLatest(intent[n].prevMark, Marks \ {n})
      BY <1>1, <3>1 DEF FilesInv, MarkInv
    <3>9. ASSUME NEW x \in Marks'
          PROVE  IsLatest(intent[x].prevMark, {y \in Marks' : y < x})
      <4>1. CASE x = n
        BY <3>7, <3>8, <4>1
      <4>2. CASE x # n
        <5>1. x \in Marks
          BY <3>3, <4>2, <3>9
        <5> QED BY <3>6, <4>2, <5>1 DEF FilesInv, MarkInv
      <4> QED BY <4>1, <4>2
    <3>10. intent' = intent
      OBVIOUS
    <3> QED BY <1>3, <3>7, <3>8, <3>9, <3>10 DEF MarkInv, IsLatest
  <2> QED BY <2>1, <2>2
<1> QED BY <1>7, <1>8, <1>9, <1>10 DEF FilesInv

\* The event of the intent on disk is the next link of the chain.
LEMMA FilesEvent ==
  ASSUME ControlInv, PublishInv, FilesInv, NEW p \in Proc, AppendAccountEvent(p)
  PROVE  FilesInv' /\ Head0' = Pending
<1> DEFINE n == Pending
           u == intent[n].unit
           k == intent[n].kind
           m == After[k]["event"]
           last == Len(events) + 1
<1>1. Replays(p, "event") /\ UNCHANGED <<wal, intent, file>> /\ Advance(p)
  BY DEF AppendAccountEvent
<1>2. /\ n # None /\ n \in Id /\ n \in Nat /\ u \in Unit /\ k \in Kind
      /\ "event" \in Writes[k]
      /\ \A q \in Proc : q # p => proc[q].pc \notin Locking
      /\ \A g \in Done[k]["event"] : file[u][g] = n
  BY <1>1, ReplayKnows, BoundsAssumption DEF Replaying, Id
<1>3. Pending' = n /\ Marks' = Marks
  BY <1>1 DEF Pending, Marks
<1>4. Published' = Published \cup {n}
  BY EventAppended
<1>5. Live' = Live
  BY <1>2, <1>3, <1>4 DEF Live
<1>6. \A q \in Proc : proc'[q].pc # "verify"
  <2>1. m \in Replaying /\ m # "verify"
    BY <1>2 DEF After, HeartbeatOrder, Writes, Kind, Replaying
  <2>2. proc' = [proc EXCEPT ![p].pc = m] /\ proc[p] \in Local
    BY <1>1 DEF Advance, Goto, Replays, ControlInv, TypeOK
  <2> QED BY <1>2, <2>1, <2>2 DEF ControlInv, TypeOK, Local, Locking, Replaying
<1>7. ChainInv' /\ Head0' = n
  <2>1. CASE n \in Published
    <3>1. events' = events
      BY <2>1, EventAppended
    <3>2. Head0' = Head0 /\ Head0 = n
      BY <1>2, <2>1, <3>1 DEF Head0, FilesInv, ChainInv
    <3> QED
      BY <1>1, <1>3, <1>4, <2>1, <3>1, <3>2 DEF FilesInv, ChainInv, ChainLinked
  <2>2. CASE n \notin Published
    <3>1. /\ Len(events') = last
          /\ \A i \in 1..Len(events) : events'[i] = events[i]
          /\ events'[last] = n
          /\ 1..Len(events') = 1..Len(events) \cup {last}
          /\ events' = Append(events, n) /\ events \in Seq(Id) /\ Len(events) \in Nat
      BY <2>2, EventAppended DEF ControlInv, TypeOK
    <3>2. Head0' = n
      <4>1. events' # <<>>
        BY <3>1
      <4> QED BY <3>1, <4>1 DEF Head0
    <3>3. ExtendsChain(n)
      BY <1>2, <2>2 DEF FilesInv, ChainInv
    <3>4. \A i \in 1..Len(events) : events[i] \in Published /\ events[i] \in Id
      BY <3>1 DEF Published
    <3>5. \A i \in 1..Len(events) : events[i] < n
      <4>1. \A i \in 1..Len(events) : events[i] <= n /\ events[i] # n /\ events[i] \in Nat
        BY <1>2, <2>2, <3>4, BoundsAssumption DEF FilesInv, ChainInv, Id
      <4> QED BY <1>2, <4>1
    <3>6. \A i, j \in 1..Len(events') : i < j => events'[i] < events'[j]
      <4> SUFFICES ASSUME NEW i \in 1..Len(events'), NEW j \in 1..Len(events'), i < j
                   PROVE  events'[i] < events'[j]
        OBVIOUS
      <4>1. i \in 1..Len(events)
        BY <3>1
      <4>2. CASE j = last
        BY <3>1, <3>5, <4>1, <4>2
      <4>3. CASE j \in 1..Len(events)
        BY <3>1, <4>1, <4>3 DEF FilesInv, ChainInv
      <4> QED BY <3>1, <4>2, <4>3
    <3>7. \A i \in 1..Len(events') :
            /\ intent[events'[i]].prev = IF i = 1 THEN None ELSE events'[i - 1]
            /\ i > 1 => intent[events'[i]].base = events'[i - 1] /\ events'[i - 1] <= events'[i]
      <4> SUFFICES ASSUME NEW i \in 1..Len(events')
                   PROVE  /\ intent[events'[i]].prev = IF i = 1 THEN None ELSE events'[i - 1]
                          /\ i > 1 => /\ intent[events'[i]].base = events'[i - 1]
                                      /\ events'[i - 1] <= events'[i]
        OBVIOUS
      <4>1. i \in 1..Len(events) => i = 1 \/ i - 1 \in 1..Len(events)
        BY <3>1
      <4>2. CASE i \in 1..Len(events)
        BY <3>1, <4>1, <4>2 DEF FilesInv, ChainInv, ChainLinked
      <4>3. CASE i = last /\ Len(events) = 0
        <5>1. events = <<>>
          BY <3>1, <4>3
        <5> QED BY <3>1, <3>3, <4>3, <5>1 DEF ExtendsChain
      <4>4. CASE i = last /\ Len(events) # 0
        <5>1. events # <<>> /\ i # 1 /\ i - 1 = Len(events) /\ Len(events) \in 1..Len(events)
          BY <3>1, <4>4
        <5>2. events'[i - 1] = Head0 /\ events'[i] = n
          BY <3>1, <4>4, <5>1 DEF Head0
        <5> QED BY <3>3, <5>1, <5>2 DEF ExtendsChain
      <4> QED BY <3>1, <4>2, <4>3, <4>4
    <3>8. ChainLinked'
      BY <1>1, <3>7 DEF ChainLinked
    <3>9. \A x \in Published' : x <= n
      BY <1>2, <1>4 DEF FilesInv, ChainInv
    <3> QED BY <1>3, <1>4, <3>2, <3>6, <3>8, <3>9 DEF ChainInv
  <2> QED BY <2>1, <2>2
<1>8. OwnerInv'
  BY <1>1, <1>5 DEF FilesInv, OwnerInv, Own
<1>9. EventInv'
  BY <1>1, <1>2, <1>3, <1>4, <1>6 DEF FilesInv, EventInv, Intact, Own
<1>10. MarkInv'
  BY <1>1, <1>3 DEF FilesInv, MarkInv, IsLatest
<1> QED BY <1>7, <1>8, <1>9, <1>10 DEF FilesInv

\* An intent is written for a free unit, as the next link of both chains.
LEMMA FilesIntent ==
  ASSUME ControlInv, PublishInv, FilesInv, NEW p \in Proc, WriteIntent(p),
         proc[p].unit \notin Taken
  PROVE  FilesInv' /\ Taken' = Taken
<1> DEFINE k == proc[p].task
           n == proc[p].draft
           u == proc[p].unit
<1> USE ProcAssumption
<1>1. /\ proc[p].pc = "intent" /\ p \in Drafting /\ n \in Id /\ n \in Nat /\ n # None
      /\ k \in Kind /\ n \notin Used /\ Pending = None
      /\ u \in IF k = "heartbeat" THEN Slot ELSE Cycle
  BY BoundsAssumption
  DEF WriteIntent, ControlInv, LocalInv, LocalOK, IntentInv, PublishInv, FreshInv,
      Drafting, Id, None
<1>2. PICK mark \in Id0 :
        /\ k = "heartbeat" => IsLatest(mark, Marks)
        /\ intent' = [intent EXCEPT ![n] =
             [kind |-> k, unit |-> u, base |-> BaseOf(p), from |-> proc[p].base,
              prev |-> Head0, prevMark |-> mark]]
  BY DEF WriteIntent
<1>3. /\ UNCHANGED <<file, events>> /\ wal' = [wal EXCEPT ![k] = n]
      /\ \A x \in Id : x # n => intent'[x] = intent[x]
      /\ intent'[n] = [kind |-> k, unit |-> u, base |-> BaseOf(p), from |-> proc[p].base,
                       prev |-> Head0, prevMark |-> mark]
  BY <1>1, <1>2 DEF WriteIntent, ControlInv, TypeOK
<1>4. Pending' = n /\ Published' = Published /\ Head0' = Head0 /\ Marks' = Marks
  <2>1. wal["reconcile"] = None /\ wal["heartbeat"] = None
    BY <1>1 DEF Pending
  <2> QED BY <1>1, <1>3, <2>1 DEF Pending, Published, Head0, Marks, Kind, ControlInv, TypeOK
<1>5. /\ \A x \in Published : x \in Id /\ x # n /\ intent'[x] = intent[x]
      /\ n \notin Published
  BY <1>1, <1>3, HeadLatest DEF Used, ControlInv, FilesInv
<1>6. Live = Published /\ Live' = Published \cup {n}
  BY <1>1, <1>4, <1>5, BoundsAssumption DEF Live, Id, None
<1>7. Taken' = Taken
  BY <1>4, <1>5 DEF Taken
<1>8. ChainInv'
  <2>1. \A i \in 1..Len(events) : events[i] \in Published /\ intent'[events[i]] = intent[events[i]]
    BY <1>5 DEF Published
  <2>2. ChainLinked'
    BY <1>3, <2>1 DEF FilesInv, ChainInv, ChainLinked
  <2>3. events # <<>> => Head0 = BaseOf(p) /\ Head0 <= n
    BY DEF WriteIntent, EventPreparable
  <2>4. ASSUME NEW x \in Published PROVE x <= n
    <3>1. x \in Nat /\ Head0 \in Nat /\ x <= Head0 /\ events # <<>>
      BY <1>5, HeadLatest, BoundsAssumption
      DEF ControlInv, FilesInv, Published, Id, None, TypeOK
    <3> QED BY <1>1, <2>3, <3>1
  <2>5. IF events = <<>> THEN intent'[n].prev = None
        ELSE intent'[n].prev = Head0 /\ intent'[n].base = Head0 /\ Head0 <= n
    BY <1>3, <2>3 DEF Head0
  <2>6. ASSUME NEW i \in 1..Len(events'), NEW j \in 1..Len(events'), i < j
        PROVE  events'[i] < events'[j]
    BY <1>3, <2>6 DEF FilesInv, ChainInv
  <2>7. (IF Pending \in Published THEN Head0 = Pending ELSE ExtendsChain(Pending))'
    <3>1. ExtendsChain(Pending)'
      BY <1>3, <1>4, <2>5 DEF ExtendsChain
    <3> QED BY <1>4, <1>5, <3>1
  <2> QED BY <1>4, <2>2, <2>4, <2>6, <2>7 DEF ChainInv
<1>9. OwnerInv'
  <2>1. ASSUME NEW v \in Unit, NEW g \in File, file[v][g] # None
        PROVE  /\ file[v][g] \in Live'
               /\ intent'[file[v][g]].unit = v
               /\ g \in Own(file[v][g])' \cup {"complete"}
    <3>1. /\ file[v][g] \in Published
          /\ intent[file[v][g]].unit = v
          /\ g \in Own(file[v][g]) \cup {"complete"}
      BY <1>6, <2>1 DEF FilesInv, OwnerInv
    <3>2. intent'[file[v][g]] = intent[file[v][g]] /\ file' = file
      BY <1>3, <1>5, <3>1
    <3> QED BY <1>6, <3>1, <3>2 DEF Own
  <2>2. \A x \in Live' : intent'[x].unit \in
          IF intent'[x].kind = "heartbeat" THEN Slot ELSE Cycle
    BY <1>1, <1>3, <1>5, <1>6 DEF FilesInv, OwnerInv
  <2>3. \A x, y \in Live' : intent'[x].unit = intent'[y].unit => x = y
    <3>1. intent'[n].unit = u /\ \A x \in Published : intent'[x].unit # u
      BY <1>3, <1>5 DEF Taken
    <3> QED BY <1>5, <1>6, <3>1 DEF FilesInv, OwnerInv
  <2> QED BY <1>3, <2>1, <2>2, <2>3 DEF OwnerInv
<1>10. EventInv'
  <2>1. \A q \in Proc : proc'[q].pc # "verify"
    <3>1. proc[p] \in Local
      BY DEF ControlInv, TypeOK
    <3>2. /\ proc'[p].pc \in Recovering
          /\ \A q \in Proc : q # p => proc'[q] = proc[q] /\ proc[q].pc \notin Locking
      BY <3>1 DEF WriteIntent, Goto, ControlInv, TypeOK, Local, LockInv, Recovering
    <3> QED BY <3>2 DEF Locking, Replaying, Recovering
  <2>2. ASSUME NEW x \in Published PROVE Intact(x)'
    <3>1. Intact(x) /\ intent'[x] = intent[x] /\ file' = file
      BY <1>1, <1>3, <1>5, BoundsAssumption DEF FilesInv, EventInv, Id, None
    <3> QED BY <1>4, <3>1 DEF Intact, Own
  <2> QED BY <1>4, <1>5, <2>1, <2>2 DEF EventInv
<1>11. MarkInv'
  <2>1. \A x \in Marks : x \in Id /\ x # n /\ intent'[x] = intent[x]
    <3>1. \A x \in Marks : x \in Used
      BY MarksLive DEF ControlInv, FilesInv
    <3> QED BY <1>1, <1>3, <3>1 DEF Used
  <2>2. Marks \ {n} = Marks
    BY <2>1
  <2>3. intent'[n].kind = k /\ intent'[n].prevMark = mark
    BY <1>3
  <2> QED BY <1>2, <1>4, <2>1, <2>2, <2>3 DEF FilesInv, MarkInv, IsLatest
<1> QED BY <1>7, <1>8, <1>9, <1>10, <1>11 DEF FilesInv

-----------------------------------------------------------------------------
(* The unit a task works on.                                               *)

\* What UnitInv says of the local state of one task.
UnitOK(r) ==
    /\ r.pc \in {"load", "seal", "compute", "stage", "intent"}
         /\ r.task \in {"prepare", "heartbeat"} => r.unit \notin Taken
    /\ r.pc = "seal" => r.base = Head0
    /\ r.pc \in {"load", "compute", "stage", "intent"} /\ r.task = "reconcile" =>
         bundle # NoBundle /\ bundle = [cycle |-> r.unit, base |-> r.base]

\* A step of one task that changes neither the chain nor the sealed decision.
LEMMA UnitLeft ==
  ASSUME ControlInv, UnitInv, NEW p \in Proc, NEW r, proc' = [proc EXCEPT ![p] = r],
         UNCHANGED <<intent, events, bundle>>, UnitOK(r)
  PROVE  UnitInv'
<1>1. \A q \in Proc : proc'[q] = IF q = p THEN r ELSE proc[q]
  BY DEF ControlInv, TypeOK
<1>2. Published' = Published /\ Head0' = Head0 /\ Taken' = Taken
  BY DEF Published, Head0, Taken
<1>3. \A q \in Proc : UnitOK(proc'[q])
  BY <1>1 DEF UnitInv, UnitOK
<1> QED BY <1>2, <1>3 DEF UnitInv, UnitOK

\* Steps after which p works on no unit.
LEMMA UnitNone ==
  ASSUME ControlInv, UnitInv, NEW p \in Proc, NEW r, proc' = [proc EXCEPT ![p] = r],
         r.pc \notin {"load", "seal", "compute", "stage", "intent"},
         UNCHANGED <<intent, events, bundle>>
  PROVE  UnitInv'
BY UnitLeft DEF UnitOK

\* A unit without its marker or row, and with no intent on disk, is free.
LEMMA UnitFree ==
  ASSUME ControlInv, FilesInv, Pending = None, NEW u \in Unit,
         IF u \in Slot THEN file[u]["index"] = None ELSE ~CycleComplete(u)
  PROVE  u \notin Taken
<1> SUFFICES ASSUME NEW n \in Published, intent[n].unit = u PROVE FALSE
  BY DEF Taken
<1>1. n \in Live /\ n # None
  BY HeadLatest, BoundsAssumption DEF Live, ControlInv, FilesInv, Id, None
<1>2. Intact(n)
  BY <1>1 DEF FilesInv, EventInv
<1>3. intent[n].unit \in IF intent[n].kind = "heartbeat" THEN Slot ELSE Cycle
  BY <1>1 DEF FilesInv, OwnerInv
<1>4. CASE u \in Slot
  <2>1. Slot \cap Cycle = {}
    BY UnitAssumption, BoundsAssumption DEF Cycle
  <2>2. "index" \in Own(n)
    BY <1>3, <1>4, <2>1 DEF Own
  <2> QED BY <1>1, <1>2, <1>4, <2>2 DEF Intact
<1>5. CASE u \notin Slot
  BY <1>1, <1>2, <1>5 DEF Intact, CycleComplete
<1> QED BY <1>4, <1>5

\* The unit an intent is written for is free.
LEMMA DraftUnitFree ==
  ASSUME ControlInv, BookInv, UnitInv, NEW p \in Proc, proc[p].pc = "intent"
  PROVE  proc[p].unit \notin Taken
<1>1. proc[p].task \in Kind /\ Pending = None
  BY DEF ControlInv, LocalInv, LocalOK, IntentInv
<1>2. proc[p].base = Head0
  BY <1>1 DEF BookInv, BookFollowsChain, HolderKnowsBook
<1>3. CASE proc[p].task = "heartbeat"
  BY <1>3 DEF UnitInv
<1>4. CASE proc[p].task = "reconcile"
  <2>1. bundle # NoBundle /\ bundle = [cycle |-> proc[p].unit, base |-> proc[p].base]
    BY <1>4 DEF UnitInv
  <2>2. bundle.base = Head0 /\ bundle.cycle = proc[p].unit
    BY <1>2, <2>1
  <2> QED BY <2>1, <2>2 DEF UnitInv
<1> QED BY <1>1, <1>3, <1>4 DEF Kind

\* The event that moves the head leaves every sealed decision behind.
LEMMA UnitEvent ==
  ASSUME ControlInv, PublishInv, FilesInv, GuardInv, UnitInv,
         NEW p \in Proc, AppendAccountEvent(p)
  PROVE  UnitInv'
<1> DEFINE n == Pending
           m == After[intent[n].kind]["event"]
<1>1. /\ Replays(p, "event") /\ Advance(p) /\ UNCHANGED <<intent, bundle>>
      /\ n # None /\ intent[n].kind \in Kind
  BY ReplayKnows DEF AppendAccountEvent, Replaying
<1>2. Published' = Published \cup {n} /\ Head0' = n
  BY EventAppended, FilesEvent
<1>3. /\ proc'[p].pc \in Replaying
      /\ \A q \in Proc : q # p => proc'[q] = proc[q]
  <2>1. m \in Replaying
    BY <1>1, ReplayKnows
    DEF After, HeartbeatOrder, Writes, Kind, Replaying
  <2>2. proc' = [proc EXCEPT ![p].pc = m] /\ proc[p] \in Local
    BY <1>1 DEF Advance, Goto, Replays, ControlInv, TypeOK
  <2> QED BY <2>1, <2>2 DEF ControlInv, TypeOK, Local
<1>4. CASE n \in Published
  <2>1. Published' = Published /\ Taken' = Taken
    BY <1>1, <1>2, <1>4 DEF Taken
  <2>2. Head0 = n
    BY <1>1, <1>4 DEF FilesInv, ChainInv
  <2>3. \A q \in Proc : UnitOK(proc'[q])
    BY <1>3 DEF UnitInv, UnitOK, Replaying
  <2> QED BY <1>1, <1>2, <2>1, <2>2, <2>3 DEF UnitInv, UnitOK
<1>5. CASE n \notin Published
  <2>1. bundle # NoBundle => bundle.base \in Published \cup {None} /\ bundle.base # Head0'
    BY <1>1, <1>2, <1>5 DEF UnitInv
  <2>2. ASSUME NEW q \in Proc, proc'[q].pc \in {"load", "seal", "compute", "stage", "intent"}
        PROVE  proc'[q] = proc[q] /\ proc[q].task \notin {"prepare", "heartbeat"}
               /\ proc[q].pc # "seal"
    <3>1. q # p /\ proc'[q] = proc[q]
      BY <1>3, <2>2 DEF Replaying
    <3>2. proc[q].task \notin {"prepare", "heartbeat"}
      BY <1>1, <2>2, <3>1 DEF GuardInv, Quiet
    <3> QED BY <3>1, <3>2 DEF ControlInv, LocalInv, LocalOK
  <2> QED BY <1>1, <1>2, <2>1, <2>2 DEF UnitInv
<1> QED BY <1>4, <1>5

\* A task learns its unit from what is published, and nobody publishes meanwhile.
LEMMA UnitWork ==
  ASSUME ControlInv, BookInv, PublishInv, FilesInv, GuardInv, UnitInv,
         NEW p \in Proc, Work(p)
  PROVE  UnitInv'
<1>1. proc[p] \in Local /\ LocalOK(proc[p]) /\ UnitOK(proc[p])
  BY DEF ControlInv, TypeOK, LocalInv, UnitInv, UnitOK
<1>2. ASSUME Exit(p), UNCHANGED <<intent, events, bundle>> PROVE UnitInv'
  <2>1. Idle.pc = "idle"
    BY DEF Idle
  <2> QED BY <1>2, <2>1, UnitNone DEF Exit
<1>3. CASE SlotSettled(p) \/ GiveUp(p)
  BY <1>2, <1>3 DEF SlotSettled, GiveUp, disk
<1>4. CASE SlotOpen(p)
  <2> DEFINE r == [proc[p] EXCEPT !.pc = "load"]
  <2>1. r.pc = "load" /\ r.task = proc[p].task /\ r.unit = proc[p].unit
    BY <1>1 DEF Local
  <2>2. proc[p].task = "heartbeat" /\ proc[p].unit \in Slot /\ Pending = None
    BY <1>1, <1>4 DEF SlotOpen, LocalOK, GuardInv, Quiet
  <2>3. proc[p].unit \notin Taken
    BY <1>4, <2>2, UnitFree DEF SlotOpen, Unit
  <2>4. UnitOK(r)
    BY <2>1, <2>2, <2>3 DEF UnitOK
  <2>5. proc' = [proc EXCEPT ![p] = r] /\ UNCHANGED <<intent, events, bundle>>
    BY <1>4 DEF SlotOpen, Goto, disk
  <2> HIDE DEF r
  <2> QED BY <2>4, <2>5, UnitLeft
<1>5. CASE ReadCycles(p)
  <2>1. PICK c \in 0..MaxCommit :
          /\ IsLatest(c, CompleteCycles)
          /\ proc' = [proc EXCEPT ![p] = [proc[p] EXCEPT !.unit = c + 1, !.pc = "load"]]
    BY <1>5 DEF ReadCycles
  <2> DEFINE r == [proc[p] EXCEPT !.unit = c + 1, !.pc = "load"]
  <2>2. r.pc = "load" /\ r.task = proc[p].task /\ r.unit = c + 1
    BY <1>1 DEF Local
  <2>3. proc[p].task = "prepare" /\ Pending = None
    BY <1>1, <1>5 DEF ReadCycles, LocalOK, GuardInv, Quiet
  <2>4. c + 1 \in Cycle /\ c + 1 \notin CompleteCycles /\ c + 1 \notin Slot
    <3>1. c \in Nat /\ c + 1 \in Nat /\ c + 1 \in Cycle /\ ~(c + 1 <= c)
      BY <2>1, BoundsAssumption DEF Cycle
    <3>2. c + 1 \notin Slot
      BY <3>1, UnitAssumption
    <3>3. c + 1 \notin CompleteCycles
      BY <2>1, <3>1 DEF IsLatest
    <3> QED BY <3>1, <3>2, <3>3
  <2>5. c + 1 \notin Taken
    BY <2>3, <2>4, UnitFree DEF Unit, CompleteCycles
  <2>6. UnitOK(r)
    BY <2>2, <2>3, <2>5 DEF UnitOK
  <2>7. UNCHANGED <<intent, events, bundle>>
    BY <1>5 DEF ReadCycles, disk
  <2> HIDE DEF r
  <2> QED BY <2>1, <2>6, <2>7, UnitLeft DEF r
<1>6. CASE ResolvePending(p)
  <2> DEFINE r == [proc[p] EXCEPT !.unit = bundle.cycle, !.base = bundle.base,
                                  !.pc = "load"]
  <2>1. r.pc = "load" /\ r.task = proc[p].task /\ r.unit = bundle.cycle
        /\ r.base = bundle.base
    BY <1>1 DEF Local
  <2>2. proc[p].task = "reconcile" /\ bundle # NoBundle
    BY <1>1, <1>6 DEF ResolvePending, LocalOK
  <2>3. bundle = [cycle |-> bundle.cycle, base |-> bundle.base]
    BY DEF ControlInv, TypeOK, Bundle
  <2>4. UnitOK(r)
    BY <2>1, <2>2, <2>3 DEF UnitOK
  <2>5. proc' = [proc EXCEPT ![p] = r] /\ UNCHANGED <<intent, events, bundle>>
    BY <1>6 DEF ResolvePending, disk
  <2> HIDE DEF r
  <2> QED BY <2>4, <2>5, UnitLeft
<1>7. CASE LoadAccount(p)
  <2> DEFINE l == IF proc[p].task = "prepare" THEN "seal" ELSE "compute"
             r == [proc[p] EXCEPT !.base = account, !.pc = l]
  <2>1. r.pc = l /\ r.task = proc[p].task /\ r.unit = proc[p].unit /\ r.base = account
    BY <1>1 DEF Local
  <2>2. proc[p].task = "reconcile" => account = proc[p].base
    BY <1>7 DEF LoadAccount, Loadable
  <2>3. proc[p].task = "prepare" => account = Head0
    BY <1>7 DEF LoadAccount, GuardInv, Quiet, BookInv, BookFollowsChain
  <2>4. UnitOK(r)
    BY <1>1, <1>7, <2>1, <2>2, <2>3 DEF UnitOK, LoadAccount
  <2>5. proc' = [proc EXCEPT ![p] = r] /\ UNCHANGED <<intent, events, bundle>>
    BY <1>7 DEF LoadAccount, disk
  <2> HIDE DEF r
  <2> QED BY <2>4, <2>5, UnitLeft
<1>8. CASE ComputeAccount(p)
  <2> DEFINE r == [proc[p] EXCEPT !.draft = nextId, !.pc = "stage"]
  <2>1. r.pc = "stage" /\ r.task = proc[p].task /\ r.unit = proc[p].unit
        /\ r.base = proc[p].base
    BY <1>1 DEF Local
  <2>2. UnitOK(r)
    BY <1>1, <1>8, <2>1 DEF UnitOK, ComputeAccount
  <2>3. proc' = [proc EXCEPT ![p] = r] /\ UNCHANGED <<intent, events, bundle>>
    BY <1>8 DEF ComputeAccount, disk
  <2> HIDE DEF r
  <2> QED BY <2>2, <2>3, UnitLeft
<1>9. CASE Stage(p)
  <2> DEFINE r == [proc[p] EXCEPT !.pc = "intent"]
  <2>1. r.pc = "intent" /\ r.task = proc[p].task /\ r.unit = proc[p].unit
        /\ r.base = proc[p].base
    BY <1>1 DEF Local
  <2>2. UnitOK(r)
    BY <1>1, <1>9, <2>1 DEF UnitOK, Stage
  <2>3. proc' = [proc EXCEPT ![p] = r] /\ UNCHANGED <<intent, events, bundle>>
    BY <1>9 DEF Stage, Goto
  <2> HIDE DEF r
  <2> QED BY <2>2, <2>3, UnitLeft
<1>10. CASE SealBundle(p)
  <2>1. proc[p].task = "prepare" /\ proc[p].pc = "seal" /\ proc[p].unit \notin Taken
        /\ proc[p].base = Head0
    BY <1>1, <1>10 DEF SealBundle, LocalOK, UnitOK
  <2>2. bundle' = [cycle |-> proc[p].unit, base |-> proc[p].base]
        /\ UNCHANGED <<intent, events>> /\ proc' = [proc EXCEPT ![p] = Idle]
    BY <1>10 DEF SealBundle, Exit
  <2>3. Published' = Published /\ Head0' = Head0 /\ Taken' = Taken
    BY <2>2 DEF Published, Head0, Taken
  <2>4. Head0 \in Published \cup {None}
    BY HeadLatest DEF ControlInv, FilesInv
  <2>5. ASSUME NEW q \in Proc, proc'[q].pc \in {"load", "seal", "compute", "stage", "intent"}
        PROVE  q # p /\ proc'[q] = proc[q] /\ proc[q].task # "reconcile"
    <3>1. q # p /\ proc'[q] = proc[q]
      BY <2>2, <2>5 DEF ControlInv, TypeOK, Idle
    <3>2. launcher = p
      BY <2>1 DEF GuardInv, Scheduled
    <3> QED BY <2>5, <3>1, <3>2 DEF GuardInv, Scheduled
  <2>6. bundle'.base = Head0 /\ bundle'.cycle = proc[p].unit
    BY <2>1, <2>2
  <2> QED BY <2>1, <2>3, <2>4, <2>5, <2>6 DEF UnitInv
<1>11. CASE WriteIntent(p)
  <2>1. Taken' = Taken
    BY <1>11, DraftUnitFree, FilesIntent DEF WriteIntent
  <2>2. Published' = Published /\ Head0' = Head0 /\ bundle' = bundle
    BY <1>11 DEF WriteIntent, Published, Head0
  <2>3. /\ proc'[p].pc \in Recovering
        /\ \A q \in Proc : q # p => proc'[q] = proc[q]
    BY <1>1, <1>11 DEF WriteIntent, Goto, ControlInv, TypeOK, Local, Recovering
  <2>4. \A q \in Proc : UnitOK(proc'[q])
    BY <2>3 DEF UnitInv, UnitOK, Recovering
  <2> QED BY <2>1, <2>2, <2>4 DEF UnitInv, UnitOK
<1> QED
  BY <1>3, <1>4, <1>5, <1>6, <1>7, <1>8, <1>9, <1>10, <1>11 DEF Work

-----------------------------------------------------------------------------
(* The invariant of a desk run by its launchers.                           *)

\* A desk with no file and no task.
LEMMA LaunchedInit == Init => LaunchedInv
<1> SUFFICES ASSUME Init PROVE LaunchedInv
  OBVIOUS
<1>1. \A p \in Proc : proc[p].pc = "idle" /\ proc[p].task = "none"
  BY DEF Init, Idle
<1>2. events = <<>> /\ Published = {} /\ Head0 = None /\ Pending = None
  BY DEF Init, Published, Head0, Pending, Kind
<1>3. Live = {} /\ Marks = {} /\ Taken = {}
  BY <1>2, BoundsAssumption DEF Init, Live, Marks, Taken, Unit, File, Id, None
<1>4. bundle = NoBundle
  BY DEF Init
<1>5. GuardInv
  BY <1>1 DEF GuardInv, Quiet
<1>6. ChainInv
  BY <1>2 DEF ChainInv, ChainLinked
<1>7. OwnerInv
  BY <1>3 DEF Init, OwnerInv
<1>8. EventInv /\ MarkInv
  BY <1>1, <1>2, <1>3 DEF EventInv, MarkInv
<1>9. UnitInv
  BY <1>1, <1>4 DEF UnitInv
<1> QED BY <1>5, <1>6, <1>7, <1>8, <1>9 DEF LaunchedInv

\* Starting and ending a task changes no file, and gives it no unit.
LEMMA LaunchedOuter ==
  ASSUME ControlInv, LaunchedInv, NEW p \in Proc, Start(p) \/ Halt(p) \/ Crash(p)
  PROVE  FilesInv' /\ UnitInv'
<1>1. PICK r : /\ proc' = [proc EXCEPT ![p] = r]
               /\ r.pc \notin {"load", "seal", "compute", "stage", "intent", "verify"}
               /\ UNCHANGED disk
  <2>1. CASE Start(p)
    <3>1. PICK t \in Task, u \in Slot \cup {NoUnit} : Launch(p, t, u)
      BY <2>1 DEF Start, StartPrepare, StartReconcile, StartRecover, StartHeartbeat, Task
    <3>2. [Idle EXCEPT !.pc = "recoverReconcile", !.task = t, !.unit = u].pc
            = "recoverReconcile"
      BY DEF Idle
    <3> QED BY <3>1, <3>2 DEF Launch
  <2>2. CASE Halt(p) \/ Crash(p)
    <3>1. Idle.pc = "idle"
      BY DEF Idle
    <3> QED BY <2>2, <3>1 DEF Halt, Crash, Exit
  <2> QED BY <2>1, <2>2
<1>2. UNCHANGED <<wal, intent, file, events, bundle>>
  BY <1>1 DEF disk
<1>3. \A q \in Proc : proc'[q] = IF q = p THEN r ELSE proc[q]
  BY <1>1 DEF ControlInv, TypeOK
<1>4. FilesInv'
  BY <1>1, <1>2, <1>3, FilesLeft DEF LaunchedInv, FilesInv
<1>5. UnitInv'
  BY <1>1, <1>2, UnitNone DEF LaunchedInv
<1> QED BY <1>4, <1>5

\* The work of a task changes the files by the intent it writes, and by nothing else.
LEMMA LaunchedWork ==
  ASSUME ControlInv, BookInv, PublishInv, LaunchedInv, NEW p \in Proc, Work(p)
  PROVE  FilesInv' /\ UnitInv'
<1>1. proc[p] \in Local /\ FilesInv
  BY DEF ControlInv, TypeOK, LaunchedInv, FilesInv
<1>2. UnitInv'
  BY <1>1, UnitWork DEF LaunchedInv
<1>3. CASE WriteIntent(p)
  <2>1. proc[p].unit \notin Taken
    BY <1>3, DraftUnitFree DEF WriteIntent, LaunchedInv
  <2> QED BY <1>1, <1>2, <1>3, <2>1, FilesIntent
<1>4. CASE ~WriteIntent(p)
  <2>1. UNCHANGED <<wal, intent, file, events>>
    BY <1>4 DEF Work, SlotSettled, SlotOpen, ReadCycles, ResolvePending, LoadAccount,
                SealBundle, ComputeAccount, GiveUp, Stage, disk
  <2>2. ASSUME NEW r, r.pc # "verify", proc' = [proc EXCEPT ![p] = r]
        PROVE  FilesInv' /\ UnitInv'
    <3>1. \A q \in Proc : proc'[q] = IF q = p THEN r ELSE proc[q]
      BY <2>2 DEF ControlInv, TypeOK
    <3> QED BY <1>1, <1>2, <2>1, <2>2, <3>1, FilesLeft
  <2>3. CASE SlotSettled(p) \/ SealBundle(p) \/ GiveUp(p)
    <3>1. Idle.pc = "idle"
      BY DEF Idle
    <3> QED BY <2>2, <2>3, <3>1 DEF SlotSettled, SealBundle, GiveUp, Exit
  <2>4. CASE SlotOpen(p) \/ Stage(p)
    <3>1. PICK l \in {"load", "intent"} : Goto(p, l)
      BY <2>4 DEF SlotOpen, Stage
    <3>2. [proc[p] EXCEPT !.pc = l].pc = l
      BY <1>1 DEF Local
    <3> QED BY <2>2, <3>1, <3>2 DEF Goto
  <2>5. CASE ReadCycles(p)
    <3>1. PICK c \in 0..MaxCommit :
            proc' = [proc EXCEPT ![p] = [proc[p] EXCEPT !.unit = c + 1, !.pc = "load"]]
      BY <2>5 DEF ReadCycles
    <3>2. [proc[p] EXCEPT !.unit = c + 1, !.pc = "load"].pc = "load"
      BY <1>1 DEF Local
    <3> QED BY <2>2, <3>1, <3>2
  <2>6. CASE ResolvePending(p)
    <3> DEFINE r == [proc[p] EXCEPT !.unit = bundle.cycle, !.base = bundle.base,
                                    !.pc = "load"]
    <3>1. proc' = [proc EXCEPT ![p] = r]
      BY <2>6 DEF ResolvePending
    <3>2. r.pc = "load"
      BY <1>1 DEF Local
    <3> HIDE DEF r
    <3> QED BY <2>2, <3>1, <3>2
  <2>7. CASE LoadAccount(p)
    <3> DEFINE l == IF proc[p].task = "prepare" THEN "seal" ELSE "compute"
               r == [proc[p] EXCEPT !.base = account, !.pc = l]
    <3>1. proc' = [proc EXCEPT ![p] = r]
      BY <2>7 DEF LoadAccount
    <3>2. r.pc # "verify"
      BY <1>1 DEF Local
    <3> HIDE DEF r
    <3> QED BY <2>2, <3>1, <3>2
  <2>8. CASE ComputeAccount(p)
    <3> DEFINE r == [proc[p] EXCEPT !.draft = nextId, !.pc = "stage"]
    <3>1. proc' = [proc EXCEPT ![p] = r]
      BY <2>8 DEF ComputeAccount
    <3>2. r.pc = "stage"
      BY <1>1 DEF Local
    <3> HIDE DEF r
    <3> QED BY <2>2, <3>1, <3>2
  <2> QED
    BY <1>4, <2>3, <2>4, <2>5, <2>6, <2>7, <2>8 DEF Work
<1> QED BY <1>2, <1>3, <1>4

\* Every step of a recovery.
LEMMA LaunchedRecover ==
  ASSUME ControlInv, BookInv, PublishInv, LaunchedInv, NEW p \in Proc, Recover(p)
  PROVE  FilesInv' /\ UnitInv'
<1>1. proc[p] \in Local /\ FilesInv /\ UnitInv /\ GuardInv
  BY DEF ControlInv, TypeOK, LaunchedInv, FilesInv
<1>2. ASSUME NEW l, NEW b \in BOOLEAN, Return(p, l, b)
      PROVE  \E r : /\ proc' = [proc EXCEPT ![p] = r]
                    /\ r.pc \notin Replaying
                    /\ r.pc \notin {"load", "seal", "compute", "stage", "intent"}
  <2>1. CASE Exit(p)
    <3>1. Idle.pc = "idle"
      BY DEF Idle
    <3> QED BY <2>1, <3>1 DEF Exit, Replaying
  <2>2. CASE ~Exit(p)
    <3>1. PICK c \in {"resolve", "recoverHeartbeat", "checkSlot", "readCycles"} :
            proc' = [proc EXCEPT ![p] = [proc[p] EXCEPT !.pc = c]]
      BY <1>2, <2>2, ReturnShape DEF ControlInv
    <3>2. [proc[p] EXCEPT !.pc = c].pc = c
      BY <1>1 DEF Local
    <3> QED BY <3>1, <3>2 DEF Replaying
  <2> QED BY <2>1, <2>2
<1>3. ASSUME NEW m \in Replaying, proc' = [proc EXCEPT ![p].pc = m],
             UNCHANGED <<intent, events, bundle>>
      PROVE  UnitInv'
  <2> DEFINE r == [proc[p] EXCEPT !.pc = m]
  <2>1. proc' = [proc EXCEPT ![p] = r] /\ r.pc = m
    BY <1>1, <1>3 DEF Local
  <2> HIDE DEF r
  <2> QED BY <1>1, <1>3, <2>1, UnitNone DEF Replaying
<1>4. ASSUME NEW l \in Replaying, Replays(p, l), l # "verify", Advance(p),
             UNCHANGED <<intent, events, bundle>>
      PROVE  UnitInv'
  <2> DEFINE m == After[intent[Pending].kind][l]
  <2>1. m \in Replaying
    BY <1>4, ReplayKnows DEF After, HeartbeatOrder, Writes, Replaying, Kind
  <2>2. proc' = [proc EXCEPT ![p].pc = m]
    BY <1>4 DEF Advance, Goto, Replays
  <2> QED BY <1>3, <1>4, <2>1, <2>2
<1>5. CASE NothingPending(p)
  <2>1. UNCHANGED <<wal, intent, file, events, bundle>>
    BY <1>5 DEF NothingPending, disk
  <2>2. PICK r : /\ proc' = [proc EXCEPT ![p] = r]
                 /\ r.pc \notin Replaying
                 /\ r.pc \notin {"load", "seal", "compute", "stage", "intent"}
    BY <1>2, <1>5 DEF NothingPending
  <2>3. \A q \in Proc : proc'[q] = IF q = p THEN r ELSE proc[q]
    BY <2>2 DEF ControlInv, TypeOK
  <2>4. FilesInv'
    BY <1>1, <2>1, <2>2, <2>3, FilesLeft DEF Replaying
  <2>5. UnitInv'
    BY <1>1, <2>1, <2>2, UnitNone
  <2> QED BY <2>4, <2>5
<1>6. ASSUME NEW k \in Kind, flock \in {NoProc, p}, Pending # None, wal[k] # None,
             Intact(Pending), wal' = [wal EXCEPT ![k] = None],
             UNCHANGED <<intent, file, events, bundle>>,
             NEW l, NEW b \in BOOLEAN, Return(p, l, b)
      PROVE  FilesInv' /\ UnitInv'
  <2>1. PICK r : /\ proc' = [proc EXCEPT ![p] = r]
                 /\ r.pc \notin Replaying
                 /\ r.pc \notin {"load", "seal", "compute", "stage", "intent"}
    BY <1>2, <1>6
  <2>2. FilesInv'
    BY <1>1, <1>6, <2>1, FilesRetired
  <2>3. UnitInv'
    BY <1>1, <1>6, <2>1, UnitNone
  <2> QED BY <2>2, <2>3
<1>7. CASE RetireIntent(p)
  <2> DEFINE k == KindAt(p)
  <2>1. k \in Kind /\ wal[k] # None /\ Pending = wal[k]
    BY <1>7 DEF RetireIntent, KindAt, Kind, Pending, ControlInv, IntentInv, AtMostOneIntent
  <2>2. /\ flock = NoProc /\ Intact(Pending) /\ wal' = [wal EXCEPT ![k] = None]
        /\ UNCHANGED <<intent, file, events, bundle>> /\ Return(p, proc[p].pc, TRUE)
    BY <1>7, <2>1 DEF RetireIntent
  <2> QED BY <1>6, <2>1, <2>2
<1>8. CASE BeginReplay(p)
  <2>1. After[KindAt(p)]["begin"] = "account"
    BY DEF KindAt, After, HeartbeatOrder
  <2>2. proc' = [proc EXCEPT ![p].pc = "account"]
        /\ UNCHANGED <<wal, intent, file, events, bundle>>
    BY <1>8, <2>1 DEF BeginReplay, Goto, disk
  <2>3. \A q \in Proc : proc'[q].pc = "verify" => proc[q].pc = "verify"
    BY <1>1, <2>2 DEF ControlInv, TypeOK, Local
  <2> QED BY <1>1, <1>3, <2>2, <2>3, FilesLeft DEF Replaying
<1>9. CASE SaveAccount(p)
  <2>1. Replays(p, "account") /\ Advance(p) /\ UNCHANGED <<wal, intent, file, events, bundle>>
    BY <1>9 DEF SaveAccount
  <2>2. UnitInv'
    BY <1>4, <2>1 DEF Replaying
  <2>3. intent[Pending].kind \in Kind
    BY <2>1, ReplayKnows DEF Replaying
  <2>4. After[intent[Pending].kind]["account"] # "verify"
    BY <2>3 DEF After, HeartbeatOrder, Kind
  <2>5. \A q \in Proc : proc'[q].pc = "verify" => proc[q].pc = "verify"
    BY <1>1, <2>1, <2>4 DEF Advance, Goto, Replays, ControlInv, TypeOK, Local
  <2> QED BY <1>1, <2>1, <2>2, <2>5, FilesLeft
<1>10. CASE SaveOutput(p) \/ RecordEquity(p) \/ AppendLedger(p) \/ AppendHeartbeat(p)
  <2>1. PICK f \in File \cap Replaying :
          /\ Replays(p, f) /\ Put(f) /\ Advance(p)
          /\ UNCHANGED <<wal, intent, events, bundle>>
    <3>1. CASE SaveOutput(p)
      BY <3>1 DEF SaveOutput, File, Replaying
    <3>2. CASE RecordEquity(p) \/ AppendLedger(p) \/ AppendHeartbeat(p)
      BY <3>2 DEF RecordEquity, AppendLedger, AppendHeartbeat, AppendRow, File, Replaying
    <3> QED BY <1>10, <3>1, <3>2
  <2>2. FilesInv'
    BY <1>1, <2>1, FilesPut
  <2>3. UnitInv'
    BY <1>4, <2>1 DEF File
  <2> QED BY <2>2, <2>3
<1>11. CASE AppendAccountEvent(p)
  BY <1>1, <1>11, FilesEvent, UnitEvent
<1>12. CASE FinishReplay(p)
  <2> DEFINE k == intent[Pending].kind
             l == IF k = "reconcile" THEN "recoverReconcile" ELSE "recoverHeartbeat"
  <2>1. Pending # None /\ k \in Kind
    BY <1>12, ReplayKnows DEF FinishReplay, Replaying
  <2>2. wal[k] # None
    BY <2>1 DEF Pending, ControlInv, IntentInv, Kind
  <2>3. /\ flock = p /\ Intact(Pending) /\ wal' = [wal EXCEPT ![k] = None]
        /\ UNCHANGED <<intent, file, events, bundle>> /\ Return(p, l, TRUE)
    BY <1>12 DEF FinishReplay, Replays
  <2> QED BY <1>6, <2>1, <2>2, <2>3
<1> QED
  BY <1>5, <1>7, <1>8, <1>9, <1>10, <1>11, <1>12 DEF Recover

\* No step leaves the invariant.
LEMMA LaunchedStep ==
  Launched /\ ControlInv /\ BookInv /\ PublishInv /\ LaunchedInv /\ [Next]_vars
    => LaunchedInv'
<1> SUFFICES ASSUME Launched, ControlInv, BookInv, PublishInv, LaunchedInv, [Next]_vars
             PROVE  LaunchedInv'
  OBVIOUS
<1>1. CASE UNCHANGED vars
  <2>1. FilesInv'
    BY <1>1, FilesLeft DEF LaunchedInv, FilesInv, vars, disk
  <2>2. GuardInv' /\ UnitInv'
    BY <1>1 DEF LaunchedInv, GuardInv, UnitInv, vars, disk, Pending, Published, Head0, Taken
  <2> QED BY <2>1, <2>2 DEF FilesInv, LaunchedInv
<1>2. ASSUME NEW p \in Proc, Start(p) \/ Recover(p) \/ Work(p) \/ Halt(p) \/ Crash(p)
      PROVE  LaunchedInv'
  <2>1. GuardInv'
    BY <1>2, GuardStep DEF LaunchedInv
  <2>2. FilesInv' /\ UnitInv'
    BY <1>2, LaunchedOuter, LaunchedWork, LaunchedRecover
  <2> QED BY <2>1, <2>2 DEF FilesInv, LaunchedInv
<1> QED BY <1>1, <1>2 DEF Next

\* On a desk run by its launchers the chain, the files, the heartbeat rows and the units of
\* the running tasks agree at all times, wherever tasks crash and whoever recovers them.
THEOREM LaunchedInvariant ==
  ASSUME Launched
  PROVE  Spec => []LaunchedInv
<1>1. ControlInv /\ BookInv /\ PublishInv /\ LaunchedInv /\ [Next]_vars => LaunchedInv'
  BY LaunchedStep
<1> QED
  BY <1>1, ControlInvariant, BookInvariant, PublishInvariant, LaunchedInit, PTL DEF Spec

-----------------------------------------------------------------------------
(* Recovery never refuses.                                                 *)

\* Every generation on disk is known, and none is later than the intent.
LEMMA LiveBound ==
  ASSUME ControlInv, FilesInv, Pending # None
  PROVE  /\ Pending \in Live /\ Pending \in Nat
         /\ \A m \in Live : m \in Nat /\ m <= Pending /\ (m = Pending \/ m \in Published)
         /\ \A m \in Marks : m \in Live
<1>1. Pending \in Live
  BY PendingTyped DEF ControlInv, Live
<1>2. \A m \in Live : m \in Nat
  BY BoundsAssumption DEF Live, Id
<1>3. \A m \in Live : m = Pending \/ m \in Published
  BY DEF Live
<1>4. \A m \in Marks : m \in Live
  BY MarksLive DEF ControlInv, FilesInv
<1> QED BY <1>1, <1>2, <1>3, <1>4 DEF FilesInv, ChainInv

\* The heartbeat rows satisfy the history check of a heartbeat's recovery.
LEMMA HistoryHolds ==
  ASSUME ControlInv, FilesInv, Pending # None
  PROVE  HeartbeatHistory(Pending)
<1> SUFFICES ASSUME NEW m \in Marks
             PROVE  IF m = Pending THEN IsLatest(m, Marks) ELSE Intact(m)
  BY DEF HeartbeatHistory, FilesInv, MarkInv
<1>1. CASE m = Pending
  <2>1. \A x \in Marks : x <= Pending
    BY LiveBound
  <2> QED BY <1>1, <2>1 DEF IsLatest
<1>2. CASE m # Pending
  <2>1. m \in Published
    BY <1>2, LiveBound
  <2> QED BY <1>2, <2>1 DEF FilesInv, EventInv
<1> QED BY <1>1, <1>2

\* Events and generations refer to each other as every recovery demands.
LEMMA ReferencesHold ==
  ASSUME ControlInv, FilesInv, Pending # None
  PROVE  EventReferences(Pending)
<1> DEFINE n == Pending
<1>0. Slot \cap Cycle = {} /\ Unit = Cycle \cup Slot
  BY UnitAssumption, BoundsAssumption DEF Cycle, Unit
<1>1. ASSUME NEW u \in Unit, Declares(u) # None
      PROVE  /\ Declares(u) \in Live
             /\ intent[Declares(u)].unit = u
             /\ intent[Declares(u)].kind = IF u \in Slot THEN "heartbeat" ELSE "reconcile"
  <2>1. "index" \in File /\ "complete" \in File
    BY DEF File
  <2>2. Declares(u) \in Live /\ intent[Declares(u)].unit = u
    BY <1>1, <2>1 DEF Declares, FilesInv, OwnerInv
  <2>3. intent[Declares(u)].kind \in Kind
    BY <2>2 DEF Live, ControlInv, TypeOK, Intent
  <2>4. u \in IF intent[Declares(u)].kind = "heartbeat" THEN Slot ELSE Cycle
    BY <2>2 DEF FilesInv, OwnerInv
  <2> QED BY <1>0, <2>2, <2>3, <2>4 DEF Kind
<1>2. ASSUME NEW u \in Unit, Declares(u) # None
      PROVE  /\ Declares(u) \in Published \cup {n}
             /\ intent[Declares(u)].kind = IF u \in Slot THEN "heartbeat" ELSE "reconcile"
             /\ Declaring(Declares(u)) = {u}
  <2>1. Declares(u) \in Published \cup {n}
    BY <1>1, <1>2 DEF Live
  <2>2. \A v \in Unit : Declares(v) = Declares(u) => v = u
    BY <1>1, <1>2
  <2> QED BY <1>1, <1>2, <2>1, <2>2 DEF Declaring
<1>3. ASSUME NEW x \in Published
      PROVE  IF intent[x].kind = "reconcile"
             THEN x = n \/ (Declaring(x) # {} /\ Intact(x))
             ELSE Declaring(x) # {} /\ (x = n \/ Intact(x))
  <2>1. x \in Live /\ x # None
    BY HeadLatest, BoundsAssumption DEF Live, ControlInv, FilesInv, Id, None
  <2>2. intent[x].kind \in Kind /\ intent[x].unit \in Unit
        /\ intent[x].unit \in IF intent[x].kind = "heartbeat" THEN Slot ELSE Cycle
    BY <2>1 DEF Live, ControlInv, TypeOK, Intent, FilesInv, OwnerInv
  <2>3. CASE x # n
    <3>1. Intact(x)
      BY <2>3 DEF FilesInv, EventInv
    <3>2. Declares(intent[x].unit) = x
      BY <1>0, <2>2, <3>1 DEF Intact, Own, Declares, Kind
    <3> QED BY <2>2, <2>3, <3>1, <3>2 DEF Declaring
  <2>4. CASE x = n /\ intent[x].kind = "heartbeat"
    <3>1. file[intent[x].unit]["index"] = x
      BY <2>4 DEF FilesInv, EventInv, Done
    <3>2. Declares(intent[x].unit) = x
      BY <2>2, <2>4, <3>1 DEF Declares
    <3> QED BY <2>2, <2>4, <3>2 DEF Declaring
  <2> QED BY <2>2, <2>3, <2>4 DEF Kind
<1> QED
  BY <1>2, <1>3 DEF EventReferences, FilesInv, ChainInv

\* On a desk run by its launchers, every check a recovery makes succeeds.
LEMMA ChecksHold ==
  ControlInv /\ BookInv /\ PublishInv /\ LaunchedInv => RecoveryNeverRefuses
<1> SUFFICES ASSUME ControlInv, BookInv, PublishInv, LaunchedInv,
                    NEW p \in Proc, RecoveryRefused(p)
             PROVE  FALSE
  BY DEF RecoveryNeverRefuses
<1>1. FilesInv
  BY DEF LaunchedInv, FilesInv
<1>2. CASE /\ proc[p].pc \in Recovering
           /\ wal[KindAt(p)] # None
           /\ ~Admissible(KindAt(p))
  <2> DEFINE k == KindAt(p)
             n == wal[k]
             u == intent[n].unit
  <2>1. k \in Kind /\ n # None /\ Pending = n /\ wal[OtherKind(k)] = None
    BY <1>2 DEF KindAt, Kind, OtherKind, Pending, ControlInv, IntentInv, AtMostOneIntent
  <2>2. HeartbeatHistory(n) /\ EventReferences(n)
    BY <1>1, <2>1, HistoryHolds, ReferencesHold
  <2>3. file[u]["complete"] \in {None, n}
    BY <1>1, <2>1, OwnFiles DEF ControlInv, FilesInv, File
  <2>4. IF Intact(n) THEN account = n ELSE account \in {intent[n].base, n}
    BY <1>1, <2>1 DEF Intact, FilesInv, ChainInv, BookInv, BookFollowsChain
  <2> QED BY <1>2, <2>1, <2>2, <2>3, <2>4 DEF Admissible
<1>3. CASE Replays(p, "equity") /\ ~EquityAccepted
  <2>1. Pending # None
    BY <1>3, ReplayKnows DEF Replaying
  <2>2. file[intent[Pending].unit]["equity"] \in {None, Pending}
    BY <1>1, <2>1, OwnFiles DEF ControlInv, FilesInv, File
  <2>3. ASSUME NEW c \in Cycle PROVE file[c]["equity"] <= Pending
    <3>1. c \in Unit /\ "equity" \in File
      BY DEF Unit, File
    <3>2. CASE file[c]["equity"] = None
      BY <1>1, <2>1, <3>2, LiveBound DEF None
    <3>3. CASE file[c]["equity"] # None
      BY <1>1, <2>1, <3>1, <3>3, LiveBound DEF FilesInv, OwnerInv
    <3> QED BY <3>2, <3>3
  <2> QED BY <1>3, <2>2, <2>3 DEF EquityAccepted
<1>4. CASE Replays(p, "ledger") /\ ~LedgerAccepted
  <2>1. Pending # None
    BY <1>4, ReplayKnows DEF Replaying
  <2> QED BY <1>1, <1>4, <2>1, OwnFiles DEF ControlInv, FilesInv, File, LedgerAccepted
<1>5. CASE Replays(p, "index") /\ ~MarkAccepted
  <2> DEFINE row == file[intent[Pending].unit]["index"]
  <2>1. Pending # None /\ intent[Pending].kind = "heartbeat"
    BY <1>5, ReplayKnows DEF Replaying, Writes, Kind
  <2>2. row \in {None, Pending}
    BY <1>1, <2>1, OwnFiles DEF ControlInv, FilesInv, File
  <2>3. row = None => Pending \notin Marks
    BY <1>1, MarksLive DEF ControlInv, FilesInv
  <2>4. row = None => IsLatest(intent[Pending].prevMark, Marks)
    <3>1. row = None => Marks \ {Pending} = Marks
      BY <2>3
    <3> QED BY <1>1, <2>1, <3>1 DEF FilesInv, MarkInv
  <2> QED BY <1>1, <1>5, <2>1, <2>2, <2>4, HistoryHolds DEF MarkAccepted
<1>6. CASE Replays(p, "event") /\ ~EventReferences(Pending)
  <2>1. Pending # None
    BY <1>6, ReplayKnows DEF Replaying
  <2> QED BY <1>1, <1>6, <2>1, ReferencesHold
<1>7. CASE Replays(p, "verify") /\ ~(Intact(Pending) /\ account = Pending)
  <2>1. Pending # None /\ intent[Pending].unit \in Unit
    BY <1>7, ReplayKnows DEF Replaying
  <2>2. file[intent[Pending].unit]["complete"] = Pending
    BY <1>1, <1>7 DEF Replays, FilesInv, EventInv
  <2>3. Intact(Pending)
    BY <2>1, <2>2 DEF PublishInv, MarkerMeansIntact
  <2>4. account = Pending
    BY <1>7 DEF Replays, BookInv, HolderKnowsBook, Replaying
  <2> QED BY <1>7, <2>3, <2>4
<1> QED BY <1>2, <1>3, <1>4, <1>5, <1>6, <1>7 DEF RecoveryRefused

\* Whatever was staged can be replayed: no history of tasks, crashes and manual recoveries
\* leads recover_reconcile_transaction or recover_heartbeat_transaction to a check it fails.
THEOREM RecoveryAlwaysPossible ==
  ASSUME Launched
  PROVE  Spec => []RecoveryNeverRefuses
BY ControlInvariant, BookInvariant, PublishInvariant, LaunchedInvariant, ChecksHold, PTL

-----------------------------------------------------------------------------
(* The protocol implements the abstract ledger.                            *)

\* What a reader of the abstract ledger sees: its committed generations, and the one that
\* will be committed next.
CommittedLedger == [i \in 1..Committed |-> Entry(events[i])]
StagedEntry     == IF Pending = None \/ Intact(Pending)
                   THEN [id |-> 0, unit |-> 0, from |-> 0] ELSE Entry(Pending)

Entries == [id : Id, unit : Unit, from : Id0]

\* Only the event of the intent on disk may be without its files.
LengthOK ==
    /\ Committed \in Nat /\ Committed <= Len(events)
    /\ IF Pending \in Published /\ ~Intact(Pending)
       THEN /\ events # <<>> /\ events[Len(events)] = Pending
            /\ Committed = Len(events) - 1
       ELSE Committed = Len(events)
    /\ Pending = None => Committed = Len(events)
    /\ \A i \in 1..Len(events) :
         /\ events[i] \in Published /\ events[i] \in Id
         /\ intent[events[i]].unit \in Unit
         /\ intent[events[i]].from \in Id0

\* The committed generations are the events, or all of them but the last.
LEMMA CommittedLength == ControlInv /\ FilesInv => LengthOK
<1> SUFFICES ASSUME ControlInv, FilesInv PROVE LengthOK
  OBVIOUS
<1>1. \A i \in 1..Len(events) : events[i] \in Published /\ events[i] \in Id
  BY DEF Published, ControlInv, TypeOK
<1>2. \A i \in 1..Len(events) : intent[events[i]].unit \in Unit /\ intent[events[i]].from \in Id0
  BY <1>1 DEF ControlInv, TypeOK, Intent
<1>3. Len(events) \in Nat /\ (events # <<>> => Len(events) > 0)
  BY DEF ControlInv, TypeOK
<1>4. events # <<>> => Head0 = events[Len(events)] /\ Head0 \in Published
  BY <1>1, <1>3 DEF Head0
<1>5. None \notin Published
  BY HeadLatest, BoundsAssumption DEF ControlInv, FilesInv, Id, None
<1>6. CASE Pending \in Published /\ ~Intact(Pending)
  <2>1. events # <<>> /\ Head0 = Pending
    BY <1>5, <1>6, <1>3 DEF FilesInv, ChainInv, Published
  <2> QED BY <1>1, <1>2, <1>3, <1>4, <1>5, <1>6, <2>1 DEF Committed, LengthOK
<1>7. CASE ~(Pending \in Published /\ ~Intact(Pending))
  <2>1. events # <<>> => Intact(Head0)
    BY <1>4, <1>7 DEF FilesInv, EventInv
  <2> QED BY <1>1, <1>2, <1>3, <1>7, <2>1 DEF Committed, LengthOK
<1> QED BY <1>6, <1>7

\* The committed generations as a sequence.
SequenceOK ==
    /\ CommittedLedger \in Seq(Entries)
    /\ Len(CommittedLedger) = Committed
    /\ \A i \in 1..Committed : CommittedLedger[i] = Entry(events[i])

\* The abstract ledger is a sequence of entries, one for each committed generation.
LEMMA CommittedSequence == ControlInv /\ FilesInv => SequenceOK
<1> SUFFICES ASSUME ControlInv, FilesInv PROVE SequenceOK
  OBVIOUS
<1>1. Committed \in Nat /\ \A i \in 1..Committed : i \in 1..Len(events)
  BY CommittedLength DEF LengthOK, ControlInv, TypeOK
<1>2. \A i \in 1..Committed : Entry(events[i]) \in Entries
  BY <1>1, CommittedLength DEF LengthOK, Entry, Entries
<1>3. CommittedLedger \in [1..Committed -> Entries]
  BY <1>2 DEF CommittedLedger
<1>4. CommittedLedger \in Seq(Entries)
  BY <1>1, <1>3
<1> QED BY <1>1, <1>3, <1>4 DEF CommittedLedger, SequenceOK

\* Both hold after a step as well.
LEMMA CommittedAfter == (ControlInv /\ FilesInv => LengthOK /\ SequenceOK)'
BY CommittedLength, CommittedSequence, PTL

\* Two states with the same chain of committed entries show the same ledger.
LEMMA SameLedger ==
  ASSUME Committed' = Committed,
         \A i \in 1..Committed : /\ events'[i] = events[i]
                                 /\ intent'[events[i]] = intent[events[i]]
  PROVE  CommittedLedger' = CommittedLedger
BY DEF CommittedLedger, Entry

\* A fresh desk shows an empty ledger.
LEMMA LedgerInit ==
  ASSUME Init
  PROVE  CommittedLedger = <<>> /\ StagedEntry = [id |-> 0, unit |-> 0, from |-> 0]
<1>1. events = <<>> /\ Pending = None
  BY DEF Init, Pending, Kind
<1>2. Committed = 0
  BY <1>1 DEF Committed
<1> QED BY <1>1, <1>2 DEF CommittedLedger, StagedEntry

\* What a step may do to the abstract ledger.
LedgerMoves ==
    \/ UNCHANGED <<CommittedLedger, StagedEntry>>
    \/ \E g \in Id, u \in Unit :
         /\ StagedEntry = [id |-> 0, unit |-> 0, from |-> 0]
         /\ \A i \in 1..Len(CommittedLedger) : CommittedLedger[i].unit # u
         /\ LET book == IF CommittedLedger = <<>> THEN 0
                        ELSE CommittedLedger[Len(CommittedLedger)].id
            IN g > book /\ StagedEntry' = [id |-> g, unit |-> u, from |-> book]
         /\ UNCHANGED CommittedLedger
    \/ /\ StagedEntry # [id |-> 0, unit |-> 0, from |-> 0]
       /\ CommittedLedger' = Append(CommittedLedger, StagedEntry)
       /\ StagedEntry' = [id |-> 0, unit |-> 0, from |-> 0]

\* The abstract ledger does not see a step that writes no intent, file or event.
LEMMA LedgerLeft ==
  ASSUME UNCHANGED <<wal, intent, file, events>>
  PROVE  LedgerMoves
<1>1. Pending' = Pending /\ Published' = Published /\ Head0' = Head0
  BY DEF Pending, Published, Head0
<1>2. \A n : Entry(n)' = Entry(n)
  BY DEF Entry
<1>3. StagedEntry' = StagedEntry
  BY <1>1 DEF StagedEntry, Intact, Own, Entry
<1>4. Committed' = Committed
  BY <1>1 DEF Committed, Intact, Own
<1>5. CommittedLedger' = CommittedLedger
  BY <1>4, SameLedger
<1> QED BY <1>3, <1>5 DEF LedgerMoves

\* Nor the removal of an intent that is published.
LEMMA LedgerRetired ==
  ASSUME Pending # None, Intact(Pending), Pending' = None, UNCHANGED <<intent, file, events>>
  PROVE  LedgerMoves
<1>1. Published' = Published /\ Head0' = Head0
  BY DEF Published, Head0
<1>2. StagedEntry' = StagedEntry
  BY DEF StagedEntry
<1>3. Committed' = Committed
  BY <1>1 DEF Committed, Intact, Own
<1>4. CommittedLedger' = CommittedLedger
  BY <1>3, SameLedger
<1> QED BY <1>2, <1>4 DEF LedgerMoves

\* The write of the marker commits the staged generation; no other write is seen.
LEMMA LedgerPut ==
  ASSUME ControlInv, BookInv, PublishInv, FilesInv, ControlInv', PublishInv', FilesInv',
         NEW p \in Proc, NEW f \in File,
         f \in Replaying, Replays(p, f), Put(f), UNCHANGED <<wal, intent, events>>
  PROVE  LedgerMoves
<1> DEFINE n == Pending
           u == intent[n].unit
<1>1. /\ n # None /\ n \in Id /\ u \in Unit /\ file[u]["complete"] = None
      /\ (f = "complete" => n \in Published)
  <2>1. f = "complete" => n \in Published
    BY ReplayKnows, HeadPublished DEF File, BookInv, HolderKnowsBook, Replays, ControlInv
  <2> QED BY <2>1, ReplayKnows DEF File
<1>2. Pending' = n /\ Published' = Published
  BY DEF Pending, Published
<1>3. ~Intact(n)
  BY <1>1 DEF Intact
<1>4. file'[u]["complete"] = IF f = "complete" THEN n ELSE None
  BY <1>1 DEF Put, ControlInv, TypeOK, File
<1>5. StagedEntry = Entry(n)
  BY <1>1, <1>3 DEF StagedEntry
<1>6. CASE f # "complete"
  <2>1. ~Intact(Pending)'
    BY <1>1, <1>2, <1>4, <1>6 DEF Intact
  <2>2. StagedEntry' = StagedEntry
    BY <1>1, <1>2, <1>5, <2>1 DEF StagedEntry, Entry
  <2>3. Committed' = Committed
    BY <1>2, <1>3, <2>1, CommittedLength, CommittedAfter DEF LengthOK
  <2>4. CommittedLedger' = CommittedLedger
    BY <2>3, SameLedger
  <2> QED BY <2>2, <2>4 DEF LedgerMoves
<1>7. CASE f = "complete"
  <2>1. Intact(Pending)'
    BY <1>1, <1>2, <1>4, <1>7 DEF PublishInv, MarkerMeansIntact
  <2>2. StagedEntry' = [id |-> 0, unit |-> 0, from |-> 0]
    BY <2>1 DEF StagedEntry
  <2>3. StagedEntry # [id |-> 0, unit |-> 0, from |-> 0]
    BY <1>1, <1>5 DEF Entry, None
  <2>4. /\ Committed = Len(events) - 1 /\ events[Len(events)] = n /\ Committed \in Nat
        /\ Committed' = Len(events)
    <3>1. Committed = Len(events) - 1 /\ events[Len(events)] = n /\ Committed \in Nat
      BY <1>1, <1>3, <1>7, CommittedLength DEF LengthOK
    <3>2. Committed' = Len(events)
      BY <2>1, CommittedAfter DEF LengthOK
    <3> QED BY <3>1, <3>2
  <2>5. CommittedLedger' = Append(CommittedLedger, StagedEntry)
    <3>1. /\ CommittedLedger \in Seq(Entries) /\ Len(CommittedLedger) = Committed
          /\ \A i \in 1..Committed : CommittedLedger[i] = Entry(events[i])
      BY CommittedSequence DEF SequenceOK
    <3>2. /\ CommittedLedger' \in Seq(Entries) /\ Len(CommittedLedger') = Committed + 1
          /\ \A i \in 1..(Committed + 1) : CommittedLedger'[i] = Entry(events[i])
      <4>1. /\ CommittedLedger' \in Seq(Entries) /\ Len(CommittedLedger') = Committed'
            /\ \A i \in 1..Committed' : CommittedLedger'[i] = Entry(events[i])'
        BY CommittedAfter DEF SequenceOK, Entries, Entry
      <4>2. \A i : Entry(events[i])' = Entry(events[i])
        BY DEF Entry
      <4>3. Len(events) \in Nat
        BY DEF ControlInv, TypeOK
      <4> QED BY <2>4, <4>1, <4>2, <4>3
    <3>3. StagedEntry \in Entries
      BY <1>1, <1>5 DEF Entry, Entries, ControlInv, TypeOK, Intent
    <3>4. StagedEntry = Entry(events[Committed + 1])
      BY <1>5, <2>4 DEF ControlInv, TypeOK
    <3> QED BY <2>4, <3>1, <3>2, <3>3, <3>4
  <2> QED BY <2>2, <2>3, <2>5 DEF LedgerMoves
<1> QED BY <1>6, <1>7

\* The event of a generation whose files are not out yet is not seen.
LEMMA LedgerEvent ==
  ASSUME ControlInv, PublishInv, FilesInv, ControlInv', FilesInv',
         NEW p \in Proc, AppendAccountEvent(p)
  PROVE  LedgerMoves
<1> DEFINE n == Pending
           u == intent[n].unit
<1>1. /\ Replays(p, "event") /\ UNCHANGED <<wal, intent, file>>
      /\ n # None /\ n \in Id /\ file[u]["complete"] = None
  BY ReplayKnows DEF AppendAccountEvent, Replaying
<1>2. Pending' = n /\ n \in Published'
  BY <1>1, EventAppended DEF Pending
<1>3. ~Intact(n) /\ ~Intact(Pending)'
  BY <1>1, <1>2 DEF Intact
<1>4. StagedEntry' = StagedEntry
  BY <1>1, <1>2, <1>3 DEF StagedEntry, Entry
<1>5. Committed' = Len(events') - 1 /\ Len(events) \in Nat
  BY <1>2, <1>3, CommittedAfter DEF LengthOK, ControlInv, TypeOK
<1>6. CASE n \in Published
  <2>1. events' = events /\ Committed = Len(events) - 1
    BY <1>3, <1>6, EventAppended, CommittedLength DEF LengthOK
  <2> QED BY <1>1, <1>4, <1>5, <2>1, SameLedger DEF LedgerMoves
<1>7. CASE n \notin Published
  <2>1. /\ Committed = Len(events) /\ Len(events') = Len(events) + 1
        /\ \A i \in 1..Len(events) : events'[i] = events[i]
    BY <1>7, EventAppended, CommittedLength DEF LengthOK
  <2> QED BY <1>1, <1>4, <1>5, <2>1, SameLedger DEF LedgerMoves
<1> QED BY <1>6, <1>7

\* An intent stages the next generation, computed on the book it will replace, for a unit
\* that no committed generation stands for.
LEMMA LedgerIntent ==
  ASSUME ControlInv, BookInv, PublishInv, FilesInv, UnitInv, ControlInv', FilesInv',
         NEW p \in Proc, WriteIntent(p)
  PROVE  LedgerMoves
<1> DEFINE k == proc[p].task
           n == proc[p].draft
           u == proc[p].unit
<1>1. /\ proc[p].pc = "intent" /\ p \in Drafting /\ n \in Id /\ n \in Nat /\ n # None
      /\ k \in Kind /\ n \notin Used /\ Pending = None
      /\ u \in IF k = "heartbeat" THEN Slot ELSE Cycle
  BY BoundsAssumption
  DEF WriteIntent, ControlInv, LocalInv, LocalOK, IntentInv, PublishInv, FreshInv,
      Drafting, Id, None
<1>2. /\ UNCHANGED <<file, events>> /\ wal' = [wal EXCEPT ![k] = n]
      /\ intent'[n].unit = u /\ intent'[n].from = proc[p].base
      /\ \A x \in Id : x # n => intent'[x] = intent[x]
  <2>1. PICK mark \in Id0 :
          intent' = [intent EXCEPT ![n] =
             [kind |-> k, unit |-> u, base |-> BaseOf(p), from |-> proc[p].base,
              prev |-> Head0, prevMark |-> mark]]
    BY DEF WriteIntent
  <2> QED BY <1>1, <2>1 DEF WriteIntent, ControlInv, TypeOK
<1>3. Pending' = n /\ Published' = Published
  <2>1. wal["reconcile"] = None /\ wal["heartbeat"] = None
    BY <1>1 DEF Pending
  <2> QED BY <1>1, <1>2, <2>1 DEF Pending, Published, Kind, ControlInv, TypeOK
<1>4. n \notin Published
  BY <1>1 DEF Used
<1>5. ~Intact(Pending)'
  BY <1>3, <1>4 DEF Intact
<1>6. Committed = Len(events) /\ Committed' = Len(events) /\ Len(events) \in Nat
  BY <1>1, <1>2, <1>3, <1>4, CommittedLength, CommittedAfter DEF LengthOK, ControlInv, TypeOK
<1>7. \A i \in 1..Len(events) :
        events[i] \in Published /\ events[i] # n /\ intent'[events[i]] = intent[events[i]]
  BY <1>2, <1>4, CommittedLength DEF LengthOK
<1>8. CommittedLedger' = CommittedLedger
  BY <1>2, <1>6, <1>7, SameLedger
<1>9. StagedEntry = [id |-> 0, unit |-> 0, from |-> 0]
      /\ StagedEntry' = [id |-> n, unit |-> u, from |-> proc[p].base]
  BY <1>1, <1>2, <1>3, <1>5 DEF StagedEntry, Entry
<1> DEFINE book == IF CommittedLedger = <<>> THEN 0
                   ELSE CommittedLedger[Len(CommittedLedger)].id
<1>10. book = Head0
  <2>1. /\ CommittedLedger \in Seq(Entries) /\ Len(CommittedLedger) = Len(events)
        /\ \A i \in 1..Len(events) : CommittedLedger[i] = Entry(events[i])
    BY <1>6, CommittedSequence DEF SequenceOK
  <2>2. CommittedLedger = <<>> <=> events = <<>>
    BY <2>1 DEF ControlInv, TypeOK
  <2>3. CASE events = <<>>
    BY <2>2, <2>3 DEF Head0, None
  <2>4. CASE events # <<>>
    <3>1. Len(events) \in 1..Len(events)
      BY <1>6, <2>4 DEF ControlInv, TypeOK
    <3>2. CommittedLedger[Len(CommittedLedger)] = Entry(events[Len(events)])
      BY <2>1, <3>1
    <3>3. Entry(events[Len(events)]).id = events[Len(events)]
      BY DEF Entry
    <3> QED BY <2>2, <2>4, <3>2, <3>3 DEF Head0
  <2> QED BY <2>3, <2>4
<1>11. proc[p].base = Head0
  BY <1>1 DEF BookInv, BookFollowsChain, HolderKnowsBook
<1>12. n > Head0
  <2>1. CASE events = <<>>
    BY <1>1, <2>1 DEF Head0, None
  <2>2. CASE events # <<>>
    <3>1. Head0 <= n
      BY <2>2 DEF WriteIntent, EventPreparable
    <3>2. Head0 \in Published /\ Head0 # n
      BY <1>4, <1>6, <1>7, <2>2 DEF Head0, ControlInv, TypeOK
    <3>3. Head0 \in Nat
      BY <3>2, HeadLatest, BoundsAssumption DEF ControlInv, FilesInv, Id
    <3> QED BY <1>1, <3>1, <3>2, <3>3
  <2> QED BY <2>1, <2>2
<1>13. \A i \in 1..Len(CommittedLedger) : CommittedLedger[i].unit # u
  <2>1. u \notin Taken
    BY <1>1, DraftUnitFree
  <2>2. Len(CommittedLedger) = Len(events)
        /\ \A i \in 1..Len(events) : CommittedLedger[i] = Entry(events[i])
    BY <1>6, CommittedSequence DEF SequenceOK
  <2>3. \A m : Entry(m).unit = intent[m].unit
    BY DEF Entry
  <2> QED BY <1>7, <2>1, <2>2, <2>3 DEF Taken
<1>14. u \in Unit
  BY <1>1 DEF Unit
<1> QED
  BY <1>1, <1>8, <1>9, <1>10, <1>11, <1>12, <1>13, <1>14 DEF LedgerMoves

\* Every step of the protocol is a step of the abstract ledger, or unseen by it.
LEMMA LedgerStep ==
  ControlInv /\ BookInv /\ PublishInv /\ LaunchedInv
    /\ ControlInv' /\ PublishInv' /\ LaunchedInv' /\ [Next]_vars => LedgerMoves
<1> SUFFICES ASSUME ControlInv, BookInv, PublishInv, LaunchedInv,
                    ControlInv', PublishInv', LaunchedInv', [Next]_vars
             PROVE  LedgerMoves
  OBVIOUS
<1>1. FilesInv /\ UnitInv /\ FilesInv'
  BY DEF LaunchedInv, FilesInv
<1>2. CASE UNCHANGED vars
  BY <1>2, LedgerLeft DEF vars, disk
<1>3. ASSUME NEW p \in Proc, Start(p) \/ Halt(p) \/ Crash(p) PROVE LedgerMoves
  <2>1. UNCHANGED <<wal, intent, file, events>>
    BY <1>3 DEF Start, StartPrepare, StartReconcile, StartRecover, StartHeartbeat, Launch,
                Halt, Crash, disk
  <2> QED BY <2>1, LedgerLeft
<1>4. ASSUME NEW p \in Proc, Work(p) PROVE LedgerMoves
  <2>1. CASE WriteIntent(p)
    BY <1>1, <2>1, LedgerIntent
  <2>2. CASE ~WriteIntent(p)
    <3>1. UNCHANGED <<wal, intent, file, events>>
      BY <1>4, <2>2 DEF Work, SlotSettled, SlotOpen, ReadCycles, ResolvePending,
                        LoadAccount, SealBundle, ComputeAccount, GiveUp, Stage, disk
    <3> QED BY <3>1, LedgerLeft
  <2> QED BY <2>1, <2>2
<1>5. ASSUME NEW p \in Proc, Recover(p) PROVE LedgerMoves
  <2>1. CASE NothingPending(p) \/ BeginReplay(p) \/ SaveAccount(p)
    BY <2>1, LedgerLeft DEF NothingPending, BeginReplay, SaveAccount, disk
  <2>2. ASSUME NEW k \in Kind, wal[k] # None, wal' = [wal EXCEPT ![k] = None]
        PROVE  Pending' = None /\ Pending # None /\ Pending = wal[k]
    BY <2>2 DEF Pending, Kind, ControlInv, TypeOK, IntentInv, AtMostOneIntent
  <2>3. CASE RetireIntent(p)
    <3> DEFINE k == KindAt(p)
    <3>1. /\ k \in Kind /\ wal[k] # None /\ wal' = [wal EXCEPT ![k] = None]
          /\ Intact(wal[k]) /\ UNCHANGED <<intent, file, events>>
      BY <2>3 DEF RetireIntent, KindAt, Kind
    <3>2. Pending' = None /\ Pending # None /\ Intact(Pending)
      BY <2>2, <3>1
    <3> QED BY <3>1, <3>2, LedgerRetired
  <2>4. CASE SaveOutput(p) \/ RecordEquity(p) \/ AppendLedger(p) \/ AppendHeartbeat(p)
    <3>1. PICK f \in File \cap Replaying :
            Replays(p, f) /\ Put(f) /\ UNCHANGED <<wal, intent, events>>
      <4>1. CASE SaveOutput(p)
        BY <4>1 DEF SaveOutput, File, Replaying
      <4>2. CASE RecordEquity(p) \/ AppendLedger(p) \/ AppendHeartbeat(p)
        BY <4>2 DEF RecordEquity, AppendLedger, AppendHeartbeat, AppendRow, File, Replaying
      <4> QED BY <2>4, <4>1, <4>2
    <3> QED BY <1>1, <3>1, LedgerPut
  <2>5. CASE AppendAccountEvent(p)
    BY <1>1, <2>5, LedgerEvent
  <2>6. CASE FinishReplay(p)
    <3> DEFINE k == intent[Pending].kind
    <3>1. Pending # None /\ k \in Kind
      BY <2>6, ReplayKnows DEF FinishReplay, Replaying
    <3>2. wal[k] # None /\ wal' = [wal EXCEPT ![k] = None]
          /\ Intact(Pending) /\ UNCHANGED <<intent, file, events>>
      BY <2>6, <3>1 DEF FinishReplay, Pending, ControlInv, IntentInv, Kind
    <3>3. Pending' = None
      BY <2>2, <3>1, <3>2
    <3> QED BY <3>1, <3>2, <3>3, LedgerRetired
  <2> QED BY <1>5, <2>1, <2>3, <2>4, <2>5, <2>6 DEF Recover
<1> QED BY <1>2, <1>3, <1>4, <1>5 DEF Next

\* On a desk run by its launchers the commit protocol implements the abstract ledger: the
\* book is one line of generations, each computed on the one before it, each unit committed
\* once, whatever crashes and replays happen underneath.
THEOREM LedgerImplemented ==
  ASSUME Launched
  PROVE  Spec => ImplementsLedger
<1>1. Init => Ledger!Init
  BY LedgerInit DEF Ledger!Init, Ledger!Nothing, CommittedLedger, StagedEntry
<1>2. LedgerMoves => [Ledger!Next]_<<CommittedLedger, StagedEntry>>
  BY DEF LedgerMoves, Ledger!Next, Ledger!Stage, Ledger!Commit, Ledger!Book,
         Ledger!Nothing, CommittedLedger, StagedEntry
<1>3. ControlInv /\ BookInv /\ PublishInv /\ LaunchedInv
        /\ ControlInv' /\ PublishInv' /\ LaunchedInv' /\ [Next]_vars
        => [Ledger!Next]_<<CommittedLedger, StagedEntry>>
  BY <1>2, LedgerStep
<1> QED
  BY <1>1, <1>3, ControlInvariant, BookInvariant, PublishInvariant, LaunchedInvariant, PTL
  DEF Spec, ImplementsLedger, Ledger!Spec, CommittedLedger, StagedEntry
=============================================================================
