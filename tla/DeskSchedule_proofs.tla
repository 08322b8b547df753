------------------------- MODULE DeskSchedule_proofs -------------------------
(***************************************************************************)
(* Proofs about the single flight of a session.  The schedule: for every   *)
(* number of launchers, any horizon and clock step, and any number of      *)
(* clock corrections and manual runs.  The run lock: for every number of   *)
(* processes, every lease and any number of tries and crashes.             *)
(***************************************************************************)
EXTENDS DeskSchedule, RunLock, TLAPS

-----------------------------------------------------------------------------
(* The schedule.                                                           *)

RunRecord == [pc : {"gone", "lock", "preflight", "run", "publish"},
              kind : Kind, scheduled : BOOLEAN, slot : Time,
              before : Book, opened : Book, lasted : Time]

\* The launchers' lock is held exactly by the launcher that is past its own.
LockInv == \A l \in Launcher :
    run[l].pc \in {"preflight", "run", "publish"} <=> lock = l

\* A run serves a slot of its kind, and does not outlive its timeout by a clock step.
RunInv == \A l \in Launcher :
    /\ run[l].slot \in SlotTimes[run[l].kind] \cup {None}
    /\ run[l].lasted < MaxRuntime[run[l].kind] + Step
    /\ run[l].opened # 0 => run[l].pc = "run" /\ run[l].kind = "full"

\* The staged transaction continues the account it was computed on.
IntentInv == intent # NoIntent =>
    /\ intent.kind # "none"
    /\ book < MaxBook
    /\ intent.kind = "reconcile" =>
         /\ intent.cycle = done.cycle + 1
         /\ done.cycle # 0 => done.time + EarlyGap <= intent.time
    /\ intent.kind = "heartbeat" =>
         /\ intent.slot \in SlotTimes["heartbeat"] \cup {None}
         /\ intent.slot # None => settled[intent.slot] = 0

\* A sealed decision whose account has not changed is the next one in the cadence.
BundleInv ==
    /\ bundle.book <= book
    /\ bundle # NoBundle /\ bundle.book = book =>
         /\ bundle.cycle = done.cycle + 1
         /\ done.cycle # 0 => done.time + EarlyGap <= bundle.time

\* A session that opened its cycle waits for the commit, or the commit has made its
\* decision stale and is too recent for another one.
SessionInv == \A l \in Launcher :
    /\ run[l].opened <= 1
    /\ run[l].opened = 1 =>
         \/ intent # NoIntent /\ intent.kind = "reconcile"
              /\ now <= intent.time + run[l].lasted
         \/ intent = NoIntent /\ bundle.book < book /\ done.cycle # 0
              /\ now <= done.time + run[l].lasted

\* Sessions are counted for claimed slots only, and the claim only moves forward.
ClaimInv == \A s \in DOMAIN sessions :
    sessions[s] <= 1 /\ (sessions[s] # 0 => s <= claims["full"])

\* The inductive invariant of the schedule.
ScheduleInv ==
    /\ TypeOK /\ Start <= now /\ done.cycle <= book
    /\ LockInv /\ RunInv /\ IntentInv /\ BundleInv /\ SessionInv /\ ClaimInv
    /\ HeartbeatOncePerSlot

\* The part of TypeOK that the commands of a run change.
DeskTyped ==
    /\ done \in [cycle : Book, time : Time]
    /\ settled \in [SlotTimes["heartbeat"] -> Book]
    /\ book \in Book
    /\ intent \in [kind : {"none", "reconcile", "heartbeat"}, cycle : 0..(MaxBook + 1),
                   time : Time, slot : Time]
    /\ bundle \in [cycle : 0..(MaxBook + 1), time : Time, book : Book]

DeskInv == DeskTyped /\ done.cycle <= book /\ IntentInv /\ BundleInv /\ HeartbeatOncePerSlot

-----------------------------------------------------------------------------
(* Slots.                                                                  *)

\* The nominal slots of a kind, written out.
LEMMA SlotsAre ==
  /\ SlotTimes["full"] = {s \in Time : s % 1440 = 7}
  /\ SlotTimes["heartbeat"] = {s \in Time : s % 1440 = 487 \/ s % 1440 = 967}
  /\ \A k \in Kind : SlotTimes[k] \subseteq Time /\ None \notin SlotTimes[k]
<1>1. SlotTimes["full"] = {s \in Time : s % 1440 = 7}
  BY DEF SlotTimes, Kind, ScheduleHours, ScheduleMinute, Day
<1>2. SlotTimes["heartbeat"] = {s \in Time : s % 1440 = 487 \/ s % 1440 = 967}
  BY DEF SlotTimes, Kind, ScheduleHours, ScheduleMinute, Day
<1>3. 0 % 1440 = 0
  OBVIOUS
<1> QED BY <1>1, <1>2, <1>3 DEF Kind, None

\* From the installation on, every kind has a latest slot.
LEMMA LatestSlotExists ==
  ASSUME now \in Time, Start <= now, NEW k \in Kind
  PROVE  /\ LatestSlot(k) \in SlotTimes[k]
         /\ LatestSlot(k) <= now
         /\ LatestSlot(k) \in Time /\ LatestSlot(k) # None
<1> USE TimeAssumption
<1> DEFINE m == now % 1440
<1>1. now \in Nat /\ now <= Horizon /\ 967 <= now /\ m \in 0..1439
  BY DEF Time
<1>2. ASSUME NEW a \in Nat, NEW t \in Nat, a <= 1439, t % 1440 = a, t <= now
      PROVE  t <= IF a <= m THEN now - m + a ELSE now - m + a - 1440
  BY <1>1, <1>2, SMT
<1>3. ASSUME NEW a \in Nat, a <= 1439, a <= m
      PROVE  now - m + a \in Time /\ (now - m + a) % 1440 = a /\ now - m + a <= now
  BY <1>1, <1>3, SMT DEF Time
<1>4. ASSUME NEW a \in Nat, a <= 967, m < a
      PROVE  /\ now - m + a - 1440 \in Time /\ (now - m + a - 1440) % 1440 = a
             /\ now - m + a - 1440 <= now
  BY <1>1, <1>4, SMT DEF Time
<1>5. ASSUME NEW s \in SlotTimes[k], s <= now, \A t \in SlotTimes[k] : t <= now => t <= s
      PROVE  \E u \in SlotTimes[k] : u <= now /\ \A t \in SlotTimes[k] : t <= now => t <= u
  BY <1>5
<1>6. \E s \in SlotTimes[k] : s <= now /\ \A t \in SlotTimes[k] : t <= now => t <= s
  <2>1. CASE k = "full" /\ 7 <= m
    <3>1. now - m + 7 \in SlotTimes[k] /\ now - m + 7 <= now
      BY <2>1, <1>3, SlotsAre
    <3>2. \A t \in SlotTimes[k] : t <= now => t <= now - m + 7
      BY <2>1, <1>2, SlotsAre DEF Time
    <3> QED BY <3>1, <3>2, <1>5
  <2>2. CASE k = "full" /\ m < 7
    <3>1. now - m + 7 - 1440 \in SlotTimes[k] /\ now - m + 7 - 1440 <= now
      BY <2>2, <1>4, SlotsAre
    <3>2. \A t \in SlotTimes[k] : t <= now => t <= now - m + 7 - 1440
      BY <2>2, <1>1, <1>2, SlotsAre DEF Time
    <3> QED BY <3>1, <3>2, <1>5
  <2>3. CASE k = "heartbeat" /\ 967 <= m
    <3>1. now - m + 967 \in SlotTimes[k] /\ now - m + 967 <= now
      BY <2>3, <1>3, SlotsAre
    <3>2. \A t \in SlotTimes[k] : t <= now => t <= now - m + 967
      BY <2>3, <1>1, <1>2, SlotsAre DEF Time
    <3> QED BY <3>1, <3>2, <1>5
  <2>4. CASE k = "heartbeat" /\ 487 <= m /\ m < 967
    <3>1. now - m + 487 \in SlotTimes[k] /\ now - m + 487 <= now
      BY <2>4, <1>3, SlotsAre
    <3>2. \A t \in SlotTimes[k] : t <= now => t <= now - m + 487
      BY <2>4, <1>1, <1>2, SlotsAre DEF Time
    <3> QED BY <3>1, <3>2, <1>5
  <2>5. CASE k = "heartbeat" /\ m < 487
    <3>1. now - m + 967 - 1440 \in SlotTimes[k] /\ now - m + 967 - 1440 <= now
      BY <2>5, <1>1, <1>4, SlotsAre
    <3>2. \A t \in SlotTimes[k] : t <= now => t <= now - m + 967 - 1440
      BY <2>5, <1>1, <1>2, SlotsAre DEF Time
    <3> QED BY <3>1, <3>2, <1>5
  <2> QED BY <2>1, <2>2, <2>3, <2>4, <2>5, <1>1 DEF Kind
<1>7. LatestSlot(k) \in SlotTimes[k] /\ LatestSlot(k) <= now
  BY <1>6 DEF LatestSlot
<1> QED BY <1>7, SlotsAre

-----------------------------------------------------------------------------
\* The day the schedule is installed.
LEMMA ScheduleInit == Init => ScheduleInv
<1> SUFFICES ASSUME Init PROVE ScheduleInv
  OBVIOUS
<1> USE TimeAssumption, NobodyAssumption
<1>1. now = Start /\ now \in Time
  BY DEF Init, Time
<1>2. \A k \in Kind : LatestSlot(k) \in SlotTimes[k]
  BY <1>1, LatestSlotExists
<1>3. Gone \in RunRecord /\ Gone.pc = "gone" /\ Gone.opened = 0
  BY DEF Gone, RunRecord, Kind, Time, Book, None
<1>4. Gone.slot = None /\ Gone.lasted = 0 /\ Gone.kind = "full"
  BY DEF Gone
<1>5. DeskInv
  <2>1. NoIntent.kind = "none" /\ NoBundle.book = 0
    BY DEF NoIntent, NoBundle
  <2>2. DeskTyped
    BY DEF Init, DeskTyped, NoIntent, NoBundle, Book, Time, None
  <2>3. IntentInv /\ BundleInv /\ HeartbeatOncePerSlot
    BY <2>1 DEF Init, IntentInv, BundleInv, HeartbeatOncePerSlot
  <2> QED BY <2>2, <2>3 DEF Init, DeskInv
<1>6. TypeOK
  <2>1. run \in [Launcher -> RunRecord]
    BY <1>3 DEF Init
  <2>2. DOMAIN claims = Kind /\ \A k \in Kind : claims[k] \in SlotTimes[k] \cup {None}
    BY <1>2 DEF Init
  <2>3. /\ lock \in Launcher \cup {Nobody} /\ outcome \in Outcome
        /\ sessions \in [SlotTimes["full"] -> Nat] /\ fixes \in 0..MaxOdd /\ byHand \in 0..MaxOdd
    BY DEF Init, Outcome
  <2> QED BY <1>1, <1>5, <2>1, <2>2, <2>3 DEF TypeOK, DeskInv, DeskTyped, RunRecord
<1>7. LockInv
  BY <1>3 DEF Init, LockInv
<1>8. RunInv
  BY <1>3, <1>4 DEF Init, RunInv, MaxRuntime
<1>9. SessionInv /\ ClaimInv
  BY <1>3 DEF Init, SessionInv, ClaimInv
<1> QED BY <1>1, <1>5, <1>6, <1>7, <1>8, <1>9 DEF ScheduleInv, DeskInv, Init

-----------------------------------------------------------------------------
\* A step of one launcher that leaves the desk's files and the clock alone.
LEMMA QuietStep ==
  ASSUME ScheduleInv, NEW l \in Launcher, NEW r \in RunRecord,
         run' = [run EXCEPT ![l] = r],
         r.pc \in {"preflight", "run", "publish"} <=> lock' = l,
         lock' = lock \/ (lock \in {l, Nobody} /\ lock' \in {l, Nobody}),
         r.slot \in SlotTimes[r.kind] \cup {None},
         r.lasted < MaxRuntime[r.kind] + Step,
         r.opened = 0,
         UNCHANGED <<now, desk>>,
         DOMAIN claims' = Kind, \A k \in Kind : claims'[k] \in SlotTimes[k] \cup {None},
         outcome' \in Outcome, sessions' \in [SlotTimes["full"] -> Nat], ClaimInv',
         fixes' \in 0..MaxOdd, byHand' \in 0..MaxOdd
  PROVE  ScheduleInv'
<1>1. \A q \in Launcher : run'[q] = IF q = l THEN r ELSE run[q]
  BY DEF ScheduleInv, TypeOK
<1>2. TypeOK'
  BY DEF ScheduleInv, TypeOK, desk, RunRecord
<1>3. LockInv'
  BY <1>1, NobodyAssumption DEF ScheduleInv, LockInv
<1>4. RunInv'
  BY <1>1 DEF ScheduleInv, RunInv
<1>5. IntentInv' /\ BundleInv' /\ HeartbeatOncePerSlot'
  BY DEF desk, ScheduleInv, IntentInv, BundleInv, HeartbeatOncePerSlot
<1>6. SessionInv'
  BY <1>1 DEF desk, ScheduleInv, SessionInv
<1> QED BY <1>2, <1>3, <1>4, <1>5, <1>6 DEF ScheduleInv, desk

\* A run's record, and the one of a process that is gone.
LEMMA RunTyped ==
  ASSUME ScheduleInv, NEW l \in Launcher
  PROVE  /\ run[l] \in RunRecord
         /\ run[l].pc # "run" => run[l].opened = 0
         /\ Gone \in RunRecord /\ Gone.pc = "gone" /\ Gone.opened = 0
         /\ Gone.slot = None /\ Gone.lasted = 0 /\ Gone.kind = "full"
  BY TimeAssumption
  DEF ScheduleInv, TypeOK, RunInv, RunRecord, Gone, Kind, Time, Book, None

\* A process that leaves, with or without the launchers' lock.
LEMMA LeaveStep ==
  ASSUME ScheduleInv, NEW l \in Launcher, Leave(l), UNCHANGED <<now, desk, sessions>>,
         DOMAIN claims' = Kind, \A k \in Kind : claims'[k] \in SlotTimes[k] \cup {None},
         claims'["full"] = claims["full"], outcome' \in Outcome,
         fixes' = fixes, byHand' = byHand
  PROVE  ScheduleInv'
<1>1. ClaimInv'
  BY DEF ScheduleInv, ClaimInv
<1>2. lock' = lock \/ (lock = l /\ lock' = Nobody)
  BY DEF Leave
<1>3. lock' # l
  BY NobodyAssumption DEF Leave
<1>4. run' = [run EXCEPT ![l] = Gone]
  BY DEF Leave, Set
<1>5. Gone.lasted < MaxRuntime[Gone.kind] + Step
  BY RunTyped, TimeAssumption DEF MaxRuntime
<1> QED
  BY <1>1, <1>2, <1>3, <1>4, <1>5, RunTyped, QuietStep DEF ScheduleInv, TypeOK

\* The launcher up to its run: the gate, the lock and the claim.
LEMMA GateSteps ==
  ASSUME ScheduleInv, NEW l \in Launcher,
         \/ \E k \in Kind : Poll(l, k) \/ RunByHand(l, k)
         \/ TakeLock(l) \/ PreflightFails(l) \/ Claim(l) \/ ClaimRefused(l) \/ BeginByHand(l)
  PROVE  ScheduleInv'
<1> USE NobodyAssumption
<1>1. /\ run[l] \in RunRecord /\ now \in Time /\ Start <= now /\ done.cycle \in Book
      /\ fixes \in 0..MaxOdd /\ byHand \in 0..MaxOdd
      /\ outcome \in Outcome /\ sessions \in [SlotTimes["full"] -> Nat] /\ ClaimInv
      /\ DOMAIN claims = Kind /\ \A k \in Kind : claims[k] \in SlotTimes[k] \cup {None}
      /\ run[l].slot \in SlotTimes[run[l].kind] \cup {None}
      /\ run[l].lasted < MaxRuntime[run[l].kind] + Step
  BY RunTyped DEF ScheduleInv, TypeOK, RunInv
<1>2. ASSUME NEW k \in Kind, Poll(l, k) \/ RunByHand(l, k) PROVE ScheduleInv'
  <2>1. PICK r \in RunRecord :
          /\ run' = [run EXCEPT ![l] = r] /\ r.pc = "lock" /\ r.kind = k
          /\ r.slot = None /\ r.opened = 0 /\ r.lasted = 0
    <3>1. CASE Poll(l, k)
      <4> DEFINE r == [Gone EXCEPT !.pc = "lock", !.kind = k, !.scheduled = TRUE]
      <4>1. /\ r \in RunRecord /\ r.pc = "lock" /\ r.kind = k /\ r.slot = None
            /\ r.opened = 0 /\ r.lasted = 0
        BY RunTyped DEF RunRecord
      <4> QED BY <3>1, <4>1 DEF Poll, Set
    <3>2. CASE RunByHand(l, k)
      <4> DEFINE r == [Gone EXCEPT !.pc = "lock", !.kind = k]
      <4>1. /\ r \in RunRecord /\ r.pc = "lock" /\ r.kind = k /\ r.slot = None
            /\ r.opened = 0 /\ r.lasted = 0
        BY RunTyped DEF RunRecord
      <4> QED BY <3>2, <4>1 DEF RunByHand, Set
    <3> QED BY <1>2, <3>1, <3>2
  <2>3. r.lasted < MaxRuntime[r.kind] + Step
    BY <2>1, TimeAssumption DEF MaxRuntime, Kind
  <2>4. lock # l
    BY <1>2 DEF Poll, RunByHand, ScheduleInv, LockInv
  <2>5. UNCHANGED <<now, claims, lock, desk, outcome, sessions, fixes>>
    BY <1>2 DEF Poll, RunByHand
  <2>6. byHand' \in 0..MaxOdd
    <3>1. byHand' = byHand \/ (byHand' = byHand + 1 /\ fixes + byHand < MaxOdd)
      BY <1>2 DEF Poll, RunByHand
    <3> QED BY <3>1, <1>1, TimeAssumption
  <2>7. ClaimInv'
    BY <1>1, <2>5 DEF ClaimInv
  <2> QED BY <2>1, <2>3, <2>4, <2>5, <2>6, <2>7, <1>1, QuietStep
<1>3. CASE UNCHANGED <<now, claims, desk, outcome, sessions, fixes, byHand>> /\ Leave(l)
  BY <1>1, <1>3, LeaveStep
<1>4. ASSUME NEW pc \in {"preflight", "run"}, NEW slot, NEW before \in Book,
             run' = [run EXCEPT ![l] = [run[l] EXCEPT !.pc = pc, !.slot = slot,
                                                      !.before = before]],
             slot \in SlotTimes[run[l].kind] \cup {None},
             run[l].pc # "run", lock' = l, lock \in {l, Nobody},
             UNCHANGED <<now, desk, outcome, fixes, byHand>>,
             DOMAIN claims' = Kind, \A k \in Kind : claims'[k] \in SlotTimes[k] \cup {None},
             sessions' \in [SlotTimes["full"] -> Nat], ClaimInv'
      PROVE  ScheduleInv'
  <2> DEFINE r == [run[l] EXCEPT !.pc = pc, !.slot = slot, !.before = before]
  <2>1. slot \in Time
    BY <1>1, <1>4, SlotsAre, TimeAssumption DEF RunRecord, None, Time
  <2>2. /\ r \in RunRecord /\ r.pc = pc /\ r.kind = run[l].kind /\ r.slot = slot
        /\ r.lasted = run[l].lasted /\ r.opened = 0
    BY <1>1, <1>4, <2>1, RunTyped DEF RunRecord
  <2> QED BY <1>1, <1>4, <2>2, QuietStep
<1>5. CASE TakeLock(l) /\ lock' = l /\ Goto(l, "preflight")
  <2>1. run' = [run EXCEPT ![l] = [run[l] EXCEPT !.pc = "preflight", !.slot = run[l].slot,
                                                 !.before = run[l].before]]
    BY <1>1, <1>5 DEF Goto, Set, RunRecord
  <2>2. run[l].pc = "lock" /\ lock = Nobody
    <3>1. lock # l
      BY <1>5 DEF TakeLock, ScheduleInv, LockInv
    <3> QED BY <3>1, <1>5 DEF TakeLock
  <2>3. ClaimInv'
    BY <1>1, <1>5 DEF TakeLock, ClaimInv
  <2>4. run[l].before \in Book
    BY <1>1 DEF RunRecord
  <2> QED BY <2>1, <2>2, <2>3, <2>4, <1>1, <1>4, <1>5 DEF TakeLock
<1>6. CASE TakeLock(l) /\ Set(l, Gone) /\ UNCHANGED lock
  <2>1. Leave(l)
    BY <1>6 DEF Leave, TakeLock, ScheduleInv, LockInv
  <2> QED BY <2>1, <1>3, <1>6 DEF TakeLock
<1>7. CASE BeginByHand(l)
  <2>1. lock = l
    BY <1>7 DEF BeginByHand, ScheduleInv, LockInv
  <2>2. ClaimInv'
    BY <1>1, <1>7 DEF BeginByHand, ClaimInv
  <2> QED BY <2>1, <2>2, <1>1, <1>4, <1>7 DEF BeginByHand, Begin, Set
<1>8. CASE Claim(l)
  <2> DEFINE k == run[l].kind
             slot == LatestSlot(k)
  <2>1. k \in Kind /\ slot \in SlotTimes[k] /\ slot \in Time /\ claims[k] < slot
    BY <1>1, <1>8, LatestSlotExists DEF Claim, Due, RunRecord
  <2>2. lock = l
    BY <1>8 DEF Claim, ScheduleInv, LockInv
  <2>3. /\ claims' = [claims EXCEPT ![k] = slot]
        /\ sessions' = IF k = "full" THEN [sessions EXCEPT ![slot] = @ + 1] ELSE sessions
    BY <1>8 DEF Claim
  <2>4. DOMAIN claims' = Kind /\ \A i \in Kind : claims'[i] \in SlotTimes[i] \cup {None}
    BY <1>1, <2>1, <2>3
  <2>5. sessions' \in [SlotTimes["full"] -> Nat]
    BY <1>1, <2>1, <2>3
  <2>6. ClaimInv'
    <3>1. CASE k # "full"
      BY <3>1, <2>1, <2>3, <1>1 DEF ClaimInv, Kind
    <3>2. CASE k = "full"
      <4>1. \A s \in SlotTimes["full"] : s \in Nat
        BY SlotsAre DEF Time, Kind
      <4>2. claims["full"] \in Nat
        BY <4>1, <1>1 DEF Kind, None
      <4>3. sessions[slot] = 0
        BY <3>2, <4>1, <4>2, <2>1, <1>1 DEF ClaimInv
      <4>4. \A s \in SlotTimes["full"] :
              sessions'[s] = IF s = slot THEN 1 ELSE sessions[s]
        BY <3>2, <4>3, <2>1, <2>3, <1>1
      <4>5. claims'["full"] = slot
        BY <3>2, <2>1, <2>3, <1>1
      <4>6. DOMAIN sessions' = SlotTimes["full"] /\ DOMAIN sessions = SlotTimes["full"]
        BY <2>5, <1>1
      <4> QED BY <3>2, <4>1, <4>2, <4>4, <4>5, <4>6, <2>1, <1>1 DEF ClaimInv
    <3> QED BY <3>1, <3>2
  <2> QED
    BY <2>1, <2>2, <2>4, <2>5, <2>6, <1>1, <1>4, <1>8 DEF Claim, Begin, Set
<1> QED
  BY <1>2, <1>3, <1>5, <1>6, <1>7, <1>8 DEF TakeLock, PreflightFails, ClaimRefused

-----------------------------------------------------------------------------
(* The desk's files.                                                       *)

\* What a transaction file can hold.
IntentRecord == [kind : {"none", "reconcile", "heartbeat"}, cycle : 0..(MaxBook + 1),
                 time : Time, slot : Time]

\* No file is one of them.
LEMMA NoIntentTyped == NoIntent \in IntentRecord
  BY TimeAssumption DEF NoIntent, IntentRecord, None, Time

\* Replaying the staged transaction: the decision it came from is stale from then on, and
\* the session that staged it has its cycle in the last complete one.
LEMMA CommitStep ==
  ASSUME ScheduleInv, Commit
  PROVE  /\ DeskInv'
         /\ intent' = NoIntent /\ bundle'.book < book'
         /\ \A l \in Launcher : run[l].opened = 1 =>
              done'.cycle # 0 /\ now <= done'.time + run[l].lasted
<1> USE TimeAssumption
<1>1. /\ done \in [cycle : Book, time : Time] /\ book \in Nat /\ book < MaxBook
      /\ settled \in [SlotTimes["heartbeat"] -> Book] /\ book \in Book
      /\ intent \in [kind : {"none", "reconcile", "heartbeat"}, cycle : 0..(MaxBook + 1),
                     time : Time, slot : Time]
      /\ bundle \in [cycle : 0..(MaxBook + 1), time : Time, book : Book]
      /\ done.cycle <= book /\ bundle.book <= book /\ intent # NoIntent
      /\ intent.kind # "none"
  BY DEF ScheduleInv, TypeOK, IntentInv, BundleInv, Commit, Book
<1>2. book' = book + 1 /\ intent' = NoIntent /\ bundle' = bundle
  BY DEF Commit
<1>3. book' \in Book /\ bundle'.book < book'
  BY <1>1, <1>2 DEF Book
<1>4. ASSUME done' \in [cycle : Book, time : Time], done'.cycle <= book',
             settled' \in [SlotTimes["heartbeat"] -> Book], HeartbeatOncePerSlot'
      PROVE  DeskInv'
  <2>1. DeskTyped'
    BY <1>1, <1>2, <1>3, <1>4, NoIntentTyped DEF DeskTyped, IntentRecord
  <2>2. IntentInv'
    BY <1>2 DEF IntentInv
  <2>3. BundleInv'
    BY <1>1, <1>2 DEF BundleInv, Book
  <2> QED BY <1>4, <2>1, <2>2, <2>3 DEF DeskInv
<1>5. CASE intent.kind = "reconcile"
  <2>1. done' = [cycle |-> intent.cycle, time |-> intent.time] /\ settled' = settled
    BY <1>5 DEF Commit
  <2>2. intent.cycle = done.cycle + 1
    BY <1>1, <1>5 DEF ScheduleInv, IntentInv
  <2>3. done' \in [cycle : Book, time : Time] /\ done'.cycle <= book' /\ done'.cycle # 0
    BY <2>1, <2>2, <1>1, <1>2 DEF Book
  <2>4. HeartbeatOncePerSlot'
    BY <2>1 DEF ScheduleInv, HeartbeatOncePerSlot
  <2>5. \A l \in Launcher : run[l].opened = 1 => now <= done'.time + run[l].lasted
    BY <2>1, <1>1 DEF ScheduleInv, SessionInv
  <2> QED BY <2>1, <2>3, <2>4, <2>5, <1>1, <1>2, <1>3, <1>4
<1>6. CASE intent.kind = "heartbeat"
  <2>1. done' = done
    BY <1>6 DEF Commit
  <2>2. \A l \in Launcher : run[l].opened # 1
    BY <1>1, <1>6 DEF ScheduleInv, SessionInv
  <2>3. settled' \in [SlotTimes["heartbeat"] -> Book] /\ HeartbeatOncePerSlot'
    <3>1. CASE intent.slot = None
      BY <3>1, <1>1, <1>6 DEF Commit, ScheduleInv, HeartbeatOncePerSlot
    <3>2. CASE intent.slot # None
      <4>1. settled[intent.slot] = 0 /\ intent.slot \in SlotTimes["heartbeat"]
        BY <3>2, <1>1, <1>6 DEF ScheduleInv, IntentInv
      <4>2. settled' = [settled EXCEPT ![intent.slot] = 1]
        BY <3>2, <4>1, <1>6 DEF Commit
      <4> QED BY <4>1, <4>2, <1>1 DEF ScheduleInv, HeartbeatOncePerSlot, Book
    <3> QED BY <3>1, <3>2
  <2>4. done'.cycle <= book'
    BY <2>1, <1>1, <1>2 DEF Book
  <2> QED BY <2>1, <2>2, <2>3, <2>4, <1>1, <1>2, <1>3, <1>4
<1> QED BY <1>1, <1>5, <1>6

\* A commit keeps the schedule's invariant, whoever's launcher ends with it.
LEMMA CommitKeeps ==
  ASSUME ScheduleInv, Commit, now' = now, claims' = claims, outcome' = outcome,
         sessions' = sessions, fixes' = fixes, byHand' = byHand,
         \/ run' = run /\ lock' = lock
         \/ \E l \in Launcher : Leave(l)
  PROVE  ScheduleInv'
<1>1. run' \in [Launcher -> RunRecord] /\ lock' \in Launcher \cup {Nobody}
  BY RunTyped DEF ScheduleInv, TypeOK, RunRecord, Leave, Set
<1>2. \A q \in Launcher : run'[q] = run[q] \/ run'[q] = Gone
  BY DEF ScheduleInv, TypeOK, Leave, Set
<1>3. LockInv'
  BY NobodyAssumption, RunTyped DEF ScheduleInv, TypeOK, LockInv, Leave, Set
<1>4. RunInv'
  BY <1>2, RunTyped, TimeAssumption DEF ScheduleInv, RunInv, MaxRuntime
<1>5. SessionInv'
  BY <1>2, CommitStep, RunTyped DEF ScheduleInv, SessionInv
<1>6. TypeOK' /\ ClaimInv'
  BY <1>1, CommitStep
  DEF ScheduleInv, TypeOK, ClaimInv, DeskInv, DeskTyped, RunRecord
<1> QED BY <1>3, <1>4, <1>5, <1>6, CommitStep DEF ScheduleInv, DeskInv

\* A session that opened its cycle is not admitted to another one.
LEMMA OpenedNotAdmitted ==
  ASSUME ScheduleInv, NEW l \in Launcher, run[l].opened = 1, intent = NoIntent
  PROVE  ~Admitted /\ bundle.book # book
<1> USE TimeAssumption, StepAssumption
<1>1. done.cycle # 0 /\ now <= done.time + run[l].lasted /\ bundle.book < book
  BY DEF ScheduleInv, SessionInv
<1>2. run[l].kind = "full" /\ run[l].lasted < MaxRuntime[run[l].kind] + Step
  BY DEF ScheduleInv, RunInv
<1>3. run[l].lasted < EarlyGap /\ run[l].lasted \in Nat
  BY <1>2 DEF MaxRuntime, ScheduleInv, TypeOK, Time, EarlyGap
<1>4. now \in Nat /\ done.time \in Nat /\ bundle.book \in Nat /\ book \in Nat
  BY DEF ScheduleInv, TypeOK, Time, Book
<1> QED BY <1>1, <1>3, <1>4 DEF Admitted, EarlyGap

\* Sealing, staging and the ends of a run.
LEMMA SessionSteps ==
  ASSUME ScheduleInv, NEW l \in Launcher,
         \/ Prepare(l) \/ Reconcile(l) \/ Settle(l) \/ Publish(l)
         \/ SessionExits(l) \/ Die(l) \/ AlreadyComplete(l) \/ HeartbeatFails(l)
  PROVE  ScheduleInv'
<1> USE TimeAssumption
<1>1. /\ run \in [Launcher -> RunRecord] /\ run[l] \in RunRecord
      /\ now \in Time /\ Start <= now
      /\ done \in [cycle : Book, time : Time] /\ book \in Book /\ done.cycle <= book
      /\ bundle \in [cycle : 0..(MaxBook + 1), time : Time, book : Book]
      /\ outcome \in Outcome
      /\ DOMAIN claims = Kind /\ \A k \in Kind : claims[k] \in SlotTimes[k] \cup {None}
  BY RunTyped DEF ScheduleInv, TypeOK, RunRecord
<1>2. CASE Prepare(l)
  <2> DEFINE b == [cycle |-> done.cycle + 1, time |-> now, book |-> book]
  <2>1. bundle' = b /\ UNCHANGED <<now, claims, lock, run, done, settled, book, intent,
                                   outcome, sessions, fixes, byHand>>
    BY <1>2 DEF Prepare
  <2>2. b \in [cycle : 0..(MaxBook + 1), time : Time, book : Book]
    BY <1>1 DEF Book
  <2>3. TypeOK'
    BY <2>1, <2>2 DEF ScheduleInv, TypeOK
  <2>4. BundleInv'
    BY <2>1, <1>1, <1>2 DEF Prepare, Admitted, BundleInv, Book, Time, EarlyGap
  <2>5. SessionInv'
    <3> SUFFICES ASSUME NEW q \in Launcher, run[q].opened = 1
                 PROVE  intent # NoIntent
      BY <2>1 DEF ScheduleInv, SessionInv
    <3> QED BY <1>2, OpenedNotAdmitted DEF Prepare
  <2>6. LockInv' /\ RunInv' /\ IntentInv' /\ ClaimInv' /\ HeartbeatOncePerSlot'
    BY <2>1
    DEF ScheduleInv, LockInv, RunInv, IntentInv, ClaimInv, HeartbeatOncePerSlot
  <2> QED BY <2>1, <2>3, <2>4, <2>5, <2>6, <1>1 DEF ScheduleInv
<1>3. CASE Reconcile(l)
  <2> DEFINE x == [NoIntent EXCEPT !.kind = "reconcile", !.cycle = bundle.cycle, !.time = now]
             r == [run[l] EXCEPT !.opened = @ + 1]
  <2>1. /\ intent = NoIntent /\ book < MaxBook /\ intent' = x
        /\ run' = [run EXCEPT ![l] = r]
        /\ UNCHANGED <<now, claims, lock, done, settled, book, bundle, outcome, sessions,
                       fixes, byHand>>
        /\ run[l].pc = "run" /\ run[l].kind = "full"
        /\ bundle # NoBundle /\ bundle.time <= now /\ bundle.book = book
    BY <1>3 DEF Reconcile, StageIntent, Set, At, Reconcilable
  <2>2. x.kind = "reconcile" /\ x.cycle = bundle.cycle /\ x.time = now
    BY DEF NoIntent
  <2>3. x \in [kind : {"none", "reconcile", "heartbeat"}, cycle : 0..(MaxBook + 1),
               time : Time, slot : Time]
    BY <1>1, NoIntentTyped DEF IntentRecord, RunRecord
  <2>4. run[l].opened = 0
    <3>1. run[l].opened # 1
      BY <2>1, OpenedNotAdmitted
    <3>2. run[l].opened \in Nat /\ run[l].opened <= 1
      BY <1>1 DEF RunRecord, Book, ScheduleInv, SessionInv
    <3> QED BY <3>1, <3>2
  <2>5. /\ r \in RunRecord /\ r.opened = 1 /\ r.pc = "run" /\ r.kind = "full"
        /\ r.slot = run[l].slot /\ r.lasted = run[l].lasted
    BY <2>1, <2>4, <1>1 DEF RunRecord, Book
  <2>6. \A q \in Launcher : run'[q] = IF q = l THEN r ELSE run[q]
    BY <2>1, <1>1
  <2>7. TypeOK'
    BY <2>1, <2>3, <2>5 DEF ScheduleInv, TypeOK, RunRecord
  <2>8. LockInv' /\ RunInv'
    BY <2>1, <2>5, <2>6 DEF ScheduleInv, LockInv, RunInv
  <2>9. IntentInv'
    <3>1. bundle.cycle = done.cycle + 1
          /\ (done.cycle # 0 => done.time + EarlyGap <= bundle.time)
      BY <2>1 DEF ScheduleInv, BundleInv
    <3>2. done.cycle # 0 => done.time + EarlyGap <= now
      BY <3>1, <2>1, <1>1 DEF Time, EarlyGap
    <3> QED BY <3>1, <3>2, <2>1, <2>2 DEF IntentInv
  <2>10. SessionInv'
    <3> SUFFICES ASSUME NEW q \in Launcher
                 PROVE  /\ run'[q].opened <= 1
                        /\ run'[q].opened = 1 => q = l
      <4>1. now <= now + run[l].lasted
        BY <1>1 DEF RunRecord, Time
      <4>2. intent' # NoIntent
        BY <2>1, <2>2 DEF NoIntent
      <4> QED BY <4>1, <4>2, <2>1, <2>2, <2>5, <2>6 DEF SessionInv
    <3>1. CASE q = l
      <4>1. run'[q].opened = 1
        BY <3>1, <2>5, <2>6
      <4> QED BY <3>1, <4>1
    <3>2. CASE q # l
      <4>1. run[q].opened = 0 \/ run[q].pc = "run"
        BY DEF ScheduleInv, RunInv
      <4>2. lock = l
        BY <2>1 DEF ScheduleInv, LockInv
      <4>3. run[q].opened = 0
        BY <3>2, <4>1, <4>2 DEF ScheduleInv, LockInv
      <4>4. run'[q].opened = 0
        BY <3>2, <4>3, <2>6
      <4> QED BY <4>4
    <3> QED BY <3>1, <3>2
  <2>11. BundleInv' /\ ClaimInv' /\ HeartbeatOncePerSlot'
    BY <2>1 DEF ScheduleInv, BundleInv, ClaimInv, HeartbeatOncePerSlot
  <2> QED
    BY <2>1, <2>7, <2>8, <2>9, <2>10, <2>11, <1>1 DEF ScheduleInv
<1>4. CASE Settle(l)
  <2> DEFINE x == [NoIntent EXCEPT !.kind = "heartbeat", !.slot = run[l].slot]
             r == [run[l] EXCEPT !.pc = "publish"]
  <2>1. /\ intent = NoIntent /\ book < MaxBook /\ intent' = x
        /\ run' = [run EXCEPT ![l] = r]
        /\ UNCHANGED <<now, claims, lock, done, settled, book, bundle, outcome, sessions,
                       fixes, byHand>>
        /\ run[l].pc = "run" /\ run[l].kind = "heartbeat"
        /\ run[l].slot # None => settled[run[l].slot] = 0
    BY <1>4 DEF Settle, StageIntent, Goto, Set, At
  <2>2. x.kind = "heartbeat" /\ x.slot = run[l].slot
    BY DEF NoIntent
  <2>3. x \in [kind : {"none", "reconcile", "heartbeat"}, cycle : 0..(MaxBook + 1),
               time : Time, slot : Time]
    BY <1>1, NoIntentTyped DEF IntentRecord, RunRecord
  <2>5. /\ r \in RunRecord /\ r.opened = 0 /\ r.pc = "publish" /\ r.kind = "heartbeat"
        /\ r.slot = run[l].slot /\ r.lasted = run[l].lasted
    BY <2>1, <1>1 DEF RunRecord, ScheduleInv, RunInv
  <2>6. \A q \in Launcher : run'[q] = IF q = l THEN r ELSE run[q]
    BY <2>1, <1>1
  <2>7. TypeOK'
    BY <2>1, <2>3, <2>5 DEF ScheduleInv, TypeOK, RunRecord
  <2>8. LockInv' /\ RunInv'
    BY <2>1, <2>5, <2>6 DEF ScheduleInv, LockInv, RunInv
  <2>9. IntentInv'
    BY <2>1, <2>2 DEF IntentInv, ScheduleInv, RunInv
  <2>10. SessionInv'
    <3>1. \A q \in Launcher : run[q].opened # 1
      <4> SUFFICES ASSUME NEW q \in Launcher, run[q].opened = 1 PROVE FALSE
        OBVIOUS
      <4>1. run[q].pc = "run" /\ run[q].kind = "full"
        BY DEF ScheduleInv, RunInv
      <4> QED BY <4>1, <2>1 DEF ScheduleInv, LockInv
    <3>2. \A q \in Launcher : run'[q].opened = run[q].opened \/ run'[q].opened = 0
      BY <2>5, <2>6
    <3>3. \A q \in Launcher : run[q].opened <= 1
      BY DEF ScheduleInv, SessionInv
    <3> QED BY <3>1, <3>2, <3>3 DEF SessionInv
  <2>11. BundleInv' /\ ClaimInv' /\ HeartbeatOncePerSlot'
    BY <2>1 DEF ScheduleInv, BundleInv, ClaimInv, HeartbeatOncePerSlot
  <2> QED
    BY <2>1, <2>7, <2>8, <2>9, <2>10, <2>11, <1>1 DEF ScheduleInv
<1>5. CASE Publish(l)
  <2>1. CASE intent # NoIntent
    BY <1>5, <2>1, CommitKeeps DEF Publish
  <2>2. CASE intent = NoIntent
    BY <1>1, <1>5, <2>2, LeaveStep DEF Publish
  <2> QED BY <2>1, <2>2
<1>6. CASE SessionExits(l)
  <2>1. outcome' \in Outcome
    BY <1>6 DEF SessionExits, Verdict, Outcome
  <2> QED BY <1>1, <1>6, <2>1, LeaveStep DEF SessionExits
<1>7. CASE Die(l) \/ AlreadyComplete(l)
  BY <1>1, <1>7, LeaveStep DEF Die, AlreadyComplete
<1>8. CASE HeartbeatFails(l)
  <2>1. claims' = claims \/ claims' = [claims EXCEPT !["heartbeat"] = None]
    BY <1>8 DEF HeartbeatFails
  <2>2. /\ DOMAIN claims' = Kind /\ claims'["full"] = claims["full"]
        /\ \A k \in Kind : claims'[k] \in SlotTimes[k] \cup {None}
    BY <1>1, <2>1 DEF Kind
  <2> QED BY <1>1, <1>8, <2>2, LeaveStep DEF HeartbeatFails
<1> QED BY <1>2, <1>3, <1>4, <1>5, <1>6, <1>7, <1>8

\* Time passes for the runs as it does for the wall clock.
LEMMA TickKeeps ==
  ASSUME ScheduleInv, Tick
  PROVE  ScheduleInv'
<1> USE TimeAssumption
<1>1. /\ now \in Nat /\ Start <= now /\ now + Step \in Time /\ now' = now + Step
      /\ run \in [Launcher -> RunRecord]
      /\ done.time \in Nat /\ intent.time \in Nat
      /\ UNCHANGED <<claims, lock, desk, outcome, sessions, fixes, byHand>>
  BY DEF Tick, ScheduleInv, TypeOK, Time, RunRecord
<1>2. ASSUME NEW l \in Launcher
      PROVE  /\ run[l] \in RunRecord /\ run'[l] \in RunRecord
             /\ run'[l].pc = run[l].pc /\ run'[l].kind = run[l].kind
             /\ run'[l].slot = run[l].slot /\ run'[l].opened = run[l].opened
             /\ run'[l].lasted < MaxRuntime[run[l].kind] + Step
             /\ run[l].lasted \in Nat
             /\ run[l].pc = "run" => run'[l].lasted = run[l].lasted + Step
  <2>1. run[l] \in RunRecord /\ run[l].lasted \in Nat
    BY <1>1 DEF RunRecord, Time
  <2>2. run'[l] = IF Running(l) THEN [run[l] EXCEPT !.lasted = @ + Step] ELSE run[l]
    BY DEF Tick
  <2>3. CASE Running(l)
    <3>1. run[l].lasted < MaxRuntime[run[l].kind] /\ run[l].kind \in Kind
      BY <2>1, <2>3 DEF Tick, RunRecord
    <3>2. MaxRuntime[run[l].kind] \in Nat /\ MaxRuntime[run[l].kind] <= 100
      BY <3>1 DEF MaxRuntime, Kind
    <3>3. Step + 967 <= Horizon
      BY <1>1 DEF Time
    <3>4. run[l].lasted + Step \in Time
      BY <2>1, <3>1, <3>2, <3>3 DEF Time
    <3> QED BY <2>1, <2>2, <2>3, <3>1, <3>2, <3>4 DEF RunRecord
  <2>4. CASE ~Running(l)
    BY <2>1, <2>2, <2>4 DEF Running, ScheduleInv, RunInv
  <2> QED BY <2>3, <2>4
<1>3. run' \in [Launcher -> RunRecord]
  <2>1. run' = [l \in Launcher |-> run'[l]]
    BY DEF Tick
  <2> QED BY <2>1, <1>2
<1>4. TypeOK'
  BY <1>1, <1>3 DEF ScheduleInv, TypeOK, RunRecord, desk
<1>5. LockInv' /\ RunInv'
  BY <1>1, <1>2 DEF ScheduleInv, LockInv, RunInv
<1>6. IntentInv' /\ BundleInv' /\ ClaimInv' /\ HeartbeatOncePerSlot'
  BY <1>1 DEF desk, ScheduleInv, IntentInv, BundleInv, ClaimInv, HeartbeatOncePerSlot
<1>7. SessionInv'
  <2> SUFFICES ASSUME NEW l \in Launcher
               PROVE  /\ run[l].opened <= 1
                      /\ run[l].opened = 1 =>
                           \/ intent # NoIntent /\ intent.kind = "reconcile"
                                /\ now + Step <= intent.time + run'[l].lasted
                           \/ intent = NoIntent /\ bundle.book < book /\ done.cycle # 0
                                /\ now + Step <= done.time + run'[l].lasted
    BY <1>1, <1>2 DEF SessionInv, desk
  <2>1. run[l].opened = 1 => run'[l].lasted = run[l].lasted + Step
    BY <1>2 DEF ScheduleInv, RunInv
  <2> QED BY <2>1, <1>1, <1>2 DEF ScheduleInv, SessionInv
<1>8. Start <= now'
  BY <1>1
<1> QED BY <1>1, <1>4, <1>5, <1>6, <1>7, <1>8 DEF ScheduleInv, desk

\* The clock is set back to an instant after the installation.
LEMMA ClockKeeps ==
  ASSUME ScheduleInv, ClockCorrected
  PROVE  ScheduleInv'
<1> USE TimeAssumption
<1>1. UNCHANGED <<claims, lock, run, desk, outcome, sessions, byHand>>
  BY DEF ClockCorrected
<1>2. Start <= now' /\ now' <= now /\ now' \in Time
  <2>1. PICK i \in 0..((now - Start) \div Step) : Start + i * Step < now /\ now' = Start + i * Step
    BY DEF ClockCorrected
  <2>2. i \in Nat
    OBVIOUS
  <2>3. i * Step \in Nat
    BY <2>2
  <2>4. now \in Nat /\ now <= Horizon
    BY DEF ScheduleInv, TypeOK, Time
  <2> QED BY <2>1, <2>3, <2>4 DEF Time
<1>3. fixes' \in 0..MaxOdd
  <2>1. fixes' = fixes + 1 /\ fixes + byHand < MaxOdd /\ fixes \in Nat /\ byHand \in Nat
    BY DEF ClockCorrected, ScheduleInv, TypeOK
  <2> QED BY <2>1
<1>4. TypeOK'
  BY <1>1, <1>2, <1>3 DEF ScheduleInv, TypeOK, desk
<1>5. LockInv' /\ RunInv' /\ IntentInv' /\ BundleInv' /\ ClaimInv' /\ HeartbeatOncePerSlot'
  BY <1>1
  DEF desk, ScheduleInv, LockInv, RunInv, IntentInv, BundleInv, ClaimInv, HeartbeatOncePerSlot
<1>6. SessionInv'
  <2>1. \A l \in Launcher : run[l].lasted \in Nat
    BY DEF ScheduleInv, TypeOK, Time
  <2>2. now \in Nat /\ now' \in Nat /\ intent.time \in Nat /\ done.time \in Nat
    BY <1>2 DEF ScheduleInv, TypeOK, Time
  <2> QED BY <1>1, <1>2, <2>1, <2>2 DEF desk, ScheduleInv, SessionInv
<1> QED BY <1>1, <1>2, <1>4, <1>5, <1>6 DEF ScheduleInv, desk

\* Every step keeps the schedule's invariant.
LEMMA ScheduleStep == ScheduleInv /\ [Next]_vars => ScheduleInv'
<1> SUFFICES ASSUME ScheduleInv, [Next]_vars PROVE ScheduleInv'
  OBVIOUS
<1>1. CASE Recover
  BY <1>1, CommitKeeps DEF Recover
<1>2. ASSUME NEW l \in Launcher, Run(l) PROVE ScheduleInv'
  BY <1>2, GateSteps, SessionSteps DEF Run
<1>3. CASE UNCHANGED vars
  BY <1>3
  DEF vars, desk, ScheduleInv, TypeOK, LockInv, RunInv, IntentInv, BundleInv, SessionInv,
      ClaimInv, HeartbeatOncePerSlot
<1> QED BY <1>1, <1>2, <1>3, TickKeeps, ClockKeeps DEF Next

\* The schedule's invariant holds in every reachable state.
THEOREM ScheduleSafe == Spec => []ScheduleInv
  BY ScheduleInit, ScheduleStep, PTL DEF Spec

\* TypeOK: every variable holds what the code can put there; a run outlives its timeout by
\* less than a clock step, and no counter passes its bound.
THEOREM TypeCorrect == Spec => []TypeOK
<1>1. ScheduleInv => TypeOK
  BY DEF ScheduleInv
<1> QED BY <1>1, ScheduleSafe, PTL

\* OncePerSlot: one session for a full slot and one committed heartbeat for a heartbeat
\* slot, for any number of launchers, crashes, released claims and clock corrections.
THEOREM SlotServedOnce == Spec => []OncePerSlot
<1>1. ScheduleInv => OncePerSlot
  BY DEF ScheduleInv, OncePerSlot, ClaimInv, SessionOncePerSlot
<1> QED BY <1>1, ScheduleSafe, PTL

\* OneCyclePerSession: whatever its agent calls and in whatever order, a session opens at
\* most one cycle: the early gap is longer than the session may last.
THEOREM SessionOpensOne == Spec => []OneCyclePerSession
<1>1. ScheduleInv => OneCyclePerSession
  BY DEF ScheduleInv, OneCyclePerSession, SessionInv
<1> QED BY <1>1, ScheduleSafe, PTL

\* CadenceKept: completed cycles are numbered without a gap and 18 hours apart, although
\* only the command that sealed the decision looked at the clock.
THEOREM CadenceHolds == Spec => CadenceKept
<1> DEFINE Kept == done' # done => /\ done'.cycle = done.cycle + 1
                                   /\ done.cycle # 0 => done'.time - done.time >= EarlyGap
<1>1. ScheduleInv /\ [Next]_vars => [Kept]_vars
  <2> SUFFICES ASSUME ScheduleInv, Next, done' # done
               PROVE  /\ done'.cycle = done.cycle + 1
                      /\ done.cycle # 0 => done'.time - done.time >= EarlyGap
    BY DEF vars
  <2>1. Commit
    BY DEF Next, Run, Tick, ClockCorrected, Recover, desk, Poll, RunByHand, TakeLock,
           PreflightFails, Claim, ClaimRefused, BeginByHand, Prepare, Reconcile, StageIntent,
           SessionExits, Die, Settle, Publish, AlreadyComplete, HeartbeatFails
  <2>2. intent # NoIntent /\ intent.kind = "reconcile"
        /\ done' = [cycle |-> intent.cycle, time |-> intent.time]
    BY <2>1 DEF Commit
  <2>3. done.time \in Nat /\ intent.time \in Nat
    BY DEF ScheduleInv, TypeOK, Time
  <2> QED BY <2>2, <2>3 DEF ScheduleInv, IntentInv, EarlyGap
<1> QED BY <1>1, ScheduleSafe, PTL DEF Spec, CadenceKept

-----------------------------------------------------------------------------
(* The run lock.                                                           *)

\* What a read of the file can find, the record LockTypeOK types, the file itself.
Read  == {{}} \cup {{h} : h \in Holder}
Local == [pc : Acquiring \cup {"idle", "held"}, start : Instant,
          seen : Read, cur : Read, tries : 0..MaxTries]
File  == [holder : Read, written : BOOLEAN]

\* A call that found the file has a try left to come back with.
TriesLeft == \A p \in Proc :
    proc[p].pc \in {"read", "compare", "unlink"} => proc[p].tries < MaxTries

\* Nobody's clock is ahead of the wall clock.
StartedBefore == \A p \in Proc : proc[p].start <= instant

ControlInv == LockTypeOK /\ TriesLeft /\ StartedBefore

\* A process inside its lease that no window hit still owns the file it created.
Safe(p) == Fresh(proc[p].start) /\ p \notin robbed

OwnsFile == \A p \in Proc : Safe(p) =>
    /\ proc[p].pc = "write" => file = [holder |-> {Me(p)}, written |-> FALSE]
    /\ proc[p].pc = "held"  => file = [holder |-> {Me(p)}, written |-> TRUE]

\* Whoever is about to remove a file found its holder stale, and found it twice.
Judged == \A p \in Proc :
    /\ proc[p].pc \in {"compare", "unlink"} => IsStale(proc[p].seen, proc[p].start)
    /\ proc[p].pc = "unlink" /\ proc[p].seen # NoOne /\ proc[p].cur # NoOne =>
           proc[p].cur = proc[p].seen

\* The inductive invariant of the lock.
ExclusionInv == OwnsFile /\ Judged

\* A lock file names one process.
LEMMA OneOwner ==
  ASSUME NEW p, NEW q, {Me(p)} = {Me(q)}
  PROVE  p = q
<1>1. Me(p) = Me(q)
  OBVIOUS
<1>2. Me(p).pid = p /\ Me(q).pid = q
  BY DEF Me
<1> QED BY <1>1, <1>2

-----------------------------------------------------------------------------
\* What a process's own step may do to its record, and what it leaves alone.
Moves(p, r) ==
    /\ r \in Local /\ r.start <= instant
    /\ r.pc \in {"read", "compare", "unlink"} => r.tries < MaxTries
    /\ proc' = [proc EXCEPT ![p] = r]
    /\ instant' = instant

\* A process that is idle again holds nothing and has seen nothing.
LEMMA IdleTyped == Idle \in Local
  BY LeaseAssumption DEF Idle, Local, Read, NoOne, Instant

\* What the typing of the state gives: each part in its set, the clock a number.
LEMMA Parts ==
  ASSUME ControlInv
  PROVE  /\ file \in File /\ robbed \in SUBSET Proc /\ crashes \in 0..MaxCrash
         /\ instant \in Nat /\ instant \in Instant /\ Lease \in Nat
         /\ Content \in Read
         /\ \A p \in Proc : /\ proc[p] \in Local /\ Me(p) \in Holder
                            /\ proc[p].start \in Nat /\ proc[p].start <= instant
<1> USE LeaseAssumption DEF ControlInv, LockTypeOK
<1>1. /\ file \in File /\ robbed \in SUBSET Proc /\ crashes \in 0..MaxCrash
      /\ instant \in Nat /\ instant \in Instant /\ Lease \in Nat
  BY DEF File, Read, Instant
<1>2. Content \in Read
  BY <1>1 DEF Content, NoOne, File, Read
<1>3. ASSUME NEW p \in Proc PROVE proc[p] \in Local
  BY <1>3 DEF Local, Read
<1>4. ASSUME NEW p \in Proc
      PROVE  proc[p].start \in Nat /\ proc[p].start <= instant /\ Me(p) \in Holder
  BY <1>3, <1>4 DEF Local, Instant, StartedBefore, Me, Holder
<1> QED BY <1>1, <1>2, <1>3, <1>4

\* A call that starts is a record of its own, and starting over costs a try that is left.
LEMMA CallTyped ==
  ASSUME NEW t \in Instant, NEW n \in 0..MaxTries
  PROVE  Call(t, n) \in Local /\ Call(t, n).pc = "create" /\ Call(t, n).start = t
  BY DEF Call, Local, Read, NoOne, Acquiring

LEMMA AgainMoves ==
  ASSUME ControlInv, NEW p \in Proc, proc[p].pc \in {"compare", "unlink"}, Retry(p),
         instant' = instant
  PROVE  Moves(p, Call(proc[p].start, proc[p].tries + 1))
<1>1. proc[p] \in Local /\ proc[p].start <= instant /\ proc[p].tries < MaxTries
  BY Parts DEF ControlInv, TriesLeft
<1>2. proc[p].tries + 1 \in 0..MaxTries /\ proc[p].start \in Instant
  BY <1>1, LeaseAssumption DEF Local
<1> QED BY <1>1, <1>2, CallTyped DEF Moves, Retry

\* Typing needs the record the process moves to and the file it leaves.
LEMMA MovesTyped ==
  ASSUME ControlInv, NEW p \in Proc, NEW r, Moves(p, r),
         file' \in File, crashes' \in 0..MaxCrash, robbed' \in SUBSET Proc
  PROVE  ControlInv'
<1>1. proc' \in [Proc -> Local]
  BY DEF Moves, ControlInv, LockTypeOK, Local, Read
<1>2. TriesLeft' /\ StartedBefore'
  BY DEF Moves, ControlInv, TriesLeft, StartedBefore, LockTypeOK
<1>3. instant' \in Instant
  BY DEF Moves, ControlInv, LockTypeOK
<1> QED BY <1>1, <1>2, <1>3 DEF ControlInv, LockTypeOK, Local, File, Read

\* The record a step of p leaves behind, with p's start unchanged while p is in a call.
Steps(p, r) ==
    \/ TryAcquire(p) /\ r = Call(instant, 0)
    \/ CreateExcl(p) /\ r = [proc[p] EXCEPT !.pc = IF file = NoFile THEN "write" ELSE "read"]
    \/ WritePayload(p) /\ r = [proc[p] EXCEPT !.pc = "held"]
    \/ /\ ReadHolder(p) /\ IsStale(Content, proc[p].start)
       /\ r = [proc[p] EXCEPT !.seen = Content, !.pc = "compare"]
    \/ ReadHolder(p) /\ ~IsStale(Content, proc[p].start) /\ r = Idle
    \/ /\ Compare(p) /\ Content # NoOne /\ proc[p].seen # NoOne /\ Content # proc[p].seen
       /\ r = Call(proc[p].start, proc[p].tries + 1)
    \/ /\ Compare(p) /\ ~(Content # NoOne /\ proc[p].seen # NoOne /\ Content # proc[p].seen)
       /\ r = [proc[p] EXCEPT !.cur = Content, !.pc = "unlink"]
    \/ Unlink(p) /\ r = Call(proc[p].start, proc[p].tries + 1)
    \/ (GaveUp(p) \/ Release(p) \/ Crash(p)) /\ r = Idle

\* Every step of a process is one of those, moves it to that record and types the rest.
LEMMA StepMoves ==
  ASSUME ControlInv, NEW p \in Proc, TryAcquire(p) \/ CallStep(p) \/ Crash(p)
  PROVE  \E r : /\ Steps(p, r) /\ Moves(p, r)
                /\ file' \in File /\ crashes' \in 0..MaxCrash /\ robbed' \in SUBSET Proc
<1>a. /\ proc[p] \in Local /\ Me(p) \in Holder /\ file \in File /\ instant \in Instant
      /\ crashes \in 0..MaxCrash /\ robbed \in SUBSET Proc /\ Content \in Read
      /\ instant \in Nat /\ proc[p].start <= instant
  BY Parts
<1>b. NoFile \in File /\ Creator \in SUBSET Proc
  BY DEF NoFile, File, Read, Creator
<1>c. proc[p].pc \in {"read", "compare", "unlink"} => proc[p].tries < MaxTries
  BY DEF ControlInv, TriesLeft
<1>d. Idle \in Local /\ Idle.start <= instant /\ Idle.pc = "idle"
  BY IdleTyped, <1>a DEF Idle
<1>1. CASE TryAcquire(p)
  <2>1. Moves(p, Call(instant, 0))
    BY <1>1, <1>a, CallTyped, LeaseAssumption DEF TryAcquire, Moves
  <2>2. file' \in File /\ crashes' \in 0..MaxCrash /\ robbed' \in SUBSET Proc
    BY <1>1, <1>a DEF TryAcquire
  <2> QED BY <2>1, <2>2, <1>1 DEF Steps
<1>2. CASE CreateExcl(p)
  <2> DEFINE r == [proc[p] EXCEPT !.pc = IF file = NoFile THEN "write" ELSE "read"]
  <2>1. Moves(p, r)
    BY <1>2, <1>a, LeaseAssumption DEF CreateExcl, MoveTo, Moves, Local, Acquiring
  <2>2. file' \in File
    <3>1. {Me(p)} \in Read
      BY <1>a DEF Read
    <3>2. [holder |-> {Me(p)}, written |-> FALSE] \in File
      BY <3>1 DEF File
    <3> QED BY <3>2, <1>2, <1>a DEF CreateExcl
  <2> QED BY <2>1, <2>2, <1>2, <1>a DEF Steps, CreateExcl
<1>3. CASE WritePayload(p)
  <2> DEFINE r == [proc[p] EXCEPT !.pc = "held"]
  <2>1. Moves(p, r)
    BY <1>3, <1>a DEF WritePayload, MoveTo, Moves, Local
  <2>2. file' \in File
    BY <1>3, <1>a DEF WritePayload, File
  <2> QED BY <2>1, <2>2, <1>3, <1>a DEF Steps, WritePayload
<1>4. CASE ReadHolder(p)
  <2>1. CASE IsStale(Content, proc[p].start)
    <3> DEFINE r == [proc[p] EXCEPT !.seen = Content, !.pc = "compare"]
    <3>1. Moves(p, r)
      BY <1>4, <2>1, <1>a, <1>c DEF ReadHolder, Moves, Local, Acquiring
    <3> QED BY <3>1, <2>1, <1>4, <1>a DEF Steps, ReadHolder
  <2>2. CASE ~IsStale(Content, proc[p].start)
    <3>1. Moves(p, Idle)
      BY <1>4, <2>2, <1>d DEF ReadHolder, Finish, Moves
    <3> QED BY <3>1, <2>2, <1>4, <1>a DEF Steps, ReadHolder
  <2> QED BY <2>1, <2>2
<1>5. CASE Compare(p)
  <2>1. CASE Content # NoOne /\ proc[p].seen # NoOne /\ Content # proc[p].seen
    <3>1. Moves(p, Call(proc[p].start, proc[p].tries + 1))
      BY <1>5, <2>1, AgainMoves DEF Compare
    <3> QED BY <3>1, <2>1, <1>5, <1>a DEF Steps, Compare
  <2>2. CASE ~(Content # NoOne /\ proc[p].seen # NoOne /\ Content # proc[p].seen)
    <3> DEFINE r == [proc[p] EXCEPT !.cur = Content, !.pc = "unlink"]
    <3>1. Moves(p, r)
      BY <1>5, <2>2, <1>a, <1>c DEF Compare, Moves, Local, Acquiring
    <3> QED BY <3>1, <2>2, <1>5, <1>a DEF Steps, Compare
  <2> QED BY <2>1, <2>2
<1>6. CASE Unlink(p)
  <2>1. Moves(p, Call(proc[p].start, proc[p].tries + 1))
    BY <1>6, AgainMoves DEF Unlink
  <2> QED BY <2>1, <1>6, <1>a, <1>b DEF Steps, Unlink
<1>7. CASE GaveUp(p) \/ Release(p) \/ Crash(p)
  <2>1. Moves(p, Idle)
    BY <1>7, <1>d DEF GaveUp, Release, Crash, Finish, Moves
  <2>2. file' \in File /\ robbed' \in SUBSET Proc
    BY <1>7, <1>a, <1>b DEF GaveUp, Release, Crash
  <2>3. crashes' \in 0..MaxCrash
    BY <1>7, <1>a, LeaseAssumption DEF GaveUp, Release, Crash
  <2> QED BY <2>1, <2>2, <2>3, <1>7 DEF Steps
<1> QED BY <1>1, <1>2, <1>3, <1>4, <1>5, <1>6, <1>7 DEF CallStep

\* No file and no call.
LEMMA ControlInit == LockInit => ControlInv /\ ExclusionInv
<1> SUFFICES ASSUME LockInit PROVE ControlInv /\ ExclusionInv
  OBVIOUS
<1>1. LockTypeOK
  BY LeaseAssumption, IdleTyped DEF LockInit, LockTypeOK, Local, Read, NoFile, Instant
<1>2. \A p \in Proc : proc[p] = Idle
  BY DEF LockInit
<1> QED BY <1>1, <1>2 DEF LockInit, ControlInv, TriesLeft, StartedBefore, ExclusionInv,
                         OwnsFile, Judged, Idle

\* A step of the lock keeps every variable in its type and never runs out of tries.
LEMMA ControlStep == ControlInv /\ [LockNext]_lockVars => ControlInv'
<1> SUFFICES ASSUME ControlInv, [LockNext]_lockVars PROVE ControlInv'
  OBVIOUS
<1>1. CASE ClockTick
  BY <1>1, Parts, LeaseAssumption
  DEF ClockTick, ControlInv, LockTypeOK, TriesLeft, StartedBefore, Instant
<1>2. ASSUME NEW p \in Proc, TryAcquire(p) \/ CallStep(p) \/ Crash(p) PROVE ControlInv'
  BY <1>2, StepMoves, MovesTyped
<1>3. CASE UNCHANGED lockVars
  BY <1>3 DEF lockVars, ControlInv, LockTypeOK, TriesLeft, StartedBefore
<1> QED BY <1>1, <1>2, <1>3 DEF LockNext

\* LockTypeOK: every variable holds what the lock's calls can put there; a call that lost a
\* race never counts more tries than the code allows.
THEOREM LockTypeCorrect == LockSpec => []LockTypeOK
<1>1. ControlInv => LockTypeOK
  BY DEF ControlInv
<1> QED BY <1>1, ControlInit, ControlStep, PTL DEF LockSpec

-----------------------------------------------------------------------------
\* Outside the windows no removal takes the file of a process that is inside its lease: the
\* reclaimer read the holder twice and judged it stale, the releaser owns what it removes.
LEMMA RemovalSpares ==
  ASSUME ControlInv, ExclusionInv, NEW p \in Proc, NEW q \in Proc, q # p,
         Unlink(p) \/ Release(p), proc[q].pc \in {"write", "held"}, Safe(q)
  PROVE  q \in robbed'
<1>1. file.holder = {Me(q)}
  BY DEF ExclusionInv, OwnsFile
<1>2. q \in Creator
  BY <1>1 DEF Creator
<1>3. /\ instant \in Nat /\ Lease \in Nat /\ proc[p].start \in Nat /\ proc[q].start \in Nat
      /\ proc[p].start <= instant /\ proc[p] \in Local
  BY Parts
<1>4. CASE Unlink(p)
  <2>1. CASE UnlinkWindow(p)
    BY <2>1, <1>2, <1>4 DEF Unlink
  <2>2. CASE ~UnlinkWindow(p)
    <3>1. proc[p].seen # NoOne /\ proc[p].cur = {Me(q)}
      BY <2>2, <1>1 DEF UnlinkWindow
    <3>2. proc[p].seen = {Me(q)} /\ IsStale({Me(q)}, proc[p].start)
      BY <3>1, <1>4 DEF Unlink, ExclusionInv, Judged, NoOne
    <3>3. ~(proc[p].start < proc[q].start)
      BY <3>2, <2>2, <1>1 DEF UnlinkWindow, Me
    <3>6. {Me(q)} # {} /\ \A h \in {Me(q)} : h.start = proc[q].start
      BY DEF Me
    <3>4. proc[p].start - proc[q].start >= Lease
      BY <3>2, <3>3, <3>6 DEF IsStale, NoOne
    <3>5. ~Fresh(proc[q].start)
      BY <3>4, <1>3 DEF Fresh
    <3> QED BY <3>5 DEF Safe
  <2> QED BY <2>1, <2>2
<1>5. CASE Release(p)
  <2>1. CASE ReleaseWindow(p)
    BY <2>1, <1>2, <1>5 DEF Release
  <2>2. CASE ~ReleaseWindow(p)
    <3>1. file.holder = {Me(p)}
      BY <2>2, <1>5 DEF ReleaseWindow, Release, ExclusionInv, OwnsFile, Safe
    <3> QED BY <3>1, <1>1, OneOwner
  <2> QED BY <2>1, <2>2
<1> QED BY <1>4, <1>5

\* A step of one process leaves the others their file, or robs them of it in a window.
LEMMA OthersKeep ==
  ASSUME ControlInv, ExclusionInv, NEW p \in Proc, TryAcquire(p) \/ CallStep(p) \/ Crash(p),
         NEW q \in Proc, q # p, proc[q].pc \in {"write", "held"}, Safe(q), q \notin robbed'
  PROVE  file' = file
<1>1. file.holder = {Me(q)} /\ file # NoFile
  BY DEF ExclusionInv, OwnsFile, NoFile
<1>2. CASE Unlink(p) \/ Release(p)
  BY <1>2, RemovalSpares
<1>3. CASE CreateExcl(p)
  BY <1>3, <1>1 DEF CreateExcl
<1>4. CASE WritePayload(p)
  <2>1. file.holder # {Me(p)}
    BY <1>1, OneOwner
  <2> QED BY <2>1, <1>4 DEF WritePayload
<1>5. CASE TryAcquire(p) \/ ReadHolder(p) \/ Compare(p) \/ GaveUp(p) \/ Crash(p)
  BY <1>5 DEF TryAcquire, ReadHolder, Compare, GaveUp, Crash
<1> QED BY <1>2, <1>3, <1>4, <1>5 DEF CallStep

\* Every step keeps the exclusion invariant: OthersKeep for the other processes, and for the
\* one that steps the file it creates and the holders it reads.
LEMMA ExclusionStep == ControlInv /\ ExclusionInv /\ [LockNext]_lockVars => ExclusionInv'
<1> SUFFICES ASSUME ControlInv, ExclusionInv, [LockNext]_lockVars PROVE ExclusionInv'
  OBVIOUS
<1>1. CASE ClockTick
  <2>1. \A p \in Proc : Safe(p)' => Safe(p)
    BY <1>1, Parts DEF ClockTick, Safe, Fresh
  <2>2. OwnsFile'
    BY <2>1, <1>1 DEF ClockTick, ExclusionInv, OwnsFile, Me
  <2> QED BY <2>2, <1>1 DEF ClockTick, ExclusionInv, Judged
<1>2. ASSUME NEW p \in Proc, TryAcquire(p) \/ CallStep(p) \/ Crash(p) PROVE ExclusionInv'
  <2>1. PICK r : Steps(p, r) /\ Moves(p, r)
    BY <1>2, StepMoves
  <2>2. /\ \A q \in Proc : proc'[q] = IF q = p THEN r ELSE proc[q]
        /\ instant' = instant
    BY <2>1 DEF Moves, ControlInv, LockTypeOK
  <2>3. proc[p] \in Local
    BY Parts
  <2>4. ASSUME NEW q \in Proc, q # p, Safe(q)', proc'[q].pc \in {"write", "held"}
        PROVE  /\ file' = file /\ Safe(q) /\ Me(q)' = Me(q) /\ proc'[q] = proc[q]
    <3>1. proc'[q] = proc[q] /\ Me(q)' = Me(q) /\ q \notin robbed'
      BY <2>2, <2>4 DEF Me, Safe
    <3>2. q \notin robbed
      BY <3>1, <2>4, <1>2 DEF CallStep, TryAcquire, CreateExcl, WritePayload, ReadHolder, Compare,
                              Unlink, GaveUp, Release, Crash
    <3>3. Safe(q)
      BY <3>1, <3>2, <2>2, <2>4 DEF Safe, Fresh
    <3> QED BY <3>1, <3>3, <1>2, <2>4, OthersKeep
  <2>5. ASSUME Safe(p)'
        PROVE  /\ r.pc = "write" => file' = [holder |-> {Me(p)'}, written |-> FALSE]
               /\ r.pc = "held"  => file' = [holder |-> {Me(p)'}, written |-> TRUE]
    <3>1. proc'[p] = r
      BY <2>2
    <3>2. CASE /\ CreateExcl(p)
               /\ r = [proc[p] EXCEPT !.pc = IF file = NoFile THEN "write" ELSE "read"]
      <4>1. r.pc \in {"write", "read"} /\ r.start = proc[p].start
            /\ r.pc = "write" => file = NoFile
        BY <2>3, <3>2 DEF Local
      <4> QED BY <4>1, <3>1, <3>2 DEF CreateExcl, Me
    <3>3. CASE WritePayload(p) /\ r = [proc[p] EXCEPT !.pc = "held"]
      <4>1. r.pc = "held" /\ r.start = proc[p].start
        BY <2>3, <3>3 DEF Local
      <4>2. Safe(p) /\ Me(p)' = Me(p)
        BY <4>1, <3>1, <3>3, <2>2, <2>5 DEF Safe, Fresh, WritePayload, Me
      <4>3. file = [holder |-> {Me(p)}, written |-> FALSE]
        BY <4>2, <3>3 DEF ExclusionInv, OwnsFile, WritePayload
      <4>4. file' = [holder |-> {Me(p)}, written |-> TRUE]
        BY <4>3, <3>3 DEF WritePayload
      <4> QED BY <4>1, <4>2, <4>4
    <3>4. CASE r.pc \notin {"write", "held"}
      BY <3>4
    <3>5. CASE r.pc \in {"write", "held"}
      <4>1. ~(IsStale(Content, proc[p].start)
              /\ r = [proc[p] EXCEPT !.seen = Content, !.pc = "compare"])
        BY <2>3, <3>5 DEF Local
      <4>2. r # [proc[p] EXCEPT !.cur = Content, !.pc = "unlink"]
        BY <2>3, <3>5 DEF Local
      <4>3. r # Idle /\ \A t, n : r # Call(t, n)
        BY <3>5 DEF Idle, Call
      <4> QED BY <2>1, <4>1, <4>2, <4>3, <3>2, <3>3 DEF Steps
    <3> QED BY <3>4, <3>5
  <2>6. OwnsFile'
    BY <2>2, <2>4, <2>5 DEF OwnsFile, ExclusionInv
  <2>7. /\ r.pc \in {"compare", "unlink"} => IsStale(r.seen, r.start)
        /\ r.pc = "unlink" /\ r.seen # NoOne /\ r.cur # NoOne => r.cur = r.seen
    <3>1. CASE /\ IsStale(Content, proc[p].start)
               /\ r = [proc[p] EXCEPT !.seen = Content, !.pc = "compare"]
      <4>1. r.pc = "compare" /\ r.seen = Content /\ r.start = proc[p].start
        BY <2>3, <3>1 DEF Local
      <4> QED BY <4>1, <3>1
    <3>2. CASE /\ Compare(p)
               /\ ~(Content # NoOne /\ proc[p].seen # NoOne /\ Content # proc[p].seen)
               /\ r = [proc[p] EXCEPT !.cur = Content, !.pc = "unlink"]
      <4>1. r.seen = proc[p].seen /\ r.start = proc[p].start /\ r.cur = Content
        BY <2>3, <3>2 DEF Local
      <4>2. IsStale(proc[p].seen, proc[p].start)
        BY <3>2 DEF Compare, ExclusionInv, Judged
      <4> QED BY <4>1, <4>2, <3>2
    <3>3. CASE r.pc \notin {"compare", "unlink"}
      BY <3>3
    <3> QED BY <2>1, <2>3, <3>1, <3>2, <3>3 DEF Steps, Call, Idle, Local
  <2>8. Judged'
    BY <2>2, <2>7 DEF Judged, ExclusionInv, IsStale
  <2> QED BY <2>6, <2>8 DEF ExclusionInv
<1>3. CASE UNCHANGED lockVars
  BY <1>3 DEF lockVars, ExclusionInv, OwnsFile, Judged, Safe, Fresh, Me
<1> QED BY <1>1, <1>2, <1>3 DEF LockNext

\* However calls overlap, die, retry or outlive their lease, a process inside its lease that
\* no window hit still has the file that names it, and whoever is about to remove a file
\* judged its holder stale and read it twice.
THEOREM LiveLockKept == LockSpec => []ExclusionInv
<1> QED BY ControlInit, ControlStep, ExclusionStep, PTL DEF LockSpec

\* OneHolder: of the processes that hold the lock inside their leases at most one was not
\* robbed of it in a window, for any number of processes, lease and number of crashes.
THEOREM SingleFlight == LockSpec => []OneHolder
<1>1. ExclusionInv => OneHolder
  <2> SUFFICES ASSUME OwnsFile, NEW p \in Proc, NEW q \in Proc, Safe(p), Safe(q),
                      proc[p].pc = "held", proc[q].pc = "held"
               PROVE  p = q
    BY DEF ExclusionInv, OneHolder, Safe
  <2>1. file.holder = {Me(p)} /\ file.holder = {Me(q)}
    BY DEF OwnsFile
  <2> QED BY <2>1, OneOwner
<1> QED BY <1>1, LiveLockKept, PTL
=============================================================================
