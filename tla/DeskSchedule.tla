---------------------------- MODULE DeskSchedule ----------------------------
(***************************************************************************)
(* Who may run when: the launchers polled by cron, the UTC claim gate, the *)
(* launchers' lock, and the cadence checks of the commands a session runs. *)
(*                                                                         *)
(* A full run is one agent session: the agent may call recovery, prepare   *)
(* and reconcile in any order and as often as it likes, and may exit 0     *)
(* whatever happened.  A heartbeat run settles one slot.  Runs crash, are  *)
(* killed by their timeout and overlap with polls of either launcher, and  *)
(* the wall clock is sometimes corrected backwards.  Times are minutes.    *)
(*                                                                         *)
(* The commit of a generation is one step here; AccountCommit is about     *)
(* what happens inside it.                                                 *)
(***************************************************************************)
EXTENDS Naturals, FiniteSets

CONSTANTS
    Launcher,   \* launcher processes that can be alive at the same time
    Nobody,     \* no process: the launchers' lock is free
    Start,      \* the minute the schedule is installed
    Horizon,    \* bound: the last minute the clock reaches
    Step,       \* how far the clock moves at once
    MaxBook,    \* bound: how many generations are committed
    MaxOdd      \* bound: backward clock corrections and launches by an operator

ASSUME TimeAssumption ==
    /\ Start \in Nat /\ Horizon \in Nat /\ Step \in Nat \ {0}
    /\ 967 <= Start /\ Start <= Horizon  \* every kind has a slot behind it
    /\ MaxBook \in Nat /\ MaxOdd \in Nat
ASSUME NobodyAssumption == Nobody \notin Launcher

Day           == 1440
ScheduleHours == [full |-> {0}, heartbeat |-> {8, 16}]
ScheduleMinute == 7
Grace         == 360    \* DEFAULT_GRACE_HOURS
EarlyGap      == 1080   \* EARLY_H
MaxAge        == 90     \* max_decision_age_minutes
MaxRuntime    == [full |-> 100, heartbeat |-> 10]

\* The clock's step is finer than what the early gap leaves after the longest session.
ASSUME StepAssumption == MaxRuntime["full"] + Step <= EarlyGap

Kind == {"full", "heartbeat"}
Time == 0..Horizon
None == 0
Book == 0..MaxBook

SlotTimes == [k \in Kind |->
    {s \in Time : \E h \in ScheduleHours[k] : s % Day = 60 * h + ScheduleMinute}]

VARIABLES
    now,       \* the wall clock
    claims,    \* desk-schedule-claims.json: last claimed slot of each kind
    lock,      \* holder of desk-cycle.lock
    run,       \* what each launcher process is doing
    done,      \* the last complete cycle: its number and report.ran_at
    settled,   \* how often each heartbeat slot was committed
    book,      \* how many generations the account went through
    intent,    \* the staged transaction on disk, if any
    bundle,    \* the sealed pending decision: cycle, decision time, book
    outcome,   \* desk-last-launch-outcome.json, with what the session really did
    sessions,  \* history: sessions started for each scheduled full slot
    fixes,     \* clock corrections so far
    byHand     \* launches by an operator so far

desk == <<done, settled, book, intent, bundle>>
vars == <<now, claims, lock, run, desk, outcome, sessions, fixes, byHand>>

Outcome == {"none", "COMPLETED", "UNATTESTED_CYCLE_JUMP", "EARLY_STAND_DOWN",
            "UNATTESTED_EXIT_ZERO"}
NoIntent == [kind |-> "none", cycle |-> 0, time |-> 0, slot |-> None]
NoBundle == [cycle |-> 0, time |-> 0, book |-> 0]
Gone == [pc |-> "gone", kind |-> "full", scheduled |-> FALSE, slot |-> None,
         before |-> 0, opened |-> 0, lasted |-> 0]

-----------------------------------------------------------------------------
(* The claim gate.                                                         *)

\* The latest nominal slot at or before now.
LatestSlot(k) ==
    CHOOSE s \in SlotTimes[k] : s <= now /\ \A t \in SlotTimes[k] : t <= now => t <= s

InGrace(s) == now - s <= Grace

DueExact(k) == InGrace(LatestSlot(k)) /\ claims[k] # LatestSlot(k)

\* An unclaimed slot inside its recovery window.
Due(k) == InGrace(LatestSlot(k)) /\ claims[k] < LatestSlot(k)

Init ==
    /\ now = Start
    /\ claims = [k \in Kind |-> LatestSlot(k)]
    /\ lock = Nobody
    /\ run = [l \in Launcher |-> Gone]
    /\ done = [cycle |-> 0, time |-> 0]
    /\ settled = [s \in SlotTimes["heartbeat"] |-> 0]
    /\ book = 0
    /\ intent = NoIntent
    /\ bundle = NoBundle
    /\ outcome = "none"
    /\ sessions = [s \in SlotTimes["full"] |-> 0]
    /\ fixes = 0
    /\ byHand = 0

Set(l, r) == run' = [run EXCEPT ![l] = r]
At(l, pc, k) == run[l].pc = pc /\ run[l].kind = k
Goto(l, pc) == Set(l, [run[l] EXCEPT !.pc = pc])

\* The process ends and the kernel drops its lock.
Leave(l) ==
    /\ Set(l, Gone)
    /\ lock' = IF lock = l THEN Nobody ELSE lock

-----------------------------------------------------------------------------
(* A launcher up to its run.                                               *)

\* cron polls with --scheduled: nothing is due, or the first gate check passes.
Poll(l, k) ==
    /\ run[l].pc = "gone"
    /\ Due(k)
    /\ Set(l, [Gone EXCEPT !.pc = "lock", !.kind = k, !.scheduled = TRUE])
    /\ UNCHANGED <<now, claims, lock, desk, outcome, sessions, fixes, byHand>>

\* An operator starts the launcher by hand: no gate.
RunByHand(l, k) ==
    /\ run[l].pc = "gone"
    /\ fixes + byHand < MaxOdd
    /\ byHand' = byHand + 1
    /\ Set(l, [Gone EXCEPT !.pc = "lock", !.kind = k])
    /\ UNCHANGED <<now, claims, lock, desk, outcome, sessions, fixes>>

\* flock -n: another desk task owns the lock, or this one does from now on and
\* checks the gate again.
TakeLock(l) ==
    /\ run[l].pc = "lock"
    /\ IF lock # Nobody \/ (run[l].scheduled /\ ~Due(run[l].kind))
       THEN Set(l, Gone) /\ UNCHANGED lock
       ELSE lock' = l /\ Goto(l, "preflight")
    /\ UNCHANGED <<now, claims, desk, outcome, sessions, fixes, byHand>>

PreflightFails(l) ==
    /\ run[l].pc = "preflight"
    /\ Leave(l)
    /\ UNCHANGED <<now, claims, desk, outcome, sessions, fixes, byHand>>

\* The session starts from the number of the last complete cycle.
Begin(l, slot) ==
    Set(l, [run[l] EXCEPT !.pc = "run", !.slot = slot, !.before = done.cycle])

\* claim_due_slot: the slot due by now, not the one the poll saw.
Claim(l) ==
    LET k == run[l].kind slot == LatestSlot(k) IN
    /\ run[l].pc = "preflight" /\ run[l].scheduled
    /\ Due(k)
    /\ claims' = [claims EXCEPT ![k] = slot]
    /\ sessions' = IF k = "full" THEN [sessions EXCEPT ![slot] = @ + 1] ELSE sessions
    /\ Begin(l, slot)
    /\ UNCHANGED <<now, lock, desk, outcome, fixes, byHand>>

ClaimRefused(l) ==
    /\ run[l].pc = "preflight" /\ run[l].scheduled
    /\ ~Due(run[l].kind)
    /\ Leave(l)
    /\ UNCHANGED <<now, claims, desk, outcome, sessions, fixes, byHand>>

BeginByHand(l) ==
    /\ run[l].pc = "preflight" /\ ~run[l].scheduled
    /\ Begin(l, None)
    /\ UNCHANGED <<now, claims, lock, desk, outcome, sessions, fixes, byHand>>

-----------------------------------------------------------------------------
(* The commands a run calls.                                               *)

\* Replay of the intent on disk: AccountCommit's recovery as one step.
Commit ==
    /\ intent # NoIntent
    /\ intent' = NoIntent
    /\ book' = book + 1
    /\ IF intent.kind = "reconcile"
       THEN done' = [cycle |-> intent.cycle, time |-> intent.time] /\ UNCHANGED settled
       ELSE /\ settled' = IF intent.slot = None THEN settled
                          ELSE [settled EXCEPT ![intent.slot] = @ + 1]
            /\ UNCHANGED done
    /\ UNCHANGED bundle

StageIntent(x) ==
    /\ intent = NoIntent
    /\ book < MaxBook
    /\ intent' = x
    /\ UNCHANGED <<done, settled, book, bundle>>

\* desk_recover.py, run by the agent, by a heartbeat or by hand.
Recover ==
    /\ Commit
    /\ UNCHANGED <<now, claims, lock, run, outcome, sessions, fixes, byHand>>

\* The watchdog admits the first cycle, and a next one whose gap is not early and
\* not negative.
Admitted == done.cycle # 0 => now >= done.time /\ now - done.time >= EarlyGap

PrepareUnchecked(l) ==
    /\ At(l, "run", "full")
    /\ bundle' = [cycle |-> done.cycle + 1, time |-> now, book |-> book]
    /\ UNCHANGED <<now, claims, lock, run, done, settled, book, intent, outcome,
                   sessions, fixes, byHand>>

\* desk_cross_section_prepare.py: seal a decision for the next cycle.
Prepare(l) ==
    /\ At(l, "run", "full")
    /\ Admitted
    /\ bundle' = [cycle |-> done.cycle + 1, time |-> now, book |-> book]
    /\ UNCHANGED <<now, claims, lock, run, done, settled, book, intent, outcome,
                   sessions, fixes, byHand>>

ReconcilableAnyBook ==
    bundle # NoBundle /\ now >= bundle.time /\ now - bundle.time <= MaxAge

\* The sealed decision is fresh and its account has not changed.
Reconcilable ==
    /\ bundle # NoBundle
    /\ now >= bundle.time /\ now - bundle.time <= MaxAge
    /\ bundle.book = book

\* desk_cross_section_reconcile.py up to its staged intent; it recovers first, and
\* stops there when there was something to recover.
Reconcile(l) ==
    /\ At(l, "run", "full")
    /\ Reconcilable
    /\ StageIntent([NoIntent EXCEPT !.kind = "reconcile", !.cycle = bundle.cycle,
                                    !.time = now])
    /\ Set(l, [run[l] EXCEPT !.opened = @ + 1])
    /\ UNCHANGED <<now, claims, lock, outcome, sessions, fixes, byHand>>

\* attest_cycle_outcome, after an agent that exited 0.
Verdict(before) ==
    CASE done.cycle = before + 1 -> "COMPLETED"
      [] done.cycle > before + 1 -> "UNATTESTED_CYCLE_JUMP"
      [] done.cycle # 0 /\ now >= done.time /\ now - done.time < EarlyGap
           -> "EARLY_STAND_DOWN"
      [] OTHER -> "UNATTESTED_EXIT_ZERO"

SessionExits(l) ==
    /\ At(l, "run", "full")
    /\ outcome' = Verdict(run[l].before)
    /\ Leave(l)
    /\ UNCHANGED <<now, claims, desk, sessions, fixes, byHand>>

\* An agent that exits nonzero, a timeout, or a crash of any launcher.
Die(l) ==
    /\ run[l].pc # "gone"
    /\ Leave(l)
    /\ UNCHANGED <<now, claims, desk, outcome, sessions, fixes, byHand>>

-----------------------------------------------------------------------------
(* Heartbeats.                                                             *)

\* desk_heartbeat.py: recovery first, then the slot check, then its own intent.
Settle(l) ==
    /\ At(l, "run", "heartbeat")
    /\ run[l].slot # None => settled[run[l].slot] = 0
    /\ StageIntent([NoIntent EXCEPT !.kind = "heartbeat", !.slot = run[l].slot])
    /\ Goto(l, "publish")
    /\ UNCHANGED <<now, claims, lock, outcome, sessions, fixes, byHand>>

Publish(l) ==
    /\ run[l].pc = "publish"
    /\ intent # NoIntent => Commit
    /\ intent = NoIntent => UNCHANGED desk
    /\ Leave(l)
    /\ UNCHANGED <<now, claims, outcome, sessions, fixes, byHand>>

\* The slot has its completed heartbeat: {"already_complete": true}.
AlreadyComplete(l) ==
    /\ At(l, "run", "heartbeat")
    /\ run[l].slot # None /\ intent = NoIntent /\ settled[run[l].slot] > 0
    /\ Leave(l)
    /\ UNCHANGED <<now, claims, desk, outcome, sessions, fixes, byHand>>

\* The run failed before or after it staged its intent: schedule_gate --release
\* gives back the slot that is the latest one by now.
HeartbeatFails(l) ==
    LET slot == LatestSlot("heartbeat") IN
    /\ run[l].kind = "heartbeat" /\ run[l].pc \in {"run", "publish"}
    /\ claims' = IF run[l].scheduled /\ claims["heartbeat"] = slot /\ InGrace(slot)
                 THEN [claims EXCEPT !["heartbeat"] = None] ELSE claims
    /\ Leave(l)
    /\ UNCHANGED <<now, desk, outcome, sessions, fixes, byHand>>

-----------------------------------------------------------------------------
Running(l) == run[l].pc \in {"run", "publish"}

\* Time passes; no run outlives its timeout by more than the rest of a step.
Tick ==
    /\ now + Step <= Horizon
    /\ \A l \in Launcher : Running(l) => run[l].lasted < MaxRuntime[run[l].kind]
    /\ now' = now + Step
    /\ run' = [l \in Launcher |->
                 IF Running(l) THEN [run[l] EXCEPT !.lasted = @ + Step] ELSE run[l]]
    /\ UNCHANGED <<claims, lock, desk, outcome, sessions, fixes, byHand>>

\* The wall clock was ahead and is set back.
ClockCorrected ==
    /\ fixes + byHand < MaxOdd
    /\ \E t \in {Start + i * Step : i \in 0..((now - Start) \div Step)} :
        t < now /\ now' = t
    /\ fixes' = fixes + 1
    /\ UNCHANGED <<claims, lock, run, desk, outcome, sessions, byHand>>

Run(l) ==
    \/ \E k \in Kind : Poll(l, k) \/ RunByHand(l, k)
    \/ TakeLock(l)
    \/ PreflightFails(l)
    \/ Claim(l)
    \/ ClaimRefused(l)
    \/ BeginByHand(l)
    \/ Prepare(l)
    \/ Reconcile(l)
    \/ SessionExits(l)
    \/ Die(l)
    \/ Settle(l)
    \/ Publish(l)
    \/ AlreadyComplete(l)
    \/ HeartbeatFails(l)

Next == Tick \/ ClockCorrected \/ Recover \/ \E l \in Launcher : Run(l)

Spec == Init /\ [][Next]_vars

-----------------------------------------------------------------------------
(* Properties.                                                             *)

\* Every variable holds what the code can put there.
TypeOK ==
    /\ now \in Time
    /\ DOMAIN claims = Kind /\ \A k \in Kind : claims[k] \in SlotTimes[k] \cup {None}
    /\ lock \in Launcher \cup {Nobody}
    /\ run \in [Launcher -> [pc : {"gone", "lock", "preflight", "run", "publish"},
                             kind : Kind, scheduled : BOOLEAN, slot : Time,
                             before : Book, opened : Book, lasted : Time]]
    /\ done \in [cycle : Book, time : Time]
    /\ settled \in [SlotTimes["heartbeat"] -> Book]
    /\ book \in Book
    /\ intent \in [kind : {"none", "reconcile", "heartbeat"}, cycle : 0..(MaxBook + 1),
                   time : Time, slot : Time]
    /\ bundle \in [cycle : 0..(MaxBook + 1), time : Time, book : Book]
    /\ outcome \in Outcome
    /\ sessions \in [SlotTimes["full"] -> Nat]
    /\ fixes \in 0..MaxOdd
    /\ byHand \in 0..MaxOdd

\* The scheduler starts one agent session for a full slot, however polls overlap,
\* launchers crash and the clock is corrected.
SessionOncePerSlot == \A s \in DOMAIN sessions : sessions[s] <= 1

\* A heartbeat slot is committed once, although a failed run gives its slot back and
\* a clock correction can make an older slot due again.
HeartbeatOncePerSlot == \A s \in DOMAIN settled : settled[s] <= 1

\* A slot is served once.
OncePerSlot == SessionOncePerSlot /\ HeartbeatOncePerSlot

\* A session opens at most one cycle, whatever its agent does.
OneCyclePerSession == \A l \in Launcher : run[l].opened <= 1

\* Completed cycles are numbered without a gap and run at least 18 hours apart, although
\* the cadence is only checked by prepare and the cycle completes in a later command,
\* perhaps after a crash.
CadenceKept ==
    [][done' # done => /\ done'.cycle = done.cycle + 1
                       /\ done.cycle # 0 => done'.time - done.time >= EarlyGap]_vars
=============================================================================
