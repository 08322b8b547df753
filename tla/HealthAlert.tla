----------------------------- MODULE HealthAlert -----------------------------
(***************************************************************************)
(* The health poll: it reads a report and a deduplication cursor, appends  *)
(* an event to the local ledger when the condition is new or due for a     *)
(* reminder, moves the cursor, and runs the operator's hook.  A poll may   *)
(* die between any two writes, the hook may fail, and cursor and ledger    *)
(* may be found corrupt.                                                   *)
(*                                                                         *)
(* A condition is the set of issue codes of a report; it is healthy when   *)
(* the set is empty.  Of the ledger only the last event is kept.           *)
(***************************************************************************)
EXTENDS ProxySupervisor

CONSTANTS
    RemindAfter,  \* --remind-hours
    Horizon       \* bound: the last instant

ASSUME AlertAssumption == Horizon \in Nat

VARIABLES
    now,
    cursor,    \* desk-health-alert-state.json: is it there, and what it says
    ledger,    \* desk-health-alerts.jsonl: is it readable?
    told,      \* the last event in the ledger: its condition and its ts
    heard,     \* the condition the hook last got
    poll,      \* what the poll is doing
    torn       \* did a poll die after its event and before its cursor, untold again since?

avars == <<now, cursor, ledger, told, heard, poll, torn>>

NoPoll == [pc |-> "idle", report |-> {}, at |-> 0, emit |-> FALSE]
Cursor(fingerprint, at, pending) ==
    [file |-> "ok", fingerprint |-> fingerprint, at |-> at, pending |-> pending]
\* A cursor that is not there, or cannot be read, says nothing.
BlankCursor(file) == [file |-> file, fingerprint |-> {}, at |-> 0, pending |-> FALSE]

AlertInit ==
    /\ now = 0
    /\ cursor = BlankCursor("absent")
    /\ ledger = "ok"
    /\ told = [condition |-> {}, at |-> 0]
    /\ heard = {}
    /\ poll = NoPoll
    /\ torn = FALSE

Readable == cursor.file = "ok"
PollGoto(pc) == poll' = [poll EXCEPT !.pc = pc]

\* The report is built; a cursor that cannot be read becomes an issue of its own.
BuildReport(issues) ==
    /\ poll.pc = "idle"
    /\ poll' = [NoPoll EXCEPT !.pc = "decide", !.at = now,
                !.report = issues \cup (IF cursor.file = "corrupt" THEN {"STATE_INVALID"} ELSE {})]
    /\ UNCHANGED <<now, cursor, ledger, told, heard, torn>>

\* Mutant: ages and other details are part of the condition.
FingerprintDetailed(report) == report \cup (IF report = {} THEN {} ELSE {<<now>>})
Fingerprint(report) == report

Recovered   == poll.report = {} /\ Readable /\ cursor.fingerprint # Fingerprint({})
NewCondition == IF Readable THEN cursor.fingerprint # Fingerprint(poll.report) ELSE TRUE
ReminderDue == Readable /\ poll.at - cursor.at >= RemindAfter
Emit        == (poll.report # {} \/ Recovered) /\ (NewCondition \/ ReminderDue)
HookPending == Readable /\ ~NewCondition /\ cursor.pending

\* A duplicate is suppressed unless the hook still has to be run.
Decide ==
    /\ poll.pc = "decide"
    /\ poll' = IF Emit THEN [poll EXCEPT !.pc = "append", !.emit = TRUE]
               ELSE IF HookPending THEN [poll EXCEPT !.pc = "cursor"] ELSE NoPoll
    /\ UNCHANGED <<now, cursor, ledger, told, heard, torn>>

\* Mutant: a malformed ledger ends the poll.
RepairLedgerRaising ==
    /\ poll.pc = "append" /\ ledger = "corrupt"
    /\ poll' = NoPoll
    /\ UNCHANGED <<now, cursor, ledger, told, heard, torn>>

\* A malformed ledger is kept aside, emptied, and reported in the event.
RepairLedger ==
    /\ poll.pc = "append" /\ ledger = "corrupt"
    /\ ledger' = "ok"
    /\ poll' = [poll EXCEPT !.report = @ \cup {"LEDGER_INVALID"}]
    /\ UNCHANGED <<now, cursor, told, heard, torn>>

AppendEvent ==
    /\ poll.pc = "append" /\ ledger = "ok"
    /\ told' = [condition |-> poll.report, at |-> poll.at]
    /\ PollGoto("cursor")
    /\ UNCHANGED <<now, cursor, ledger, heard, torn>>

\* Mutant: the cursor is written as if the hook had already been run.
MoveCursorDelivered ==
    /\ poll.pc = "cursor"
    /\ cursor' = Cursor(Fingerprint(poll.report), IF poll.emit THEN poll.at ELSE cursor.at, FALSE)
    /\ torn' = (torn /\ ~poll.emit)
    /\ PollGoto("hook")
    /\ UNCHANGED <<now, ledger, told, heard>>

\* The cursor says that the hook is pending before the hook is run.
MoveCursor ==
    /\ poll.pc = "cursor"
    /\ cursor' = Cursor(Fingerprint(poll.report), IF poll.emit THEN poll.at ELSE cursor.at, TRUE)
    /\ torn' = (torn /\ ~poll.emit)
    /\ PollGoto("hook")
    /\ UNCHANGED <<now, ledger, told, heard>>

RunHook ==
    /\ poll.pc = "hook"
    /\ heard' = poll.report
    /\ PollGoto("delivered")
    /\ UNCHANGED <<now, cursor, ledger, told, torn>>

Delivered ==
    /\ poll.pc = "delivered"
    /\ cursor' = [cursor EXCEPT !.pending = FALSE]
    /\ poll' = NoPoll
    /\ UNCHANGED <<now, ledger, told, heard, torn>>

\* The hook times out or fails: exit 2, and the cursor stays pending.
HookFails ==
    /\ poll.pc = "hook"
    /\ Fault
    /\ poll' = NoPoll
    /\ UNCHANGED <<now, cursor, ledger, told, heard, torn>>

PollDies ==
    /\ poll.pc # "idle"
    /\ Fault
    /\ poll' = NoPoll
    /\ torn' = (torn \/ (poll.pc = "cursor" /\ poll.emit))
    /\ UNCHANGED <<now, cursor, ledger, told, heard>>

\* A file is damaged between two polls.
CursorDamaged ==
    /\ poll.pc = "idle" /\ Readable
    /\ Fault
    /\ cursor' = BlankCursor("corrupt")
    /\ UNCHANGED <<now, ledger, told, heard, poll, torn>>

LedgerDamaged ==
    /\ poll.pc = "idle" /\ ledger = "ok"
    /\ Fault
    /\ ledger' = "corrupt"
    /\ UNCHANGED <<now, cursor, told, heard, poll, torn>>

Tick ==
    /\ now < Horizon
    /\ now' = now + 1
    /\ UNCHANGED <<cursor, ledger, told, heard, poll, torn>>

PollSteps ==
    \/ Decide
    \/ RepairLedger
    \/ AppendEvent
    \/ MoveCursor
    \/ RunHook
    \/ Delivered

-----------------------------------------------------------------------------
\* The alert's variables keep their types.
Condition == SUBSET {"PROXY_CURRENT_UNHEALTHY", "PROXY_MONITOR_INVALID",
                     "STATE_INVALID", "LEDGER_INVALID"}
AlertTypeOK ==
    /\ now \in 0..Horizon
    /\ cursor \in [file : {"absent", "ok", "corrupt"}, fingerprint : Condition,
                   at : 0..Horizon, pending : BOOLEAN]
    /\ ledger \in {"ok", "corrupt"}
    /\ told \in [condition : Condition, at : 0..Horizon]
    /\ heard \in Condition
    /\ poll \in [pc : {"idle", "decide", "append", "cursor", "hook", "delivered"},
                 report : Condition, at : 0..Horizon, emit : BOOLEAN]
    /\ torn \in BOOLEAN

\* A poll that was neither killed nor refused by its hook ends in this step.
Completes == poll.pc # "idle" /\ poll'.pc = "idle" /\ faults' = faults

\* No condition is silenced by the deduplication: when a poll completes, the last event
\* of the ledger is what it found, whatever died, flapped or was damaged before.  Only when
\* a poll died between its event and its cursor may the next one fall back, untold, to
\* the condition that the cursor still holds.
NothingSilenced ==
    [][Completes => \/ told'.condition = poll.report
                    \/ torn /\ cursor.fingerprint = poll.report]_<<poll, told, faults>>

\* The hook has got what a completed poll found, although the hook may have failed before
\* or a poll died around it.
OperatorHears == [][Completes => heard' = poll.report]_<<poll, heard, faults>>

\* A completed poll has told what it found, in the ledger and to the hook.
PollTells == NothingSilenced /\ OperatorHears

\* One condition of the desk is not told twice within the reminder window, unless a poll
\* died between its event and its cursor.
NoStorm ==
    [][(poll.pc = "append" /\ poll'.pc = "cursor" /\ poll.report = told.condition
        /\ poll.report \cap {"STATE_INVALID", "LEDGER_INVALID"} = {} /\ ~torn)
         => poll.at - told.at >= RemindAfter]_<<poll, told>>
=============================================================================
