------------------------------- MODULE RunLock -------------------------------
(***************************************************************************)
(* The single-flight lock file .run.lock: created exclusively, reclaimed   *)
(* when its lease is over, removed on release.  One action is one system   *)
(* call of one process; a process may die between any two.                 *)
(*                                                                         *)
(* A caller reads the clock once, before its first call, and that instant  *)
(* is both the start it writes and the instant it judges leases by.  The   *)
(* file is created empty and written afterwards.  Calls may overlap and a  *)
(* holder may outlive its lease; robbed is history: it records who lost a  *)
(* lock in one of the windows the code leaves open, and only OneHolder     *)
(* reads it.                                                               *)
(***************************************************************************)
EXTENDS Naturals

CONSTANTS
    Proc,         \* processes that use the lock
    Lease,        \* stale_after_s
    MaxTries,     \* how often a call tries to create the file (8 in the code)
    LastInstant,  \* bound: the last instant
    MaxCrash      \* bound: how many processes die

ASSUME LeaseAssumption ==
    /\ Lease \in Nat \ {0} /\ MaxTries \in Nat \ {0}
    /\ LastInstant \in Nat /\ MaxCrash \in Nat

Instant == 0..LastInstant
Holder == [pid : Proc, start : Instant]

\* No lock file; no parseable holder.
NoFile == [holder |-> {}, written |-> FALSE]
NoOne  == {}

VARIABLES
    file,     \* the lock file: who created it, and whether its payload is in it
    proc,     \* where each process is, its instant, the holders it read, its tries
    instant,  \* the wall clock
    crashes,
    robbed    \* history: whose lock was removed in a window during its present call

lockVars == <<file, proc, instant, crashes, robbed>>

Acquiring == {"create", "write", "read", "compare", "unlink"}
Idle == [pc |-> "idle", start |-> 0, seen |-> NoOne, cur |-> NoOne, tries |-> 0]

Me(p) == [pid |-> p, start |-> proc[p].start]

\* The holder a reader finds: none when the file is absent or still empty.
Content == IF file.written THEN file.holder ELSE NoOne

LockInit ==
    /\ file = NoFile
    /\ proc = [p \in Proc |-> Idle]
    /\ instant = 0
    /\ crashes = 0
    /\ robbed = {}

MoveTo(p, pc) == proc' = [proc EXCEPT ![p].pc = pc]
Call(start, tries) ==
    [pc |-> "create", start |-> start, seen |-> NoOne, cur |-> NoOne, tries |-> tries]
Retry(p) == proc' = [proc EXCEPT ![p] = Call(proc[p].start, proc[p].tries + 1)]
Finish(p) == proc' = [proc EXCEPT ![p] = Idle]

Fresh(start) == start <= instant /\ instant - start < Lease

TryAcquire(p) ==
    /\ proc[p].pc = "idle"
    /\ proc' = [proc EXCEPT ![p] = Call(instant, 0)]
    /\ UNCHANGED <<file, instant, crashes, robbed>>

\* O_CREAT|O_EXCL: exactly one creator.
CreateExcl(p) ==
    /\ proc[p].pc = "create" /\ proc[p].tries < MaxTries
    /\ IF file = NoFile
       THEN file' = [holder |-> {Me(p)}, written |-> FALSE] /\ MoveTo(p, "write")
       ELSE UNCHANGED file /\ MoveTo(p, "read")
    /\ UNCHANGED <<instant, crashes, robbed>>

\* The payload goes to the file p created, which may have lost its name since.
WritePayload(p) ==
    /\ proc[p].pc = "write"
    /\ file' = IF file.holder = {Me(p)} THEN [file EXCEPT !.written = TRUE] ELSE file
    /\ MoveTo(p, "held")
    /\ UNCHANGED <<instant, crashes, robbed>>

IsStaleParsed(holder, t) ==
    \E h \in holder : t < h.start \/ t - h.start >= Lease

\* Unparseable, stamped in the future, or past its lease.
IsStale(holder, t) ==
    holder = NoOne \/ \E h \in holder : t < h.start \/ t - h.start >= Lease

\* The lock exists: a live holder denies the call, a stale one is looked at again.
ReadHolder(p) ==
    /\ proc[p].pc = "read"
    /\ IF IsStale(Content, proc[p].start)
       THEN /\ proc' = [proc EXCEPT ![p].seen = Content, ![p].pc = "compare"]
            /\ UNCHANGED robbed
       ELSE Finish(p) /\ robbed' = robbed \ {p}
    /\ UNCHANGED <<file, instant, crashes>>

CompareBlind(p) ==
    /\ proc[p].pc = "compare"
    /\ proc' = [proc EXCEPT ![p].cur = Content, ![p].pc = "unlink"]
    /\ UNCHANGED <<file, instant, crashes, robbed>>

\* _unlink_if_same reads once more: another holder's lock is not removed.
Compare(p) ==
    /\ proc[p].pc = "compare"
    /\ IF Content # NoOne /\ proc[p].seen # NoOne /\ Content # proc[p].seen
       THEN Retry(p)
       ELSE proc' = [proc EXCEPT ![p].cur = Content, ![p].pc = "unlink"]
    /\ UNCHANGED <<file, instant, crashes, robbed>>

\* The windows in which a removal may take a live lock: p had found the file still empty,
\* the file is another than p's second read saw, or its holder started after p read the
\* clock, which the code takes for a corrupt stamp.
UnlinkWindow(p) ==
    \/ proc[p].seen = NoOne
    \/ proc[p].cur # file.holder
    \/ proc[p].seen = file.holder /\ \E h \in file.holder : proc[p].start < h.start

\* A releaser that no longer owns the file removes whatever is there.
ReleaseWindow(p) == ~Fresh(proc[p].start) \/ p \in robbed

\* The process that created the file, when it still needs it.
Creator == {q \in Proc : file.holder = {Me(q)} /\ proc[q].pc \in {"write", "held"}}

Unlink(p) ==
    /\ proc[p].pc = "unlink"
    /\ file' = NoFile
    /\ Retry(p)
    /\ robbed' = IF UnlinkWindow(p) THEN robbed \cup Creator ELSE robbed
    /\ UNCHANGED <<instant, crashes>>

GaveUp(p) ==
    /\ proc[p].pc = "create" /\ proc[p].tries = MaxTries
    /\ Finish(p)
    /\ robbed' = robbed \ {p}
    /\ UNCHANGED <<file, instant, crashes>>

\* Whatever lock is there is removed.
Release(p) ==
    /\ proc[p].pc = "held"
    /\ file' = NoFile
    /\ Finish(p)
    /\ robbed' = (IF ReleaseWindow(p) THEN robbed \cup Creator ELSE robbed) \ {p}
    /\ UNCHANGED <<instant, crashes>>

Crash(p) ==
    /\ proc[p].pc # "idle" /\ crashes < MaxCrash
    /\ crashes' = crashes + 1
    /\ Finish(p)
    /\ robbed' = robbed \ {p}
    /\ UNCHANGED <<file, instant>>

ClockTick ==
    /\ instant < LastInstant
    /\ instant' = instant + 1
    /\ UNCHANGED <<file, proc, crashes, robbed>>

CallStep(p) ==
    \/ CreateExcl(p)
    \/ WritePayload(p)
    \/ ReadHolder(p)
    \/ Compare(p)
    \/ Unlink(p)
    \/ GaveUp(p)
    \/ Release(p)

LockNext == ClockTick \/ \E p \in Proc : TryAcquire(p) \/ CallStep(p) \/ Crash(p)

LockSpec == LockInit /\ [][LockNext]_lockVars

\* Live processes go on, cadences keep calling, time passes.
FairLockSpec ==
    /\ LockSpec
    /\ WF_lockVars(ClockTick)
    /\ \A p \in Proc : WF_lockVars(CallStep(p)) /\ WF_lockVars(TryAcquire(p))

-----------------------------------------------------------------------------
\* Every variable holds what the code can put there.
LockTypeOK ==
    /\ file \in [holder : {{}} \cup {{h} : h \in Holder}, written : BOOLEAN]
    /\ proc \in [Proc -> [pc : Acquiring \cup {"idle", "held"}, start : Instant,
                          seen : {{}} \cup {{h} : h \in Holder},
                          cur : {{}} \cup {{h} : h \in Holder}, tries : 0..MaxTries]]
    /\ instant \in Instant
    /\ crashes \in 0..MaxCrash
    /\ robbed \in SUBSET Proc

\* "Exactly one process wins": however calls overlap, die, retry or outlive their lease,
\* two processes hold the lock inside their leases only if one of them lost its file in a
\* window: to a reclaimer that had read it empty, that had read another before it, or whose
\* clock was read before the holder's, or to a releaser that no longer owned the file.
OneHolder ==
    \A p, q \in Proc :
        /\ proc[p].pc = "held" /\ Fresh(proc[p].start) /\ p \notin robbed
        /\ proc[q].pc = "held" /\ Fresh(proc[q].start) /\ q \notin robbed
        => p = q

\* "A crash can never wedge the desk": a lock whose creator is gone is removed.
NeverWedged ==
    \A q \in Proc, t \in 0..(LastInstant - Lease) :
        (file.holder = {[pid |-> q, start |-> t]}
            /\ (proc[q].pc \notin {"write", "held"} \/ proc[q].start # t))
        ~> file.holder # {[pid |-> q, start |-> t]}
=============================================================================
