-------------------------- MODULE Operations_proofs --------------------------
(***************************************************************************)
(* Proofs about the proxy manager, and about the health poll beside it,    *)
(* for every set of process ids, number of callers and faults, reminder    *)
(* window and horizon.  The manager's theorems are about its own           *)
(* specification; the poll's are about the composition, where the          *)
(* manager's invariant holds too and is what its report is made of.        *)
(***************************************************************************)
EXTENDS Operations, FiniteSetTheorems, TLAPS

-----------------------------------------------------------------------------
(* The proxy manager.                                                      *)

Locked == {"http", "owners", "term", "grace", "start"}

CallRecord == [pc : {"idle", "lock"} \cup Locked, probe : 0..(Probes - 1),
               http : BOOLEAN, old : SUBSET Pid, child : Pid \cup {None}]

\* The proxies that nobody told to stop.
Unsignalled == {p \in Managed : procs[p].signal = "none"}

\* The start lock is held exactly by the call that probes, stops and starts.
LockInv == \A c \in Caller : call[c].pc \in Locked <=> owner = c

\* A call that waits for its child waits in the probes.
ChildInv == \A c \in Caller : call[c].child # None => call[c].pc \in {"http", "owners"}

\* What the lock's holder knows of the proxies it stops.
StopInv == \A c \in Caller :
    /\ call[c].pc = "term" => Managed \subseteq call[c].old
    /\ call[c].pc \in {"grace", "start"} => Unsignalled = {}

AtMostOne == \A p, q \in Unsignalled : p = q

ControlInv == TypeOK /\ LockInv /\ ChildInv

\* The inductive invariant of the supervisor.
SupervisorInv == OnlyProxySignalled /\ StopInv /\ AtMostOne

\* Nothing but a Start adds a proxy, and no step takes a signal back.
Wanes == Managed' \subseteq Managed /\ Unsignalled' \subseteq Unsignalled

-----------------------------------------------------------------------------
\* A call that is not running is a call record.
LEMMA NoCallTyped == NoCall \in CallRecord /\ NoCall.pc = "idle" /\ NoCall.child = None
  BY DEF NoCall, CallRecord, Probes

\* A desk without a proxy and without a caller.
LEMMA ControlInit == Init => ControlInv /\ SupervisorInv
<1> SUFFICES ASSUME Init PROVE ControlInv /\ SupervisorInv
  OBVIOUS
<1> USE SupervisorAssumption
<1>1. NoProcess \in Process /\ NoProcess.kind = "none"
  BY DEF NoProcess, Process
<1>2. TypeOK
  BY <1>1, NoCallTyped DEF Init, TypeOK, CallRecord, Locked
<1>3. LockInv /\ ChildInv
  BY NoCallTyped DEF Init, LockInv, ChildInv, Locked
<1>4. Managed = {}
  BY <1>1 DEF Init, Managed
<1>5. OnlyProxySignalled
  BY <1>1 DEF Init, OnlyProxySignalled
<1>6. StopInv /\ AtMostOne
  BY <1>4, NoCallTyped DEF Init, StopInv, AtMostOne, Unsignalled
<1> QED BY <1>2, <1>3, <1>5, <1>6 DEF ControlInv, SupervisorInv

-----------------------------------------------------------------------------
\* A step of call c that leaves it in record r, with or without the lock.
CallMoves(c, r) ==
    /\ r \in CallRecord
    /\ call' = [call EXCEPT ![c] = r]
    /\ r.child # None => r.pc \in {"http", "owners"}
    /\ owner' \in {owner, None, c}
    /\ owner' = c <=> r.pc \in Locked
    /\ owner' # owner => owner \in {c, None}

\* Control holds after a step of one call, whatever becomes of the processes.
LEMMA ControlMoves ==
  ASSUME ControlInv, NEW c \in Caller, NEW r, CallMoves(c, r),
         procs' \in [Pid -> Process], faults' \in 0..MaxFaults,
         monitor' \in {"missing", "HEALTHY", "UNHEALTHY"}
  PROVE  ControlInv'
<1>1. TypeOK'
  BY DEF ControlInv, TypeOK, CallMoves, CallRecord, Locked
<1>2. \A d \in Caller : call'[d] = IF d = c THEN r ELSE call[d]
  BY DEF ControlInv, TypeOK, CallMoves
<1>3. LockInv'
  BY <1>2, SupervisorAssumption DEF ControlInv, LockInv, CallMoves
<1>4. ChildInv'
  BY <1>2 DEF ControlInv, ChildInv, CallMoves
<1> QED BY <1>1, <1>3, <1>4 DEF ControlInv

\* Signalling and ending keep the process table a process table.
LEMMA SignalTyped ==
  ASSUME TypeOK, NEW pids, NEW sig \in {"term", "kill"}, Signal(pids, sig)
  PROVE  /\ procs' \in [Pid -> Process]
         /\ \A p \in Pid : procs'[p].kind = procs[p].kind
         /\ \A p \in Pid : p \in pids => procs'[p].signal # "none"
         /\ \A p \in Pid : procs'[p].signal = procs[p].signal \/ p \in pids
         /\ \A p \in Pid : procs'[p].signal # procs[p].signal => procs'[p].signal = sig
<1>1. ASSUME NEW p \in Pid
      PROVE  /\ procs[p] \in Process
             /\ procs'[p] = IF p \in pids /\ procs[p].signal # "kill"
                            THEN [procs[p] EXCEPT !.signal = sig] ELSE procs[p]
  BY DEF TypeOK, Signal
<1>2. procs' \in [Pid -> Process]
  BY <1>1 DEF Signal, Process
<1> QED BY <1>1, <1>2 DEF Process

\* One process record changes.
LEMMA BecomeTyped ==
  ASSUME TypeOK, NEW p \in Pid, NEW r \in Process, Become(p, r)
  PROVE  /\ procs' \in [Pid -> Process]
         /\ \A q \in Pid : procs'[q] = IF q = p THEN r ELSE procs[q]
  BY DEF TypeOK, Become

\* A call that leaves gives up the lock if it has it.
LEMMA LeaveMoves ==
  ASSUME ControlInv, NEW c \in Caller, Leave(c)
  PROVE  CallMoves(c, NoCall)
  BY NoCallTyped, SupervisorAssumption DEF Leave, CallMoves, Locked, ControlInv, TypeOK

\* The lock's holder moves on under the lock.
LEMMA HolderMoves ==
  ASSUME ControlInv, NEW c \in Caller, NEW r \in CallRecord,
         call[c].pc \in Locked, r.pc \in Locked, owner' = owner,
         call' = [call EXCEPT ![c] = r], r.child # None => r.pc \in {"http", "owners"}
  PROVE  CallMoves(c, r)
  BY DEF CallMoves, ControlInv, LockInv

\* The record a probe leaves: a next snapshot, or the proxies to be stopped.
NextProbe(c) ==
    IF call[c].probe + 1 < Probes
    THEN [call[c] EXCEPT !.pc = "http", !.probe = @ + 1]
    ELSE [call[c] EXCEPT !.pc = "term", !.old = Managed]

\* It is a record of a call that holds the lock.
LEMMA NextProbeTyped ==
  ASSUME ControlInv, NEW c \in Caller
  PROVE  /\ NextProbe(c) \in CallRecord
         /\ NextProbe(c).pc \in {"http", "term"}
         /\ NextProbe(c).child = call[c].child
         /\ NextProbe(c).pc = "term" => NextProbe(c).old = Managed
<1>1. call[c] \in CallRecord
  BY DEF ControlInv, TypeOK, CallRecord, Locked
<1>2. Managed \in SUBSET Pid
  BY DEF Managed
<1>3. CASE call[c].probe + 1 < Probes
  <2>1. call[c].probe \in 0..(Probes - 1)
    BY <1>1 DEF CallRecord
  <2>2. call[c].probe + 1 \in 0..(Probes - 1)
    BY <2>1, <1>3 DEF Probes
  <2>3. NextProbe(c) = [call[c] EXCEPT !.pc = "http", !.probe = call[c].probe + 1]
    BY <1>3 DEF NextProbe
  <2> QED BY <1>1, <2>2, <2>3 DEF CallRecord, Locked
<1>4. CASE ~(call[c].probe + 1 < Probes)
  BY <1>1, <1>2, <1>4 DEF NextProbe, CallRecord, Locked
<1> QED BY <1>3, <1>4

-----------------------------------------------------------------------------
\* The calls: which record a step of one call leaves.
Result(c, r) ==
    /\ CallMoves(c, r)
    /\ procs' \in [Pid -> Process]
    /\ faults' \in 0..MaxFaults
    /\ monitor' \in {"missing", "HEALTHY", "UNHEALTHY"}
    /\ \A p \in Pid : procs[p].kind = "other" => procs'[p] = procs[p]
    /\ r.pc = "term" => Managed' \subseteq r.old
    /\ r.pc \in {"grace", "start"} => Unsignalled' = {}
    /\ Wanes \/ (call[c].pc = "start" /\ AtMostOne')
    /\ \A p \in Pid : procs'[p].kind = "other" => procs[p].kind = "other"

\* Probing: the process table stays as it is.
LEMMA ProbeSteps ==
  ASSUME ControlInv, SupervisorInv, NEW c \in Caller,
         \/ Ensure(c) \/ Lock(c) \/ ProbeHttp(c) \/ ProbeOwners(c) \/ Stopped(c)
         \/ AwaitChild(c) \/ CallerDies(c)
  PROVE  \E r : Result(c, r)
<1> USE SupervisorAssumption
<1>1. call[c] \in CallRecord /\ owner \in Caller \cup {None} /\ faults \in 0..MaxFaults
  BY DEF ControlInv, TypeOK, CallRecord, Locked
<1>2. procs' = procs /\ Managed' = Managed /\ Unsignalled' = Unsignalled
  BY DEF Ensure, Lock, ProbeHttp, ProbeOwners, Stopped, AwaitChild, CallerDies,
         Managed, Unsignalled
<1>3. faults' \in 0..MaxFaults
  BY <1>1 DEF Ensure, Lock, ProbeHttp, ProbeOwners, Stopped, AwaitChild, CallerDies, Fault
<1>4. monitor' \in {"missing", "HEALTHY", "UNHEALTHY"}
  BY DEF Ensure, Lock, ProbeHttp, ProbeOwners, Stopped, AwaitChild, CallerDies, Report,
         ControlInv, TypeOK
<1>5. ASSUME NEW r, CallMoves(c, r), r.pc = "term" => r.old = Managed,
             r.pc \in {"grace", "start"} => Unsignalled = {}
      PROVE  Result(c, r)
  BY <1>2, <1>3, <1>4, <1>5 DEF Result, Wanes, ControlInv, TypeOK
<1>6. CASE Leave(c)
  BY <1>5, <1>6, LeaveMoves, NoCallTyped
<1>7. CASE Ensure(c)
  <2> DEFINE r == [call[c] EXCEPT !.pc = "lock"]
  <2>1. r \in CallRecord /\ r.pc = "lock" /\ r.child = None /\ owner # c
    BY <1>1, <1>7 DEF Ensure, CallRecord, ControlInv, ChildInv, LockInv, Locked
  <2>2. CallMoves(c, r)
    BY <2>1, <1>1, <1>7 DEF Ensure, Goto, CallMoves, Locked
  <2> QED BY <2>1, <2>2, <1>5
<1>8. CASE Lock(c)
  <2> DEFINE r == [call[c] EXCEPT !.pc = "http"]
  <2>1. r \in CallRecord /\ r.pc = "http"
    BY <1>1 DEF CallRecord, Locked
  <2>2. CallMoves(c, r)
    BY <2>1, <1>1, <1>8 DEF Lock, Goto, CallMoves, Locked
  <2> QED BY <2>1, <2>2, <1>5
<1>9. CASE ProbeHttp(c)
  <2> DEFINE r == [call[c] EXCEPT !.pc = "owners", !.http = Healthy]
  <2>1. r \in CallRecord /\ r.pc = "owners"
    BY <1>1 DEF CallRecord, Locked, Healthy
  <2>2. CallMoves(c, r)
    BY <2>1, <1>9, HolderMoves DEF ProbeHttp, Locked
  <2> QED BY <2>1, <2>2, <1>5
<1>10. CASE ProbeOwners(c) /\ ~Leave(c)
  <2>1. call[c].pc = "owners" /\ call[c].child = None /\ owner' = owner
        /\ call' = [call EXCEPT ![c] = NextProbe(c)]
    BY <1>10 DEF ProbeOwners, NextProbe, Report
  <2>2. CallMoves(c, NextProbe(c))
    BY <2>1, NextProbeTyped, HolderMoves DEF Locked
  <2> QED BY <2>2, <1>5, NextProbeTyped
<1>11. CASE Stopped(c)
  <2> DEFINE r == [call[c] EXCEPT !.pc = "start"]
  <2>1. r \in CallRecord /\ r.pc = "start" /\ r.child = None
    BY <1>1, <1>11 DEF Stopped, CallRecord, Locked, ControlInv, ChildInv
  <2>2. CallMoves(c, r)
    BY <2>1, <1>11, HolderMoves DEF Stopped, Goto, Locked
  <2>3. Unsignalled = {}
    BY <1>11 DEF Stopped, SupervisorInv, StopInv
  <2> QED BY <2>1, <2>2, <2>3, <1>5
<1>12. CASE AwaitChild(c) /\ ~Leave(c)
  <2> DEFINE r == [call[c] EXCEPT !.pc = "http"]
  <2>1. r \in CallRecord /\ r.pc = "http"
    BY <1>1 DEF CallRecord, Locked
  <2>2. CallMoves(c, r)
    BY <2>1, <1>12, HolderMoves DEF AwaitChild, Report, Goto, Locked
  <2> QED BY <2>1, <2>2, <1>5
<1> QED
  BY <1>6, <1>7, <1>8, <1>9, <1>10, <1>11, <1>12 DEF CallerDies

\* Stopping and starting: the only steps of a call that change the process table.
LEMMA StopSteps ==
  ASSUME ControlInv, SupervisorInv, NEW c \in Caller,
         Stop(c) \/ Kill(c) \/ Start(c) \/ StartTimeout(c)
  PROVE  \E r : Result(c, r)
<1> USE SupervisorAssumption
<1>1. call[c] \in CallRecord /\ owner \in Caller \cup {None} /\ faults \in 0..MaxFaults
      /\ monitor \in {"missing", "HEALTHY", "UNHEALTHY"} /\ procs \in [Pid -> Process]
  BY DEF ControlInv, TypeOK, CallRecord, Locked
<1>2. ASSUME NEW old, NEW sig \in {"term", "kill"}, Signal(StillThere(old), sig)
      PROVE  /\ procs' \in [Pid -> Process]
             /\ \A p \in Pid : procs[p].kind = "other" => procs'[p] = procs[p]
             /\ \A p \in Pid : procs'[p].kind = procs[p].kind
             /\ Managed' = Managed /\ Wanes
             /\ Unsignalled' \cap old = {}
  <2>1. /\ procs' \in [Pid -> Process]
        /\ \A p \in Pid : procs'[p].kind = procs[p].kind
        /\ \A p \in Pid : p \in StillThere(old) => procs'[p].signal # "none"
        /\ \A p \in Pid : procs'[p].signal # procs[p].signal => procs'[p].signal = sig
    BY <1>2, SignalTyped DEF ControlInv
  <2>2. Managed' = Managed
    BY <2>1 DEF Managed
  <2>3. \A p \in Pid : procs[p].kind = "other" => procs'[p] = procs[p]
    BY <1>2 DEF StillThere, Signal
  <2>4. Unsignalled' \subseteq Unsignalled
    BY <2>1, <2>2 DEF Unsignalled, Managed
  <2>5. Unsignalled' \cap old = {}
    BY <2>1, <2>2 DEF Unsignalled, Managed, StillThere
  <2> QED BY <2>1, <2>2, <2>3, <2>4, <2>5 DEF Wanes
<1>3. CASE Stop(c)
  <2> DEFINE r == [call[c] EXCEPT !.pc = "grace"]
  <2>1. r \in CallRecord /\ r.pc = "grace" /\ r.child = None
    BY <1>1, <1>3 DEF Stop, CallRecord, Locked, ControlInv, ChildInv
  <2>2. CallMoves(c, r)
    BY <2>1, <1>3, HolderMoves DEF Stop, Goto, Locked
  <2>3. Unsignalled' \subseteq call[c].old
    BY <1>2, <1>3 DEF Stop, SupervisorInv, StopInv, Unsignalled
  <2>4. Unsignalled' = {}
    BY <2>3, <1>2, <1>3 DEF Stop
  <2> QED BY <2>1, <2>2, <2>4, <1>1, <1>2, <1>3 DEF Stop, Result
<1>4. CASE Kill(c)
  <2> DEFINE r == [call[c] EXCEPT !.pc = "start"]
  <2>1. r \in CallRecord /\ r.pc = "start" /\ r.child = None
    BY <1>1, <1>4 DEF Kill, CallRecord, Locked, ControlInv, ChildInv
  <2>2. CallMoves(c, r)
    BY <2>1, <1>4, HolderMoves DEF Kill, Goto, Locked
  <2>3. Unsignalled' = {}
    BY <1>2, <1>4 DEF Kill, SupervisorInv, StopInv, Wanes
  <2> QED BY <2>1, <2>2, <2>3, <1>1, <1>2, <1>4 DEF Kill, Result
<1>5. CASE StartTimeout(c)
  <2>1. CallMoves(c, NoCall)
    BY <1>5, LeaveMoves DEF StartTimeout, Report
  <2>2. faults' \in 0..MaxFaults /\ monitor' \in {"missing", "HEALTHY", "UNHEALTHY"}
    BY <1>1, <1>5 DEF StartTimeout, Fault, Report
  <2> QED BY <2>1, <2>2, <1>2, <1>5, NoCallTyped DEF StartTimeout, Result
<1>6. CASE Start(c)
  <2>1. PICK p \in Free :
          /\ procs' = [procs EXCEPT ![p] = [NoProcess EXCEPT !.kind = "proxy", !.at = "starting"]]
          /\ call' = [call EXCEPT ![c] = [NoCall EXCEPT !.pc = "http", !.child = p]]
    BY <1>6 DEF Start
  <2> DEFINE r == [NoCall EXCEPT !.pc = "http", !.child = p]
             new == [NoProcess EXCEPT !.kind = "proxy", !.at = "starting"]
  <2>2. p \in Pid /\ procs[p].kind = "none"
    BY DEF Free
  <2>3. new \in Process /\ new.kind = "proxy"
    BY DEF NoProcess, Process
  <2>4. \A q \in Pid : procs'[q] = IF q = p THEN new ELSE procs[q]
    BY <1>1, <2>1
  <2>5. procs' \in [Pid -> Process]
    BY <1>1, <2>1, <2>2, <2>3
  <2>6. r \in CallRecord /\ r.pc = "http"
    BY <2>2, NoCallTyped DEF CallRecord, Locked
  <2>7. CallMoves(c, r)
    BY <2>1, <2>6, <1>6, HolderMoves DEF Start, Locked
  <2>8. AtMostOne'
    <3>1. Unsignalled = {}
      BY <1>6 DEF Start, SupervisorInv, StopInv
    <3>2. Unsignalled' \subseteq {p}
      BY <3>1, <2>4 DEF Unsignalled, Managed
    <3> QED BY <3>2 DEF AtMostOne
  <2>9. \A q \in Pid : procs[q].kind = "other" => procs'[q] = procs[q]
    BY <2>2, <2>4
  <2>10. \A q \in Pid : procs'[q].kind = "other" => procs[q].kind = "other"
    BY <2>3, <2>4
  <2> QED
    BY <2>5, <2>6, <2>7, <2>8, <2>9, <2>10, <1>1, <1>6 DEF Start, Result
<1> QED BY <1>3, <1>4, <1>5, <1>6

\* Every step of a call leaves one record, with what the others may rely on.
LEMMA CallSteps ==
  ASSUME ControlInv, SupervisorInv, NEW c \in Caller,
         Ensure(c) \/ Manage(c) \/ StartTimeout(c) \/ CallerDies(c)
  PROVE  \E r : Result(c, r)
  BY ProbeSteps, StopSteps DEF Manage

\* The invariant survives a step of a call.
LEMMA CallKeeps ==
  ASSUME ControlInv, SupervisorInv, NEW c \in Caller, NEW r, Result(c, r)
  PROVE  ControlInv' /\ SupervisorInv'
<1>1. ControlInv'
  BY ControlMoves DEF Result
<1>2. \A d \in Caller : call'[d] = IF d = c THEN r ELSE call[d]
  BY DEF Result, CallMoves, ControlInv, TypeOK
<1>3. OnlyProxySignalled'
  BY DEF Result, SupervisorInv, OnlyProxySignalled
<1>4. StopInv'
  <2> SUFFICES ASSUME NEW d \in Caller
               PROVE  /\ call'[d].pc = "term" => Managed' \subseteq call'[d].old
                      /\ call'[d].pc \in {"grace", "start"} => Unsignalled' = {}
    BY DEF StopInv
  <2>1. CASE d = c
    BY <2>1, <1>2 DEF Result
  <2>2. CASE d # c /\ Wanes
    BY <2>2, <1>2 DEF SupervisorInv, StopInv, Wanes
  <2>3. CASE d # c /\ call[c].pc = "start"
    BY <2>3, <1>2 DEF ControlInv, LockInv, Locked
  <2> QED BY <2>1, <2>2, <2>3 DEF Result
<1>5. AtMostOne'
  BY DEF Result, Wanes, AtMostOne, SupervisorInv
<1> QED BY <1>1, <1>3, <1>4, <1>5 DEF SupervisorInv

\* The invariant survives whatever the processes do on their own.
LEMMA ProcessKeeps ==
  ASSUME ControlInv, SupervisorInv, NEW p \in Pid,
         Run(p) \/ Hang(p) \/ Crash(p) \/ OtherProgram(p) \/ OtherEnds(p)
  PROVE  ControlInv' /\ SupervisorInv'
<1>1. /\ procs \in [Pid -> Process] /\ procs[p] \in Process /\ NoProcess \in Process
      /\ faults \in 0..MaxFaults /\ NoProcess.kind = "none"
  BY DEF ControlInv, TypeOK, NoProcess, Process
<1>2. \E r \in Process : /\ Become(p, r)
                         /\ r.kind = "proxy" => procs[p].kind = "proxy" /\ r.signal = procs[p].signal
                         /\ r.kind = "other" => r.signal = "none"
  <2>1. CASE Ends(p)
    BY <2>1, <1>1 DEF Ends
  <2>2. CASE Bind(p) /\ ~Ends(p)
    <3> DEFINE r == [procs[p] EXCEPT !.at = "serving"]
    <3>1. r \in Process /\ r.kind = "proxy" /\ r.signal = procs[p].signal /\ Become(p, r)
      BY <2>2, <1>1 DEF Bind, Process
    <3> QED BY <3>1, <2>2 DEF Bind
  <2>3. CASE Hang(p)
    <3> DEFINE r == [procs[p] EXCEPT !.at = "hung"]
    <3>1. r \in Process /\ r.kind = "proxy" /\ r.signal = procs[p].signal /\ Become(p, r)
      BY <2>3, <1>1 DEF Hang, Process
    <3> QED BY <3>1, <2>3 DEF Hang
  <2>4. CASE OtherProgram(p)
    <3>1. PICK at \in {"starting", "serving"} :
             Become(p, [NoProcess EXCEPT !.kind = "other", !.at = at])
      BY <2>4 DEF OtherProgram
    <3> DEFINE r == [NoProcess EXCEPT !.kind = "other", !.at = at]
    <3>2. r \in Process /\ r.kind = "other" /\ r.signal = "none"
      BY DEF NoProcess, Process
    <3> QED BY <3>1, <3>2
  <2> QED
    BY <2>1, <2>2, <2>3, <2>4 DEF Run, Exit, Crash, OtherEnds
<1>3. PICK r \in Process :
         /\ Become(p, r)
         /\ r.kind = "proxy" => procs[p].kind = "proxy" /\ r.signal = procs[p].signal
         /\ r.kind = "other" => r.signal = "none"
  BY <1>2
<1>4. \A q \in Pid : procs'[q] = IF q = p THEN r ELSE procs[q]
  BY <1>1, <1>3 DEF Become
<1>5. Wanes
  BY <1>3, <1>4 DEF Wanes, Managed, Unsignalled
<1>6. UNCHANGED <<monitor, owner, call>> /\ faults' \in 0..MaxFaults
  <2>1. UNCHANGED <<monitor, owner, call>> /\ (faults' = faults \/ Fault)
    BY DEF Run, Bind, Exit, Hang, Crash, OtherProgram, OtherEnds
  <2>2. Fault => faults' \in 0..MaxFaults
    BY <1>1, SupervisorAssumption DEF Fault
  <2> QED BY <1>1, <2>1, <2>2
<1>7. ControlInv'
  BY <1>1, <1>3, <1>6 DEF Become, ControlInv, TypeOK, LockInv, ChildInv
<1>8. SupervisorInv'
  <2>1. OnlyProxySignalled'
    BY <1>3, <1>4 DEF SupervisorInv, OnlyProxySignalled
  <2>2. StopInv' /\ AtMostOne'
    BY <1>5, <1>6 DEF Wanes, SupervisorInv, StopInv, AtMostOne
  <2> QED BY <2>1, <2>2 DEF SupervisorInv
<1> QED BY <1>7, <1>8

\* The supervisor's invariant holds in every reachable state: a call that is about to
\* start a proxy has told every one before it to stop.
THEOREM SupervisorSafe == Spec => [](ControlInv /\ SupervisorInv)
<1>1. ControlInv /\ SupervisorInv /\ [Next]_<<pvars, faults>>
        => (ControlInv /\ SupervisorInv)'
  <2> SUFFICES ASSUME ControlInv, SupervisorInv, [Next]_<<pvars, faults>>
               PROVE  (ControlInv /\ SupervisorInv)'
    OBVIOUS
  <2>1. CASE \E c \in Caller :
               Ensure(c) \/ Manage(c) \/ StartTimeout(c) \/ CallerDies(c)
    BY <2>1, CallSteps, CallKeeps
  <2>2. CASE \E p \in Pid : Run(p) \/ Hang(p) \/ Crash(p) \/ OtherProgram(p) \/ OtherEnds(p)
    BY <2>2, ProcessKeeps
  <2>3. CASE UNCHANGED <<pvars, faults>>
    BY <2>3
    DEF pvars, ControlInv, SupervisorInv, TypeOK, LockInv, ChildInv, OnlyProxySignalled,
        StopInv, AtMostOne, Managed, Unsignalled
  <2> QED BY <2>1, <2>2, <2>3 DEF Next
<1> QED BY <1>1, ControlInit, PTL DEF Spec

\* TypeOK: every variable holds what the manager and the processes can put there.
THEOREM TypeCorrect == Spec => []TypeOK
<1>1. ControlInv => TypeOK
  BY DEF ControlInv
<1> QED BY <1>1, SupervisorSafe, PTL

\* OnlyProxySignalled: the identity check right before each signal keeps it from every
\* other program, whoever got the pid in the meantime.
THEOREM StrangersSpared == Spec => []OnlyProxySignalled
<1>1. SupervisorInv => OnlyProxySignalled
  BY DEF SupervisorInv
<1> QED BY <1>1, SupervisorSafe, PTL

\* NoPileUp: at most one proxy runs that was not told to stop, for any number of callers
\* that die at any point.
THEOREM OneProxy == Spec => []NoPileUp
<1>1. SupervisorInv => NoPileUp
  <2> SUFFICES ASSUME AtMostOne PROVE Cardinality(Unsignalled) <= 1
    BY DEF SupervisorInv, NoPileUp, Unsignalled
  <2>1. CASE Unsignalled = {}
    BY <2>1, FS_EmptySet
  <2>2. CASE Unsignalled # {}
    <3>1. PICK p : p \in Unsignalled
      BY <2>2
    <3>2. Unsignalled = {p}
      BY <3>1 DEF AtMostOne
    <3>3. Cardinality({p}) = 1
      BY FS_Singleton
    <3> QED BY <3>2, <3>3
  <2> QED BY <2>1, <2>2
<1> QED BY <1>1, SupervisorSafe, PTL

-----------------------------------------------------------------------------
(* The health poll: what the deduplication cursor and the ledger keep of   *)
(* each other when polls die, hooks fail and files are damaged.            *)

\* The cursor is about to be moved to an event that the ledger already has.
Announcing == poll.pc = "cursor" /\ poll.emit

\* What a poll knows at each of its steps.
DecideInv ==
    poll.pc \in {"decide", "append"} /\ cursor.file = "corrupt"
        => "STATE_INVALID" \in poll.report
AppendInv ==
    poll.pc = "append" => poll.emit /\ (Emit \/ "LEDGER_INVALID" \in poll.report)
CursorInv ==
    /\ poll.pc = "decide" => ~poll.emit
    /\ Announcing => told = [condition |-> poll.report, at |-> poll.at]
    /\ poll.pc = "cursor" /\ ~poll.emit => Readable /\ cursor.fingerprint = poll.report
HookInv ==
    /\ poll.pc \in {"hook", "delivered"}
         => Readable /\ cursor.fingerprint = poll.report /\ cursor.pending
    /\ poll.pc = "delivered" => heard = poll.report

\* A cursor that cannot be read says nothing.
BlankInv == ~Readable => cursor.fingerprint = {}

\* Ledger and cursor tell the same last event, unless a poll is, or died, between them.
AgreeInv ==
    ~torn /\ ~Announcing =>
        /\ cursor.file # "corrupt" => told.condition = cursor.fingerprint
        /\ Readable => told.at = cursor.at

\* What the cursor calls delivered is what the hook last got.
HeardInv ==
    cursor.file = "absent" \/ (Readable /\ ~cursor.pending) => heard = cursor.fingerprint

PollInv == DecideInv /\ AppendInv /\ CursorInv /\ HookInv
AlertInv == AlertTypeOK /\ PollInv /\ BlankInv /\ AgreeInv /\ HeardInv

-----------------------------------------------------------------------------
\* The rows of the proxy are issue codes.
LEMMA IssuesTyped == Issues \in Condition
  BY DEF Issues, Condition

\* The cursor of a file that is absent or damaged.
LEMMA BlankTyped ==
  ASSUME NEW file \in {"absent", "ok", "corrupt"}
  PROVE  BlankCursor(file) \in [file : {"absent", "ok", "corrupt"}, fingerprint : Condition,
                                at : 0..Horizon, pending : BOOLEAN]
<1>1. {} \in Condition
  BY DEF Condition
<1>2. 0 \in 0..Horizon
  BY AlertAssumption
<1> QED BY <1>1, <1>2 DEF BlankCursor

\* A desk that was never polled.
LEMMA AlertStarts == AlertInit => AlertInv
<1> SUFFICES ASSUME AlertInit PROVE AlertInv
  OBVIOUS
<1>1. AlertTypeOK
  <2>1. {} \in Condition /\ 0 \in 0..Horizon
    BY AlertAssumption DEF Condition
  <2> QED BY <2>1, BlankTyped DEF AlertInit, AlertTypeOK, NoPoll
<1>2. PollInv
  BY DEF AlertInit, PollInv, DecideInv, AppendInv, CursorInv, HookInv, NoPoll, Announcing
<1>3. BlankInv /\ AgreeInv /\ HeardInv
  BY DEF AlertInit, BlankInv, AgreeInv, HeardInv, BlankCursor, Readable, Announcing, NoPoll
<1> QED BY <1>1, <1>2, <1>3 DEF AlertInv

\* A poll that stops, anywhere but between its event and its cursor, leaves them agreeing.
LEMMA PollStops ==
  ASSUME AlertInv, poll' = NoPoll, torn' \in BOOLEAN, torn' = (torn \/ Announcing),
         UNCHANGED <<now, cursor, ledger, told, heard>>
  PROVE  AlertInv'
<1>1. AlertTypeOK'
  BY AlertAssumption DEF AlertInv, AlertTypeOK, NoPoll, Condition
<1>2. PollInv'
  BY DEF PollInv, DecideInv, AppendInv, CursorInv, HookInv, NoPoll, Announcing
<1>3. BlankInv' /\ HeardInv'
  BY DEF AlertInv, BlankInv, HeardInv, Readable
<1>4. AgreeInv'
  <2>1. torn \in BOOLEAN
    BY DEF AlertInv, AlertTypeOK
  <2>2. CASE torn \/ Announcing
    BY <2>1, <2>2 DEF AgreeInv
  <2>3. CASE ~torn /\ ~Announcing
    BY <2>1, <2>3 DEF AlertInv, AgreeInv, Readable
  <2> QED BY <2>1, <2>2, <2>3
<1> QED BY <1>1, <1>2, <1>3, <1>4 DEF AlertInv

\* Building a report takes what the proxy manager left, and what the cursor file is.
LEMMA ReportBuilt ==
  ASSUME AlertInv, BuildReport(Issues)
  PROVE  AlertInv'
<1>1. AlertTypeOK'
  BY IssuesTyped, AlertAssumption DEF AlertInv, AlertTypeOK, BuildReport, NoPoll, Condition
<1>2. PollInv'
  BY DEF PollInv, DecideInv, AppendInv, CursorInv, HookInv, NoPoll, Announcing, BuildReport
<1>3. BlankInv' /\ HeardInv' /\ AgreeInv'
  BY DEF AlertInv, BlankInv, AgreeInv, HeardInv, Readable, Announcing, NoPoll, BuildReport
<1> QED BY <1>1, <1>2, <1>3 DEF AlertInv

\* A duplicate is suppressed only when the ledger, and the hook, have had it.
LEMMA Suppressed ==
  ASSUME AlertInv, poll.pc = "decide", ~Emit
  PROVE  /\ cursor.file # "corrupt" /\ cursor.fingerprint = poll.report
         /\ ~torn => told.condition = poll.report
         /\ ~HookPending => heard = poll.report
<1>1. cursor.file # "corrupt"
  BY DEF AlertInv, PollInv, DecideInv, Emit, NewCondition, Readable
<1>2. cursor.fingerprint = poll.report
  BY <1>1 DEF AlertInv, AlertTypeOK, BlankInv, Emit, Recovered, NewCondition, Readable, Fingerprint
<1>3. ~torn => told.condition = poll.report
  BY <1>1, <1>2 DEF AlertInv, AgreeInv, Announcing
<1>4. ~HookPending => heard = poll.report
  BY <1>1, <1>2 DEF AlertInv, AlertTypeOK, HeardInv, HookPending, NewCondition, Readable, Fingerprint
<1> QED BY <1>1, <1>2, <1>3, <1>4

LEMMA Decided ==
  ASSUME AlertInv, Decide
  PROVE  AlertInv'
<1>1. CASE Emit
  <2> poll' = [poll EXCEPT !.pc = "append", !.emit = TRUE]
    BY <1>1 DEF Decide
  <2>1. AlertTypeOK'
    BY AlertAssumption DEF AlertInv, AlertTypeOK, Decide, Condition
  <2>2. PollInv'
    BY <1>1, <2>1 DEF AlertInv, PollInv, DecideInv, AppendInv, CursorInv, HookInv, Announcing,
       Decide, AlertTypeOK, Emit, Recovered, NewCondition, ReminderDue, Readable, Fingerprint
  <2>3. BlankInv' /\ HeardInv' /\ AgreeInv'
    BY DEF AlertInv, BlankInv, AgreeInv, HeardInv, Readable, Announcing, Decide, AlertTypeOK
  <2> QED BY <2>1, <2>2, <2>3 DEF AlertInv
<1>2. CASE ~Emit /\ HookPending
  <2> poll' = [poll EXCEPT !.pc = "cursor"]
    BY <1>2 DEF Decide
  <2>1. AlertTypeOK'
    BY AlertAssumption DEF AlertInv, AlertTypeOK, Decide, Condition
  <2>2. ~poll.emit /\ ~poll'.emit /\ poll'.report = poll.report /\ poll'.pc = "cursor"
    BY DEF AlertInv, AlertTypeOK, PollInv, CursorInv, Decide
  <2>3. PollInv'
    BY <1>2, <2>2, Suppressed DEF PollInv, DecideInv, AppendInv, CursorInv, HookInv, Announcing,
       Decide, HookPending, Readable
  <2>4. BlankInv' /\ HeardInv' /\ AgreeInv'
    BY <2>2 DEF AlertInv, BlankInv, AgreeInv, HeardInv, Readable, Announcing, Decide
  <2> QED BY <2>1, <2>3, <2>4 DEF AlertInv
<1>3. CASE ~Emit /\ ~HookPending
  BY <1>3, PollStops DEF Decide, AlertInv, AlertTypeOK, Announcing
<1> QED BY <1>1, <1>2, <1>3

LEMMA LedgerRepaired ==
  ASSUME AlertInv, RepairLedger
  PROVE  AlertInv'
<1>1. AlertTypeOK' /\ poll'.report = poll.report \cup {"LEDGER_INVALID"}
      /\ poll'.pc = "append" /\ poll'.emit = poll.emit
  BY AlertAssumption DEF AlertInv, AlertTypeOK, RepairLedger, Condition
<1>2. PollInv'
  BY <1>1 DEF AlertInv, PollInv, DecideInv, AppendInv, CursorInv, HookInv, Announcing, RepairLedger
<1>3. BlankInv' /\ HeardInv' /\ AgreeInv'
  BY <1>1 DEF AlertInv, BlankInv, AgreeInv, HeardInv, Readable, Announcing, RepairLedger
<1> QED BY <1>1, <1>2, <1>3 DEF AlertInv

LEMMA EventAppended ==
  ASSUME AlertInv, AppendEvent
  PROVE  AlertInv'
<1>1. AlertTypeOK' /\ poll' = [poll EXCEPT !.pc = "cursor"] /\ poll.emit
      /\ poll'.emit /\ poll'.pc = "cursor" /\ poll'.report = poll.report /\ poll'.at = poll.at
  BY AlertAssumption
  DEF AlertInv, AlertTypeOK, PollInv, AppendInv, AppendEvent, PollGoto, Condition
<1>2. PollInv'
  BY <1>1 DEF PollInv, DecideInv, AppendInv, CursorInv, HookInv, Announcing, AppendEvent
<1>3. BlankInv' /\ HeardInv' /\ AgreeInv'
  BY <1>1 DEF AlertInv, BlankInv, AgreeInv, HeardInv, Readable, Announcing, AppendEvent
<1> QED BY <1>1, <1>2, <1>3 DEF AlertInv

LEMMA CursorMoved ==
  ASSUME AlertInv, MoveCursor
  PROVE  AlertInv'
<1>1. AlertTypeOK' /\ poll'.pc = "hook" /\ poll'.report = poll.report
  BY AlertAssumption
  DEF AlertInv, AlertTypeOK, MoveCursor, PollGoto, Condition, Cursor, Fingerprint
<1>2. /\ cursor'.file = "ok" /\ cursor'.fingerprint = poll.report /\ cursor'.pending
      /\ cursor'.at = IF poll.emit THEN poll.at ELSE cursor.at
  BY DEF MoveCursor, Cursor, Fingerprint
<1>3. PollInv'
  BY <1>1, <1>2 DEF PollInv, DecideInv, AppendInv, CursorInv, HookInv, Announcing, Readable
<1>4. BlankInv' /\ HeardInv'
  BY <1>2 DEF BlankInv, HeardInv, Readable
<1>5. AgreeInv'
  <2>1. CASE poll.emit
    <3>1. told = [condition |-> poll.report, at |-> poll.at]
      BY <2>1 DEF AlertInv, PollInv, CursorInv, Announcing, MoveCursor
    <3>2. told'.condition = cursor'.fingerprint /\ told'.at = cursor'.at
      BY <1>2, <2>1, <3>1 DEF MoveCursor
    <3> QED BY <3>2 DEF AgreeInv
  <2>2. CASE ~poll.emit
    BY <1>2, <2>2 DEF AlertInv, PollInv, CursorInv, AgreeInv, Announcing, MoveCursor, Readable
  <2> QED BY <2>1, <2>2
<1> QED BY <1>1, <1>3, <1>4, <1>5 DEF AlertInv

LEMMA HookRun ==
  ASSUME AlertInv, RunHook
  PROVE  AlertInv'
<1>1. AlertTypeOK' /\ poll'.pc = "delivered" /\ poll'.report = poll.report /\ heard' = poll.report
  BY AlertAssumption DEF AlertInv, AlertTypeOK, RunHook, PollGoto, Condition
<1>2. PollInv'
  BY <1>1 DEF AlertInv, PollInv, DecideInv, AppendInv, CursorInv, HookInv, Announcing, Readable,
     RunHook
<1>3. BlankInv' /\ HeardInv' /\ AgreeInv'
  BY <1>1 DEF AlertInv, PollInv, HookInv, BlankInv, AgreeInv, HeardInv, Readable, Announcing,
     RunHook
<1> QED BY <1>1, <1>2, <1>3 DEF AlertInv

LEMMA HookDelivered ==
  ASSUME AlertInv, Delivered
  PROVE  AlertInv'
<1>1. /\ AlertTypeOK' /\ poll' = NoPoll
      /\ cursor'.file = cursor.file /\ cursor'.fingerprint = cursor.fingerprint
      /\ cursor'.at = cursor.at
  <2> AlertTypeOK
    BY DEF AlertInv
  <2>1. cursor' \in [file : {"absent", "ok", "corrupt"}, fingerprint : Condition,
                     at : 0..Horizon, pending : BOOLEAN]
    BY DEF AlertTypeOK, Delivered
  <2>2. poll' \in [pc : {"idle", "decide", "append", "cursor", "hook", "delivered"},
                   report : Condition, at : 0..Horizon, emit : BOOLEAN]
    BY AlertAssumption DEF Delivered, NoPoll, Condition
  <2>3. AlertTypeOK'
    BY <2>1, <2>2 DEF AlertTypeOK, Delivered
  <2> QED BY <2>3 DEF AlertTypeOK, Delivered
<1>2. PollInv'
  BY <1>1 DEF PollInv, DecideInv, AppendInv, CursorInv, HookInv, NoPoll, Announcing
<1>3. BlankInv' /\ HeardInv' /\ AgreeInv'
  BY <1>1 DEF AlertInv, PollInv, HookInv, BlankInv, AgreeInv, HeardInv, Readable, Announcing,
     Delivered, NoPoll
<1> QED BY <1>1, <1>2, <1>3 DEF AlertInv

\* The clock moves, or a file is damaged between two polls.
LEMMA SurroundingsMove ==
  ASSUME AlertInv, Tick \/ CursorDamaged \/ LedgerDamaged
  PROVE  AlertInv'
<1>1. CASE Tick
  <2>1. AlertTypeOK'
    BY <1>1, AlertAssumption DEF AlertInv, AlertTypeOK, Tick
  <2>2. PollInv'
    BY <1>1 DEF AlertInv, PollInv, DecideInv, AppendInv, CursorInv, HookInv, Announcing, Readable,
       Tick, Emit, Recovered, NewCondition, ReminderDue, Fingerprint
  <2>3. BlankInv' /\ HeardInv' /\ AgreeInv'
    BY <1>1 DEF AlertInv, BlankInv, AgreeInv, HeardInv, Readable, Announcing, Tick
  <2> QED BY <2>1, <2>2, <2>3 DEF AlertInv
<1>2. CASE CursorDamaged
  <2>1. /\ AlertTypeOK' /\ poll' = poll /\ poll.pc = "idle"
        /\ cursor'.file = "corrupt" /\ cursor'.fingerprint = {}
    BY <1>2, BlankTyped DEF AlertInv, AlertTypeOK, CursorDamaged, BlankCursor
  <2>2. PollInv' /\ BlankInv' /\ HeardInv' /\ AgreeInv'
    BY <2>1 DEF PollInv, DecideInv, AppendInv, CursorInv, HookInv, BlankInv, AgreeInv, HeardInv,
       Readable, Announcing
  <2> QED BY <2>1, <2>2 DEF AlertInv
<1>3. CASE LedgerDamaged
  <2>1. AlertTypeOK'
    BY <1>3 DEF AlertInv, AlertTypeOK, LedgerDamaged
  <2>2. PollInv' /\ BlankInv' /\ HeardInv' /\ AgreeInv'
    BY <1>3 DEF AlertInv, PollInv, DecideInv, AppendInv, CursorInv, HookInv, BlankInv, AgreeInv,
       HeardInv, Readable, Announcing, LedgerDamaged
  <2> QED BY <2>1, <2>2 DEF AlertInv
<1> QED BY <1>1, <1>2, <1>3

\* The manager of the proxy does not touch the poll.
LEMMA AlertUntouched == AlertInv /\ UNCHANGED avars => AlertInv'
  BY DEF avars, AlertInv, AlertTypeOK, PollInv, DecideInv, AppendInv, CursorInv, HookInv, BlankInv,
     AgreeInv, HeardInv, Readable, Announcing, Emit, Recovered, NewCondition, ReminderDue, Fingerprint

\* The poll does not touch the manager of the proxy.
LEMMA ManagerUntouched ==
  ASSUME ControlInv, SupervisorInv, UNCHANGED pvars, faults' = faults \/ Fault
  PROVE  ControlInv' /\ SupervisorInv'
<1>1. faults' \in 0..MaxFaults
  BY SupervisorAssumption DEF ControlInv, TypeOK, Fault
<1> QED
  BY <1>1
  DEF pvars, ControlInv, SupervisorInv, TypeOK, LockInv, ChildInv, OnlyProxySignalled,
      StopInv, AtMostOne, Managed, Unsignalled

\* Every step of the desk's proxy manager and its health poll keeps the invariants.
LEMMA OpsStep ==
  ASSUME ControlInv, SupervisorInv, AlertInv, [OpsNext]_vars
  PROVE  (ControlInv /\ SupervisorInv /\ AlertInv)'
<1>1. CASE Next /\ UNCHANGED avars
  <2>1. (ControlInv /\ SupervisorInv)'
    BY <1>1, CallSteps, CallKeeps, ProcessKeeps DEF Next
  <2> QED BY <1>1, <2>1, AlertUntouched
<1>2. CASE Alert /\ UNCHANGED pvars
  <2>1. (ControlInv /\ SupervisorInv)'
    BY <1>2, ManagerUntouched DEF Alert
  <2>2. AlertInv'
    BY <1>2, ReportBuilt, Decided, LedgerRepaired, EventAppended, CursorMoved, HookRun,
       HookDelivered
    DEF Alert, PollSteps
  <2> QED BY <2>1, <2>2
<1>3. CASE (Tick \/ CursorDamaged \/ LedgerDamaged) /\ (UNCHANGED faults \/ Fault)
           /\ UNCHANGED pvars
  BY <1>3, ManagerUntouched, SurroundingsMove
<1>4. CASE (HookFails \/ PollDies) /\ UNCHANGED pvars
  <2>1. (ControlInv /\ SupervisorInv)'
    BY <1>4, ManagerUntouched DEF HookFails, PollDies
  <2>2. AlertInv'
    BY <1>4, PollStops DEF HookFails, PollDies, AlertInv, AlertTypeOK, Announcing
  <2> QED BY <2>1, <2>2
<1>5. CASE UNCHANGED vars
  BY <1>5, AlertUntouched, ManagerUntouched DEF vars
<1> QED BY <1>1, <1>2, <1>3, <1>4, <1>5 DEF OpsNext, CursorDamaged, LedgerDamaged

\* The invariants hold together, whatever the manager's callers, the proxies, the polls and
\* their hooks do and however they die.
THEOREM OperationsSafe == OpsSpec => [](ControlInv /\ SupervisorInv /\ AlertInv)
<1>1. OpsInit => ControlInv /\ SupervisorInv /\ AlertInv
  BY ControlInit, AlertStarts DEF OpsInit
<1> QED BY <1>1, OpsStep, PTL DEF OpsSpec

\* A poll completes by suppressing a duplicate or after its hook was run.
LEMMA Completion ==
  ASSUME ControlInv, AlertInv, [OpsNext]_vars, Completes
  PROVE  (Decide /\ ~Emit /\ ~HookPending) \/ Delivered
<1>1. faults \in Nat /\ faults' = faults /\ poll.pc # "idle" /\ poll'.pc = "idle"
  BY SupervisorAssumption DEF ControlInv, TypeOK, Completes
<1>2. ~Fault
  BY <1>1 DEF Fault
<1>3. poll' # poll
  BY <1>1
<1>4. Alert
  BY <1>2, <1>3
  DEF OpsNext, vars, avars, Tick, HookFails, PollDies, CursorDamaged, LedgerDamaged
<1>5. ~BuildReport(Issues)
  BY <1>1 DEF BuildReport
<1>6. ~(RepairLedger \/ AppendEvent \/ MoveCursor \/ RunHook)
  BY <1>1
  DEF AlertInv, AlertTypeOK, RepairLedger, AppendEvent, MoveCursor, RunHook, PollGoto
<1>7. Decide => ~Emit /\ ~HookPending
  BY <1>1 DEF AlertInv, AlertTypeOK, Decide
<1> QED BY <1>4, <1>5, <1>6, <1>7 DEF Alert, PollSteps

\* PollTells: a completed poll has told what it found, in the ledger and to the hook,
\* whatever died, failed or was damaged before.
THEOREM CompletedPollTells == OpsSpec => PollTells
<1>1. ASSUME ControlInv, AlertInv, [OpsNext]_vars, Completes
      PROVE  /\ told'.condition = poll.report \/ (torn /\ cursor.fingerprint = poll.report)
             /\ heard' = poll.report
  <2>1. CASE Decide /\ ~Emit /\ ~HookPending
    BY <1>1, <2>1, Suppressed DEF Decide, AlertInv, AlertTypeOK
  <2>2. CASE Delivered
    BY <1>1, <2>2
    DEF Delivered, AlertInv, AlertTypeOK, PollInv, HookInv, AgreeInv, Announcing, Readable
  <2> QED BY <1>1, <2>1, <2>2, Completion
<1>2. ControlInv /\ AlertInv /\ [OpsNext]_vars
        => [Completes => told'.condition = poll.report
                           \/ (torn /\ cursor.fingerprint = poll.report)]_<<poll, told, faults>>
  BY <1>1
<1>3. ControlInv /\ AlertInv /\ [OpsNext]_vars
        => [Completes => heard' = poll.report]_<<poll, heard, faults>>
  BY <1>1
<1> QED BY <1>2, <1>3, OperationsSafe, PTL DEF OpsSpec, PollTells, NothingSilenced, OperatorHears

\* NoStorm: one condition of the desk is told twice within the reminder window only when a
\* poll died between its event and its cursor.
THEOREM RemindersSpaced == OpsSpec => NoStorm
<1>1. ASSUME AlertInv, [OpsNext]_vars,
             poll.pc = "append", poll'.pc = "cursor", poll.report = told.condition,
             poll.report \cap {"STATE_INVALID", "LEDGER_INVALID"} = {}, ~torn
      PROVE  poll.at - told.at >= RemindAfter
  <2>1. Emit /\ cursor.file # "corrupt" /\ ~Announcing
    BY <1>1 DEF AlertInv, PollInv, AppendInv, DecideInv, Announcing
  <2>2. told.condition = cursor.fingerprint /\ (Readable => told.at = cursor.at)
    BY <1>1, <2>1 DEF AlertInv, AgreeInv
  <2>3. Readable
    BY <1>1, <2>1, <2>2 DEF AlertInv, BlankInv, Emit, Recovered
  <2>4. ReminderDue
    BY <1>1, <2>1, <2>2, <2>3 DEF Emit, NewCondition, Fingerprint
  <2> QED BY <2>2, <2>3, <2>4 DEF ReminderDue
<1>2. AlertInv /\ [OpsNext]_vars
        => [(poll.pc = "append" /\ poll'.pc = "cursor" /\ poll.report = told.condition
             /\ poll.report \cap {"STATE_INVALID", "LEDGER_INVALID"} = {} /\ ~torn)
              => poll.at - told.at >= RemindAfter]_<<poll, told>>
  BY <1>1
<1> QED BY <1>2, OperationsSafe, PTL DEF OpsSpec, NoStorm
=============================================================================
