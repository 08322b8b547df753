--------------------------- MODULE ProxySupervisor ---------------------------
(***************************************************************************)
(* The manager of the local candle proxy: ensure_binance_proxy probes the  *)
(* proxy, stops what is left of an old one, starts a new one and waits for *)
(* it.  Calls are serialized by a file lock and may die at any point;      *)
(* proxies hang, exit late and lose their pid to other programs, and       *)
(* another program may take the port.                                      *)
(*                                                                         *)
(* A process's identity (start time, command line, working directory) is   *)
(* what tells a proxy from a program that has its pid now; a proxy gets a  *)
(* new one only under the lock.                                            *)
(***************************************************************************)
EXTENDS Naturals, FiniteSets

CONSTANTS
    Pid,       \* process ids
    Caller,    \* launchers that may call the manager at the same time
    None,
    MaxFaults  \* bound: hangs, deaths, timeouts, crashes, programs on the port

ASSUME SupervisorAssumption ==
    None \notin Pid \cup Caller /\ MaxFaults \in Nat

Probes == 3    \* snapshots before a proxy is given up

VARIABLES
    procs,     \* the process table: what runs under a pid, and what signals it got
    monitor,   \* binance-proxy-monitor.json: its status
    owner,     \* holder of binance-proxy-start.lock
    call,      \* what each caller is doing
    faults

pvars == <<procs, monitor, owner, call>>

NoProcess == [kind |-> "none", at |-> "gone", signal |-> "none"]
Process   == [kind : {"none", "proxy", "other"},
              at : {"gone", "starting", "serving", "hung"},
              signal : {"none", "term", "kill"}]
NoCall == [pc |-> "idle", probe |-> 0, http |-> FALSE, old |-> {}, child |-> None]

Init ==
    /\ procs = [p \in Pid |-> NoProcess]
    /\ monitor = "missing"
    /\ owner = None
    /\ call = [c \in Caller |-> NoCall]
    /\ faults = 0

Fault == faults < MaxFaults /\ faults' = faults + 1

Free      == {p \in Pid : procs[p].kind = "none"}
Listeners == {p \in Pid : procs[p].at \in {"serving", "hung"}}

-----------------------------------------------------------------------------
\* _managed_proxy_identities, _healthy and the owners of the listening socket.
Managed      == {p \in Pid : procs[p].kind = "proxy"}
Healthy      == \E p \in Pid : procs[p].at = "serving"
OwnerPids    == Managed \cap Listeners
ProbeHealthy == Healthy /\ OwnerPids # {}

\* Mutant: whatever has the pid now is taken for the proxy that had it.
StillThereByPid(old) == {p \in old : procs[p].kind # "none"}
\* The identity is read again right before a signal.
StillThere(old) == {p \in old : procs[p].kind = "proxy"}

\* A SIGKILL is not taken back by a later SIGTERM.
Signal(pids, sig) ==
    procs' = [p \in Pid |-> IF p \in pids /\ procs[p].signal # "kill"
                            THEN [procs[p] EXCEPT !.signal = sig] ELSE procs[p]]

Goto(c, pc) == call' = [call EXCEPT ![c].pc = pc]

\* The call returns or raises, and its lock goes with it.
Leave(c) ==
    /\ call' = [call EXCEPT ![c] = NoCall]
    /\ owner' = IF owner = c THEN None ELSE owner

Report(c, status) == monitor' = status /\ Leave(c)

-----------------------------------------------------------------------------
(* ensure_binance_proxy.                                                   *)

Ensure(c) ==
    /\ call[c].pc = "idle"
    /\ Goto(c, "lock")
    /\ UNCHANGED <<procs, monitor, owner, faults>>

Lock(c) ==
    /\ call[c].pc = "lock" /\ owner = None
    /\ owner' = c
    /\ Goto(c, "http")
    /\ UNCHANGED <<procs, monitor, faults>>

\* A snapshot asks the port first ...
ProbeHttp(c) ==
    /\ call[c].pc = "http"
    /\ call' = [call EXCEPT ![c].pc = "owners", ![c].http = Healthy]
    /\ UNCHANGED <<procs, monitor, owner, faults>>

\* Mutant: a managed proxy that has the port is good enough.
ProbeOwnersOnly(c) ==
    /\ call[c].pc = "owners" /\ call[c].child = None
    /\ IF OwnerPids # {} THEN Report(c, "HEALTHY")
       ELSE /\ IF call[c].probe + 1 < Probes
               THEN call' = [call EXCEPT ![c].pc = "http", ![c].probe = @ + 1]
               ELSE call' = [call EXCEPT ![c].pc = "term", ![c].old = Managed]
            /\ UNCHANGED <<monitor, owner>>
    /\ UNCHANGED <<procs, faults>>

\* ... and then looks who listens.  Before a start, three bad ones condemn the proxy.
ProbeOwners(c) ==
    /\ call[c].pc = "owners" /\ call[c].child = None
    /\ IF call[c].http /\ OwnerPids # {} THEN Report(c, "HEALTHY")
       ELSE /\ IF call[c].probe + 1 < Probes
               THEN call' = [call EXCEPT ![c].pc = "http", ![c].probe = @ + 1]
               ELSE call' = [call EXCEPT ![c].pc = "term", ![c].old = Managed]
            /\ UNCHANGED <<monitor, owner>>
    /\ UNCHANGED <<procs, faults>>

\* Mutant: only the proxy that has the port is stopped.
StopOwner(c) ==
    /\ call[c].pc = "term"
    /\ Signal(StillThere(call[c].old) \cap Listeners, "term")
    /\ call' = [call EXCEPT ![c].pc = "grace", ![c].old = @ \cap Listeners]
    /\ UNCHANGED <<monitor, owner, faults>>

\* _stop_exact_proxy.
Stop(c) ==
    /\ call[c].pc = "term"
    /\ Signal(StillThere(call[c].old), "term")
    /\ Goto(c, "grace")
    /\ UNCHANGED <<monitor, owner, faults>>

Stopped(c) ==
    /\ call[c].pc = "grace" /\ StillThere(call[c].old) = {}
    /\ Goto(c, "start")
    /\ UNCHANGED <<procs, monitor, owner, faults>>

\* The grace period is over.
Kill(c) ==
    /\ call[c].pc = "grace" /\ StillThere(call[c].old) # {}
    /\ Signal(StillThere(call[c].old), "kill")
    /\ Goto(c, "start")
    /\ UNCHANGED <<monitor, owner, faults>>

Start(c) ==
    /\ call[c].pc = "start"
    /\ \E p \in Free :
         /\ procs' = [procs EXCEPT ![p] = [NoProcess EXCEPT !.kind = "proxy", !.at = "starting"]]
         /\ call' = [call EXCEPT ![c] = [NoCall EXCEPT !.pc = "http", !.child = p]]
    /\ UNCHANGED <<monitor, owner, faults>>

\* The new process must own the port itself; it may also have exited.
AwaitChild(c) ==
    LET child == call[c].child IN
    /\ call[c].pc = "owners" /\ child # None
    /\ IF call[c].http /\ child \in OwnerPids THEN Report(c, "HEALTHY")
       ELSE IF procs[child].kind # "proxy" THEN Report(c, "UNHEALTHY")
       ELSE Goto(c, "http") /\ UNCHANGED <<monitor, owner>>
    /\ UNCHANGED <<procs, faults>>

\* The start deadline: certain for a proxy that hangs, a fault for one that is only slow.
StartTimeout(c) ==
    LET child == call[c].child IN
    /\ call[c].pc \in {"http", "owners"} /\ child # None
    /\ IF procs[child].at = "hung" THEN UNCHANGED faults ELSE Fault
    /\ Signal(StillThere({child}), "term")
    /\ Report(c, "UNHEALTHY")

CallerDies(c) ==
    /\ call[c].pc # "idle"
    /\ Fault
    /\ Leave(c)
    /\ UNCHANGED <<procs, monitor>>

Manage(c) ==
    \/ Lock(c)
    \/ ProbeHttp(c)
    \/ ProbeOwners(c)
    \/ Stop(c)
    \/ Stopped(c)
    \/ Kill(c)
    \/ Start(c)
    \/ AwaitChild(c)

-----------------------------------------------------------------------------
(* The processes.                                                          *)

Become(p, r) == procs' = [procs EXCEPT ![p] = r]
Ends(p) == Become(p, NoProcess)

\* A started proxy binds the port, or exits because it is taken.
Bind(p) ==
    /\ procs[p].kind = "proxy" /\ procs[p].at = "starting" /\ procs[p].signal = "none"
    /\ IF Listeners = {} THEN Become(p, [procs[p] EXCEPT !.at = "serving"]) ELSE Ends(p)
    /\ UNCHANGED <<monitor, owner, call, faults>>

\* A signalled proxy exits; one that hangs may sit out a SIGTERM.
Exit(p) ==
    /\ procs[p].signal = "kill" \/ (procs[p].signal = "term" /\ procs[p].at # "hung")
    /\ Ends(p)
    /\ UNCHANGED <<monitor, owner, call, faults>>

Hang(p) ==
    /\ procs[p].kind = "proxy" /\ procs[p].at \in {"starting", "serving"}
    /\ Fault
    /\ Become(p, [procs[p] EXCEPT !.at = "hung"])
    /\ UNCHANGED <<monitor, owner, call>>

Crash(p) ==
    /\ procs[p].kind = "proxy"
    /\ Fault
    /\ Ends(p)
    /\ UNCHANGED <<monitor, owner, call>>

\* Another program gets the pid, and perhaps the port.
OtherProgram(p) ==
    /\ p \in Free
    /\ Fault
    /\ \E at \in {"starting"} \cup (IF Listeners = {} THEN {"serving"} ELSE {}) :
         Become(p, [NoProcess EXCEPT !.kind = "other", !.at = at])
    /\ UNCHANGED <<monitor, owner, call>>

OtherEnds(p) ==
    /\ procs[p].kind = "other"
    /\ Ends(p)
    /\ UNCHANGED <<monitor, owner, call, faults>>

Run(p) == Bind(p) \/ Exit(p)

Next ==
    \/ \E c \in Caller : Ensure(c) \/ Manage(c) \/ StartTimeout(c) \/ CallerDies(c)
    \/ \E p \in Pid : Run(p) \/ Hang(p) \/ Crash(p) \/ OtherProgram(p) \/ OtherEnds(p)

-----------------------------------------------------------------------------
\* Launchers keep calling, calls and processes go on.
SupervisorFairness ==
    /\ \A c \in Caller :
         /\ WF_pvars(Ensure(c))
         /\ SF_pvars(Lock(c))
         /\ WF_pvars(Manage(c))
         /\ WF_pvars(StartTimeout(c) /\ UNCHANGED faults)
    /\ \A p \in Pid : WF_pvars(Run(p))

Spec == Init /\ [][Next]_<<pvars, faults>> /\ SupervisorFairness

-----------------------------------------------------------------------------
TypeOK ==
    /\ procs \in [Pid -> Process]
    /\ monitor \in {"missing", "HEALTHY", "UNHEALTHY"}
    /\ owner \in Caller \cup {None}
    /\ call \in [Caller -> [pc : {"idle", "lock", "http", "owners", "term", "grace", "start"},
                            probe : 0..(Probes - 1), http : BOOLEAN, old : SUBSET Pid,
                            child : Pid \cup {None}]]
    /\ faults \in 0..MaxFaults

\* "Only the exact uvicorn application may be signalled": a program that got the pid of
\* an old proxy during the stop's grace period is left alone.
OnlyProxySignalled ==
    \A p \in Pid : procs[p].kind = "other" => procs[p].signal = "none"

\* Restarts do not pile up proxies: whatever callers died between a start and the end of
\* their call, at most one proxy runs that was not told to stop.
NoPileUp ==
    Cardinality({p \in Managed : procs[p].signal = "none"}) <= 1

\* The gate heals itself: unless another program keeps the port, a managed proxy serves
\* again and again.
SelfHeals ==
    <>[](\A p \in Pid : procs[p].kind # "other") => []<>ProbeHealthy
=============================================================================
