----------------------------- MODULE Operations -----------------------------
(***************************************************************************)
(* The proxy manager and the health poll together: the poll probes the     *)
(* proxy itself and reads the manager's monitor file, while launchers stop *)
(* and start proxies.                                                      *)
(***************************************************************************)
EXTENDS HealthAlert

vars == <<pvars, avars, faults>>

\* The proxy rows of the health report.
Issues ==
    (IF ProbeHealthy THEN {} ELSE {"PROXY_CURRENT_UNHEALTHY"})
    \cup (IF monitor = "HEALTHY" THEN {} ELSE {"PROXY_MONITOR_INVALID"})

OpsInit == Init /\ AlertInit

Alert ==
    /\ BuildReport(Issues) \/ PollSteps
    /\ UNCHANGED faults

OpsNext ==
    \/ Next /\ UNCHANGED avars
    \/ Alert /\ UNCHANGED pvars
    \/ (Tick /\ UNCHANGED faults) /\ UNCHANGED pvars
    \/ (HookFails \/ PollDies \/ CursorDamaged \/ LedgerDamaged) /\ UNCHANGED pvars

\* cron keeps polling and calling the launchers; faults are finitely many.
OpsSpec ==
    /\ OpsInit /\ [][OpsNext]_vars
    /\ SupervisorFairness
    /\ WF_avars(Alert /\ UNCHANGED pvars)

-----------------------------------------------------------------------------
\* A proxy that stays down is told to the operator, although reports, cursor and ledger
\* fail on the way.
OutageTold ==
    ~ProbeHealthy ~> (ProbeHealthy \/ "PROXY_CURRENT_UNHEALTHY" \in told.condition)
=============================================================================
