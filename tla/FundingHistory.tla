--------------------------- MODULE FundingHistory ---------------------------
(***************************************************************************)
(* futures_fund/funding_history.py: the proof, from the venue's event      *)
(* history, that every funding boundary of a window is known before the    *)
(* account's funding clock moves over it.  Time is counted in ticks, Hour  *)
(* ticks to an hour; an event belongs to the boundary (a whole hour) it    *)
(* follows by at most MaxLag ticks.                                        *)
(***************************************************************************)
EXTENDS Integers, FiniteSets, FiniteSetsExt

CONSTANTS Hour,        \* ticks in an hour
          MaxLag,      \* MAX_BOUNDARY_SETTLEMENT_LAG, in ticks
          Intervals    \* supported funding intervals, in hours

ASSUME HistoryAssumption ==
    /\ Hour \in Nat \ {0}
    /\ MaxLag \in 0..(Hour - 1)
    /\ Intervals \subseteq Nat \ {0}

\* Boundaries in (previous, end] of a schedule that settles every `interval` hours.
ExpectedFundingTimestamps(previous, end, interval) ==
    {t \in (previous + 1)..end : t % (Hour * interval) = 0}

NominalBoundary(t) == t - (t % Hour)

\* Events of the half-open window the collector asks for.
InWindow(events, previous, end) == {t \in events : previous < t /\ t <= end}

\* Every event lies within the tolerated lag, and no two claim one boundary.
WellPlaced(events) ==
    /\ \A t \in events : t % Hour <= MaxLag
    /\ \A t, u \in events : NominalBoundary(t) = NominalBoundary(u) => t = u

\* Boundaries of a window whose schedule changed from `prior` to `current` at `cut`.
AfterCut(previous, end, prior, current, cut) ==
    {b \in ExpectedFundingTimestamps(previous, end, prior) : b < cut}
      \cup {b \in ExpectedFundingTimestamps(previous, end, current) : b >= cut}

\* The cuts the collector tries: every boundary of either schedule, and, when the
\* window outlasts the last of them, "changed after the last boundary" (end + 1).
CandidateCuts(previous, end, prior, current) ==
    LET union == ExpectedFundingTimestamps(previous, end, prior)
                   \cup ExpectedFundingTimestamps(previous, end, current)
    IN  union \cup (IF union = {} \/ end > Max(union) THEN {end + 1} ELSE {})

\* A mutant: a stable schedule only forbids unexpected events.
CoverageWithoutMissing(previous, end, prior, current, observed) ==
    IF prior = current
    THEN observed \subseteq ExpectedFundingTimestamps(previous, end, prior)
    ELSE \E cut \in CandidateCuts(previous, end, prior, current) :
            observed = AfterCut(previous, end, prior, current, cut)

IntervalCoverageProof(previous, end, prior, current, observed) ==
    IF prior = current
    THEN observed = ExpectedFundingTimestamps(previous, end, prior)
    ELSE \E cut \in CandidateCuts(previous, end, prior, current) :
            observed = AfterCut(previous, end, prior, current, cut)

\* collect_funding_events accepts the history of one symbol.
Collectable(events, previous, end, prior, current) ==
    LET raw == InWindow(events, previous, end)
    IN  /\ previous <= end
        /\ {prior, current} \subseteq Intervals
        /\ WellPlaced(raw)
        /\ IntervalCoverageProof(previous, end, prior, current,
                                 {NominalBoundary(t) : t \in raw})

\* A mutant: a new symbol is judged by its execution-time schedule alone.
WindowSafeByCurrent(symbols, start, last, held, events, previous, end, decided, current) ==
    LET Applicable(s) ==
            IF s \in held
            THEN {NominalBoundary(t) : t \in InWindow(events[s], previous, end)}
            ELSE ExpectedFundingTimestamps(start - 1, last, current[s])
    IN  /\ held = {} \/ (previous <= start /\ last <= end)
        /\ \A s \in symbols : \A b \in Applicable(s) : ~(start <= b /\ b <= last)

\* verify_execution_window_funding_safety: no boundary lies between the first and the
\* last observation of the basket.  A held symbol is judged by its proven history, a new
\* one by the schedules seen when the decision was made and when it is executed.
ExecutionWindowSafe(symbols, start, last, held, events, previous, end, decided, current) ==
    LET Applicable(s) ==
            IF s \in held
            THEN {NominalBoundary(t) : t \in InWindow(events[s], previous, end)}
            ELSE ExpectedFundingTimestamps(start - 1, last, decided[s])
                   \cup ExpectedFundingTimestamps(start - 1, last, current[s])
    IN  /\ held = {} \/ (previous <= start /\ last <= end)
        /\ \A s \in symbols : \A b \in Applicable(s) : ~(start <= b /\ b <= last)
=============================================================================
