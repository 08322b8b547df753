---------------------------- MODULE CrossSection ----------------------------
(***************************************************************************)
(* The pure part of the weekly design (futures_fund/cross_section.py): the *)
(* deterministic sleeves of a week, the weight packet, and what a weight   *)
(* proposal, its precheck and its revision must satisfy.                   *)
(*                                                                         *)
(* Symbols are numbers (their order breaks ties).  Sizes are units of      *)
(* sleeve weight, so a weight, its target and a holding share one scale.   *)
(* The sha256 of a packet is its id, of any other artifact the artifact.   *)
(***************************************************************************)
EXTENDS Integers, FiniteSets, Functions

CONSTANTS
    Symbols,       \* every listed symbol
    UniverseSize,  \* universe_size
    SleeveSize,    \* sleeve_size
    Sleeve,        \* sleeve_target_usd: the units of one sleeve
    MinWeight,     \* min_sleeve_weight
    MaxWeight,     \* max_sleeve_weight
    WeekLength,    \* instants of an ISO week
    None

ASSUME CrossSectionAssumption ==
    /\ Symbols \subseteq Nat /\ IsFiniteSet(Symbols)
    /\ SleeveSize \in Nat \ {0} /\ UniverseSize \in Nat /\ UniverseSize >= 2 * SleeveSize
    /\ {MinWeight, MaxWeight, Sleeve, WeekLength} \subseteq Nat \ {0}
    /\ MinWeight * SleeveSize <= Sleeve /\ MaxWeight * SleeveSize >= Sleeve

Abs(n) == IF n < 0 THEN -n ELSE n
WeekOf(t) == t \div WeekLength

-----------------------------------------------------------------------------
\* The weekly ranking.

\* The n members of S that come first.
First(S, n, ahead) == {s \in S : Cardinality(ahead[s] \cap S) < n}

\* Listed long enough, with a complete completed-day history.
Eligible(market) == {s \in Symbols : market[s].crypto /\ market[s].old}

Liquid(market) ==
    First(Eligible(market), UniverseSize,
          [s \in Symbols |-> {x \in Symbols :
              \/ market[x].volume > market[s].volume
              \/ market[x].volume = market[s].volume /\ x < s}])

\* What a long made in the lookback: the price move less the funding it paid.
TotalReturn(market, s) == market[s].price - market[s].funding

Outperforms(market, x, s) ==
    \/ TotalReturn(market, x) > TotalReturn(market, s)
    \/ TotalReturn(market, x) = TotalReturn(market, s) /\ x < s

Above(market) == [s \in Symbols |-> {x \in Symbols : Outperforms(market, x, s)}]
Below(market) == [s \in Symbols |-> {x \in Symbols : Outperforms(market, s, x)}]

\* Enough markets, each with its funding covered over the whole lookback.
Rankable(market) ==
    /\ Cardinality(Liquid(market)) = UniverseSize
    /\ \A s \in Liquid(market) : market[s].covered

BuildWeeklySnapshot(market, now, stamp) ==
    LET universe == Liquid(market)
    IN [week |-> WeekOf(now), created |-> stamp, universe |-> universe,
        long  |-> First(universe, SleeveSize, Above(market)),
        short |-> First(universe, SleeveSize, Below(market))]

\* What every load of a snapshot checks of its sleeves.
WellFormedSnapshot(weekly) ==
    /\ weekly.long # {} /\ Cardinality(weekly.long) = Cardinality(weekly.short)
    /\ Cardinality(weekly.universe) >= 2 * Cardinality(weekly.long)
    /\ weekly.long \cup weekly.short \subseteq weekly.universe
    /\ weekly.long \cap weekly.short = {}

-----------------------------------------------------------------------------
\* The weight packet and what binds to it.

Selected(p) == p.weekly.long \cup p.weekly.short
Side(p, s) == IF s \in p.weekly.long THEN 1 ELSE -1

ValidatePolicyBinding(weekly, p) ==
    /\ WellFormedSnapshot(weekly)
    /\ weekly.week = p.week /\ p.week = WeekOf(p.ts)
    /\ Cardinality(weekly.universe) = UniverseSize
    /\ Cardinality(weekly.long) = SleeveSize /\ Cardinality(weekly.short) = SleeveSize
    /\ weekly.long = p.weekly.long /\ weekly.short = p.weekly.short

SleeveSum(weights, sleeve) == SumFunctionOnSet(weights, sleeve)

ValidateAllocation(a, p, role) ==
    /\ a # None /\ a.role = role /\ a.packet = p.id
    /\ DOMAIN a.weights = Selected(p)
    /\ SleeveSum(a.weights, p.weekly.long) = Sleeve
    /\ SleeveSum(a.weights, p.weekly.short) = Sleeve
    /\ \A s \in Selected(p) : a.weights[s] \in MinWeight..MaxWeight

Target(a, p, s) == IF s \in Selected(p) THEN Side(p, s) * a.weights[s] ELSE 0

\* Held names outside the selection are closed, and count.
Turnover(a, p) == SumFunction([s \in Symbols |-> Abs(Target(a, p, s) - p.holdings[s])])

BuildAllocationPrecheck(a, p) ==
    [cycle |-> p.cycle, packet |-> p.id, allocation |-> a, turnover |-> Turnover(a, p)]

\* Objections come with constraints, an acceptance with neither.
WellFormedVerdict(v) == v.accept <=> v.constraints = None

ValidateRevisionConstraints(a, p, c) ==
    /\ ValidateAllocation(a, p, "pm_revision")
    /\ c.capped \subseteq Selected(p)
    /\ \A s \in c.capped : a.weights[s] <= c.cap
    /\ c.turnover # None => Turnover(a, p) <= c.turnover
=============================================================================
