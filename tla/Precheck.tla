------------------------------- MODULE Precheck -------------------------------
(***************************************************************************)
(* What precheck.py computes of a proposed book: how each seat differs     *)
(* from the inventory, what that change costs, whether the BTC hedge       *)
(* reduces risk, the lineage of a controlled restart and the bounds B1-B12. *)
(*                                                                         *)
(* A seat is None or a side, a role, a size in units of notional and a     *)
(* thesis, the horizon and a view (forecast, calibration and invalidation  *)
(* together).  An inventory seat has no thesis.  Costs are abstracted to what the bounds  *)
(* tell apart: the symbols of a market whose change does not pay back in   *)
(* time, cannot be priced, or is barred by the entry screens.              *)
(***************************************************************************)
EXTENDS Integers, FiniteSets, FiniteSetsExt

CONSTANTS
    None,
    Symbols,
    Btc,           \* the only symbol that may be a hedge
    Cash,          \* in units of notional
    DeployMin, DeployMax, DollarResidualMax, BetaResidualMax, LegShareMax,
    HedgeMax, LegBetaMax,  \* B1 to B6, in percent
    ChangesMax,            \* B9
    ColdStartMax           \* B9 of a cold start

ASSUME PrecheckConstants ==
    /\ Btc \in Symbols /\ None \notin Symbols
    /\ Cash \in Nat \ {0}
    /\ LegBetaMax \in 0..100
    /\ DeployMin \in Nat /\ DeployMax \in Nat /\ ChangesMax \in Nat /\ ColdStartMax \in Nat

Abs(n) == IF n < 0 THEN -n ELSE n

Signed(seat) == IF seat = None THEN 0 ELSE IF seat.side = "long" THEN seat.size ELSE -seat.size
Size(seat)   == IF seat = None THEN 0 ELSE seat.size

\* No two of the symbols differ in beta: beta-dollars are dollars.
Gross(legs) == MapThenSumSet(LAMBDA s : Size(legs[s]), Symbols)
Net(legs)   == MapThenSumSet(LAMBDA s : Signed(legs[s]), Symbols)

Selected(legs)  == {s \in Symbols : legs[s] # None}
Alpha(legs)     == {s \in Selected(legs) : legs[s].role = "alpha"}
HasHedge(legs)  == legs[Btc] # None /\ legs[Btc].role = "hedge"
Flat            == [s \in Symbols |-> None]

-----------------------------------------------------------------------------
\* How a seat differs from what is held.

\* LegMetric.material_effect
MaterialEffect(held, seat) ==
    CASE seat = None                                      -> "none"
      [] seat # None /\ held = None                       -> "entry"
      [] seat # None /\ held # None /\ held.side # seat.side -> "flip"
      [] OTHER ->
            IF held.role = "hedge" /\ seat.role = "alpha" THEN "entry"
            ELSE IF seat.size > held.size THEN "increase"
            ELSE IF seat.size < held.size THEN "reduction" ELSE "none"

\* ChangeCostMetric.action; "none" has no row.
Action(held, seat) ==
    IF held = None THEN (IF seat = None THEN "none" ELSE "entry")
    ELSE IF seat = None THEN "drop"
    ELSE IF held.role # seat.role THEN "role_change"
    ELSE IF held.side # seat.side THEN "flip"
    ELSE IF seat.size > held.size THEN "increase"
    ELSE IF seat.size < held.size THEN "reduction" ELSE "none"

\* LegMetric.turnover_notional: what the change trades.
Turnover(held, seat) == Abs(Signed(seat) - Signed(held))

Aggressive == {"entry", "flip", "increase"}
AggressiveChanges(held, legs) ==
    {s \in Selected(legs) : MaterialEffect(held[s], legs[s]) \in Aggressive}
AggressiveAlpha(held, legs) == AggressiveChanges(held, legs) \cap Alpha(legs)
Changes(held, legs) == {s \in Symbols : Action(held[s], legs[s]) # "none"}

-----------------------------------------------------------------------------
\* The BTC hedge against the book without it, and against the BTC that is held.

NetWithoutHedge(legs) == Net(legs) - (IF HasHedge(legs) THEN Signed(legs[Btc]) ELSE 0)

HedgeRiskReducing(legs) == HasHedge(legs) /\ Abs(Net(legs)) < Abs(NetWithoutHedge(legs))

Counterfactual(held, legs) == NetWithoutHedge(legs) + Signed(held[Btc])

HedgeChangeRiskReducing(held, legs) ==
    /\ HasHedge(legs)
    /\ \/ Signed(held[Btc]) = Signed(legs[Btc]) /\ HedgeRiskReducing(legs)
       \/ Abs(Net(legs)) < Abs(Counterfactual(held, legs))

HedgeDropRiskReducing(held, legs) ==
    /\ HasHedge(held) /\ legs[Btc] = None
    /\ Abs(Net(legs)) < Abs(Counterfactual(held, legs))

-----------------------------------------------------------------------------
\* Costs of the changes, on a market [dear, unpriced, barred : SUBSET Symbols].

Priced(market, s)        == s \notin market.unpriced
RepaysInTime(market, s)  == s \notin market.dear

InsuranceExempt(held, legs, market, s) ==
    /\ s = Btc /\ Priced(market, s)
    /\ \/ HedgeChangeRiskReducing(held, legs)
       \/ HedgeDropRiskReducing(held, legs)

\* A role change that trades nothing costs nothing.
PaysBack(held, legs, market, s) ==
    \/ Action(held[s], legs[s]) = "role_change" /\ Turnover(held[s], legs[s]) = 0
    \/ Priced(market, s) /\ RepaysInTime(market, s)

\* The rows of _verify_exception_scope and of B12.
Unrepaid(held, legs, market) ==
    {s \in Changes(held, legs) : ~InsuranceExempt(held, legs, market, s)
                                 /\ ~PaysBack(held, legs, market, s)}

HardBans(held, legs, market) == AggressiveAlpha(held, legs) \cap market.barred

-----------------------------------------------------------------------------
\* Cold start and the lineage of a controlled restart.  A book is
\* [legs, origin : cycle or None, truthful : BOOLEAN]; prior is the origin of the last
\* committed book, a directive is "none", "plain" or "graduation".

ColdStart(held, book, market) ==
    /\ held = Flat /\ Selected(book.legs) # {}
    /\ Alpha(book.legs) = Selected(book.legs) /\ Btc \notin Selected(book.legs)
    /\ market.risk

ExplicitEnd(book) == book.origin = None /\ book.legs = Flat

RestartInitial(held, book, market, cycle, prior, directive) ==
    /\ book.origin = cycle /\ ColdStart(held, book, market)
    /\ directive = "none" /\ prior = None

RestartContinues(held, book, prior) ==
    prior # None /\ book.origin = prior /\ book.legs # Flat /\ held # Flat

LineageValid(held, book, market, cycle, prior, directive) ==
    IF prior # None THEN RestartContinues(held, book, prior) \/ ExplicitEnd(book)
    ELSE IF held # Flat \/ directive # "none" THEN book.origin = None
    ELSE RestartInitial(held, book, market, cycle, prior, directive) \/ ExplicitEnd(book)

-----------------------------------------------------------------------------
\* The bounds.

AtMost(part, whole, percent) == 100 * part <= percent * whole

Deployed(legs) == 100 * Gross(legs) >= DeployMin * Cash
Unlevered(legs) == AtMost(Gross(legs), Cash, DeployMax)

\* B2 to B6.
Neutral(legs) ==
    /\ AtMost(Abs(Net(legs)), Gross(legs), DollarResidualMax)
    /\ AtMost(Abs(Net(legs)), Cash, BetaResidualMax)
Spread(legs) ==
    /\ \A s \in Symbols : AtMost(Size(legs[s]), Gross(legs), LegShareMax)
                          /\ AtMost(Size(legs[s]), Cash, LegBetaMax)
    /\ AtMost(Size(legs[Btc]), Cash, HedgeMax)

FailingBounds(held, book, market) ==
    LET legs == book.legs
        limit == IF ColdStart(held, book, market) THEN ColdStartMax ELSE ChangesMax
    IN  (IF Deployed(legs) /\ Unlevered(legs) THEN {} ELSE {"B1"})
   \cup (IF Neutral(legs) THEN {} ELSE {"B2"})
   \cup (IF Spread(legs) THEN {} ELSE {"B4"})
   \cup (IF book.truthful THEN {} ELSE {"B7"})
   \cup (IF Cardinality(AggressiveChanges(held, legs)) <= limit THEN {} ELSE {"B9"})
   \cup (IF HardBans(held, legs, market) = {} THEN {} ELSE {"B10"})
   \cup (IF Unrepaid(held, legs, market) = {} THEN {} ELSE {"B12"})
=============================================================================
