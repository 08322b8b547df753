--------------------------- MODULE ExecutionBasket ---------------------------
(***************************************************************************)
(* futures_fund/desk_cycle.py: from the quantities a book asks for to the  *)
(* quantities the market can fill.  An order is rounded toward zero to the *)
(* exchange's lot step, the whole basket is scaled by the worst            *)
(* participation of its orders, and each resulting order must still be one *)
(* the exchange would take.  Quantities are whole units.                   *)
(***************************************************************************)
EXTENDS PaperAccount

CONSTANTS Step,          \* [Symbols -> units], the lot step
          MinUnits,      \* market minQty (min notional folds into it)
          MaxUnits,      \* market maxQty, per order
          MaxClips,      \* _MAX_MARKET_ORDER_CLIPS_PER_SYMBOL
          AllowPartial   \* settings.execution.allow_partial_fills

ASSUME BasketAssumption ==
    /\ Step \in [Symbols -> Nat \ {0}]
    /\ {MinUnits, MaxUnits, MaxClips} \subseteq Nat
    /\ AllowPartial \in BOOLEAN

Toward(sign, units) == IF sign < 0 THEN -units ELSE units

\* quantize_order_quantity: toward zero.
Quantized(s, delta) == Toward(delta, (Abs(delta) \div Step[s]) * Step[s])

\* _market_order_clip_plan finds a plan: equal clips within the exchange's minimum and
\* maximum, and not too many of them.
Clippable(s, delta) ==
    LET lots    == Abs(delta) \div Step[s]
        maxLots == MaxUnits \div Step[s]
        minLots == Max({1, (MinUnits + Step[s] - 1) \div Step[s]})
        clips   == (lots + maxLots - 1) \div maxLots
    IN  delta = 0 \/ /\ maxLots > 0
                     /\ clips <= MaxClips
                     /\ lots >= clips * minLots

\* The participation of the basket: the smallest depth / order over its orders, as a
\* pair numerator, denominator.  A changed symbol whose order rounds to zero counts 0.
Participation(delta, depth) ==
    LET changed == {s \in Symbols : delta[s] # 0}
        Ratio(s) == LET order == Abs(Quantized(s, delta[s]))
                    IN  IF order = 0 THEN <<0, 1>>
                        ELSE <<Min({order, depth[s]}), order>>
        ratios == {Ratio(s) : s \in changed}
    IN  IF ~AllowPartial \/ changed = {} THEN <<1, 1>>
        ELSE CHOOSE r \in ratios : \A q \in ratios : r[1] * q[2] <= q[1] * r[2]

ExecutedDelta(s, delta, ratio) ==
    Quantized(s, Toward(delta[s], (Abs(Quantized(s, delta[s])) * ratio[1]) \div ratio[2]))

PartialFill(s, delta, ratio) == ExecutedDelta(s, delta, ratio) # Quantized(s, delta[s])

\* _verify_execution_liquidity for one changed symbol; `fullFill` is
\* lifecycle_requires_full_fill of the target audit.
Executable(s, delta, ratio, depth, fullFill) ==
    LET order == Quantized(s, delta[s])
        done  == ExecutedDelta(s, delta, ratio)
    IN  /\ order # 0
        /\ Abs(order) >= MinUnits
        /\ Clippable(s, order)
        /\ AllowPartial \/ depth[s] >= Abs(order)
        /\ done # 0
        /\ Abs(done) <= depth[s]
        /\ ~(fullFill /\ done # order)
        /\ Abs(done) >= MinUnits
        /\ Clippable(s, done)

\* The basket goes through as a whole or not at all.
BasketExecutable(delta, depth, ratio, fullFill) ==
    \A s \in Symbols : delta[s] # 0 => Executable(s, delta, ratio, depth, fullFill[s])

\* Signed quantities after execution.
ExecutedTargets(current, delta, ratio) ==
    [s \in Symbols |-> current[s] + ExecutedDelta(s, delta, ratio)]
=============================================================================
