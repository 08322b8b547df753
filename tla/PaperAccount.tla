---------------------------- MODULE PaperAccount ----------------------------
(***************************************************************************)
(* futures_fund/account.py: the paper account as a value and the three     *)
(* operations that change it, settle_funding_events, apply_fills and       *)
(* drain_closed_legs, with the role transfer and the reduce/close/flip     *)
(* path below them.  The operators are pure: the code works on a copy and  *)
(* publishes it only when nothing raised (heartbeat.py, desk_cycle.py).    *)
(*                                                                         *)
(* Quantities are whole units and money is whole cents.  A position keeps  *)
(* its basis (quantity times average entry price) in place of the entry    *)
(* price; frictions are proportional to the units traded.                  *)
(***************************************************************************)
EXTENDS Totals, FiniteSets, Sequences

CONSTANTS Symbols, FeeUnit, SlipUnit, StartCash

ASSUME AccountAssumption ==
    /\ IsFiniteSet(Symbols)
    /\ {FeeUnit, SlipUnit, StartCash} \subseteq Nat

Abs(n) == IF n < 0 THEN -n ELSE n
Sign(n) == IF n < 0 THEN -1 ELSE 1

Roles == {"alpha", "hedge"}
Flat == [qty |-> 0, basis |-> 0, role |-> "alpha", opened |-> 0,
         fees |-> 0, slippage |-> 0, funding |-> 0, realized |-> 0]
NoClock == -1

EmptyAccount ==
    [cash |-> StartCash, realized |-> 0, fees |-> 0, slippage |-> 0,
     received |-> 0, paid |-> 0, clock |-> NoClock,
     observed |-> [s \in Symbols |-> 0],          \* 0: no interval recorded
     positions |-> [s \in Symbols |-> Flat],      \* quantity 0: not held
     closed |-> <<>>]

Held(a) == {s \in Symbols : a.positions[s].qty # 0}

\* The signed basis that a position's quantity cost: cash plus unrealized profit is
\* cash - EntryValue + quantity * mark.
EntryValue(p) == Sign(p.qty) * p.basis

---------------------------------------------------------------------------
\* settle_funding_events: everything is staged, then applied, then the clock moves.

SettleRefused(a, events, now) ==
    \/ Held(a) # {} /\ a.clock = NoClock
    \/ now < a.clock
    \/ \E s \in Held(a) : \E t \in events[s] : ~(a.clock < t /\ t <= now)

\* The staged events, as <<symbol, instant>>.
Due(held, events) ==
    {e \in held \X UNION {events[u] : u \in held} : e[2] \in events[e[1]]}

\* An event credits -side * mark * qty * rate to the balance; `rates` is mark * rate.
SettleFundingEvents(a, events, rates, now, intervals) ==
    LET due    == Due(Held(a), events)
        credit == [e \in due |-> -a.positions[e[1]].qty * rates[e[1]][e[2]]]
        gains  == {e \in due : credit[e] >= 0}
        funded == [s \in Symbols |->
                     IF s \in Held(a)
                     THEN [a.positions[s] EXCEPT
                             !.funding = @ + Total(credit, {e \in due : e[1] = s})]
                     ELSE a.positions[s]]
    IN  [a EXCEPT
           !.cash = @ + Total(credit, due),
           !.received = @ + Total(credit, gains),
           !.paid = @ - Total(credit, due \ gains),
           !.clock = now,
           !.observed = [s \in Symbols |-> IF s \in Held(a) THEN intervals[s] ELSE 0],
           !.positions = funded]

---------------------------------------------------------------------------
\* Frictions, closed legs and role transfers.

Fee(units) == FeeUnit * units
Slip(units) == SlipUnit * units

\* _charge_frictions on the position of s (and on the account).
ChargeFrictions(a, s, units) ==
    [a EXCEPT !.cash = @ - Fee(units) - Slip(units),
              !.fees = @ + Fee(units),
              !.slippage = @ + Slip(units),
              !.positions[s].fees = @ + Fee(units),
              !.positions[s].slippage = @ + Slip(units)]

ClosedLeg(s, p) ==
    [symbol |-> s, opened |-> p.opened, role |-> p.role, fees |-> p.fees,
     slippage |-> p.slippage, funding |-> p.funding, realized |-> p.realized]

\* Realize the price profit of `units` of the position of s at `mark`.
Realize(a, s, units, mark) ==
    LET p == a.positions[s]
        cost == (p.basis * units) \div Abs(p.qty)
        gain == Sign(p.qty) * (units * mark - cost)
    IN  [a EXCEPT !.cash = @ + gain,
                  !.realized = @ + gain,
                  !.positions[s].realized = @ + gain,
                  !.positions[s].basis = @ - cost,
                  !.positions[s].qty = @ - Sign(@) * units]

\* _roll_seat_lifecycle: the whole position changes role at the mark without a trade.
RollSeatLifecycle(a, s, mark, role, cycle) ==
    LET p == a.positions[s]
        done == Realize(a, s, Abs(p.qty), mark)
    IN  [done EXCEPT
           !.closed = Append(@, ClosedLeg(s, done.positions[s])),
           !.positions[s] = [Flat EXCEPT !.qty = p.qty, !.basis = Abs(p.qty) * mark,
                                         !.role = role, !.opened = cycle]]

\* A mutant: the closed leg is journaled before it is charged its frictions.
ReconcileSnapshotFirst(a, s, target, mark, role, cycle) ==
    LET p == a.positions[s]
        closing == Min({Abs(target - p.qty), Abs(p.qty)})
        reduced == Realize(ChargeFrictions(a, s, closing), s, closing, mark)
        popped == [reduced EXCEPT !.closed = Append(@, ClosedLeg(s, p)), !.positions[s] = Flat]
        flipped == [popped EXCEPT
                      !.positions[s] = [Flat EXCEPT !.qty = target, !.role = role,
                                          !.basis = Abs(target) * mark, !.opened = cycle]]
    IN  IF closing < Abs(p.qty) THEN [reduced EXCEPT !.positions[s].role = role]
        ELSE IF target = 0 THEN popped
        ELSE ChargeFrictions(flipped, s, Abs(target))

\* _reconcile_opposite: reduce, close or flip.  The old leg pays the frictions of the
\* units it closes, the leg a flip opens pays for its own.
ReconcileOpposite(a, s, target, mark, role, cycle) ==
    LET p == a.positions[s]
        closing == Min({Abs(target - p.qty), Abs(p.qty)})
        reduced == Realize(ChargeFrictions(a, s, closing), s, closing, mark)
        popped == [reduced EXCEPT
                     !.closed = Append(@, ClosedLeg(s, reduced.positions[s])),
                     !.positions[s] = Flat]
        flipped == [popped EXCEPT
                      !.positions[s] = [Flat EXCEPT !.qty = target, !.role = role,
                                          !.basis = Abs(target) * mark, !.opened = cycle]]
    IN  IF closing < Abs(p.qty) THEN [reduced EXCEPT !.positions[s].role = role]
        ELSE IF target = 0 THEN popped
        ELSE ChargeFrictions(flipped, s, Abs(target))

\* A same-side open or increase: the average entry blends, the leg pays the frictions.
OpenOrIncrease(a, s, target, mark, role, cycle) ==
    LET p == a.positions[s]
        added == Abs(target - p.qty)
        charged == ChargeFrictions(a, s, added)
    IN  [charged EXCEPT
           !.positions[s].qty = target,
           !.positions[s].basis = @ + added * mark,
           !.positions[s].role = role,
           !.positions[s].opened = IF p.qty = 0 THEN cycle ELSE @]

---------------------------------------------------------------------------
\* apply_fills for one symbol of the full intended book.  `desired` is the quantity the
\* book asks for, `target` the quantity execution attained.

\* What is left of an unfinished flip or drop keeps its old role.
AttainedRole(p, desired, target, role) ==
    IF p.qty # 0 /\ target # 0 /\ (desired = 0 \/ desired * target < 0) THEN p.role ELSE role

\* A mutant: a flip is taken for a growth.
FillFlipAsGrowth(a, s, desired, target, bookRole, mark, cycle) ==
    LET p == a.positions[s]
        role == AttainedRole(p, desired, target, bookRole)
    IN  IF target = p.qty THEN a
        ELSE IF p.qty # 0 /\ Abs(target) < Abs(p.qty)
             THEN ReconcileOpposite(a, s, target, mark, role, cycle)
             ELSE OpenOrIncrease(a, s, target, mark, role, cycle)

FillSymbol(a, s, desired, target, bookRole, mark, cycle) ==
    LET p == a.positions[s]
        role == AttainedRole(p, desired, target, bookRole)
        sameSide == target = 0 \/ Sign(target) = Sign(p.qty)
        roleChange == p.qty # 0 /\ sameSide /\ p.role # role
        reduction == roleChange /\ Abs(target) < Abs(p.qty)
        rolled == IF roleChange /\ ~reduction
                  THEN RollSeatLifecycle(a, s, mark, role, cycle) ELSE a
        opposite == p.qty # 0 /\ (target * p.qty < 0 \/ Abs(target) < Abs(p.qty))
        reconciled == ReconcileOpposite(rolled, s, target, mark,
                                        IF reduction THEN p.role ELSE role, cycle)
    IN  IF target = p.qty
        THEN IF p.qty = 0 THEN rolled ELSE [rolled EXCEPT !.positions[s].role = role]
        ELSE IF ~opposite THEN OpenOrIncrease(rolled, s, target, mark, role, cycle)
        ELSE IF reduction /\ reconciled.positions[s].qty # 0
             THEN RollSeatLifecycle(reconciled, s, mark, role, cycle)
             ELSE reconciled

\* A trade that reduces, closes, flips or changes the role of a held position.
LifecycleTrade(p, desired, role) ==
    /\ p.qty # 0
    /\ desired # p.qty
    /\ desired * p.qty <= 0 \/ Abs(desired) < Abs(p.qty) \/ role # p.role

\* apply_fills: the whole book or nothing.
FillsRefused(a, desired, completed, roles) ==
    \E s \in Symbols : LifecycleTrade(a.positions[s], desired[s], roles[s]) /\ ~completed[s]

ApplyFills(a, desired, target, roles, marks, cycle) ==
    FoldSet(LAMBDA s, acc : FillSymbol(acc, s, desired[s], target[s], roles[s],
                                       marks[s], cycle),
            a, Symbols)

\* drain_closed_legs
Drained(a) == [a EXCEPT !.closed = <<>>]

\* What from_dict and to_dict demand of an account that is read or written.
Persistable(a) ==
    /\ a.cash >= 0
    /\ Held(a) # {} => a.clock # NoClock
    /\ \A s \in Symbols : a.observed[s] # 0 => s \in Held(a)
=============================================================================
