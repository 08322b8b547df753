---------------------------- MODULE PaperTrading ----------------------------
(***************************************************************************)
(* The paper account over time: a venue whose funding boundaries pass,     *)
(* whose events are published late and whose intervals change, the         *)
(* token-free heartbeat that settles funding (scripts/desk_heartbeat.py)   *)
(* and the reconcile of a decided book, which observes the market leg by   *)
(* leg, proves the funding history, settles it and fills the basket        *)
(* (scripts/desk_cross_section_reconcile.py, scripts/desk_reconcile.py,    *)
(* reconcile_book in futures_fund/desk_cycle.py).  One process at a time   *)
(* works on the account (RunLock); its durable commit is AccountCommit's.  *)
(***************************************************************************)
EXTENDS FundingHistory, ExecutionBasket

CONSTANTS Books,         \* the books a decision may ask for: sets of legs
          Marks,         \* execution prices, a set of [Symbols -> Nat]
          Rates,         \* [Symbols -> [ticks -> Int]], mark * rate of a settlement
          Depths,        \* crossing depth of the snapshots, a set of [Symbols -> Nat]
          Schedules,     \* the venue's first schedules
          Horizon,       \* last tick
          MaxDelay,      \* ticks an event may stay unpublished
          MaxExecution,  \* ticks between the first and the last observation of a basket
          MaxLateEvents, MaxChanges, MaxCycles  \* bounds

ASSUME TradingAssumption ==
    /\ Marks # {} /\ Marks \subseteq [Symbols -> Nat] /\ Depths \subseteq [Symbols -> Nat]
    /\ Schedules \subseteq [Symbols -> Intervals]
    /\ {Horizon, MaxDelay, MaxExecution, MaxLateEvents, MaxChanges, MaxCycles} \subseteq Nat
    /\ Horizon >= Hour
    /\ \A s \in Symbols : \A t \in 1..(Horizon + MaxLag) : Rates[s][t] \in Int
    /\ \A book \in Books :
         IsFiniteSet(book) /\ book \subseteq [symbol : Symbols, qty : Int, role : Roles]

VARIABLES now,       \* the clock, in ticks
          every,     \* [Symbols -> Intervals], the venue's current schedule
          pending,   \* events that happened and are not published: <<symbol, tick>>
          feed,      \* [Symbols -> set of ticks], published events
          account,   \* the paper account
          basket,    \* the reconcile in progress
          archive,   \* sums over the closed legs already journaled
          owed,      \* history: <<symbol, boundary, units held at it>>
          missed,    \* history: owed boundaries a changed-interval window left out
          altered,   \* history: symbols whose interval changed, since when
          used       \* [late, changes, cycles], the bounds spent

vars == <<now, every, pending, feed, account, basket, archive, owed, missed, altered, used>>

\* Changed since the funding clock; once and twice while the legs of a basket are observed.
Unaltered == [unsettled |-> {}, once |-> {}, twice |-> {}]

NoBasket == [on |-> FALSE, book |-> {}, since |-> 0, decided |-> [s \in Symbols |-> 0]]

Init ==
    /\ now = Hour - 1
    /\ every \in Schedules
    /\ pending = {}
    /\ feed = [s \in Symbols |-> {}]
    /\ account = EmptyAccount
    /\ basket = NoBasket
    /\ archive = [fees |-> 0, slippage |-> 0, funding |-> 0, realized |-> 0]
    /\ owed = {} /\ missed = {} /\ altered = Unaltered
    /\ used = [late |-> 0, changes |-> 0, cycles |-> 0]

---------------------------------------------------------------------------
\* The venue.

\* A tick; at a whole hour the scheduled symbols settle, stamped up to MaxLag late.
\* The feed is complete again MaxDelay ticks after an event.
Tick ==
    /\ now < Horizon
    /\ \A e \in pending : now < e[2] + MaxDelay
    /\ basket.on => now < basket.since + MaxExecution
    /\ now' = now + 1
    /\ LET due == {s \in Symbols : now' % (Hour * every[s]) = 0}
       IN  \E lagging \in SUBSET due :
             /\ used.late + Cardinality(lagging) <= MaxLateEvents
             /\ used' = [used EXCEPT !.late = @ + Cardinality(lagging)]
             /\ pending' = pending \cup {<<s, now' + (IF s \in lagging THEN MaxLag ELSE 0)>> :
                                            s \in due}
             /\ owed' = owed \cup {<<s, now', account.positions[s].qty>> :
                                      s \in due \cap Held(account)}
    /\ UNCHANGED <<every, feed, account, basket, archive, missed, altered>>

Publish ==
    \E e \in pending :
        /\ e[2] <= now
        /\ pending' = pending \ {e}
        /\ feed' = [feed EXCEPT ![e[1]] = @ \cup {e[2]}]
        /\ UNCHANGED <<now, every, account, basket, archive, owed, missed, altered, used>>

ChangeInterval ==
    /\ used.changes < MaxChanges
    /\ \E s \in Symbols : \E i \in Intervals \ {every[s]} :
         LET during == IF basket.on THEN {s} ELSE {}
         IN  /\ every' = [every EXCEPT ![s] = i]
             /\ altered' = [unsettled |-> altered.unsettled \cup {s},
                            once  |-> altered.once \cup during,
                            twice |-> altered.twice \cup (altered.once \cap during)]
    /\ used' = [used EXCEPT !.changes = @ + 1]
    /\ UNCHANGED <<now, pending, feed, account, basket, archive, owed, missed>>

---------------------------------------------------------------------------
\* Settlement, shared by the heartbeat and the reconcile.

PreviousTs == IF account.clock = NoClock THEN now ELSE account.clock

\* collect_funding_events over every held symbol, then settle_funding_events' own checks.
Window == [s \in Symbols |-> InWindow(feed[s], PreviousTs, now)]
Settled == SettleFundingEvents(account, Window, Rates, now, every)
FundingProven ==
    /\ \A s \in Held(account) :
         Collectable(feed[s], PreviousTs, now, account.observed[s], every[s])
    /\ ~SettleRefused(account, Window, now)
    /\ Settled.cash >= 0

\* History only: boundaries of this window that are still unpublished although the
\* window closes, which a change of their symbol's interval within it allows.
LeftOut ==
    {o \in owed : /\ PreviousTs < o[2] /\ o[2] <= now
                  /\ o[1] \in altered.unsettled
                  /\ o[2] \notin {NominalBoundary(t) : t \in Window[o[1]]}}

---------------------------------------------------------------------------
\* scripts/desk_heartbeat.py with settle_funding_heartbeat: the book is unchanged.
Heartbeat ==
    /\ ~basket.on
    /\ account.clock # now
    /\ FundingProven
    /\ \E settled \in {a \in {Settled} : Persistable(a)} : account' = settled
    /\ missed' = missed \cup LeftOut
    /\ altered' = Unaltered
    /\ UNCHANGED <<now, every, pending, feed, basket, archive, owed, used>>

---------------------------------------------------------------------------
\* The reconcile.

NetQuantity(book, s) ==
    Total([leg \in book |-> leg.qty], {leg \in book : leg.symbol = s})
Booked(book) == {leg.symbol : leg \in book}

\* Any alpha leg makes the symbol alpha; a dropped symbol keeps the role it has.
TargetRole(book, s) ==
    IF s \notin Booked(book) THEN account.positions[s].role
    ELSE IF \E leg \in book : leg.symbol = s /\ leg.role = "alpha" THEN "alpha" ELSE "hedge"

\* _execution_inputs starts: the decision chain is verified and the first leg observed.
BeginReconcile ==
    /\ ~basket.on
    /\ used.cycles < MaxCycles
    /\ \E book \in Books :
         basket' = [on |-> TRUE, book |-> book, since |-> now, decided |-> every]
    /\ UNCHANGED <<now, every, pending, feed, account, archive, owed, missed, altered, used>>

\* Symbols of the basket: everything the book names and everything held.
InBasket == Booked(basket.book) \cup Held(account)

Current == [s \in Symbols |-> account.positions[s].qty]
\* A mutant: a held name the book no longer lists lingers.
DesiredIfListed ==
    [s \in Symbols |-> IF s \in Booked(basket.book) THEN NetQuantity(basket.book, s)
                                                    ELSE Current[s]]
Desired == [s \in Symbols |-> NetQuantity(basket.book, s)]
Deltas == [s \in Symbols |-> Desired[s] - Current[s]]
RolesOf == [s \in Symbols |-> TargetRole(basket.book, s)]

\* lifecycle_requires_full_fill of _execution_target_audit.
FullFill ==
    [s \in Symbols |->
        /\ Current[s] # 0
        /\ \/ Desired[s] * Current[s] <= 0
           \/ Abs(Desired[s]) < Abs(Current[s])
           \/ RolesOf[s] # account.positions[s].role]

\* Checked before the book is touched: the history of the held symbols is proven up to
\* the last observation, and no boundary fell between the observations of the legs.
Verified ==
    /\ FundingProven
    /\ ExecutionWindowSafe(InBasket, basket.since, now, Held(account), feed, PreviousTs, now,
                           basket.decided, every)

\* reconcile_book: settle, fill, record the intervals.
Reconciled(settled, desired, targets, roles, marks) ==
    LET filled == ApplyFills(settled, desired, targets, roles, marks, used.cycles + 1)
    IN  [filled EXCEPT !.observed = [s \in Symbols |->
                           IF filled.positions[s].qty # 0 THEN every[s] ELSE 0]]

\* The closed legs leave the account for the journal in the same commit.
OfLegs(legs, field) == Total([i \in DOMAIN legs |-> legs[i][field]], DOMAIN legs)
Journaled(legs) == [field \in DOMAIN archive |-> archive[field] + OfLegs(legs, field)]

FinishReconcile ==
    /\ basket.on
    /\ LET desired == Desired
           delta == Deltas
           roles == RolesOf
           settled == Settled
           Ratio(depth) == Participation(delta, depth)
           Accepted(depth) ==
               /\ Verified
               /\ BasketExecutable(delta, depth, Ratio(depth), FullFill)
               /\ ~FillsRefused(account, desired,
                      [s \in Symbols |-> ~PartialFill(s, delta, Ratio(depth))], roles)
           Results == {Reconciled(settled, desired,
                                  ExecutedTargets(Current, delta, Ratio(depth)), roles, marks) :
                           depth \in {d \in Depths : Accepted(d)}, marks \in Marks}
       IN  \E final \in {r \in Results : Persistable(r)} :
             /\ account' = Drained(final)
             /\ archive' = Journaled(final.closed)
    /\ missed' = missed \cup LeftOut
    /\ altered' = Unaltered
    /\ basket' = NoBasket
    /\ used' = [used EXCEPT !.cycles = @ + 1]
    /\ UNCHANGED <<now, every, pending, feed, owed>>

\* _halt: any refusal, here or in the safety bounds of the achieved book that follow
\* the fills, leaves the account as it was.
Halt ==
    /\ basket.on
    /\ basket' = NoBasket
    /\ altered' = [altered EXCEPT !.once = {}, !.twice = {}]
    /\ UNCHANGED <<now, every, pending, feed, account, archive, owed, missed, used>>

Next == Tick \/ Publish \/ ChangeInterval \/ Heartbeat \/ BeginReconcile
          \/ FinishReconcile \/ Halt

Spec == Init /\ [][Next]_vars

---------------------------------------------------------------------------
OfPositions(a, field) == Total([s \in Symbols |-> a.positions[s][field]], Symbols)
Money(field) == OfPositions(account, field)

\* Values stay in range, and a held account always has a clock and an interval for
\* every position it holds: without either the next settlement could only refuse.
TypeOK ==
    /\ now \in 0..Horizon
    /\ every \in [Symbols -> Intervals]
    /\ feed \in [Symbols -> SUBSET (1..(Horizon + MaxLag))]
    /\ account.cash \in Int /\ account.clock \in (0..Horizon) \cup {NoClock}
    /\ Held(account) # {} => account.clock # NoClock
    /\ \A s \in Symbols : account.positions[s].qty # 0 <=> account.observed[s] # 0
    /\ \A s \in Symbols : account.positions[s].role \in Roles
    /\ account.closed = <<>>

\* When the venue settled symbol s, published or not.
Happened(s) == feed[s] \cup {e[2] : e \in {p \in pending : p[1] = s}}

\* Every cent of the account belongs to a leg: the fees, slippage, funding and realized
\* profit of the account are those of its open positions and of the legs it closed.
\* (The pro-rata split of a flip and the role transfer are where one could go astray.)
AttributionComplete ==
    /\ account.fees = Money("fees") + archive.fees
    /\ account.slippage = Money("slippage") + archive.slippage
    /\ account.received - account.paid = Money("funding") + archive.funding
    /\ account.realized = Money("realized") + archive.realized

\* What the boundary of an owed entry cost or paid, and the entries the clock has passed.
SettledAt(o) == CHOOSE t \in Happened(o[1]) : NominalBoundary(t) = o[2]
Payment == [o \in owed |-> -o[3] * Rates[o[1]][SettledAt(o)]]
Elapsed == {o \in owed \ missed : o[2] <= account.clock}

\* The funding booked is exactly what the venue's boundaries cost or paid on the units
\* held at them, each once, up to the funding clock: none is charged twice by two
\* windows that meet, none is dropped because its event came late, whichever windows
\* the heartbeats and reconciles cut, and however often the venue changes an interval.
\* The boundaries in `missed` are the exception: unpublished ones of a symbol whose
\* interval changed since the last settlement.
FundingExact == account.received - account.paid = Total(Payment, Elapsed)

\* A committed reconcile leaves every symbol at the lot-rounded quantity its book asks
\* for; only a same-side, same-role growth may stop short of it, and it never retreats
\* or overshoots.
BookFollowed ==
    LET Asked(s) == Current[s] + Quantized(s, NetQuantity(basket.book, s) - Current[s])
        Got(s) == account'.positions[s].qty
    IN  \A s \in Symbols :
          \/ Got(s) = Asked(s)
          \/ /\ Abs(Current[s]) <= Abs(Got(s)) /\ Abs(Got(s)) < Abs(Asked(s))
             /\ Got(s) * Asked(s) > 0
             /\ Current[s] = 0 \/ account'.positions[s].role = account.positions[s].role
FillsFollowBook == [][account'.positions # account.positions /\ basket.on /\ ~basket'.on
                        => BookFollowed]_vars

\* No funding settlement of a symbol of the basket fell between the observations of its
\* first and last legs: otherwise a leg observed before it would be charged, or spared, as
\* if it had traded after it.  Excepted are the boundaries of a held symbol that are
\* `missed`, and a new symbol whose interval changed twice between the two moments at
\* which the code looks at it.
BasketClearOfBoundary ==
    \A s \in InBasket : \A b \in {NominalBoundary(t) : t \in Happened(s)} :
          basket.since < b /\ b <= now =>
              IF s \in Held(account) THEN \E o \in missed' : o[1] = s /\ o[2] = b
                                     ELSE s \in altered.twice
NoStraddledBasket == [][used'.cycles # used.cycles => BasketClearOfBoundary]_vars

\* What is left of the cash when the inventory is paid for.
Bank(a) == a.cash - Total([s \in Symbols |-> EntryValue(a.positions[s])], Symbols)

\* The units and the money of the account are those of a bank and an inventory: entry
\* prices, realized profit, roles and closed legs create and lose no cent.
Plain == INSTANCE InventoryLedger WITH
           Marks <- UNION {{mark[s] : s \in Symbols} : mark \in Marks},
           FrictionUnit <- FeeUnit + SlipUnit,
           bank <- Bank(account),
           inventory <- [s \in Symbols |-> account.positions[s].qty],
           credited <- account.received - account.paid
ImplementsInventory == Plain!Ledger
=============================================================================
