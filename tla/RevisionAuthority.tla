--------------------------- MODULE RevisionAuthority ---------------------------
(***************************************************************************)
(* The decision of the legacy cycle by content: a book is proposed over    *)
(* the inventory, one verdict accepts it or rejects it with constraints,   *)
(* one revision answers a rejection, and what the chain verified is filled *)
(* on a fresh market, whole or in one common part.  DecisionChain is the   *)
(* same cycle by files; here every artifact is the right one and the       *)
(* question is what the verdict allowed to happen to the account.          *)
(***************************************************************************)
EXTENDS AdversaryBinding

CONSTANTS
    Menu,      \* the legs that books are made of: [Symbols -> seats]
    Markets,   \* [dear, unpriced, barred : SUBSET Symbols, risk : BOOLEAN]
    Directives,  \* SUBSET {"none", "plain"}
    MaxCycles,
    MaxCorrections  \* how many symbols a rejection sets out to change

\* What is held of a symbol; the leg of a book has a thesis as well.
Seats == [side : {"long", "short"}, role : {"alpha", "hedge"}, size : Nat \ {0}]

ASSUME AuthorityAssumption ==
    /\ IsFiniteSet(Symbols) /\ None \notin Seats /\ None \notin Nat
    /\ MaxCycles \in Nat
    /\ \A legs \in Menu :
         /\ legs = [s \in Symbols |-> legs[s]]
         /\ \A s \in Selected(legs) :
              /\ [side |-> legs[s].side, role |-> legs[s].role, size |-> legs[s].size] \in Seats
              /\ legs[s].role = "hedge" => s = Btc

VARIABLES
    cycle,
    held,      \* [Symbols -> seat without a thesis, or None]
    prior,     \* the restart origin of the last committed book
    phase,     \* "idle", "proposed", "accepted", "rejected", "revised"
    market,    \* of the evidence; between cycles, the one the last commit was filled on
    directive,
    reviewed,  \* the book the verdict is about
    verdict,
    final      \* the book to execute

vars == <<cycle, held, prior, phase, market, directive, reviewed, verdict, final>>

Base == [held |-> held, market |-> market, cycle |-> cycle, prior |-> prior, directive |-> directive]

Books(origins, truths) == [legs : Menu, origin : origins, truthful : truths]

\* What the manager may propose; a book that misstates its figures claims no restart.
Proposals == Books({None, cycle, prior}, {TRUE}) \cup Books({None}, {FALSE})

\* Book.validate_controlled_restart_shape.
WellShaped(book) == book.origin # None => book.legs # Flat

Init ==
    /\ cycle = 1 /\ held = Flat /\ prior = None /\ phase = "idle"
    /\ market = None /\ directive = "none"
    /\ reviewed = None /\ verdict = None /\ final = None

\* desk_prepare: evidence, and the directive that binds this cycle.
Begin(m, d) ==
    /\ phase = "idle" /\ cycle <= MaxCycles
    /\ phase' = "begun" /\ market' = m /\ directive' = d
    /\ UNCHANGED <<cycle, held, prior, reviewed, verdict, final>>

Propose(book) ==
    /\ phase = "begun" /\ WellShaped(book)
    /\ phase' = "proposed" /\ reviewed' = book
    /\ UNCHANGED <<cycle, held, prior, market, directive, verdict, final>>

-----------------------------------------------------------------------------
\* The verdicts an adversary may write.  A rejection is written with another
\* book in mind: its constraints lead there, its audits and allowances are those
\* that book needs, or fewer.

Constraint(kind, s, seat) ==
    [kind |-> kind, symbol |-> s, side |-> seat.side, role |-> seat.role,
     thesis |-> seat.thesis, value |-> seat.size]

Toward(book, legs, kind) ==
    LET differ == {s \in Symbols : book.legs[s] # legs[s]}
    IN  {[kind |-> "drop_symbol", symbol |-> s] : s \in {t \in differ : legs[t] = None}}
        \cup {Constraint(kind, s, legs[s]) : s \in {t \in differ : legs[t] # None}}

\* What else a rejection may ask for.
Demands(book) ==
    {{[kind |-> "max_aggressive_changes", value |-> 1]}, {[kind |-> "min_deploy_frac", value |-> 1]},
     {[kind |-> "max_deploy_frac", value |-> 3], [kind |-> "max_dollar_residual_frac", value |-> 5],
      [kind |-> "max_abs_beta_residual", value |-> 5]}}
    \cup {{[kind |-> "preserve_symbol", symbol |-> s]} : s \in Selected(book.legs) \ {Btc}}
    \cup (IF book.truthful THEN {} ELSE {{[kind |-> "correct_book_metadata"]}})

Restored(book, legs) ==
    {<<s, legs[s].side, MaterialEffect(held[s], legs[s])>> :
        s \in {t \in Alpha(legs) : held[t] # None /\ held[t].side = legs[t].side
                                   /\ ~(t \in Alpha(book.legs) /\ book.legs[t].side = legs[t].side)}}

\* The exceptions that would cover a book; an adversary may claim them without a directive.
Excused(legs, bounds) ==
    [b \in {"B9", "B12"} |->
        IF b \notin bounds THEN {}
        ELSE IF b = "B9" THEN AggressiveChanges(held, legs)
        ELSE Unrepaid(held, legs, market) \cap AggressiveChanges(held, legs)]

\* No row failed, or one of them.
Failures(rows) == {{}} \cup {{r} : r \in rows}

Acceptances(book) ==
    LET rows == ExpectedRows(held, book.legs, {})
        failing == FailingBounds(held, book, market)
    IN  {[accept |-> TRUE, rows |-> r, failed |-> f, constraints |-> {}, allowed |-> {},
          exceptions |-> Excused(book.legs, b), approved |-> a, hedge |-> None, fallback |-> {}] :
            r \in {rows} \cup {rows \ {x} : x \in rows}, f \in Failures(rows),
            b \in {{}, failing}, a \in BOOLEAN}

\* What a rejection grants its revision.
Grants(legs) ==
    [approved : BOOLEAN, hedge : {None} \cup (IF HasHedge(legs) THEN {legs[Btc]} ELSE {}),
     quoted : {Overridable}]

Rejection(book, legs, kind, demand, missing, failed, grant) ==
    LET constraints == Toward(book, legs, kind) \cup demand
        rows == ExpectedRows(held, book.legs, constraints)
        goal == [legs |-> legs, origin |-> None, truthful |-> TRUE]
        lacking == FailingBounds(held, goal, market) \cap Overridable
    IN  [accept |-> FALSE, rows |-> rows \ missing, failed |-> failed,
         constraints |-> constraints, allowed |-> lacking,
         exceptions |-> Excused(legs, lacking \cap grant.quoted),
         approved |-> grant.approved, hedge |-> grant.hedge, fallback |-> Restored(book, legs)]

\* One way to word the constraints, one further demand, one missing or failed row, or no exception
\* quoted.
Rejections(book) ==
    LET permit == "permit_symbol_mutation"
        rows == ExpectedRows(held, book.legs, {})
    IN  UNION {UNION {
            {Rejection(book, legs, kind, {}, {}, {}, g) : kind \in Typed}
            \cup {Rejection(book, legs, permit, d, {}, {}, g) : d \in Demands(book)}
            \cup {Rejection(book, legs, permit, {}, {r}, {}, g) : r \in rows}
            \cup {Rejection(book, legs, permit, {}, {}, {r}, g) : r \in rows}
            \cup {Rejection(book, legs, permit, {}, {}, {}, [g EXCEPT !.quoted = {}])}
            : g \in Grants(legs)}
        : legs \in {l \in Menu : Cardinality({s \in Symbols : l[s] # book.legs[s]}) <= MaxCorrections}}

Accept(v) ==
    /\ phase = "proposed" /\ VerdictBinding(v, Base, reviewed)
    /\ phase' = "accepted" /\ verdict' = v /\ final' = reviewed
    /\ UNCHANGED <<cycle, held, prior, market, directive, reviewed>>

Reject(v) ==
    /\ phase = "proposed" /\ VerdictBinding(v, Base, reviewed)
    /\ phase' = "rejected" /\ verdict' = v
    /\ UNCHANGED <<cycle, held, prior, market, directive, reviewed, final>>

\* The manager's one revision, as the validator lets it stand.
Revise(book) ==
    /\ phase = "rejected" /\ WellShaped(book)
    /\ RevisionBinding(verdict, Base, reviewed, book)
    /\ phase' = "revised" /\ final' = book
    /\ UNCHANGED <<cycle, held, prior, market, directive, reviewed, verdict>>

-----------------------------------------------------------------------------
\* desk_reconcile: fills, fresh economics, achieved safety, commit.

Inventory(legs) ==
    [s \in Symbols |-> IF legs[s] = None THEN None
                       ELSE [side |-> legs[s].side, role |-> legs[s].role, size |-> legs[s].size]]

Trades(legs) == {s \in Symbols : Turnover(held[s], legs[s]) # 0}

\* A common part of the basket is filled only when no order ends or cuts a lifecycle.
Half(legs) ==
    [s \in Symbols |-> IF s \notin Trades(legs) THEN Inventory(legs)[s]
        ELSE [side |-> legs[s].side, role |-> legs[s].role,
              size |-> Size(held[s]) + (Turnover(held[s], legs[s]) \div 2)]]
MayFillPart(legs) ==
    /\ Trades(legs) # {}
    /\ \A s \in Trades(legs) : /\ Action(held[s], legs[s]) \in {"entry", "increase"}
                               /\ Turnover(held[s], legs[s]) % 2 = 0

Fills(legs) == {Inventory(legs)} \cup (IF MayFillPart(legs) THEN {Half(legs)} ELSE {})

B12Authorized == verdict.accept \/ "B12" \in verdict.allowed

\* A hedge that the reviewed book had exempted must still pay for itself.
StillInsured(legs, filled) ==
    LET without == Net(filled) - Signed(filled[Btc])
        carried == without + Signed(held[Btc])
        better(n) == Abs(Net(filled)) < Abs(n)
    IN  IF legs[Btc] = None THEN better(carried)
        ELSE better(without) /\ (better(carried) \/ Signed(filled[Btc]) = Signed(held[Btc]))

PricedNow(fresh, s)     == Priced(fresh, s)
PaysBackNow(legs, fresh, s) == PaysBack(held, legs, fresh, s)
\* An authorised failure may stay as bad as it was reviewed, never get worse.
NoWorseThanReviewed(fresh, s) == ~RepaysInTime(market, s) /\ PricedNow(fresh, s)

\* Mutant: the costs are those of the evidence, not those of the fills.
FreshEconomicsAsReviewed(legs, filled, fresh) ==
    LET failed == "B12" \in FailingBounds(held, final, market)
    IN  /\ failed => B12Authorized
        /\ \A s \in Changes(held, legs) :
             IF InsuranceExempt(held, legs, market, s) THEN StillInsured(legs, filled)
             ELSE PaysBackNow(legs, market, s) \/ (failed /\ NoWorseThanReviewed(market, s))
FreshEconomics(legs, filled, fresh) ==
    LET failed == "B12" \in FailingBounds(held, final, market)
    IN  /\ failed => B12Authorized
        /\ \A s \in Changes(held, legs) :
             IF InsuranceExempt(held, legs, market, s) THEN StillInsured(legs, filled)
             ELSE PaysBackNow(legs, fresh, s) \/ (failed /\ NoWorseThanReviewed(fresh, s))

\* _achieved_execution_safety: an override of the verdict does not reach these.
AchievedSafety(filled) ==
    /\ Unlevered(filled) /\ Neutral(filled) /\ Spread(filled)
    /\ "B1" \in FailingBounds(held, final, market) \/ Deployed(filled)

Forget == directive' = "none" /\ reviewed' = None /\ verdict' = None /\ final' = None

Execute(filled, fresh) ==
    /\ phase \in {"accepted", "revised"}
    /\ FreshEconomics(final.legs, filled, fresh)
    /\ AchievedSafety(filled)
    /\ held' = filled /\ prior' = final.origin /\ market' = fresh
    /\ cycle' = cycle + 1 /\ phase' = "idle" /\ Forget

\* Any refusal or a dead session: the cycle is prepared again.
GiveUp ==
    /\ phase # "idle"
    /\ phase' = "idle" /\ market' = None /\ Forget
    /\ UNCHANGED <<cycle, held, prior>>

Next ==
    \/ \E m \in Markets, d \in Directives : Begin(m, d)
    \/ \E book \in Proposals : Propose(book)
    \/ /\ phase = "proposed"
       /\ \E v \in Acceptances(reviewed) : Accept(v)
    \/ /\ phase = "proposed"
       /\ \E v \in Rejections(reviewed) : Reject(v)
    \/ /\ phase = "rejected"
       /\ \E book \in Books({None, reviewed.origin}, {TRUE}) : Revise(book)
    \/ /\ phase \in {"accepted", "revised"}
       /\ \E filled \in Fills(final.legs), fresh \in Markets : Execute(filled, fresh)
    \/ GiveUp

Spec == Init /\ [][Next]_vars

-----------------------------------------------------------------------------
\* Types: what is held always has a size, only BTC hedges, and an active restart is a
\* cycle of the past with something held (validate_seat_role, PriorBookLineage).
TypeOK ==
    /\ cycle \in 1 .. MaxCycles + 1
    /\ phase \in {"idle", "begun", "proposed", "accepted", "rejected", "revised"}
    /\ \A s \in Selected(held) : /\ held[s].size \in 1 .. Cash
                                 /\ held[s].role = "hedge" => s = Btc
    /\ prior # None => prior < cycle /\ held # Flat

Committed == cycle' # cycle
Passed(kind, s, what) == <<kind, s, what>> \in verdict.rows \ verdict.failed

\* Risk that nobody reviewed: an alpha seat that opens, flips or grows, in the reviewed book or in
\* its one revision, filled whole or in part, is one whose action the adversary passed, on the side
\* that was reviewed and no larger.  BTC that was held as a hedge is the exception: the code
\* compares what it trades.
NoUnreviewedRisk ==
    [][Committed => \A s \in AggressiveAlpha(held, held') :
          /\ Passed("action", s, MaterialEffect(held[s], held'[s]))
          /\ reviewed.legs[s] # None /\ reviewed.legs[s].side = held'[s].side
          /\ \/ held[s] # None /\ held[s].role = "hedge"
             \/ held'[s].size <= reviewed.legs[s].size]_vars

\* Incumbency is no excuse: every alpha seat of the account was affirmed by the verdict of the cycle
\* that last committed, on its side, or restored under a fallback audit (SeatAudit, and the
\* requirement that a revision retain no failed seat).
HeldWasAudited ==
    [][Committed => \A s \in Alpha(held') :
          \/ <<s, held'[s].side>> \in {<<f[1], f[2]>> : f \in verdict.fallback}
          \/ /\ s \in Alpha(reviewed.legs) /\ reviewed.legs[s].side = held'[s].side
             /\ \E effect \in Aggressive \cup {"none", "reduction"} : Passed("seat", s, effect)]_vars

\* No lifecycle ends unaudited: what is dropped, flipped or relabelled has an exit audit that passed
\* for that very end, also when only the revision ends it (ExitAudit).
IncumbentsEndReviewed ==
    [][Committed => \A s \in Symbols :
          Action(held[s], held'[s]) \in Ends => Passed("exit", s, Action(held[s], held'[s]))]_vars

\* A controlled restart begins flat, reviewed as one and without a directive, keeps its origin, and
\* ends only with the account flat (PriorBookLineage, the lineage of precheck).
LineageHolds ==
    [][Committed =>
          IF prior # None THEN prior' = prior \/ (prior' = None /\ held' = Flat)
          ELSE prior' # None => /\ prior' = cycle /\ reviewed.origin = cycle
                                /\ held = Flat /\ directive = "none"]_vars

\* While a restart is active its gross outgrows the seed only with the adversary's explicit approval
\* (ControlledRestartRiskAudit), also through a revision of a book that was within the seed.
SeedCapHeld ==
    [][Committed /\ prior' # None /\ Expansion(held') => verdict.approved]_vars

\* A controlled restart keeps both its lineage and its cap.
RestartHolds == LineageHolds /\ SeedCapHeld

Insures(legs, s) == s = Btc /\ Abs(Net(legs)) < Abs(Net(legs) - Signed(legs[Btc]))
Quoted(b, s) == directive # "none" /\ s \in verdict.exceptions[b]

\* A directive is the only excuse for too many aggressive changes, or for one that repays its cost
\* too late on the market it was reviewed on or on the one it was filled on, and it covers the symbols
\* that were quoted (DirectiveExceptionAudit, _verify_fresh_execution_economics).  BTC that leaves
\* the account nearer to neutral needs no excuse.
ExceptionsQuoted ==
    [][Committed => \A s \in AggressiveChanges(held, held') :
          /\ "B9" \in FailingBounds(held, final, market) => Quoted("B9", s)
          /\ \A seen \in {market, market'} :
                \/ PaysBack(held, held', seen, s)
                \/ Insures(held', s)
                \/ Quoted("B12", s) /\ Priced(seen, s)]_vars
=============================================================================
