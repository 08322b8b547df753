--------------------------- MODULE AdversaryBinding ---------------------------
(***************************************************************************)
(* What adversary_binding.py lets the one verdict of a cycle authorise:    *)
(* the book as it was reviewed, or one revision of it inside the           *)
(* constraints, the audits and the exceptions of the rejection.            *)
(*                                                                         *)
(* A verdict is a record                                                   *)
(*   accept      : BOOLEAN                                                 *)
(*   rows        : the audit rows <<kind, symbol, action>> it carries      *)
(*   failed      : the rows with a question it did not affirm              *)
(*   constraints : the revision constraints                                *)
(*   allowed     : the bounds the revision may fail                        *)
(*   exceptions  : ["B9" and "B12" -> symbols the directive excuses]       *)
(*   approved    : whether a restart may outgrow its seed                  *)
(*   hedge       : the hedge the revision may carry, or None               *)
(*   fallback    : the held seats <<symbol, side, effect>> it may restore  *)
(* Every row that echoes reads, calibrations and prior theses echoes them  *)
(* exactly: a verdict that does not is refused before any of this matters. *)
(***************************************************************************)
EXTENDS Precheck

CONSTANT SeedMax  \* the gross of a restart that needs no approval, in percent of cash

ASSUME BindingConstants == SeedMax \in Nat

Typed == {"permit_symbol_mutation", "max_symbol_notional", "min_symbol_notional"}
Mutating == Typed \cup {"drop_symbol"}
Ends == {"drop", "flip", "role_change"}
Overridable == {"B1", "B9", "B12"}
Structural == {"B7", "B8", "B10", "B11"}

Expansion(legs) == ~AtMost(Gross(legs), Cash, SeedMax)

-----------------------------------------------------------------------------
\* The rows a verdict on a book has to carry, no more and no less.

SeatRows(held, legs) == {<<"seat", s, MaterialEffect(held[s], legs[s])>> : s \in Alpha(legs)}

ActionRows(held, legs) ==
    {<<"action", s, MaterialEffect(held[s], legs[s])>> : s \in AggressiveAlpha(held, legs)}

HedgeRows(legs) == IF HasHedge(legs) THEN {<<"hedge", Btc, "hedge">>} ELSE {}

\* The end that a constraint on a held symbol would bring about.
ProspectiveEnd(held, c) ==
    IF c.kind \notin Mutating \/ held[c.symbol] = None THEN {}
    ELSE IF c.kind = "drop_symbol" THEN {<<"exit", c.symbol, "drop">>}
    ELSE IF c.role # held[c.symbol].role THEN {<<"exit", c.symbol, "role_change">>}
    ELSE IF c.side # held[c.symbol].side THEN {<<"exit", c.symbol, "flip">>} ELSE {}

ExitRows(held, legs, constraints) ==
    {<<"exit", s, Action(held[s], legs[s])>> : s \in {t \in Symbols : Action(held[t], legs[t]) \in Ends}}
    \cup UNION {ProspectiveEnd(held, c) : c \in constraints}

ExpectedRows(held, legs, constraints) ==
    SeatRows(held, legs) \cup ActionRows(held, legs) \cup HedgeRows(legs)
    \cup ExitRows(held, legs, constraints)

RowsCover(v, held, legs) == v.rows = ExpectedRows(held, legs, v.constraints)

-----------------------------------------------------------------------------
\* Exceptions, fallbacks and hedges.

ExceptionScope(v, held, legs, market, authorized) ==
    LET rows == Unrepaid(held, legs, market)
        fresh == AggressiveChanges(held, legs)
    IN  /\ v.exceptions["B9"] = IF "B9" \in authorized THEN fresh ELSE {}
        /\ v.exceptions["B12"] = IF "B12" \in authorized THEN rows \cap fresh ELSE {}
        /\ "B12" \in authorized =>
              /\ rows \cap market.unpriced = {}
              /\ \A s \in rows \ fresh : Action(held[s], legs[s]) \in {"reduction", "drop"}

FallbackAudited(v, held) ==
    \A f \in v.fallback :
        /\ \E c \in v.constraints : c.kind \in Typed /\ c.symbol = f[1] /\ c.side = f[2]
                                    /\ c.role = "alpha"
        /\ f[3] \in {"none", "increase", "reduction"}
        /\ held[f[1]] # None /\ held[f[1]].side = f[2] /\ held[f[1]].role = "alpha"

HedgeAuthority(v) ==
    LET onBtc == {c \in v.constraints : c.kind \in Typed /\ c.symbol = Btc}
    IN  v.hedge # None =>
            /\ onBtc # {}
            /\ \A c \in onBtc :
                 /\ c.side = v.hedge.side /\ c.role = "hedge"
                 /\ c.kind = "max_symbol_notional" => v.hedge.size <= c.value
                 /\ c.kind = "min_symbol_notional" => v.hedge.size >= c.value

RestartAudited(v, book) ==
    /\ v.approved => book.origin # None /\ Expansion(book.legs)
    /\ v.accept /\ book.origin # None /\ Expansion(book.legs) => v.approved

-----------------------------------------------------------------------------
\* verify_verdict_binding.  base is the cycle's [held, market, cycle, prior, directive].

AcceptBinding(v, base, book) ==
    LET failing == FailingBounds(base.held, book, base.market)
    IN  /\ failing \cap Structural = {}
        /\ HardBans(base.held, book.legs, base.market) = {}
        /\ LineageValid(base.held, book, base.market, base.cycle, base.prior, base.directive)
        /\ ExceptionScope(v, base.held, book.legs, base.market, failing)
        /\ v.failed = {}
        /\ HasHedge(book.legs) => HedgeRiskReducing(book.legs)
                                  /\ HedgeChangeRiskReducing(base.held, book.legs)

VerdictBinding(v, base, book) ==
    /\ base.directive = "none" => v.exceptions["B9"] \cup v.exceptions["B12"] = {}
    /\ RowsCover(v, base.held, book.legs)
    /\ RestartAudited(v, book)
    /\ FallbackAudited(v, base.held)
    /\ HedgeAuthority(v)
    /\ v.accept => AcceptBinding(v, base, book)
    /\ v.accept \/ v.constraints # {}

-----------------------------------------------------------------------------
\* verify_revision_binding: the final book against the book that was reviewed.

Same(before, after) == before = after

LineageKept(reviewed, final) ==
    \/ final.origin = reviewed.origin
    \/ reviewed.origin # None /\ ExplicitEnd(final)

\* The restart audit named a horizon for every alpha seat of the reviewed book.
AuditedHorizon(reviewed, final, s) ==
    s \in Alpha(reviewed.legs) /\ final.legs[s].thesis.horizon = reviewed.legs[s].thesis.horizon

\* Mutant: the approval is asked only of the book that was reviewed.
RestartInScopeOfSeats(v, reviewed, final) ==
    final.origin # None => \A s \in Alpha(final.legs) : AuditedHorizon(reviewed, final, s)
RestartInScope(v, reviewed, final) ==
    final.origin # None =>
        /\ \A s \in Alpha(final.legs) : AuditedHorizon(reviewed, final, s)
        /\ Expansion(final.legs) => v.approved

HedgeInScope(v, base, reviewed, final) ==
    LET legs == final.legs
        changed == /\ HasHedge(legs)
                   /\ \/ ~HasHedge(reviewed.legs)
                      \/ <<"hedge", Btc, "hedge">> \in v.failed
                      \/ ~HedgeRiskReducing(reviewed.legs)
                      \/ ~HedgeChangeRiskReducing(base.held, reviewed.legs)
                      \/ Signed(legs[Btc]) # Signed(reviewed.legs[Btc])
                      \/ NetWithoutHedge(legs) # NetWithoutHedge(reviewed.legs)
    IN  /\ HasHedge(legs) => HedgeRiskReducing(legs) /\ HedgeChangeRiskReducing(base.held, legs)
        /\ IF changed THEN v.hedge # None /\ Signed(v.hedge) = Signed(legs[Btc]) ELSE v.hedge = None

Mutable(v) == {c.symbol : c \in {d \in v.constraints : d.kind \in Mutating}}
Mutated(reviewed, final) == {s \in Symbols : ~Same(reviewed.legs[s], final.legs[s])}

InEnvelope(v, reviewed, final) == Mutated(reviewed, final) \subseteq Mutable(v)

\* The ceilings on a whole book; value is in notional or in percent.
Ceilings == {"max_deploy_frac", "max_dollar_residual_frac", "max_abs_beta_residual"}
UnderCeiling(c, legs) ==
    CASE c.kind = "max_deploy_frac"          -> Gross(legs) <= c.value
      [] c.kind = "max_dollar_residual_frac" -> AtMost(Abs(Net(legs)), Gross(legs), c.value)
      [] c.kind = "max_abs_beta_residual"    -> AtMost(Abs(Net(legs)), Cash, c.value)

Respects(c, reviewed, final, held) ==
    CASE c.kind = "drop_symbol"     -> reviewed.legs[c.symbol] # None /\ final.legs[c.symbol] = None
      [] c.kind = "preserve_symbol" -> /\ reviewed.legs[c.symbol] # None
                                       /\ Signed(final.legs[c.symbol]) = Signed(reviewed.legs[c.symbol])
      [] c.kind \in Typed ->
            LET seat == final.legs[c.symbol]
            IN  /\ seat # None
                /\ seat.side = c.side /\ seat.role = c.role /\ seat.thesis = c.thesis
                /\ c.kind = "max_symbol_notional" => seat.size <= c.value
                /\ c.kind = "min_symbol_notional" => seat.size >= c.value
      [] c.kind = "correct_book_metadata"  -> ~reviewed.truthful
      [] c.kind = "max_aggressive_changes" ->
            Cardinality(AggressiveChanges(held, final.legs)) <= c.value
      [] c.kind = "min_deploy_frac" -> Gross(final.legs) >= c.value
      [] c.kind \in Ceilings -> UnderCeiling(c, final.legs)

Corrects(c, reviewed, held) ==
    CASE c.kind \in {"drop_symbol", "correct_book_metadata"} -> TRUE
      [] c.kind = "max_symbol_notional" -> Size(reviewed.legs[c.symbol]) > c.value
      [] c.kind = "min_symbol_notional" -> Size(reviewed.legs[c.symbol]) < c.value
      [] c.kind = "max_aggressive_changes" ->
            Cardinality(AggressiveChanges(held, reviewed.legs)) > c.value
      [] c.kind = "min_deploy_frac" -> Gross(reviewed.legs) < c.value
      [] c.kind \in Ceilings -> ~UnderCeiling(c, reviewed.legs)
      [] OTHER -> FALSE

Corrective(v, reviewed, final, held) ==
    \/ \E c \in v.constraints : Corrects(c, reviewed, held)
    \/ Mutated(reviewed, final) \cap Mutable(v) # {}

Reviewed(reviewed, final, s) ==
    /\ s \in Alpha(reviewed.legs) /\ s \in Alpha(final.legs)
    /\ reviewed.legs[s].side = final.legs[s].side

\* Every alpha seat was reviewed, or is restored as its fallback audit says.
SeatsInScope(v, held, reviewed, final) ==
    LET restored == {s \in Alpha(final.legs) : ~Reviewed(reviewed, final, s)}
    IN  v.fallback = {<<s, final.legs[s].side, MaterialEffect(held[s], final.legs[s])>> : s \in restored}

\* Mutant: a row for the symbol is enough, whatever it said of the exit.
ExitsInScopeIfRowed(v, held, final) ==
    \A s \in Symbols : Action(held[s], final.legs[s]) \in Ends => \E r \in v.rows : r[2] = s
ExitsInScope(v, held, final) ==
    \A s \in Symbols :
        LET row == <<"exit", s, Action(held[s], final.legs[s])>>
        IN  row[3] \in Ends => row \in v.rows \ v.failed

\* Mutant: a failed incumbent may stay, only failed entries may not.
NoFailedEntry(v, reviewed, final) ==
    \A s \in Alpha(final.legs) :
        Reviewed(reviewed, final, s) => <<"seat", s, "entry">> \notin v.failed
NoFailedSeat(v, reviewed, final) ==
    \A s \in Alpha(final.legs) :
        Reviewed(reviewed, final, s) => ~\E r \in v.failed : r[1] = "seat" /\ r[2] = s

\* Mutant: the size of the reviewed slice is not compared.
ActionsInScopeAnySize(v, held, reviewed, final) ==
    \A s \in AggressiveAlpha(held, final.legs) :
        <<"action", s, MaterialEffect(held[s], final.legs[s])>> \in v.rows \ v.failed
ActionsInScope(v, held, reviewed, final) ==
    \A s \in AggressiveAlpha(held, final.legs) :
        /\ <<"action", s, MaterialEffect(held[s], final.legs[s])>> \in v.rows \ v.failed
        /\ Turnover(held[s], final.legs[s]) <= Turnover(held[s], reviewed.legs[s])

RevisionBinding(v, base, reviewed, final) ==
    LET failing == FailingBounds(base.held, final, base.market)
    IN  /\ ~v.accept
        /\ LineageValid(base.held, final, base.market, base.cycle, base.prior, base.directive)
        /\ LineageKept(reviewed, final)
        /\ RestartInScope(v, reviewed, final)
        /\ HardBans(base.held, final.legs, base.market) = {}
        /\ HedgeInScope(v, base, reviewed, final)
        /\ InEnvelope(v, reviewed, final)
        /\ \A c \in v.constraints : Respects(c, reviewed, final, base.held)
        /\ SeatsInScope(v, base.held, reviewed, final)
        /\ ExitsInScope(v, base.held, final)
        /\ NoFailedSeat(v, reviewed, final)
        /\ ActionsInScope(v, base.held, reviewed, final)
        /\ Corrective(v, reviewed, final, base.held)
        /\ v.allowed \subseteq Overridable
        /\ "B1" \in v.allowed => Unlevered(final.legs)
        /\ failing = v.allowed
        /\ ExceptionScope(v, base.held, final.legs, base.market, v.allowed)
=============================================================================
