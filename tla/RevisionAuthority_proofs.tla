----------------------- MODULE RevisionAuthority_proofs -----------------------
(***************************************************************************)
(* What one verdict of the legacy cycle can let happen to the account, for *)
(* every set of symbols, menu of books, market, verdict and percentage:    *)
(* the rows a verdict must carry and the rules a revision must keep are    *)
(* enough, also when a basket is filled in part.                           *)
(***************************************************************************)
EXTENDS RevisionAuthority, FiniteSetTheorems, WellFoundedInduction, TLAPS

\* The inductive invariant.  Holdings:
HeldInv ==
    /\ held = [s \in Symbols |-> held[s]]
    /\ \A s \in Selected(held) : /\ held[s] \in Seats
                                 /\ held[s].size \in 1..Cash
                                 /\ held[s].role = "hedge" => s = Btc
    /\ prior # None => prior \in 1..(cycle - 1) /\ held # Flat

PhaseInv ==
    /\ cycle \in 1..(MaxCycles + 1)
    /\ phase \in {"idle", "begun", "proposed", "accepted", "rejected", "revised"}
    /\ phase # "idle" => cycle <= MaxCycles

\* Artifacts: a book is made of the menu's legs, the verdict binds to the book that was
\* reviewed, and the final book is that one or a bound revision of it.
IsBook(book) == book.legs \in Menu /\ WellShaped(book)

ArtifactInv ==
    /\ phase \in {"proposed", "accepted", "rejected", "revised"} => IsBook(reviewed)
    /\ phase \in {"accepted", "rejected", "revised"} => VerdictBinding(verdict, Base, reviewed)
    /\ phase = "accepted" => verdict.accept /\ final = reviewed
    /\ phase = "revised" => IsBook(final) /\ RevisionBinding(verdict, Base, reviewed, final)

AuthorityInv == HeldInv /\ PhaseInv /\ ArtifactInv

-----------------------------------------------------------------------------
(* Fills.                                                                  *)

\* A leg of a book, without its thesis, is a seat.
LEMMA LegIsSeat ==
  ASSUME NEW legs \in Menu, NEW s \in Symbols, legs[s] # None
  PROVE  /\ Inventory(legs)[s] = [side |-> legs[s].side, role |-> legs[s].role,
                                  size |-> legs[s].size]
         /\ Inventory(legs)[s] \in Seats
         /\ legs[s].side \in {"long", "short"} /\ legs[s].role \in {"alpha", "hedge"}
         /\ legs[s].size \in Nat \ {0}
         /\ legs[s].role = "hedge" => s = Btc
<1>1. s \in Selected(legs)
  BY DEF Selected
<1>2. /\ [side |-> legs[s].side, role |-> legs[s].role, size |-> legs[s].size] \in Seats
      /\ legs[s].role = "hedge" => s = Btc
  BY <1>1, AuthorityAssumption
<1>3. Inventory(legs)[s] = [side |-> legs[s].side, role |-> legs[s].role, size |-> legs[s].size]
  BY DEF Inventory
<1> QED BY <1>2, <1>3 DEF Seats

\* A seat that is filled whole or in part is the seat of the book, no larger than it, and
\* differs from what is held in the same way.
SameSeat(before, leg, got) ==
    IF leg = None THEN got = None
    ELSE /\ got \in Seats /\ got.side = leg.side /\ got.role = leg.role
         /\ got.size <= leg.size

LEMMA FillKeepsSeat ==
  ASSUME HeldInv, NEW legs \in Menu, NEW filled \in Fills(legs), NEW s \in Symbols
  PROVE  /\ SameSeat(held[s], legs[s], filled[s])
         /\ MaterialEffect(held[s], filled[s]) = MaterialEffect(held[s], legs[s])
         /\ Action(held[s], filled[s]) = Action(held[s], legs[s])
<1>0. None \notin Seats
  BY AuthorityAssumption
<1>1. held[s] # None =>
        held[s].side \in {"long", "short"} /\ held[s].size \in Nat \ {0}
  BY DEF HeldInv, Selected, Seats
<1>2. CASE filled[s] = Inventory(legs)[s]
  <2>1. CASE legs[s] = None
    BY <1>2, <2>1 DEF SameSeat, Inventory, MaterialEffect, Action
  <2>2. CASE legs[s] # None
    <3>1. /\ filled[s] \in Seats /\ filled[s] # None
          /\ filled[s].side = legs[s].side /\ filled[s].role = legs[s].role
          /\ filled[s].size = legs[s].size /\ legs[s].size \in Nat
      <4> DEFINE seat == [side |-> legs[s].side, role |-> legs[s].role, size |-> legs[s].size]
      <4>1. filled[s] = seat /\ seat \in Seats /\ legs[s].size \in Nat
        BY <1>2, <2>2, LegIsSeat
      <4>2. seat.side = legs[s].side /\ seat.role = legs[s].role /\ seat.size = legs[s].size
        OBVIOUS
      <4> HIDE DEF seat
      <4> QED BY <1>0, <4>1, <4>2
    <3>2. SameSeat(held[s], legs[s], filled[s])
      BY <2>2, <3>1 DEF SameSeat
    <3> QED BY <2>2, <3>1, <3>2 DEF MaterialEffect, Action
  <2> QED BY <2>1, <2>2
<1>3. CASE filled[s] # Inventory(legs)[s]
  <2>1. filled = Half(legs) /\ MayFillPart(legs)
    BY <1>3 DEF Fills
  <2>2. s \in Trades(legs)
    BY <1>3, <2>1 DEF Half
  <2>3. /\ Action(held[s], legs[s]) \in {"entry", "increase"}
        /\ Turnover(held[s], legs[s]) % 2 = 0 /\ Turnover(held[s], legs[s]) # 0
    BY <2>1, <2>2 DEF MayFillPart, Trades
  <2>4. legs[s] # None
    BY <2>3 DEF Action
  <2>5. filled[s] = [side |-> legs[s].side, role |-> legs[s].role,
                     size |-> Size(held[s]) + (Turnover(held[s], legs[s]) \div 2)]
    BY <2>1, <2>2 DEF Half
  <2>6. /\ filled[s].side = legs[s].side /\ filled[s].role = legs[s].role
        /\ filled[s].size = Size(held[s]) + (Turnover(held[s], legs[s]) \div 2)
    BY <2>5
  <2>7. /\ legs[s].side \in {"long", "short"} /\ legs[s].role \in {"alpha", "hedge"}
        /\ legs[s].size \in Nat \ {0}
    BY <2>4, LegIsSeat
  <2>8. Turnover(held[s], legs[s]) = legs[s].size - Size(held[s])
    <3>1. CASE held[s] = None
      BY <2>4, <2>7, <3>1 DEF Turnover, Signed, Size, Abs
    <3>2. CASE held[s] # None
      <4>1. held[s].side = legs[s].side /\ legs[s].size > held[s].size
        BY <2>3, <2>4, <3>2 DEF Action
      <4> QED BY <1>1, <2>4, <2>7, <3>2, <4>1 DEF Turnover, Signed, Size, Abs
    <3> QED BY <3>1, <3>2
  <2>9. Size(held[s]) \in Nat /\ Size(held[s]) < legs[s].size
    <3>1. CASE held[s] = None
      BY <2>7, <3>1 DEF Size
    <3>2. CASE held[s] # None
      BY <1>1, <2>3, <2>4, <3>2 DEF Size, Action
    <3> QED BY <3>1, <3>2
  <2>10. /\ filled[s].size \in Nat \ {0} /\ Size(held[s]) < filled[s].size
         /\ filled[s].size <= legs[s].size
    <3> DEFINE n == legs[s].size
               h == Size(held[s])
    <3>1. n \in Nat /\ h \in Nat /\ h < n /\ (n - h) % 2 = 0
      BY <2>3, <2>7, <2>8, <2>9
    <3>2. filled[s].size = h + ((n - h) \div 2)
      BY <2>6, <2>8
    <3> HIDE DEF n, h
    <3>3. h + ((n - h) \div 2) > h /\ h + ((n - h) \div 2) <= n
          /\ h + ((n - h) \div 2) \in Nat
      BY <3>1
    <3>4. filled[s].size \in Nat \ {0} /\ h < filled[s].size /\ filled[s].size <= n
      BY <3>1, <3>2, <3>3
    <3> QED BY <3>4 DEF n, h
  <2>11. filled[s] \in Seats
    BY <2>5, <2>6, <2>7, <2>10 DEF Seats
  <2>12. filled[s] # None
    BY <1>0, <2>11
  <2>13. SameSeat(held[s], legs[s], filled[s])
    BY <2>4, <2>6, <2>10, <2>11 DEF SameSeat
  <2>14. CASE held[s] = None
    BY <2>4, <2>12, <2>13, <2>14 DEF MaterialEffect, Action
  <2>15. CASE held[s] # None
    <3>1. held[s].size < filled[s].size /\ held[s].size < legs[s].size
      BY <2>9, <2>10, <2>15 DEF Size
    <3>2. held[s].side = legs[s].side /\ held[s].role = legs[s].role
      BY <2>3, <2>4, <2>15 DEF Action
    <3> QED BY <2>4, <2>6, <2>12, <2>13, <2>15, <3>1, <3>2 DEF MaterialEffect, Action
  <2> QED BY <2>14, <2>15
<1> QED BY <1>2, <1>3

\* So the aggressive changes and the ends of what is filled are those of the book.
LEMMA FillKeepsBook ==
  ASSUME HeldInv, NEW legs \in Menu, NEW filled \in Fills(legs)
  PROVE  /\ Selected(filled) = Selected(legs)
         /\ Alpha(filled) = Alpha(legs)
         /\ AggressiveChanges(held, filled) = AggressiveChanges(held, legs)
         /\ AggressiveAlpha(held, filled) = AggressiveAlpha(held, legs)
<1>1. \A s \in Symbols : /\ filled[s] = None <=> legs[s] = None
                         /\ legs[s] # None => filled[s].role = legs[s].role
  BY FillKeepsSeat, AuthorityAssumption DEF SameSeat
<1>2. \A s \in Symbols : MaterialEffect(held[s], filled[s]) = MaterialEffect(held[s], legs[s])
  BY FillKeepsSeat
<1>3. Selected(filled) = Selected(legs)
  BY <1>1 DEF Selected
<1>4. Alpha(filled) = Alpha(legs)
  BY <1>1, <1>3 DEF Alpha, Selected
<1>5. AggressiveChanges(held, filled) = AggressiveChanges(held, legs)
  BY <1>2, <1>3 DEF AggressiveChanges, Selected
<1> QED BY <1>3, <1>4, <1>5 DEF AggressiveAlpha
-----------------------------------------------------------------------------
(* What a final book has behind it.                                        *)

Final == AuthorityInv /\ phase \in {"accepted", "revised"}

LEMMA FinalBinds ==
  ASSUME Final
  PROVE  /\ IsBook(reviewed) /\ IsBook(final)
         /\ VerdictBinding(verdict, Base, reviewed)
         /\ \/ verdict.accept /\ final = reviewed
            \/ RevisionBinding(verdict, Base, reviewed, final) /\ ~verdict.accept
BY DEF Final, AuthorityInv, ArtifactInv, RevisionBinding

LEMMA BaseFields ==
  /\ Base.held = held /\ Base.market = market /\ Base.cycle = cycle
  /\ Base.prior = prior /\ Base.directive = directive
BY DEF Base

\* A verdict carries an action row exactly for the aggressive seats of the reviewed book.
LEMMA ActionRow ==
  ASSUME VerdictBinding(verdict, Base, reviewed), NEW s, NEW effect
  PROVE  <<"action", s, effect>> \in verdict.rows <=>
            /\ s \in AggressiveAlpha(held, reviewed.legs)
            /\ effect = MaterialEffect(held[s], reviewed.legs[s])
<1>1. verdict.rows = SeatRows(held, reviewed.legs) \cup ActionRows(held, reviewed.legs)
                       \cup HedgeRows(reviewed.legs)
                       \cup ExitRows(held, reviewed.legs, verdict.constraints)
  BY BaseFields DEF VerdictBinding, RowsCover, ExpectedRows
<1>2. \A r \in SeatRows(held, reviewed.legs) : r[1] = "seat"
  BY DEF SeatRows
<1>3. \A r \in HedgeRows(reviewed.legs) : r[1] = "hedge"
  BY DEF HedgeRows
<1>4. \A r \in ExitRows(held, reviewed.legs, verdict.constraints) : r[1] = "exit"
  BY DEF ExitRows, ProspectiveEnd
<1>5. <<"action", s, effect>> \in verdict.rows <=>
        <<"action", s, effect>> \in ActionRows(held, reviewed.legs)
  BY <1>1, <1>2, <1>3, <1>4
<1> QED BY <1>5 DEF ActionRows

\* A fallback row restores a held seat on its side: what it restores was not reviewed, so
\* its action has no row.
LEMMA RestoredIsCalm ==
  ASSUME Final, RevisionBinding(verdict, Base, reviewed, final),
         NEW s \in AggressiveAlpha(held, final.legs)
  PROVE  Reviewed(reviewed, final, s)
<1> SUFFICES ASSUME ~Reviewed(reviewed, final, s) PROVE FALSE
  OBVIOUS
<1> DEFINE effect == MaterialEffect(held[s], final.legs[s])
<1>1. s \in Alpha(final.legs) /\ effect \in Aggressive /\ s \in Symbols
  BY DEF AggressiveAlpha, AggressiveChanges, Alpha, Selected
<1>2. <<s, final.legs[s].side, effect>> \in verdict.fallback
  BY <1>1, BaseFields DEF RevisionBinding, SeatsInScope
<1>3. /\ effect \in {"none", "increase", "reduction"}
      /\ held[s] # None /\ held[s].side = final.legs[s].side
  BY <1>2, FinalBinds, BaseFields DEF VerdictBinding, FallbackAudited
<1>4. effect = "increase"
  BY <1>1, <1>3 DEF Aggressive
<1>5. <<"action", s, effect>> \in verdict.rows
  BY BaseFields DEF RevisionBinding, ActionsInScope
<1>6. /\ s \in AggressiveAlpha(held, reviewed.legs)
      /\ MaterialEffect(held[s], reviewed.legs[s]) = "increase"
  BY <1>4, <1>5, FinalBinds, ActionRow
<1>7. s \in Alpha(reviewed.legs) /\ reviewed.legs[s].side = held[s].side
  BY <1>3, <1>6 DEF AggressiveAlpha, MaterialEffect, Alpha, Selected
<1> QED BY <1>1, <1>3, <1>7 DEF Reviewed

\* Every aggressive seat of the final book is one whose action the adversary passed, on the
\* side that was reviewed and, unless a hedge was held there, no larger.
LEMMA ActionsPassed ==
  ASSUME Final, NEW s \in AggressiveAlpha(held, final.legs)
  PROVE  /\ Passed("action", s, MaterialEffect(held[s], final.legs[s]))
         /\ reviewed.legs[s] # None /\ reviewed.legs[s].side = final.legs[s].side
         /\ \/ held[s] # None /\ held[s].role = "hedge"
            \/ final.legs[s].size <= reviewed.legs[s].size
<1> DEFINE leg == final.legs[s]
           seen == reviewed.legs[s]
           row == <<"action", s, MaterialEffect(held[s], leg)>>
<1>1. /\ s \in Symbols /\ leg # None /\ leg.role = "alpha"
      /\ leg.side \in {"long", "short"} /\ leg.size \in Nat \ {0}
  <2>1. s \in Symbols /\ leg # None /\ leg.role = "alpha"
    BY DEF AggressiveAlpha, AggressiveChanges, Alpha, Selected
  <2> QED BY <2>1, FinalBinds, LegIsSeat DEF IsBook
<1>2. CASE verdict.accept
  <2>1. final = reviewed /\ verdict.failed = {}
    BY <1>2, FinalBinds DEF VerdictBinding, AcceptBinding
  <2>2. row \in verdict.rows
    BY <2>1, FinalBinds, ActionRow
  <2> QED BY <1>1, <2>1, <2>2 DEF Passed
<1>3. CASE ~verdict.accept
  <2>1. RevisionBinding(verdict, Base, reviewed, final)
    BY <1>3, FinalBinds
  <2>2. row \in verdict.rows \ verdict.failed /\ Turnover(held[s], leg) <= Turnover(held[s], seen)
    BY <2>1, BaseFields DEF RevisionBinding, ActionsInScope
  <2>3. Reviewed(reviewed, final, s)
    BY <2>1, RestoredIsCalm
  <2>4. seen # None /\ seen.side = leg.side /\ seen.size \in Nat \ {0}
    BY <1>1, <2>3, FinalBinds, LegIsSeat DEF Reviewed, Alpha, Selected, IsBook
  <2>5. ASSUME held[s] # None, held[s].role # "hedge"
        PROVE  leg.size <= seen.size
    <3>1. held[s].size \in Nat /\ held[s].side \in {"long", "short"} /\ held[s].role = "alpha"
      BY <1>1, <2>5 DEF Final, AuthorityInv, HeldInv, Selected, Seats
    <3>2. MaterialEffect(held[s], seen) = MaterialEffect(held[s], leg)
      BY <2>2, FinalBinds, ActionRow
    <3>3. MaterialEffect(held[s], leg) \in {"flip", "increase"}
      BY <1>1, <2>5, <3>1 DEF AggressiveAlpha, AggressiveChanges, Aggressive, MaterialEffect
    <3>4. \/ leg.side # held[s].side
          \/ leg.size > held[s].size /\ seen.size > held[s].size
      BY <1>1, <2>4, <2>5, <3>1, <3>2, <3>3 DEF MaterialEffect
    <3>5. /\ leg.side # held[s].side => Turnover(held[s], leg) = leg.size + held[s].size
          /\ leg.side # held[s].side => Turnover(held[s], seen) = seen.size + held[s].size
          /\ leg.side = held[s].side /\ leg.size > held[s].size
               => Turnover(held[s], leg) = leg.size - held[s].size
          /\ leg.side = held[s].side /\ seen.size > held[s].size
               => Turnover(held[s], seen) = seen.size - held[s].size
      <4> HIDE DEF leg, seen
      <4> QED BY <1>1, <2>4, <2>5, <3>1 DEF Turnover, Signed, Abs
    <3> HIDE DEF leg, seen
    <3> QED BY <1>1, <2>2, <2>4, <3>1, <3>4, <3>5
  <2>6. ASSUME held[s] = None PROVE leg.size <= seen.size
    BY <1>1, <2>2, <2>4, <2>6 DEF Turnover, Signed, Abs
  <2> QED BY <2>2, <2>4, <2>5, <2>6 DEF Passed
<1> QED BY <1>2, <1>3

\* Every alpha seat of the final book was affirmed, or is restored under a fallback audit.
LEMMA SeatsPassed ==
  ASSUME Final, NEW s \in Alpha(final.legs)
  PROVE  \/ <<s, final.legs[s].side>> \in {<<f[1], f[2]>> : f \in verdict.fallback}
         \/ /\ s \in Alpha(reviewed.legs) /\ reviewed.legs[s].side = final.legs[s].side
            /\ \E effect \in Aggressive \cup {"none", "reduction"} : Passed("seat", s, effect)
<1> DEFINE effect == MaterialEffect(held[s], reviewed.legs[s])
<1>1. effect \in Aggressive \cup {"none", "reduction"}
  BY DEF MaterialEffect, Aggressive
<1>2. s \in Alpha(reviewed.legs) => <<"seat", s, effect>> \in verdict.rows
  BY FinalBinds, BaseFields DEF VerdictBinding, RowsCover, ExpectedRows, SeatRows
<1>3. CASE verdict.accept
  BY <1>1, <1>2, <1>3, FinalBinds DEF VerdictBinding, AcceptBinding, Passed
<1>4. CASE ~verdict.accept
  <2>1. RevisionBinding(verdict, Base, reviewed, final)
    BY <1>4, FinalBinds
  <2>2. CASE Reviewed(reviewed, final, s)
    <3>1. \A r \in verdict.failed : ~(r[1] = "seat" /\ r[2] = s)
      BY <2>1, <2>2 DEF RevisionBinding, NoFailedSeat
    <3>2. <<"seat", s, effect>> \notin verdict.failed
      BY <3>1
    <3> QED BY <1>1, <1>2, <2>2, <3>2 DEF Reviewed, Passed
  <2>3. CASE ~Reviewed(reviewed, final, s)
    <3>1. <<s, final.legs[s].side, MaterialEffect(held[s], final.legs[s])>> \in verdict.fallback
      BY <2>1, <2>3, BaseFields DEF RevisionBinding, SeatsInScope
    <3> QED BY <3>1
  <2> QED BY <2>2, <2>3
<1> QED BY <1>3, <1>4

\* Every lifecycle that the final book ends has an exit audit that passed.
LEMMA ExitsPassed ==
  ASSUME Final, NEW s \in Symbols, Action(held[s], final.legs[s]) \in Ends
  PROVE  Passed("exit", s, Action(held[s], final.legs[s]))
<1>1. CASE verdict.accept
  <2>1. <<"exit", s, Action(held[s], reviewed.legs[s])>> \in verdict.rows
    BY <1>1, FinalBinds, BaseFields DEF VerdictBinding, RowsCover, ExpectedRows, ExitRows
  <2> QED BY <1>1, <2>1, FinalBinds DEF VerdictBinding, AcceptBinding, Passed
<1>2. CASE ~verdict.accept
  BY <1>2, FinalBinds, BaseFields DEF RevisionBinding, ExitsInScope, Passed
<1> QED BY <1>1, <1>2
-----------------------------------------------------------------------------
(* Sums.  The induction theorems of the library take a predicate, which no *)
(* prover here can be given; induction over a set of subsets is enough to  *)
(* unfold a sum over the symbols.                                          *)

\* Every set of natural numbers that is not empty has a least one.
LEMMA LeastNumber ==
  ASSUME NEW T, T \subseteq Nat, T # {}
  PROVE  \E x \in T : \A y \in T : x <= y
<1> DEFINE R == {ss \in Nat \X Nat : ss[1] < ss[2]}
<1>1. IsWellFoundedOn(OpToRel(<,Nat), Nat)
  BY NatLessThanWellFounded
<1>2. OpToRel(<,Nat) = R
  BY Zenon DEF OpToRel
<1>3. IsWellFoundedOn(R, Nat)
  BY <1>1, <1>2
<1>4. PICK x \in T : \A y \in T : <<y, x>> \notin R
  <2> HIDE DEF R
  <2> QED BY <1>3, WFMin
<1>5. ASSUME NEW y \in T PROVE x <= y
  <2>1. <<y, x>> \in Nat \X Nat /\ <<y, x>> \notin R
    <3> HIDE DEF R
    <3> QED BY <1>4
  <2>2. ~(y < x)
    BY <2>1
  <2> QED BY <2>2
<1> QED BY <1>5

\* Induction over the subsets of a finite set, for a set of subsets.
LEMMA SubsetInduction ==
  ASSUME NEW S, IsFiniteSet(S), NEW Good, {} \in Good,
         \A T \in SUBSET S : T # {} /\ (\A U \in SUBSET T : U # T => U \in Good) => T \in Good
  PROVE  \A T \in SUBSET S : T \in Good
<1> DEFINE Bad == {n \in Nat : \E T \in SUBSET S : Cardinality(T) = n /\ T \notin Good}
<1>1. \A T \in SUBSET S : IsFiniteSet(T) /\ Cardinality(T) \in Nat
  BY FS_Subset, FS_CardinalityType
<1>2. CASE Bad # {}
  <2>1. PICK n \in Bad : \A m \in Bad : n <= m
    <3>1. Bad \subseteq Nat
      OBVIOUS
    <3> HIDE DEF Bad
    <3> QED BY <1>2, <3>1, LeastNumber
  <2>2. PICK T \in SUBSET S : Cardinality(T) = n /\ T \notin Good
    BY <2>1
  <2>3. ASSUME NEW U \in SUBSET T, U # T PROVE U \in Good
    <3>1. Cardinality(U) < Cardinality(T)
      BY <1>1, <2>3, FS_Subset
    <3>2. U \in SUBSET S /\ Cardinality(U) \in Nat /\ n \in Nat
      BY <1>1, <2>1, <2>2
    <3>3. Cardinality(U) \notin Bad
      <4> HIDE DEF Bad
      <4> QED BY <2>1, <2>2, <3>1, <3>2
    <3> QED BY <3>2, <3>3
  <2> QED BY <2>2, <2>3
<1>3. CASE Bad = {}
  BY <1>1, <1>3
<1> QED BY <1>2, <1>3

\* The recursion of the folds of sets: take out the chosen element, fold the rest.
Pick(T) == CHOOSE x \in T : TRUE
Folds(f, base, step, S) ==
    \A T \in SUBSET S : f[T] = IF T = {} THEN base ELSE step[Pick(T)][f[T \ {Pick(T)}]]

LEMMA PickIn == ASSUME NEW T, T # {} PROVE Pick(T) \in T /\ T \ {Pick(T)} # T
<1>1. Pick(T) \in T
  BY DEF Pick
<1> QED BY <1>1

LEMMA FoldUnique ==
  ASSUME NEW S, IsFiniteSet(S), NEW base, NEW step, NEW f, NEW g,
         Folds(f, base, step, S), Folds(g, base, step, S)
  PROVE  \A T \in SUBSET S : f[T] = g[T]
<1> DEFINE Good == {T \in SUBSET S : f[T] = g[T]}
<1>1. {} \in Good
  BY DEF Folds
<1>2. ASSUME NEW T \in SUBSET S, T # {}, \A U \in SUBSET T : U # T => U \in Good
      PROVE  T \in Good
  <2>1. T \ {Pick(T)} \in Good
    BY <1>2, PickIn
  <2> QED BY <1>2, <2>1 DEF Folds
<1>3. \A T \in SUBSET S : T \in Good
  <2> HIDE DEF Good
  <2> QED BY <1>1, <1>2, SubsetInduction
<1> QED BY <1>3

LEMMA FoldExists ==
  ASSUME NEW S, IsFiniteSet(S), NEW base, NEW step
  PROVE  \E f : Folds(f, base, step, S)
<1> DEFINE Good == {T \in SUBSET S : \E f : Folds(f, base, step, T)}
<1>1. {} \in Good
  <2> DEFINE f == [T \in {{}} |-> base]
  <2>1. Folds(f, base, step, {})
    BY DEF Folds
  <2> QED BY <2>1
<1>2. ASSUME NEW T \in SUBSET S, T # {}, \A U \in SUBSET T : U # T => U \in Good
      PROVE  T \in Good
  <2> DEFINE F(U) == CHOOSE f : Folds(f, base, step, U)
             g == [U \in SUBSET T |-> IF U = {} THEN base
                     ELSE step[Pick(U)][F(U \ {Pick(U)})[U \ {Pick(U)}]]]
  <2>1. ASSUME NEW U \in SUBSET T, U # T PROVE Folds(F(U), base, step, U)
    BY <1>2, <2>1
  <2>2. ASSUME NEW U \in SUBSET T, U # T PROVE g[U] = F(U)[U]
    <3>1. CASE U = {}
      BY <2>1, <2>2, <3>1 DEF Folds
    <3>2. CASE U # {}
      <4> DEFINE V == U \ {Pick(U)}
      <4>1. V \in SUBSET T /\ V # T /\ V \in SUBSET U
        BY <2>2, <3>2, PickIn
      <4>2. Folds(F(V), base, step, V)
        BY <2>1, <4>1
      <4>3. Folds(F(U), base, step, V)
        <5>1. Folds(F(U), base, step, U)
          BY <2>1, <2>2
        <5> HIDE DEF F, V
        <5> QED BY <4>1, <5>1 DEF Folds
      <4>4. F(U)[V] = F(V)[V]
        <5>1. IsFiniteSet(V)
          BY <4>1, FS_Subset
        <5> HIDE DEF F, V
        <5> QED BY <4>2, <4>3, <5>1, FoldUnique
      <4>5. F(U)[U] = step[Pick(U)][F(U)[V]]
        <5>1. Folds(F(U), base, step, U)
          BY <2>1, <2>2
        <5> HIDE DEF F
        <5> QED BY <3>2, <5>1 DEF Folds
      <4>6. g[U] = step[Pick(U)][F(V)[V]]
        BY <3>2
      <4> HIDE DEF F, V, g
      <4> QED BY <4>4, <4>5, <4>6
    <3> QED BY <3>1, <3>2
  <2>3. ASSUME NEW U \in SUBSET T
        PROVE  g[U] = IF U = {} THEN base ELSE step[Pick(U)][g[U \ {Pick(U)}]]
    <3>1. CASE U = {}
      BY <3>1
    <3>2. CASE U # {}
      <4> DEFINE V == U \ {Pick(U)}
      <4>1. V \in SUBSET T /\ V # T
        BY <3>2, PickIn
      <4>2. g[V] = F(V)[V]
        BY <2>2, <4>1
      <4>3. g[U] = step[Pick(U)][F(V)[V]]
        BY <3>2
      <4> HIDE DEF F, V, g
      <4> QED BY <3>2, <4>2, <4>3 DEF V
    <3> QED BY <3>1, <3>2
  <2>4. Folds(g, base, step, T)
    <3> HIDE DEF g
    <3> QED BY <2>3 DEF Folds
  <2> QED BY <2>4
<1>3. \A T \in SUBSET S : T \in Good
  <2> HIDE DEF Good
  <2> QED BY <1>1, <1>2, SubsetInduction
<1> QED BY <1>3

\* The gross of a book, one symbol after the other.
Grosses(f, legs) == \A T \in SUBSET Symbols :
    /\ f[T] \in Int
    /\ f[T] = IF T = {} THEN 0 ELSE Size(legs[Pick(T)]) + f[T \ {Pick(T)}]

LEMMA GrossUnfolds ==
  ASSUME NEW legs, \A s \in Symbols : Size(legs[s]) \in Int
  PROVE  \E f : Gross(legs) = f[Symbols] /\ Grosses(f, legs)
<1> DEFINE step == [s \in Symbols |-> [v \in Int |-> Size(legs[s]) + v]]
           Def(f) == [T \in SUBSET Symbols |->
                        IF T = {} THEN 0 ELSE Size(legs[Pick(T)]) + f[T \ {Pick(T)}]]
<1>0. IsFiniteSet(Symbols)
  BY AuthorityAssumption
<1>1. PICK f : Folds(f, 0, step, Symbols)
  <2> HIDE DEF step
  <2> QED BY <1>0, FoldExists
<1>2. \A T \in SUBSET Symbols :
        f[T] \in Int /\ (T # {} => f[T] = Size(legs[Pick(T)]) + f[T \ {Pick(T)}])
  <2> DEFINE Good == {T \in SUBSET Symbols :
                        f[T] \in Int /\ (T # {} => f[T] = Size(legs[Pick(T)]) + f[T \ {Pick(T)}])}
  <2>0. f[{}] = 0
    <3> HIDE DEF step
    <3> QED BY <1>1 DEF Folds
  <2>1. {} \in Good
    BY <2>0
  <2>2. ASSUME NEW T \in SUBSET Symbols, T # {}, \A U \in SUBSET T : U # T => U \in Good
        PROVE  T \in Good
    <3>1. T \ {Pick(T)} \in Good /\ Pick(T) \in Symbols
      BY <2>2, PickIn
    <3>2. f[T] = step[Pick(T)][f[T \ {Pick(T)}]]
      BY <1>1, <2>2 DEF Folds
    <3> QED BY <3>1, <3>2
  <2>3. \A T \in SUBSET Symbols : T \in Good
    <3> HIDE DEF Good
    <3> QED BY <1>0, <2>1, <2>2, SubsetInduction
  <2> QED BY <2>3
<1> DEFINE g == [T \in SUBSET Symbols |-> f[T]]
<1>3. g = Def(g)
  <2>1. f[{}] = 0
    BY <1>1 DEF Folds
  <2> QED BY <1>2, <2>1
<1> DEFINE h == CHOOSE k : k = Def(k)
<1>4. h = Def(h)
  <2> HIDE DEF g, Def
  <2> QED BY <1>3
<1>5. Gross(legs) = h[Symbols]
  BY DEF Gross, MapThenSumSet, MapThenFoldSet, Pick
<1>6. \A T \in SUBSET Symbols :
        h[T] = IF T = {} THEN 0 ELSE Size(legs[Pick(T)]) + h[T \ {Pick(T)}]
  <2> HIDE DEF h
  <2> QED BY <1>4
<1>7. \A T \in SUBSET Symbols : h[T] \in Int
  <2> DEFINE Good == {T \in SUBSET Symbols : h[T] \in Int}
  <2> HIDE DEF h
  <2>1. {} \in Good
    BY <1>6
  <2>2. ASSUME NEW T \in SUBSET Symbols, T # {}, \A U \in SUBSET T : U # T => U \in Good
        PROVE  T \in Good
    <3>1. T \ {Pick(T)} \in Good /\ Pick(T) \in Symbols
      BY <2>2, PickIn
    <3>2. h[T \ {Pick(T)}] \in Int /\ Size(legs[Pick(T)]) \in Int
      BY <3>1
    <3>3. h[T] = Size(legs[Pick(T)]) + h[T \ {Pick(T)}]
      BY <1>6, <2>2
    <3>4. h[T] \in Int
      BY <3>2, <3>3
    <3> QED BY <3>4
  <2>3. \A T \in SUBSET Symbols : T \in Good
    <3> HIDE DEF Good
    <3> QED BY <1>0, <2>1, <2>2, SubsetInduction
  <2> QED BY <2>3
<1> HIDE DEF h
<1> QED BY <1>5, <1>6, <1>7 DEF Grosses

\* A book that is nowhere larger has no larger gross.
LEMMA GrossMonotone ==
  ASSUME NEW less, NEW more,
         \A s \in Symbols : /\ Size(less[s]) \in Int /\ Size(more[s]) \in Int
                            /\ Size(less[s]) <= Size(more[s])
  PROVE  /\ Gross(less) \in Int /\ Gross(more) \in Int
         /\ Gross(less) <= Gross(more)
<1>1. PICK f : Gross(less) = f[Symbols] /\ Grosses(f, less)
  BY GrossUnfolds
<1>2. PICK g : Gross(more) = g[Symbols] /\ Grosses(g, more)
  BY GrossUnfolds
<1> DEFINE Good == {T \in SUBSET Symbols : f[T] <= g[T]}
<1>3. {} \in Good
  BY <1>1, <1>2 DEF Grosses
<1>4. ASSUME NEW T \in SUBSET Symbols, T # {}, \A U \in SUBSET T : U # T => U \in Good
      PROVE  T \in Good
  <2> DEFINE s == Pick(T)
             U == T \ {Pick(T)}
  <2>1. U \in Good /\ s \in Symbols /\ U \in SUBSET Symbols
    BY <1>4, PickIn
  <2>2. /\ f[T] = Size(less[s]) + f[U] /\ f[U] \in Int /\ f[T] \in Int
        /\ g[T] = Size(more[s]) + g[U] /\ g[U] \in Int /\ g[T] \in Int
    BY <1>1, <1>2, <1>4, <2>1 DEF Grosses
  <2>3. f[U] <= g[U]
    BY <2>1
  <2> HIDE DEF s, U
  <2>4. f[T] <= g[T]
    BY <2>1, <2>2, <2>3
  <2> QED BY <2>4
<1>5. Symbols \in Good
  <2>1. \A T \in SUBSET Symbols : T \in Good
    <3> HIDE DEF Good
    <3> QED BY <1>3, <1>4, SubsetInduction, AuthorityAssumption
  <2> QED BY <2>1
<1> QED BY <1>1, <1>2, <1>5 DEF Grosses

-----------------------------------------------------------------------------
(* The lineage of a restart, its cap, and the exceptions.                  *)

\* A book that is filled has the gross it was reviewed with, or less.
LEMMA FillNoExpansion ==
  ASSUME HeldInv, NEW legs \in Menu, NEW filled \in Fills(legs), Expansion(filled)
  PROVE  Expansion(legs)
<1>1. ASSUME NEW s \in Symbols
      PROVE  /\ Size(filled[s]) \in Int /\ Size(legs[s]) \in Int
             /\ Size(filled[s]) <= Size(legs[s])
  <2>1. SameSeat(held[s], legs[s], filled[s])
    BY FillKeepsSeat
  <2>2. CASE legs[s] = None
    BY <2>1, <2>2 DEF SameSeat, Size
  <2>3. CASE legs[s] # None
    <3>1. filled[s] \in Seats /\ filled[s].size <= legs[s].size
      BY <2>1, <2>3 DEF SameSeat
    <3>2. filled[s] # None /\ filled[s].size \in Nat /\ legs[s].size \in Nat
      BY <2>3, <3>1, LegIsSeat, AuthorityAssumption DEF Seats
    <3> QED BY <2>3, <3>1, <3>2 DEF Size
  <2> QED BY <2>2, <2>3
<1>2. /\ Gross(filled) \in Int /\ Gross(legs) \in Int
      /\ Gross(filled) <= Gross(legs)
  BY <1>1, GrossMonotone
<1>3. SeedMax * Cash \in Int
  BY PrecheckConstants, BindingConstants
<1> QED BY <1>2, <1>3 DEF Expansion, AtMost

\* A flat book leaves nothing, and another one something.
LEMMA FillFlat ==
  ASSUME HeldInv, NEW legs \in Menu, NEW filled \in Fills(legs)
  PROVE  /\ filled = [s \in Symbols |-> filled[s]]
         /\ legs = Flat <=> filled = Flat
<1>1. filled = [s \in Symbols |-> filled[s]]
  BY DEF Fills, Inventory, Half
<1>2. legs = [s \in Symbols |-> legs[s]]
  BY AuthorityAssumption
<1>3. \A s \in Symbols : legs[s] = None <=> filled[s] = None
  BY FillKeepsSeat, AuthorityAssumption DEF SameSeat
<1>4. legs = Flat <=> \A s \in Symbols : legs[s] = None
  BY <1>2 DEF Flat
<1>5. filled = Flat <=> \A s \in Symbols : filled[s] = None
  BY <1>1 DEF Flat
<1> QED BY <1>1, <1>3, <1>4, <1>5

LEMMA FinalLineage ==
  ASSUME Final
  PROVE  /\ LineageValid(held, final, market, cycle, prior, directive)
         /\ \/ final.origin = reviewed.origin
            \/ final.origin = None
         /\ final.origin # None /\ Expansion(final.legs) => verdict.approved
<1>1. CASE verdict.accept
  BY <1>1, FinalBinds, BaseFields DEF VerdictBinding, AcceptBinding, RestartAudited
<1>2. CASE ~verdict.accept
  BY <1>2, FinalBinds, BaseFields
     DEF RevisionBinding, LineageKept, ExplicitEnd, RestartInScope
<1> QED BY <1>1, <1>2

\* What the next cycle finds of a restart.
LEMMA LineagePassed ==
  ASSUME Final, NEW filled \in Fills(final.legs)
  PROVE  IF prior # None
         THEN \/ final.origin = prior /\ filled # Flat
              \/ final.origin = None /\ filled = Flat
         ELSE final.origin # None => /\ final.origin = cycle /\ reviewed.origin = cycle
                                     /\ held = Flat /\ directive = "none" /\ filled # Flat
<1>1. final.legs \in Menu /\ WellShaped(final) /\ HeldInv
  BY FinalBinds DEF IsBook, Final, AuthorityInv
<1>2. final.legs = Flat <=> filled = Flat
  BY <1>1, FillFlat
<1> QED BY <1>1, <1>2, FinalLineage
        DEF LineageValid, RestartContinues, ExplicitEnd, RestartInitial, ColdStart, WellShaped

\* The exceptions of the verdict are those that the final book needs.
LEMMA FinalExcused ==
  ASSUME Final
  PROVE  ExceptionScope(verdict, held, final.legs, market, FailingBounds(held, final, market))
<1>1. CASE verdict.accept
  BY <1>1, FinalBinds, BaseFields DEF VerdictBinding, AcceptBinding
<1>2. CASE ~verdict.accept
  BY <1>2, FinalBinds, BaseFields DEF RevisionBinding
<1> QED BY <1>1, <1>2

LEMMA Bounds ==
  ASSUME Final
  PROVE  /\ "B9" \in FailingBounds(held, final, market)
              => AggressiveChanges(held, final.legs) # {}
         /\ Unrepaid(held, final.legs, market) # {}
              => "B12" \in FailingBounds(held, final, market)
<1> DEFINE fresh == AggressiveChanges(held, final.legs)
           limit == IF ColdStart(held, final, market) THEN ColdStartMax ELSE ChangesMax
<1>1. limit \in Nat
  BY PrecheckConstants
<1>2. "B9" \in FailingBounds(held, final, market) => ~(Cardinality(fresh) <= limit)
  BY DEF FailingBounds
<1>3. fresh = {} => Cardinality(fresh) = 0
  BY FS_EmptySet
<1>4. Unrepaid(held, final.legs, market) # {} => "B12" \in FailingBounds(held, final, market)
  BY DEF FailingBounds
<1> HIDE DEF fresh, limit
<1>5. "B9" \in FailingBounds(held, final, market) => fresh # {}
  BY <1>1, <1>2, <1>3
<1> QED BY <1>4, <1>5 DEF fresh

\* What a final book was excused for on the market of the evidence was quoted.
LEMMA ExcusesPassed ==
  ASSUME Final
  PROVE  /\ "B9" \in FailingBounds(held, final, market) =>
              directive # "none" /\ AggressiveChanges(held, final.legs) \subseteq verdict.exceptions["B9"]
         /\ \A s \in Unrepaid(held, final.legs, market) \cap AggressiveChanges(held, final.legs) :
              /\ directive # "none" /\ s \in verdict.exceptions["B12"]
              /\ s \notin market.unpriced
<1>1. directive = "none" => verdict.exceptions["B9"] = {} /\ verdict.exceptions["B12"] = {}
  BY FinalBinds, BaseFields DEF VerdictBinding
<1>2. CASE "B9" \in FailingBounds(held, final, market)
  BY <1>1, <1>2, FinalExcused, Bounds DEF ExceptionScope
<1>3. ASSUME NEW s \in Unrepaid(held, final.legs, market) \cap AggressiveChanges(held, final.legs)
      PROVE  /\ directive # "none" /\ s \in verdict.exceptions["B12"]
             /\ s \notin market.unpriced
  <2>1. "B12" \in FailingBounds(held, final, market)
    BY <1>3, Bounds
  <2>2. /\ verdict.exceptions["B12"] = Unrepaid(held, final.legs, market)
                                         \cap AggressiveChanges(held, final.legs)
        /\ Unrepaid(held, final.legs, market) \cap market.unpriced = {}
    BY <2>1, FinalExcused DEF ExceptionScope
  <2> QED BY <1>1, <1>3, <2>2
<1> QED BY <1>2, <1>3

\* What a fill trades costs what the book's change would have cost.
LEMMA FillRepays ==
  ASSUME HeldInv, NEW legs \in Menu, NEW filled \in Fills(legs), NEW seen,
         NEW s \in Symbols, PaysBack(held, legs, seen, s)
  PROVE  PaysBack(held, filled, seen, s)
<1>1. Action(held[s], filled[s]) = Action(held[s], legs[s])
  BY FillKeepsSeat
<1>2. ASSUME Turnover(held[s], legs[s]) = 0 PROVE Turnover(held[s], filled[s]) = 0
  <2>1. filled[s] = Inventory(legs)[s]
    BY <1>2 DEF Fills, Half, Trades
  <2>2. Signed(filled[s]) = Signed(legs[s])
    <3>1. CASE legs[s] = None
      BY <2>1, <3>1 DEF Inventory, Signed
    <3>2. CASE legs[s] # None
      <4>1. /\ filled[s] # None
            /\ filled[s].side = legs[s].side /\ filled[s].size = legs[s].size
        <5>1. SameSeat(held[s], legs[s], filled[s])
          BY FillKeepsSeat
        <5>2. Inventory(legs)[s].size = legs[s].size
          BY <3>2 DEF Inventory
        <5> QED BY <2>1, <3>2, <5>1, <5>2, AuthorityAssumption DEF SameSeat
      <4> QED BY <3>2, <4>1 DEF Signed
    <3> QED BY <3>1, <3>2
  <2> QED BY <1>2, <2>2 DEF Turnover
<1> QED BY <1>1, <1>2 DEF PaysBack

\* A change that opens, flips or grows a seat was paid for, insures or was quoted, on the market
\* of the evidence and on the market of the fill.
LEMMA FillExcused ==
  ASSUME Final, NEW filled \in Fills(final.legs), NEW fresh,
         FreshEconomics(final.legs, filled, fresh), NEW seen \in {market, fresh},
         NEW s \in AggressiveChanges(held, final.legs)
  PROVE  \/ PaysBack(held, final.legs, seen, s)
         \/ Insures(filled, s)
         \/ Quoted("B12", s) /\ Priced(seen, s)
<1>1. s \in Symbols /\ final.legs[s] # None
  BY DEF AggressiveChanges, Selected
<1>2. s \in Changes(held, final.legs)
  BY <1>1 DEF AggressiveChanges, Aggressive, MaterialEffect, Changes, Action
<1>3. CASE InsuranceExempt(held, final.legs, market, s)
  <2>1. s = Btc /\ StillInsured(final.legs, filled)
    BY <1>2, <1>3 DEF FreshEconomics, InsuranceExempt
  <2> QED BY <1>1, <2>1 DEF StillInsured, Insures
<1>4. CASE ~InsuranceExempt(held, final.legs, market, s)
  <2>1. \/ PaysBack(held, final.legs, fresh, s)
        \/ ~RepaysInTime(market, s) /\ Priced(fresh, s)
    BY <1>2, <1>4 DEF FreshEconomics, PaysBackNow, NoWorseThanReviewed, PricedNow
  <2>2. ASSUME ~PaysBack(held, final.legs, market, s)
        PROVE  Quoted("B12", s) /\ Priced(market, s)
    <3>1. s \in Unrepaid(held, final.legs, market)
      BY <1>2, <1>4, <2>2 DEF Unrepaid
    <3> QED BY <3>1, ExcusesPassed DEF Quoted, Priced
  <2>3. CASE seen = market
    BY <2>2, <2>3
  <2>4. CASE seen = fresh /\ ~PaysBack(held, final.legs, fresh, s)
    <3>1. ~PaysBack(held, final.legs, market, s)
      BY <2>1, <2>4 DEF PaysBack
    <3> QED BY <2>1, <2>2, <2>4, <3>1
  <2> QED BY <2>3, <2>4
<1> QED BY <1>3, <1>4

-----------------------------------------------------------------------------
(* The invariant.                                                          *)

LEMMA AuthorityInit == Init => AuthorityInv
<1> SUFFICES ASSUME Init PROVE AuthorityInv
  OBVIOUS
<1>1. \A s \in Symbols : held[s] = None
  BY DEF Init, Flat
<1>2. HeldInv
  BY <1>1 DEF Init, HeldInv, Flat, Selected
<1> QED BY <1>2, AuthorityAssumption DEF Init, AuthorityInv, PhaseInv, ArtifactInv

\* What was filled has a seat's form and fits the cash.
LEMMA FilledHolds ==
  ASSUME Final, NEW filled \in Fills(final.legs), NEW fresh, Execute(filled, fresh)
  PROVE  HeldInv'
<1>1. final.legs \in Menu /\ HeldInv
  BY FinalBinds DEF IsBook, Final, AuthorityInv
<1>2. held' = filled /\ prior' = final.origin /\ cycle' = cycle + 1
  BY DEF Execute
<1>3. held' = [s \in Symbols |-> held'[s]]
  BY <1>1, <1>2, FillFlat
<1>4. ASSUME NEW s \in Symbols, filled[s] # None
      PROVE  filled[s] \in Seats /\ filled[s].size \in 1..Cash /\ (filled[s].role = "hedge" => s = Btc)
  <2>1. SameSeat(held[s], final.legs[s], filled[s])
    BY <1>1, FillKeepsSeat
  <2>2. filled[s] \in Seats /\ final.legs[s] # None /\ filled[s].role = final.legs[s].role
    BY <1>4, <2>1 DEF SameSeat
  <2>3. 100 * filled[s].size <= LegBetaMax * Cash
    BY <1>4 DEF Execute, AchievedSafety, Spread, AtMost, Size
  <2>4. filled[s].size \in Nat \ {0}
    BY <2>2 DEF Seats
  <2>5. LegBetaMax * Cash <= 100 * Cash /\ Cash \in Nat
    BY PrecheckConstants
  <2>6. filled[s].size \in 1..Cash
    BY <2>3, <2>4, <2>5, PrecheckConstants
  <2> QED BY <1>1, <2>2, <2>6, LegIsSeat
<1>5. \A s \in Selected(held') : /\ held'[s] \in Seats /\ held'[s].size \in 1..Cash
                                 /\ held'[s].role = "hedge" => s = Btc
  BY <1>2, <1>4 DEF Selected
<1>6. cycle \in Nat \ {0}
  BY AuthorityAssumption DEF Final, AuthorityInv, PhaseInv
<1>7. prior' # None => prior' \in 1..(cycle' - 1) /\ held' # Flat
  <2>1. prior # None => prior \in 1..(cycle - 1)
    BY <1>1 DEF HeldInv
  <2> QED BY <1>2, <1>6, <2>1, LineagePassed
<1> QED BY <1>3, <1>5, <1>7 DEF HeldInv, Selected, Flat

LEMMA AuthorityNext == AuthorityInv /\ [Next]_vars => AuthorityInv'
<1> SUFFICES ASSUME AuthorityInv, [Next]_vars PROVE AuthorityInv'
  OBVIOUS
<1>0. MaxCycles \in Nat
  BY AuthorityAssumption
<1>1. ASSUME UNCHANGED <<cycle, held, prior>> PROVE HeldInv'
  BY <1>1 DEF AuthorityInv, HeldInv, Selected, Flat
<1>2. ASSUME NEW m \in Markets, NEW d \in Directives, Begin(m, d) PROVE AuthorityInv'
  BY <1>1, <1>2 DEF Begin, AuthorityInv, PhaseInv, ArtifactInv
<1>3. ASSUME NEW book \in Proposals, Propose(book)
      PROVE  AuthorityInv'
  BY <1>1, <1>3 DEF Propose, Proposals, Books, AuthorityInv, PhaseInv, ArtifactInv, IsBook
<1>4. ASSUME NEW v \in Acceptances(reviewed), Accept(v) PROVE AuthorityInv'
  <2>1. v.accept
    BY DEF Acceptances
  <2>2. Base' = Base
    BY <1>4 DEF Accept, Base
  <2> QED BY <1>1, <1>4, <2>1, <2>2 DEF Accept, AuthorityInv, PhaseInv, ArtifactInv, IsBook
<1>5. ASSUME NEW v, Reject(v) PROVE AuthorityInv'
  <2>1. Base' = Base
    BY <1>5 DEF Reject, Base
  <2> QED BY <1>1, <1>5, <2>1 DEF Reject, AuthorityInv, PhaseInv, ArtifactInv, IsBook
<1>6. ASSUME NEW book \in Books({None, reviewed.origin}, {TRUE}), Revise(book)
      PROVE  AuthorityInv'
  <2>1. Base' = Base
    BY <1>6 DEF Revise, Base
  <2>2. book.legs \in Menu
    BY DEF Books
  <2> QED BY <1>1, <1>6, <2>1, <2>2 DEF Revise, AuthorityInv, PhaseInv, ArtifactInv, IsBook
<1>7. ASSUME NEW filled \in Fills(final.legs), NEW fresh \in Markets, Execute(filled, fresh)
      PROVE  AuthorityInv'
  <2>1. Final
    BY <1>7 DEF Final, Execute
  <2>2. HeldInv'
    BY <1>7, <2>1, FilledHolds
  <2>3. PhaseInv'
    BY <1>0, <1>7 DEF Execute, AuthorityInv, PhaseInv
  <2> QED BY <1>7, <2>2, <2>3 DEF Execute, AuthorityInv, ArtifactInv
<1>8. CASE GiveUp
  BY <1>1, <1>8 DEF GiveUp, AuthorityInv, PhaseInv, ArtifactInv
<1>9. CASE UNCHANGED vars
  <2>1. Base' = Base
    BY <1>9 DEF vars, Base
  <2> QED BY <1>1, <1>9, <2>1 DEF vars, AuthorityInv, PhaseInv, ArtifactInv, IsBook
<1> QED BY <1>2, <1>3, <1>4, <1>5, <1>6, <1>7, <1>8, <1>9 DEF Next

-----------------------------------------------------------------------------
(* The theorems.                                                           *)

\* A cycle that is committed is a fill of its final book.
LEMMA OnlyExecuteCommits ==
  ASSUME AuthorityInv, [Next]_vars, Committed
  PROVE  /\ Final
         /\ held' \in Fills(final.legs) /\ prior' = final.origin
         /\ FreshEconomics(final.legs, held', market')
<1>1. PICK filled \in Fills(final.legs), fresh \in Markets : Execute(filled, fresh)
  BY DEF Committed, Next, vars, Begin, Propose, Accept, Reject, Revise, GiveUp
<1> QED BY <1>1 DEF Final, Execute

\* The invariant: the artifacts of a cycle bind to each other and to the account until it
\* commits.
THEOREM AuthoritySafe == Spec => []AuthorityInv
<1> QED BY AuthorityInit, AuthorityNext, PTL DEF Spec

\* TypeOK: what is held has a size within the cash, only BTC hedges, and an active restart
\* is a cycle of the past with something held.
THEOREM TypeCorrect == Spec => []TypeOK
<1>1. AuthorityInv => TypeOK
  BY DEF AuthorityInv, HeldInv, PhaseInv, TypeOK
<1> QED BY <1>1, AuthoritySafe, PTL

\* NoUnreviewedRisk: whatever opens, flips or grows on the account was passed by the one
\* verdict, on that side and no larger, also when a revision or a partial fill brought it.
THEOREM RiskReviewed == Spec => NoUnreviewedRisk
<1>1. ASSUME AuthorityInv, [Next]_vars, Committed, NEW s \in AggressiveAlpha(held, held')
      PROVE  /\ Passed("action", s, MaterialEffect(held[s], held'[s]))
             /\ reviewed.legs[s] # None /\ reviewed.legs[s].side = held'[s].side
             /\ \/ held[s] # None /\ held[s].role = "hedge"
                \/ held'[s].size <= reviewed.legs[s].size
  <2>1. Final /\ held' \in Fills(final.legs)
    BY <1>1, OnlyExecuteCommits
  <2>2. final.legs \in Menu /\ reviewed.legs \in Menu /\ HeldInv
    BY <2>1, FinalBinds DEF IsBook, AuthorityInv, Final
  <2>3. s \in AggressiveAlpha(held, final.legs) /\ s \in Symbols /\ final.legs[s] # None
    BY <1>1, <2>1, <2>2, FillKeepsBook DEF AggressiveAlpha, AggressiveChanges, Selected
  <2>4. /\ MaterialEffect(held[s], held'[s]) = MaterialEffect(held[s], final.legs[s])
        /\ held'[s] \in Seats /\ held'[s].side = final.legs[s].side
        /\ held'[s].size <= final.legs[s].size
    BY <2>1, <2>2, <2>3, FillKeepsSeat DEF SameSeat
  <2>5. /\ Passed("action", s, MaterialEffect(held[s], final.legs[s]))
        /\ reviewed.legs[s] # None /\ reviewed.legs[s].side = final.legs[s].side
        /\ \/ held[s] # None /\ held[s].role = "hedge"
           \/ final.legs[s].size <= reviewed.legs[s].size
    BY <2>1, <2>3, ActionsPassed
  <2>6. /\ held'[s].size \in Nat /\ final.legs[s].size \in Nat /\ reviewed.legs[s].size \in Nat
    BY <2>2, <2>3, <2>4, <2>5, LegIsSeat DEF Seats
  <2> QED BY <2>4, <2>5, <2>6
<1>2. AuthorityInv /\ [Next]_vars => [Committed => \A s \in AggressiveAlpha(held, held') :
          /\ Passed("action", s, MaterialEffect(held[s], held'[s]))
          /\ reviewed.legs[s] # None /\ reviewed.legs[s].side = held'[s].side
          /\ \/ held[s] # None /\ held[s].role = "hedge"
             \/ held'[s].size <= reviewed.legs[s].size]_vars
  BY <1>1
<1> QED BY <1>2, AuthoritySafe, PTL DEF Spec, NoUnreviewedRisk

\* HeldWasAudited: no alpha seat is held that the verdict of the last committed cycle did
\* not affirm or its fallback audit restore.
THEOREM SeatsAudited == Spec => HeldWasAudited
<1>1. ASSUME AuthorityInv, [Next]_vars, Committed, NEW s \in Alpha(held')
      PROVE  \/ <<s, held'[s].side>> \in {<<f[1], f[2]>> : f \in verdict.fallback}
             \/ /\ s \in Alpha(reviewed.legs) /\ reviewed.legs[s].side = held'[s].side
                /\ \E effect \in Aggressive \cup {"none", "reduction"} : Passed("seat", s, effect)
  <2>1. Final /\ held' \in Fills(final.legs)
    BY <1>1, OnlyExecuteCommits
  <2>2. final.legs \in Menu /\ HeldInv
    BY <2>1, FinalBinds DEF IsBook, AuthorityInv, Final
  <2>3. s \in Alpha(final.legs) /\ s \in Symbols /\ final.legs[s] # None
    BY <1>1, <2>1, <2>2, FillKeepsBook DEF Alpha, Selected
  <2>4. held'[s].side = final.legs[s].side
    BY <2>1, <2>2, <2>3, FillKeepsSeat DEF SameSeat
  <2> QED BY <2>1, <2>3, <2>4, SeatsPassed
<1>2. AuthorityInv /\ [Next]_vars => [Committed => \A s \in Alpha(held') :
          \/ <<s, held'[s].side>> \in {<<f[1], f[2]>> : f \in verdict.fallback}
          \/ /\ s \in Alpha(reviewed.legs) /\ reviewed.legs[s].side = held'[s].side
             /\ \E effect \in Aggressive \cup {"none", "reduction"} : Passed("seat", s, effect)]_vars
  BY <1>1
<1> QED BY <1>2, AuthoritySafe, PTL DEF Spec, HeldWasAudited

\* IncumbentsEndReviewed: what is dropped, flipped or relabelled has an exit audit that
\* passed for that end.
THEOREM EndsAudited == Spec => IncumbentsEndReviewed
<1>1. ASSUME AuthorityInv, [Next]_vars, Committed, NEW s \in Symbols,
             Action(held[s], held'[s]) \in Ends
      PROVE  Passed("exit", s, Action(held[s], held'[s]))
  <2>1. Final /\ held' \in Fills(final.legs)
    BY <1>1, OnlyExecuteCommits
  <2>2. final.legs \in Menu /\ HeldInv
    BY <2>1, FinalBinds DEF IsBook, AuthorityInv, Final
  <2>3. Action(held[s], held'[s]) = Action(held[s], final.legs[s])
    BY <2>1, <2>2, FillKeepsSeat
  <2> QED BY <1>1, <2>1, <2>3, ExitsPassed
<1>2. AuthorityInv /\ [Next]_vars => [Committed => \A s \in Symbols :
          Action(held[s], held'[s]) \in Ends => Passed("exit", s, Action(held[s], held'[s]))]_vars
  BY <1>1
<1> QED BY <1>2, AuthoritySafe, PTL DEF Spec, IncumbentsEndReviewed

\* RestartHolds: a controlled restart begins flat and reviewed as one, keeps its origin,
\* ends only flat, and outgrows its seed only with the adversary's approval.
THEOREM RestartKept == Spec => RestartHolds
<1>1. ASSUME AuthorityInv, [Next]_vars, Committed
      PROVE  IF prior # None THEN prior' = prior \/ (prior' = None /\ held' = Flat)
             ELSE prior' # None => /\ prior' = cycle /\ reviewed.origin = cycle
                                   /\ held = Flat /\ directive = "none"
  <2>1. Final /\ held' \in Fills(final.legs) /\ prior' = final.origin
    BY <1>1, OnlyExecuteCommits
  <2> QED BY <2>1, LineagePassed
<1>2. ASSUME AuthorityInv, [Next]_vars, Committed, prior' # None, Expansion(held')
      PROVE  verdict.approved
  <2>1. Final /\ held' \in Fills(final.legs) /\ prior' = final.origin
    BY <1>2, OnlyExecuteCommits
  <2>2. final.legs \in Menu /\ HeldInv
    BY <2>1, FinalBinds DEF IsBook, AuthorityInv, Final
  <2> QED BY <1>2, <2>1, <2>2, FillNoExpansion, FinalLineage
<1>3. AuthorityInv /\ [Next]_vars => [Committed =>
          IF prior # None THEN prior' = prior \/ (prior' = None /\ held' = Flat)
          ELSE prior' # None => /\ prior' = cycle /\ reviewed.origin = cycle
                                /\ held = Flat /\ directive = "none"]_vars
  BY <1>1
<1>4. AuthorityInv /\ [Next]_vars =>
        [Committed /\ prior' # None /\ Expansion(held') => verdict.approved]_vars
  BY <1>2
<1> QED BY <1>3, <1>4, AuthoritySafe, PTL DEF Spec, RestartHolds, LineageHolds, SeedCapHeld

\* ExceptionsQuoted: only a directive excuses too many aggressive changes, or one that repays
\* its cost too late where it was reviewed or where it was filled, for the symbols quoted.
THEOREM ExceptionsAreQuoted == Spec => ExceptionsQuoted
<1>1. ASSUME AuthorityInv, [Next]_vars, Committed, NEW s \in AggressiveChanges(held, held')
      PROVE  /\ "B9" \in FailingBounds(held, final, market) => Quoted("B9", s)
             /\ \A seen \in {market, market'} :
                   \/ PaysBack(held, held', seen, s)
                   \/ Insures(held', s)
                   \/ Quoted("B12", s) /\ Priced(seen, s)
  <2>1. Final /\ held' \in Fills(final.legs) /\ FreshEconomics(final.legs, held', market')
    BY <1>1, OnlyExecuteCommits
  <2>2. final.legs \in Menu /\ HeldInv
    BY <2>1, FinalBinds DEF IsBook, AuthorityInv, Final
  <2>3. s \in AggressiveChanges(held, final.legs) /\ s \in Symbols
    BY <1>1, <2>1, <2>2, FillKeepsBook DEF AggressiveChanges, Selected
  <2>4. "B9" \in FailingBounds(held, final, market) => Quoted("B9", s)
    BY <2>1, <2>3, ExcusesPassed DEF Quoted
  <2>5. ASSUME NEW seen \in {market, market'}
        PROVE  \/ PaysBack(held, held', seen, s)
               \/ Insures(held', s)
               \/ Quoted("B12", s) /\ Priced(seen, s)
    BY <2>1, <2>2, <2>3, FillExcused, FillRepays
  <2> QED BY <2>4, <2>5
<1>2. AuthorityInv /\ [Next]_vars =>
        [Committed => \A s \in AggressiveChanges(held, held') :
          /\ "B9" \in FailingBounds(held, final, market) => Quoted("B9", s)
          /\ \A seen \in {market, market'} :
                \/ PaysBack(held, held', seen, s)
                \/ Insures(held', s)
                \/ Quoted("B12", s) /\ Priced(seen, s)]_vars
  BY <1>1
<1> QED BY <1>2, AuthoritySafe, PTL DEF Spec, ExceptionsQuoted
=============================================================================
