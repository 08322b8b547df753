--------------------------- MODULE MCPaperTrading ---------------------------
(* PaperTrading on two symbols: its books, prices, depths and schedules. *)
EXTENDS PaperTrading, TLC

CONSTANTS btc, alt

Leg(s, q, r) == [symbol |-> s, qty |-> q, role |-> r]

\* A first book; a growth with a role change; a flip, with both sides of one symbol; a
\* reduction under a new role that drops the other symbol.
MCBooks ==
    { {Leg(btc, 2, "hedge"), Leg(alt, -2, "alpha")},
      {Leg(btc, 3, "alpha"), Leg(alt, -4, "alpha")},
      {Leg(btc, -2, "alpha"), Leg(btc, 1, "hedge"), Leg(alt, 2, "hedge")},
      {Leg(btc, 1, "alpha")} }
MCSymbols == {btc, alt}
MCMarks == {[s \in MCSymbols |-> IF s = alt THEN 12 ELSE 24],
            [s \in MCSymbols |-> IF s = alt THEN 24 ELSE 12]}
MCDepths == {[s \in MCSymbols |-> 6], [s \in MCSymbols |-> IF s = alt THEN 2 ELSE 6]}
MCSchedules == {[s \in MCSymbols |-> IF s = alt THEN 1 ELSE 2]}
MCStep == [s \in MCSymbols |-> IF s = alt THEN 2 ELSE 1]
MCRates == [s \in MCSymbols |-> [t \in 0..20 |-> IF s = btc THEN t - 7 ELSE 5 - t]]
=============================================================================
