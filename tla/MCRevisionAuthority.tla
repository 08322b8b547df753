------------------------- MODULE MCRevisionAuthority -------------------------
(***************************************************************************)
(* The small desk of the run: two coins and BTC, four units of cash.       *)
(***************************************************************************)
EXTENDS RevisionAuthority, TLC

CONSTANTS A, B, BTC

Coins == {A, B, BTC}

Seat(side, role, size, horizon, view) ==
    [side |-> side, role |-> role, size |-> size, thesis |-> [horizon |-> horizon, view |-> view]]
Long(n)  == Seat("long", "alpha", n, 48, "t")
Short(n) == Seat("short", "alpha", n, 48, "t")
Hedge(n) == Seat("short", "hedge", n, 0, "none")
Legs(a, b, btc) == (A :> a) @@ (B :> b) @@ (BTC :> btc)

\* Flat, a seed, the same pair on another view, on another horizon and at full size, its mirror,
\* three ways of using BTC, one of them at another size, and a book that is not neutral.
SmallMenu ==
    {Legs(None, None, None),
     Legs(Long(1), Short(1), None),
     Legs(Seat("long", "alpha", 1, 48, "u"), Short(1), None),
     Legs(Seat("long", "alpha", 1, 24, "t"), Short(1), None),
     Legs(Long(2), Short(2), None),
     Legs(Short(2), Long(2), None),
     Legs(Long(2), Short(1), Hedge(1)),
     Legs(Long(2), Short(1), Short(1)),
     Legs(Long(2), None, Hedge(2)),
     Legs(Long(2), None, Short(2)),
     Legs(Long(2), Short(1), None)}

Market(dear, unpriced, barred, risk) ==
    [dear |-> dear, unpriced |-> unpriced, barred |-> barred, risk |-> risk]
SmallMarkets == {Market({}, {}, {}, TRUE), Market({A}, {B}, {BTC}, FALSE)}
SmallDirectives == {"none", "plain"}
=============================================================================
