---------------------------- MODULE MCWeightChain ----------------------------
EXTENDS WeightChain

\* Five listed symbols, four of them liquid; a week later two of them swap sleeves.
Row(volume, price, funding) ==
    [crypto |-> TRUE, old |-> TRUE, covered |-> TRUE,
     volume |-> volume, price |-> price, funding |-> funding]
Calm == [s \in Symbols |-> Row(IF s = 5 THEN 1 ELSE 2, 5 - s, 0)]
Turned == [Calm EXCEPT ![2] = Row(2, 3, 3), ![5] = [Row(9, 9, 0) EXCEPT !.old = FALSE]]
MCMarkets == {Calm, Turned}

MCTilts == [alpha |-> {0}, risk |-> {0}, pm |-> {0, 1}, revision |-> {0, 1}]

MCCaps == {[capped |-> {1}, cap |-> 2, turnover |-> None],
           [capped |-> {}, cap |-> 1, turnover |-> 2]}
=============================================================================
