--------------------------- MODULE MCDecisionChain ---------------------------
EXTENDS DecisionChain, TLC
\* What a packet contains is only compared: any two contents are alike.
Symmetry == Permutations(Contents)
=============================================================================
