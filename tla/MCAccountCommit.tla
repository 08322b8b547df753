--------------------------- MODULE MCAccountCommit ---------------------------
EXTENDS AccountCommit, TLC
Launchers == {"prepare", "reconcile", "heartbeat"}
NoLauncher == {}
Symmetry == Permutations(Proc) \cup Permutations(Slot)
=============================================================================
