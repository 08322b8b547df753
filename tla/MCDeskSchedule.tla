--------------------------- MODULE MCDeskSchedule ---------------------------
EXTENDS DeskSchedule, TLC

\* Launcher processes are interchangeable.
LauncherSymmetry == Permutations(Launcher)
=============================================================================
