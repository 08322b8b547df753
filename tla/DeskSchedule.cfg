SPECIFICATION Spec
CONSTANTS
  Launcher = {l1, l2}
  Nobody = Nobody
  Start = 1387
  Horizon = 3007
  Step = 180
  MaxBook = 3
  MaxOdd = 1
CHECK_DEADLOCK FALSE
SYMMETRY LauncherSymmetry
INVARIANT OncePerSlot
INVARIANT OneCyclePerSession
PROPERTY CadenceKept
