SPECIFICATION FairSpec
CONSTANTS
  Inode = {i1, i2}
  None = None
  MaxCycles = 2
  MaxClaims = 3
  MaxEdits = 1
  MaxCrash = 2
INVARIANTS HaltedByOperatorOnly
PROPERTIES DirectiveConsumed AppliedAsSealed ImplementsQueue
