SPECIFICATION FairSpec
CONSTANTS
  Proc = {p1, p2}
  NoProc = NoProc
  Slot = {s1, s2}
  NoUnit = NoUnit
  Guarded <- Launchers
  MaxCommit = 3
  MaxCrash = 2
INVARIANT RecoveryNeverRefuses
PROPERTY ImplementsLedger
PROPERTY IntentResolved
