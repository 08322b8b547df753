SPECIFICATION Spec
CONSTANTS
  Proc = {p1, p2}
  NoProc = NoProc
  Slot = {s1, s2}
  NoUnit = NoUnit
  Guarded <- NoLauncher
  MaxCommit = 3
  MaxCrash = 1
SYMMETRY Symmetry
INVARIANT TypeOK
INVARIANT AtMostOneIntent
INVARIANT BookFollowsChain
INVARIANT PublishedWhole
PROPERTY NoLostUpdate
PROPERTY CommittedIsImmutable
