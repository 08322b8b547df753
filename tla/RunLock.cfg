SPECIFICATION FairLockSpec
CONSTANTS
  Proc = {p1, p2}
  Lease = 2
  MaxTries = 2
  LastInstant = 4
  MaxCrash = 2
INVARIANT OneHolder
PROPERTY NeverWedged
