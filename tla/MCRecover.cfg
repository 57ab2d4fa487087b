SPECIFICATION Spec
CONSTANTS
  TrnFlags = {0}
  Junk = {0}
  MaxTrn = 3
  MaxFile = 4
  MaxPosts = 1
INVARIANTS TypeOK NewLinked TextsKept RecoveredWhole
CHECK_DEADLOCK FALSE
