SPECIFICATION Spec
CONSTANTS
  TrnFlags = {0}
  Junk = {0}
  Servers = {s1, s2}
  Expunger = expunger
  Nobody = nobody
  Starts <- ThreadsAndTwice
  MaxFiles = 3
  MaxCalls = 6
  ExpungerMayDie = TRUE
SYMMETRY Symmetry
INVARIANTS TypeOK CopyInStep NeverMerged UndisturbedCopy NamedLinked MoveIsWhole AckedBeforeMove BothThere
CHECK_DEADLOCK FALSE
