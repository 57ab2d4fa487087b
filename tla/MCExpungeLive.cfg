SPECIFICATION FairSpec
CONSTANTS
  TrnFlags = {0}
  Junk = {0}
  Servers = {s1, s2}
  Expunger = expunger
  Nobody = nobody
  Starts <- Small
  MaxFiles = 2
  MaxCalls = 3
  ExpungerMayDie = FALSE
PROPERTIES CallsEnd ExpungeEnds
CHECK_DEADLOCK FALSE
