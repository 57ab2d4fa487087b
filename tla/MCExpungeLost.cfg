SPECIFICATION Spec
CONSTANTS
  TrnFlags = {0}
  Junk = {0}
  Servers = {s1, s2}
  Expunger = expunger
  Nobody = nobody
  Starts <- Meetings
  MaxFiles = 2
  MaxCalls = 3
  ExpungerMayDie = FALSE
INVARIANTS AckedIsKept
CHECK_DEADLOCK FALSE
