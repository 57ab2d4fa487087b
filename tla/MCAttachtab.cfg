SPECIFICATION FairSpec
CONSTANTS
  Procs = {p1, p2, p3}
  Nobody = nobody
  Ops = {"attach", "detach", "sweep"}
  OwnerCheck = TRUE
  MaxCalls = 4
  MaxFaults = 1
INVARIANTS TypeOK GuardedByEntry
PROPERTY CallsEnd
CHECK_DEADLOCK FALSE
