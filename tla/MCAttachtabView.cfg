SPECIFICATION Spec
CONSTANTS
  Procs = {p1, p2}
  Nobody = nobody
  Ops = {"attach", "detach"}
  OwnerCheck = FALSE
  MaxCalls = 4
  MaxFaults = 0
SYMMETRY Symmetry
INVARIANT ConsistentView
CHECK_DEADLOCK FALSE
