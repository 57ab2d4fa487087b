SPECIFICATION Spec
CONSTANTS
  h1 = h1
  h2 = h2
  NoFile = nofile
  Partial = partial
  Nobody = nobody
  Dcms = {d1, d2}
  HostOrder <- TwoHosts
  Interval = 1
  MaxTime = 5
  MaxVer = 1
  MaxRuns = 2
  MaxFaults = 1
  MaxCrashes = 0
INVARIANT OneAtATime
CHECK_DEADLOCK FALSE
