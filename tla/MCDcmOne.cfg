SPECIFICATION FairSpec
CONSTANTS
  h1 = h1
  h2 = h2
  NoFile = nofile
  Partial = partial
  Nobody = nobody
  Dcms = {d1}
  HostOrder <- TwoHosts
  Interval = 1
  MaxTime = 5
  MaxVer = 2
  MaxRuns = 2
  MaxFaults = 1
  MaxCrashes = 1
INVARIANTS TypeOK RecordedIsInstalled MarksCleared
PROPERTIES SentBeforeInstalled Retried
CHECK_DEADLOCK FALSE
