SPECIFICATION Spec
CONSTANTS
  s1 = s1
  s2 = s2
  chair = chair
  user = user
  star = star
  Servers = {s1, s2}
  Nobody = nobody
  Caller <- CallerOf
  Principals = {chair, user}
  Everybody = star
  Modes = {"c", "w"}
  FirstAcl <- OpenMeeting
  MaxTime = 2
  MaxCalls = 3
INVARIANT TypeOK
PROPERTIES IsAccess DecidesByListInPlace
CHECK_DEADLOCK FALSE
