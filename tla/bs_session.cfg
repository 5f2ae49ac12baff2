SPECIFICATION Spec
CONSTANTS
  None = None
  o1 = o1
  o2 = o2
  Officer = {o1, o2}
  Factor = {o2}
  Idle = 1
  Expire = 2
  Absolute = 2
  Elevation = 0
  MaxTime = 3
  MaxGiven = 2
  MaxCalls = 2
INVARIANTS
  SessionsEnd
  ElevatedAfterPassword
  UserMatchesToken
