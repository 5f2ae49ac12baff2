CONSTANTS
  o1 = o1
  o2 = o2
  w1 = w1
  w2 = w2
  home = home
  away = away
  Idle = Idle
  Officer = {o1, o2}
  Number = {"A", "B"}
  Status = {"open", "under_investigation", "closed"}
  Area = {home, away}
  Scope <- MCScope
  Cleared <- MCCleared
  Worker = {w1, w2}
  MaxRequests = 4
SPECIFICATION Spec
SYMMETRY Workers
INVARIANTS
  ErrorsAreRaces
  AuditTrail
  FilesBehindRows
CHECK_DEADLOCK FALSE
