SPECIFICATION Spec
CONSTANTS
  Nil = Nil
  d1 = d1
  s1 = s1
  s2 = s2
  c1 = c1
  c2 = c2
  w1 = w1
  w2 = w2
  Officer = {d1, s1}
  Reviewer = {s1}
  Case = {c1, c2}
  Home <- NobodyHome
  Cleared <- Tiers
  Worker = {w1, w2}
  Hours = {1}
  MaxRequests = 2
  MaxTime = 1
SYMMETRY Symmetric

INVARIANTS
  TypeOK
  AccessJustified
  DecidedOnce
  OneActive
PROPERTY ImplementsGrants
