SPECIFICATION Spec
CONSTANTS
  p1 = p1
  p2 = p2
  p3 = p3
  w1 = w1
  w2 = w2
  w3 = w3
  n1 = n1
  n2 = n2
  n3 = n3
  d1 = d1
  d2 = d2
  Nil = Nil
  Person = {p1, p2, p3}
  Request = {w1, w2}
  MaxEvents = 2
  Ranks = {0, 1}
  Dobs = {d1, d2}
  Name = {n1, n2, n3}
  InitRows <- VariedRows
  FullName <- Names
  CreatedAt <- Created
SYMMETRY Threads
INVARIANTS
  SurvivorCoversAbsorbed
PROPERTIES
  NeverDowngraded
  FieldsSurviveReversal
