SPECIFICATION Spec
CONSTANTS
  p1 = p1
  p2 = p2
  p3 = p3
  w1 = w1
  w2 = w2
  w3 = w3
  n1 = n1
  n2 = n2
  n3 = n3
  d1 = d1
  d2 = d2
  Nil = Nil
  Person = {p1, p2, p3}
  Request = {w1, w2, w3}
  MaxEvents = 2
  Ranks = {1}
  Dobs = {}
  Name = {n1}
  InitRows <- PlainRows
  FullName <- SameName
  CreatedAt <- SameAge
SYMMETRY PeopleAndThreads
INVARIANTS
  TypeOK
  HiddenByActiveMerge
  NoMergeCycle
PROPERTIES
  MergesOnlyUnprotectedIndependents
  ImplementsLedger
