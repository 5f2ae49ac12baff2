SPECIFICATION Spec
CONSTANTS
  Nil = Nil
  Unknown = Unknown
  s1 = s1
  o2 = o2
  o3 = o3
  o4 = o4
  w1 = w1
  w2 = w2
  Officer = {s1, o2, o3, o4}
  Supervisor = {s1}
  Worker = {w1, w2}
  MaxChainDepth = 2
SYMMETRY Symmetric
INVARIANTS
  TypeOK
  ForestUnlessGuessed
  SearchExact
