SPECIFICATION Spec
CONSTANTS
  p1 = p1
  p2 = p2
  p3 = p3
  p4 = p4
  home = home
  x1 = x1
  x2 = x2
  x3 = x3
  Nil = Nil
  Entity = {p1, p2, p3, p4, home}
  Address = {home}
  Coverage <- Districts
  Edge = {x1, x2, x3}
  From <- FromNode
  To <- ToNode
  Mirror <- MirrorTier
  Ranks = {0, 1}
  FirstRanks <- OneSealed
  Clearance = {0}
  MaxHops = 2
  MaxLevels = 2
  MaxPath = 2
INVARIANTS
  AnswersExact
  HigherTiersStayHidden
  ConsistentUnderOneChange
