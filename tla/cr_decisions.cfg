SPECIFICATION Spec
CONSTANTS
  Nil = Nil
  e1 = e1
  z1 = z1
  o1 = o1
  o2 = o2
  w1 = w1
  w2 = w2
  Edge = {e1}
  Zone = {z1}
  Officer = {o1, o2}
  Worker = {w1, w2}
  Score = {39, 70, 80}
  Ingested <- IngestedScores
  MaxReviews = 2
SYMMETRY Symmetric
CHECK_DEADLOCK FALSE
INVARIANTS
  TypeOK
  ScoreExplained
  DecisionsRecorded
  BandMatchesScore
  DecidedExactlyOnce
