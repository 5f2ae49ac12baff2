SPECIFICATION AccountSpec
CONSTANTS
  NoSecret = NoSecret
  NoCode = NoCode
  k1 = k1
  k2 = k2
  k3 = k3
  w1 = w1
  w2 = w2
  Secret = {k1, k2, k3}
  Worker = {w1, w2}
SYMMETRY Symmetric
INVARIANTS
  AccountTypeOK
  FactorHasSecret
  EnrolledMeansConfirmed
  SignInNeedsCode
