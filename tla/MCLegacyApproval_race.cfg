SPECIFICATION Spec
CONSTANTS
  Call = {k1, k2}
  TokenId = {"t1"}
  Context = {"deploy"}
  TTL = 1
  MaxTime = 2
  SingleProcess = FALSE
  CrashWhileEmpty = FALSE
  None = None
INVARIANTS
  RedeemedOnce
SYMMETRY CallSymmetry
