SPECIFICATION Spec
CONSTANTS
  Call = {k1, k2, k3}
  TokenId = {"t1", "t2"}
  Context = {"deploy"}
  TTL = 1
  MaxTime = 2
  SingleProcess = TRUE
  CrashWhileEmpty = TRUE
  None = None
INVARIANTS
  SettledStaysSettled
SYMMETRY CallSymmetry
