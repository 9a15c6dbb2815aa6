SPECIFICATION Spec
CONSTANTS
  Call = {c1, c2, c3}
  Id = {i1}
  Ops = {"redeemPermit"}
  Expiry <- OneToken
  MaxTime = 2
  SingleProcess = TRUE
  Nobody = Nobody
INVARIANT ExactlyOneWinner
