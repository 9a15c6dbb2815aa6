SPECIFICATION Spec
CONSTANTS
  Call = {c1, c2, c3}
  Id = {i1}
  Ops = {"redeemPermit", "redeemApproval", "revoke", "prune"}
  Expiry <- OneToken
  MaxTime = 2
  SingleProcess = FALSE
  Nobody = Nobody
INVARIANTS TypeOK OneWinnerWhileAlive
PROPERTIES NeverReclaimedWhileAlive ImplementsSingleUse EveryCallReturns
