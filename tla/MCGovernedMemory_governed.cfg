SPECIFICATION Spec
CONSTANTS
  Call = {c1, c2}
  Ops = {"persist", "authorize", "active"}
  Permit = {p1, p2}
  MemoryId = {"m1", "m2"}
  Tenant = {"t1", "t2"}
  Candidate <- Swapped
  WritePolicy = "allow_with_ttl"
  PermitTTL = 1
  DefaultTTL = 1
  MaxTime = 2
  SingleProcess = FALSE
  None = None
SYMMETRY Symmetries
INVARIANTS TypeOK ActiveWasGoverned PermitsAuthorizeOnce PersistsKeepToTheirTenant
