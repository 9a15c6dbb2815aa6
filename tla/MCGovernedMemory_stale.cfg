SPECIFICATION Spec
CONSTANTS
  Call = {c1, c2, c3}
  Ops = {"persist", "active"}
  Permit = {p1}
  MemoryId = {"m1", "m2"}
  Tenant = {"t1", "t2"}
  Candidate <- Lapsing
  WritePolicy = "allow_with_ttl"
  PermitTTL = 1
  DefaultTTL = 2
  MaxTime = 2
  SingleProcess = FALSE
  None = None
SYMMETRY Symmetries
INVARIANTS RetrievalsAreFresh
