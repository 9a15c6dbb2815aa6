SPECIFICATION Spec
CONSTANTS
  Call = {c1}
  Ops = {"persist"}
  Permit = {p1, p2}
  MemoryId = {"m1", "m2"}
  Tenant = {"t1", "t2"}
  Candidate <- Lapsing
  WritePolicy = "allow_with_ttl"
  PermitTTL = 1
  DefaultTTL = 2
  MaxTime = 1
  SingleProcess = TRUE
  None = None
SYMMETRY Symmetries
INVARIANTS ProvenanceNamesItsCandidate
