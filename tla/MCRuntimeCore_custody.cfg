SPECIFICATION Spec
CONSTANTS
  Session = {s1}
  Task = {t1}
  Action = {"push", "read"}
  Context = {"clean", "moved"}
  Request = {r1}
  Approval = {k1, k2}
  Permit = {p1, p2}
  Critical = {}
  Supported = {"push", "read"}
  Failing = {}
  MaxActions = 2
  MaxRuntime = 5
  MaxDenied = 1
  MaxFailures = 3
  ApprovalTTL = 1
  PermitTTL = 1
  MaxTime = 2
  Policy <- Mixed
  None = None
SYMMETRY Ids
INVARIANTS OneStartPerLivePermit OneEffectPerDecision  
