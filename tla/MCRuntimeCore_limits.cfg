SPECIFICATION Spec
CONSTANTS
  Session = {s1, s2}
  Task = {t1}
  Action = {"read", "deny", "crit", "fail"}
  Context = {"clean"}
  Request = {}
  Approval = {}
  Permit = {p1, p2}
  Critical = {"crit"}
  Supported = {"read", "fail"}
  Failing = {"fail"}
  MaxActions = 1
  MaxRuntime = 1
  MaxDenied = 2
  MaxFailures = 2
  ApprovalTTL = 1
  PermitTTL = 1
  MaxTime = 1
  Policy <- ByName
  None = None
SYMMETRY Ids
INVARIANTS TypeOK BudgetsHold
PROPERTIES StoppedStaysStopped
