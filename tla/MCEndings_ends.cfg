SPECIFICATION EndingSpec
CONSTANTS
  Run = {r1, r2}
  Error = {timeout, denied}
  Cost = {0}
  MaxRetries = 2
  MaxRepeatedErrors = 2
  PerStep = 1
  PerTask = 3
  ScopeFreeze = TRUE
  World <- MCWorld
  LinkTo <- MCLinkTo
  Action <- MCAction
  Workspace <- ws
  MaxDepth = 2
  MaxChanges = 3
  Pid = {1, 2, 3}
  Agent = {"x"}
  Cli = {"a", "b", "c"}
  Does <- MCDoes
  Config <- MCConfig
  MaxFaults = 1
  MaxRequests = 2
INVARIANTS   ApprovalsAreTheOperators
PROPERTIES EveryRunEnds StartedEnds
CHECK_DEADLOCK FALSE
