SPECIFICATION Spec
CONSTANTS
  Run = {r1, r2}
  Error = {timeout, denied}
  Cost = {0, 2}
  MaxRetries = 2
  MaxRepeatedErrors = 2
  PerStep = 1
  PerTask = 3
  ScopeFreeze = TRUE
INVARIANTS SuccessIsAffordable StuckRunsStop AttemptsAreBounded
PROPERTIES TrippedRunsStartNothing
SYMMETRY Symmetries
