SPECIFICATION SafeloopSpec
CONSTANTS
  Parts = {"ledger", "case", "engine", "run", "monitor", "approval"}
  WSession = {"s1", "s2"}
  Control = {"c1"}
  Memory = {"m1"}
  Declared <- DisabledByAdapter
  PageLimit = 1
  MaxEvents = 3
  MaxLines = 2
  MaxCuts = 1
  Owner = "ann"
  Person <- MCPerson
  NameOf <- MCNameOf
  Includes <- MCIncludes
  Inherited <- MCInherited
  Contract <- MCContract
  Option <- MCOption
  MaxWork = 3
  MaxDeeds = 1
  MaxHops = 2
  Question <- MCQuestion
  Command <- MCCommand
  MaxAttempts = 2
  MaxCost = 3
  MaxTokens = 1
  AllowedTargets = {"in"}
  BlockedTargets = {"db"}
  Step <- MCStep
  NoToken = "none"
  Token = {"t"}
  Covers <- MCCovers
  Act <- MCAct
  Effect <- MCEffect
  Registered = {}
  Expected = {"terminal_execute"}
  MaxCalls = 3
  MaxMishaps = 1
  Call = {k1, k2, k3}
  TokenId = {"t1", "t2"}
  Context = {"deploy"}
  TTL = 1
  MaxTime = 2
  SingleProcess = TRUE
  CrashWhileEmpty = FALSE
  None = None
  Active = 0
  Recent = 0
  UsageWindow = 1
  MaxDuration = 1
  Stale = 1
  Historical = 1
  MaxLoopTokens = 3
  MaxLoopCost = 3
  MaxHistoricalRunning = 1
  HighCost = 2
  Says <- MCSays
  Request <- MCRequest
  Auth <- MCAuth
  MaxNow = 3
  MaxStream = 3
CHECK_DEADLOCK FALSE
INVARIANTS   DashboardAgrees ParentsStayInTheirSession  CaseTellsTheSession     DashboardIsConsistent RedeemedOnce SettledStaysSettled
PROPERTIES SuccessorAnswersToManifest GarbledStaysGarbled
