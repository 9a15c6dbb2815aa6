------------------------------ MODULE MCSafeloop ------------------------------
(* Components that share no state, in one instance: the part that runs is  *)
(* chosen at the start, and the others stay as they are.                   *)
EXTENDS MCWorkLedger, MCCaseWork, MCPolicyEngine, MCScenarioRun, MCLegacyApproval, MCMonitorService

CONSTANTS Parts

VARIABLE part
recorderVars == <<ledgerVars, caseVars>>
deciderVars == <<engineVars, runVars>>
safeloopVars == <<part, recorderVars, deciderVars, monitorVars, vars>>

SafeloopInit ==
  /\ part \in Parts
  /\ LedgerInit /\ CaseInit /\ EngineInit /\ RunInit /\ MonitorInit /\ Init
  /\ part # "case" => case = NewCase(Owner, {}, {}, "open")
SafeloopNext ==
  /\ UNCHANGED part
  /\ \/ part = "ledger" /\ LedgerNext /\ UNCHANGED <<caseVars, deciderVars, monitorVars, vars>>
     \/ part = "case" /\ CaseNext /\ UNCHANGED <<ledgerVars, deciderVars, monitorVars, vars>>
     \/ part = "engine" /\ EngineNext /\ UNCHANGED <<recorderVars, runVars, monitorVars, vars>>
     \/ part = "run" /\ RunNext /\ UNCHANGED <<recorderVars, engineVars, monitorVars, vars>>
     \/ part = "monitor" /\ MonitorNext /\ UNCHANGED <<recorderVars, deciderVars, vars>>
     \/ part = "approval" /\ Next /\ UNCHANGED <<recorderVars, deciderVars, monitorVars>>
SafeloopSpec == SafeloopInit /\ [][SafeloopNext]_safeloopVars
=============================================================================
