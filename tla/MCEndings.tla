------------------------------ MODULE MCEndings ------------------------------
(* What starts and ends: tasks under the breaker, executions on the host,  *)
(* or daemons and those who use them.  The components share no state; one  *)
(* of them runs, chosen at the start, and the others stay as they are.     *)
EXTENDS TaskBreaker, MCHostExecution, MCDaemonService

VARIABLE part
endingVars == <<part, vars, executionVars, serviceVars>>

EndingInit == part \in {"breaker", "host", "service"} /\ Init /\ ExecutionInit /\ ServiceInit
EndingNext ==
  /\ UNCHANGED part
  /\ \/ part = "breaker" /\ Next /\ UNCHANGED <<executionVars, serviceVars>>
     \/ part = "host" /\ ExecutionNext /\ UNCHANGED <<vars, serviceVars>>
     \/ part = "service" /\ ServiceNext /\ UNCHANGED <<vars, executionVars>>
EndingSpec == EndingInit /\ [][EndingNext]_endingVars /\ Fairness /\ ExecutionFairness
=============================================================================
