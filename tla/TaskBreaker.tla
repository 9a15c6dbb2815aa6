----------------------------- MODULE TaskBreaker -----------------------------
(***************************************************************************)
(* createBreaker() of src/index.ts: run() repeats a task until it succeeds *)
(* or a limit stops it, and trip() and reset() may be called at any time.  *)
(*                                                                         *)
(* run() yields only while it awaits the task.  What it does between two   *)
(* awaits is one step: a task settles, its outcome is judged, and either   *)
(* the run ends or the head of the loop starts the next attempt.  All runs *)
(* of a breaker share its counters.  The audit entries, the escalation     *)
(* text and status() only report, and are left out.                        *)
(***************************************************************************)
EXTENDS Integers, Sequences

CONSTANTS
  Run,               \* the calls of run() made on one breaker
  Error,             \* the normalized messages a task can fail with
  Cost,              \* the token costs a task can report
  MaxRetries, MaxRepeatedErrors, PerStep, PerTask, \* the configuration
  ScopeFreeze

ASSUME BreakerAssumption ==
  /\ Cost \subseteq Nat
  /\ {MaxRetries, MaxRepeatedErrors, PerStep, PerTask} \subseteq Nat
  /\ ScopeFreeze \in BOOLEAN

VARIABLES
  killed,      \* killSwitchEngaged
  attempts,    \* attempts
  tokenUsed,   \* tokenUsed
  errors,      \* the last MaxRepeatedErrors of normalizedErrors
  scopeProposed, \* scopeProposed
  controller,  \* abortController: "none", "live" or "aborted"
  pc,          \* pc[r]: "new", "running", or what r returned
  started,     \* history: started[r], the attempts r has made, as far as one too many
  spent,       \* history: spent[r], the tokens the attempts of r reported
  last,        \* history: last[r], the latest errors of r, as long as they are equal
  tripped,     \* history: the runs that were running at a trip()
  cleared,     \* history: the runs that were running at a reset()
  shared       \* history: the runs that overlapped with another one

breakerVars == <<killed, attempts, tokenUsed, errors, scopeProposed, controller>>
history == <<started, spent, last, tripped, cleared, shared>>
vars == <<breakerVars, pc, history>>

Stops == {"kill_switch", "max_retries", "repeated_error", "scope_freeze",
          "token_budget_task", "token_budget_step"}
\* rejected: the promise of run() rejects.
Ends == Stops \cup {"success", "rejected"}

TypeOK ==
  /\ killed \in BOOLEAN /\ scopeProposed \in BOOLEAN
  /\ attempts \in 0 .. MaxRetries + 1
  /\ tokenUsed \in Nat
  /\ errors \in Seq(Error)
  /\ controller \in {"none", "live", "aborted"}
  /\ pc \in [Run -> Ends \cup {"new", "running"}]
  /\ started \in [Run -> Nat] /\ spent \in [Run -> Nat]
  /\ last \in [Run -> Seq(Error)]
  /\ {tripped, cleared, shared} \subseteq SUBSET Run

Init ==
  /\ killed = FALSE /\ scopeProposed = FALSE
  /\ attempts = 0 /\ tokenUsed = 0
  /\ errors = <<>>
  /\ controller = "none"
  /\ pc = [r \in Run |-> "new"]
  /\ started = [r \in Run |-> 0]
  /\ spent = [r \in Run |-> 0]
  /\ last = [r \in Run |-> <<>>]
  /\ tripped = {} /\ cleared = {} /\ shared = {}
-----------------------------------------------------------------------------
Running(r) == pc[r] = "running"
Ended(r, how) == pc' = [pc EXCEPT ![r] = how]

\* run() clears everything, and the head of the loop starts its first attempt.
Begin(r) ==
  /\ pc[r] = "new"
  /\ killed' = FALSE /\ scopeProposed' = FALSE
  /\ attempts' = 1 /\ tokenUsed' = 0
  /\ errors' = <<>>
  /\ controller' = "live"
  /\ pc' = [pc EXCEPT ![r] = "running"]
  /\ started' = [started EXCEPT ![r] = 1]
  /\ shared' = LET others == {q \in Run : Running(q)} IN
               IF others = {} THEN shared ELSE shared \cup others \cup {r}
  /\ UNCHANGED <<spent, last, tripped, cleared>>

\* ctx.recordTokenUsage().  Bound of the model: not once the run is over budget.
RecordTokenUsage(r, cost) ==
  /\ Running(r)
  /\ tokenUsed' = tokenUsed + cost
  /\ spent' = [spent EXCEPT ![r] = @ + cost]
  /\ spent[r] <= PerTask
  /\ UNCHANGED <<killed, attempts, errors, scopeProposed, controller, pc,
                 started, last, tripped, cleared, shared>>

ProposeScopeChange(r) ==
  /\ Running(r)
  /\ ScopeFreeze
  /\ scopeProposed' = TRUE
  /\ UNCHANGED <<killed, attempts, tokenUsed, errors, controller, pc, history>>

Trip ==
  /\ killed' = TRUE
  /\ controller' = IF controller = "none" THEN "none" ELSE "aborted"
  /\ tripped' = tripped \cup {r \in Run : Running(r)}
  /\ UNCHANGED <<attempts, tokenUsed, errors, scopeProposed, pc, started, spent, last,
                 cleared, shared>>

\* Mutant: reset() leaves the controller of the run in place.
ResetKeepsController ==
  /\ killed' = FALSE /\ scopeProposed' = FALSE
  /\ attempts' = 0 /\ tokenUsed' = 0
  /\ errors' = <<>>
  /\ cleared' = cleared \cup {r \in Run : Running(r)}
  /\ UNCHANGED <<controller, pc, started, spent, last, tripped, shared>>

Reset ==
  /\ killed' = FALSE /\ scopeProposed' = FALSE
  /\ attempts' = 0 /\ tokenUsed' = 0
  /\ errors' = <<>>
  /\ controller' = "none"
  /\ cleared' = cleared \cup {r \in Run : Running(r)}
  /\ UNCHANGED <<pc, started, spent, last, tripped, shared>>

\* How a task that resolves ends its run: the first limit in the code's order.
\* goals: the result carries new goals that were not proposed.
Judged(cost, goals) ==
  CASE killed -> "kill_switch"
    [] ~killed /\ scopeProposed -> "scope_freeze"
    [] ~killed /\ ~scopeProposed /\ tokenUsed + cost > PerTask -> "token_budget_task"
    [] ~killed /\ ~scopeProposed /\ tokenUsed + cost <= PerTask /\ cost > PerStep
       -> "token_budget_step"
    [] ~killed /\ ~scopeProposed /\ tokenUsed + cost <= PerTask /\ cost <= PerStep
       -> IF goals /\ ScopeFreeze THEN "scope_freeze" ELSE "success"

TaskResolves(r, cost, goals) ==
  /\ Running(r)
  /\ tokenUsed' = IF killed THEN tokenUsed ELSE tokenUsed + cost
  /\ Ended(r, Judged(cost, goals))
  /\ spent' = [spent EXCEPT ![r] = @ + cost]
  /\ UNCHANGED <<killed, attempts, errors, scopeProposed, controller,
                 started, last, tripped, cleared, shared>>

\* The part of the errors that is looked at.
Latest(seq) ==
  SubSeq(seq, IF Len(seq) > MaxRepeatedErrors
              THEN Len(seq) - MaxRepeatedErrors + 1 ELSE 1, Len(seq))

\* Mutant: the newest error is compared with the others, which must be as many.
OneMoreRepeated(seq) ==
  /\ MaxRepeatedErrors > 0
  /\ Len(seq) > MaxRepeatedErrors
  /\ \A i \in 1 .. Len(seq) : seq[i] = seq[Len(seq)]

\* detectRepeatedError: the last MaxRepeatedErrors messages are the same.
Repeated(seq) ==
  /\ MaxRepeatedErrors > 0
  /\ Len(seq) = MaxRepeatedErrors
  /\ \A i \in 1 .. Len(seq) : seq[i] = seq[Len(seq)]

\* Mutant: the kill switch is not asked before a retry.
MayRetryTripped == attempts <= MaxRetries

\* The head of the loop.
MayRetry == ~killed /\ controller # "aborted" /\ attempts <= MaxRetries

\* Mutant: a failed attempt costs nothing.
RejectsForFree(r, error, cost) ==
  /\ Running(r)
  /\ errors' = Latest(Append(errors, error))
  /\ spent' = [spent EXCEPT ![r] = @ + cost]
  /\ last' = [last EXCEPT ![r] =
       Latest(IF @ # <<>> /\ @[1] = error THEN Append(@, error) ELSE <<error>>)]
  /\ UNCHANGED <<killed, tokenUsed, scopeProposed, controller, tripped, cleared, shared>>

\* The task rejects; its tokens count, but no budget is looked at.
Rejects(r, error, cost) ==
  /\ Running(r)
  /\ tokenUsed' = tokenUsed + cost
  /\ errors' = Latest(Append(errors, error))
  /\ spent' = [spent EXCEPT ![r] = @ + cost]
  /\ last' = [last EXCEPT ![r] =
       Latest(IF @ # <<>> /\ @[1] = error THEN Append(@, error) ELSE <<error>>)]
  /\ UNCHANGED <<killed, scopeProposed, controller, tripped, cleared, shared>>

StopAfterReject(r, error, cost) ==
  /\ Rejects(r, error, cost)
  /\ Repeated(errors') \/ ~MayRetry
  /\ Ended(r, CASE Repeated(errors') -> "repeated_error"
                [] ~Repeated(errors') /\ (killed \/ controller = "aborted") -> "kill_switch"
                [] ~Repeated(errors') /\ ~killed /\ controller # "aborted" -> "max_retries")
  /\ UNCHANGED <<attempts, started>>

StartsAttempt(r) ==
  started' = [started EXCEPT ![r] = IF @ <= MaxRetries + 1 THEN @ + 1 ELSE @]

\* Mutant: the attempt is started but not counted.
RetryUncounted(r, error, cost) ==
  /\ Rejects(r, error, cost)
  /\ ~Repeated(errors') /\ MayRetry
  /\ controller # "none"
  /\ StartsAttempt(r)
  /\ UNCHANGED <<attempts, pc>>

Retry(r, error, cost) ==
  /\ Rejects(r, error, cost)
  /\ ~Repeated(errors') /\ MayRetry
  /\ controller # "none"
  /\ attempts' = attempts + 1
  /\ StartsAttempt(r)
  /\ UNCHANGED pc

\* After a reset() there is no controller to take the signal from: run()
\* throws before it calls the task.
RetryThrows(r, error, cost) ==
  /\ Rejects(r, error, cost)
  /\ ~Repeated(errors') /\ MayRetry
  /\ controller = "none"
  /\ attempts' = attempts + 1
  /\ Ended(r, "rejected")
  /\ UNCHANGED started

TaskSettles(r) ==
  \E cost \in Cost :
    \/ \E goals \in BOOLEAN : TaskResolves(r, cost, goals)
    \/ \E error \in Error : \/ StopAfterReject(r, error, cost)
                            \/ Retry(r, error, cost)
                            \/ RetryThrows(r, error, cost)

\* The bounded set of runs is used up.
Quiescent == (\A r \in Run : pc[r] \in Ends) /\ UNCHANGED vars

Next ==
  \/ \E r \in Run : Begin(r) \/ ProposeScopeChange(r) \/ TaskSettles(r)
  \/ \E r \in Run, cost \in Cost : RecordTokenUsage(r, cost)
  \/ Trip \/ Reset
  \/ Quiescent

\* A task that is awaited settles.
Fairness == \A r \in Run : WF_vars(TaskSettles(r))

Spec == Init /\ [][Next]_vars /\ Fairness
-----------------------------------------------------------------------------
(* Properties.                                                             *)

(* A run that was tripped and has the breaker to itself starts no further  *)
(* attempt, however many resets follow ("cooperative kill switch",         *)
(* docs/CURRENT_STATE.md).                                                 *)
TrippedRunsStartNothing ==
  [][\A r \in tripped : r \in shared \/ started'[r] = started[r]]_vars

(* A run that has the breaker to itself makes at most one attempt more     *)
(* than maxRetries, a reset() in its midst included, although that sets    *)
(* the count of attempts back.                                             *)
AttemptsAreBounded ==
  \A r \in Run : r \in shared \/ started[r] <= MaxRetries + 1

\* The counters of the breaker are those of the run.
Undisturbed(r) == r \notin cleared /\ r \notin shared

(* A run that succeeds has kept to the task's budget with everything its   *)
(* attempts reported, the failed ones and recordTokenUsage() included.     *)
SuccessIsAffordable ==
  \A r \in Run : pc[r] = "success" /\ Undisturbed(r) => spent[r] <= PerTask

(* A run that goes on has not seen the same error MaxRepeatedErrors times  *)
(* in a row: the agent is not stuck.                                       *)
StuckRunsStop ==
  MaxRepeatedErrors > 0 =>
    \A r \in Run : Running(r) /\ Undisturbed(r) => Len(last[r]) < MaxRepeatedErrors

(* A run that begins ends, provided each task it awaits settles, whatever  *)
(* the other runs of the breaker and reset() do to its counters.           *)
EveryRunEnds == \A r \in Run : Running(r) ~> pc[r] \in Ends
=============================================================================
