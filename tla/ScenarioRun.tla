------------------------------ MODULE ScenarioRun ------------------------------
(***************************************************************************)
(* Governed execution by an agent: the scenario loop (src/scenarioLoop.ts) *)
(* over the command guard (src/commandGuard.ts) and the breaker of         *)
(* src/runtimeGovernance.ts, and beside them an adapter that calls the     *)
(* guard itself with an approval token, and the specialists of             *)
(* src/specialistGovernance.ts with their effect guard.                    *)
(*                                                                         *)
(* One process, whose calls are synchronous.  What can happen between two  *)
(* of its steps is a crash, after which the caller builds a new loop, or a *)
(* failed write to the event stream, which throws out of whatever was      *)
(* being done.  The rules are those of PolicyRules.                        *)
(***************************************************************************)
EXTENDS PolicyRules

CONSTANTS
  Command,     \* name -> [blocked, listed, resembles, chained, trigger, words, fails]
  MaxAttempts, MaxCost, MaxTokens,   \* the contract's budgets
  AllowedTargets, BlockedTargets,    \* the contract's targets
  Step,        \* [index, cost, tokens, target, success, kind, cmd, evidence]: a step's input
  NoToken, Token, \* none, or an approval token of the gate, and
  Covers,      \* the command each one was issued for
  Act, Effect, \* inputs of the specialists: [specialist, ..., token], [class, environment]
  Registered, Expected, \* adapters of the effect guard
  MaxCalls, MaxMishaps   \* bounds: calls made, crashes and failed writes

ASSUME RunAssumption ==
  /\ \A c \in DOMAIN Command : /\ Command[c].words \subseteq DOMAIN WordRisk
                              /\ \A f \in {"blocked", "listed", "resembles", "chained", "trigger",
                                          "needsEvidence", "fails"} : Command[c][f] \in BOOLEAN
  /\ \A s \in Step : /\ s.cost \in Nat /\ s.tokens \in Nat /\ s.index \in Nat
                     /\ s.success \in BOOLEAN /\ s.evidence \in BOOLEAN
                     /\ s.cmd \in DOMAIN Command
  /\ NoToken \notin Token
  /\ MaxAttempts \in Nat /\ MaxCost \in Nat /\ MaxTokens \in Nat
  /\ MaxCalls \in Nat /\ MaxMishaps \in Nat

VARIABLES
  loop,    \* [stopped, cost, tokens, late]: the variables of createScenarioLoop
  breaker, \* [seen, denied, failures, state]: those of its circuit breaker
  job,     \* what is being done, [phase, by, step, cmd, token, decision]
  spent,   \* tokens the approval gate has redeemed (on disk)
  trace,   \* history: what ran, and the events of the stream that tell of it
  paid,    \* history: what the commands of this loop have cost
  life, calls, mishaps \* the number of the loop, and the bounds' counters
runVars == <<loop, breaker, job, spent, trace, paid, life, calls, mishaps>>

FreshLoop == [stopped |-> FALSE, cost |-> 0, tokens |-> 0, late |-> FALSE]
FreshBreaker == [seen |-> <<>>, denied |-> 0, failures |-> 0, state |-> "CLOSED"]
Resting == [phase |-> "rest"]

RunInit ==
  /\ loop = FreshLoop /\ breaker = FreshBreaker /\ job = Resting /\ spent = {} /\ trace = <<>>
  /\ paid = 0 /\ life = 1 /\ calls = 0 /\ mishaps = 0

Called == job = Resting /\ calls < MaxCalls /\ calls' = calls + 1

\* An event reaches the stream, or the write throws: the call ends where it is.
Note(what) == [what |-> what, life |-> life, job |-> [job EXCEPT !.phase = ""]]
Emitted(what, next) ==
  /\ trace' = IF what = "" THEN trace ELSE Append(trace, Note(what))
  /\ job' = next
  /\ UNCHANGED <<calls, mishaps>>
Thrown == mishaps < MaxMishaps /\ mishaps' = mishaps + 1 /\ job' = Resting /\ UNCHANGED <<trace, calls>>

-----------------------------------------------------------------------------
(* The loop.                                                               *)

\* The checks before the policy is asked, in their order; "" when none refuses.
Refusal(l, s) ==
  IF l.stopped \/ s.index >= MaxAttempts \/ l.late THEN "stop"
  ELSE IF s.success THEN "success"
  ELSE IF s.target \in BlockedTargets \/ (AllowedTargets # {} /\ s.target \notin AllowedTargets)
       THEN "block"
  ELSE ""

\* step(): what the input claims is counted even by a loop that has stopped, and a
\* refusal stops the loop before it is written down.
StepLoop(s) ==
  LET refused == Refusal(loop, s)
  IN /\ Called
     /\ loop' = [loop EXCEPT !.cost = @ + s.cost, !.tokens = @ + s.tokens,
                             !.stopped = @ \/ refused # ""]
     /\ job' = [phase |-> IF refused = "" THEN "policy" ELSE "answer", by |-> "loop", step |-> s,
                cmd |-> s.cmd, token |-> NoToken, decision |-> refused]
     /\ UNCHANGED <<breaker, spent, trace, paid, life, mishaps>>

\* The runtime budget is over.
TimeRunsOut == ~loop.late /\ loop' = [loop EXCEPT !.late = TRUE]
               /\ UNCHANGED <<breaker, job, spent, trace, paid, life, calls, mishaps>>

\* What the loop asks the risk policy.  The totals hold the step's own cost and
\* tokens already, and the policy adds them again.
RuntimeInput(s) ==
  LET c == Command[s.cmd]
      isCommand == s.kind = "command"
  IN [words |-> c.words, evidence |-> s.evidence, policies |-> <<>>,
      approved |-> FALSE, expired |-> FALSE, failClosed |-> TRUE,
      measures |-> {m \in {"overCost", "overTokens", "loopsDone"} :
                      /\ m = "overCost" => loop.cost + s.cost > MaxCost
                      /\ m = "overTokens" => loop.tokens + s.tokens > MaxTokens
                      /\ m = "loopsDone" => s.index >= MaxAttempts},
      clauses |-> {k \in DOMAIN ClauseRisk \cup {"approvalFor"} :
                     CASE k = "forbiddenAction" -> c.blocked
                       [] k = "actionDrift" -> ~c.resembles
                       [] k = "forbiddenTool" -> FALSE
                       [] k = "toolDrift" -> ~isCommand
                       [] k = "systemBoundary" -> /\ AllowedTargets # {}
                                                  /\ s.target \notin AllowedTargets
                       [] k = "evidenceFor" -> c.needsEvidence
                       [] OTHER -> c.trigger}]

\* The policy's own event is written before anything follows from the verdict.
Judge ==
  /\ job.phase = "policy"
  /\ Emitted("", [job EXCEPT !.phase = "breaker"]) \/ Thrown
  /\ UNCHANGED <<loop, breaker, spent, paid, life>>

\* evaluate(input, decision) of the breaker: the first threshold that is met.
Key(s) == <<s.kind, s.cmd, s.target>>
CallsOf(b, s) == Cardinality({i \in DOMAIN b.seen : b.seen[i] = Key(s)})
Threshold(b, s, risks) ==
  IF \E r \in risks : Critical90(r) THEN "LOCKED"
  ELSE IF b.denied >= 2 \/ b.failures >= 3 THEN "OPEN"
  ELSE IF CallsOf(b, s) >= 3 THEN "WARNING"
  ELSE IF loop.tokens + s.tokens > MaxTokens \/ loop.cost + s.cost > MaxCost THEN "OPEN"
  ELSE ""
Tripped(b, s, in) ==
  LET counted == [b EXCEPT !.seen = Append(@, Key(s)),
                           !.denied = @ + IF Stops(RiskVerdict(in)) THEN 1 ELSE 0,
                           !.failures = @ + IF Command[s.cmd].fails THEN 1 ELSE 0]
      met == Threshold(counted, s, Assess(in).risks)
  IN [counted EXCEPT !.state = IF met = "" \/ @ = "LOCKED" THEN @ ELSE met]

\* What the loop makes of the policy's verdict and of the breaker's state.
Outcome(v, state, s) ==
  IF Stops(v) THEN "block"
  ELSE IF ~Allows(v) THEN "escalate"
  ELSE IF state \in {"OPEN", "LOCKED"} THEN "stop"
  ELSE IF s.kind = "command" THEN "run" ELSE "continue"

\* Mutant: a refusal that leaves the loop running.
DecideAndGoOn(outcome) == UNCHANGED loop

\* A refusal stops the loop.
Decide(outcome) == loop' = [loop EXCEPT !.stopped = @ \/ outcome \notin {"run", "continue"}]

\* The breaker has changed by the time its event is written.
Trip ==
  /\ job.phase = "breaker"
  /\ \E in \in {RuntimeInput(job.step)} : \E b \in {Tripped(breaker, job.step, in)} :
       LET outcome == Outcome(RiskVerdict(in), b.state, job.step)
       IN /\ breaker' = b
          /\ \/ /\ Decide(outcome)
                /\ Emitted("", [job EXCEPT !.phase = IF outcome = "run" THEN "guard" ELSE "answer",
                                           !.decision = outcome])
             \/ breaker.state # "LOCKED" /\ b.state # "CLOSED" /\ Thrown /\ UNCHANGED loop
  /\ UNCHANGED <<spent, paid, life>>

\* emitStepEvent, after which the caller has the result.
Answered ==
  /\ job.phase = "answer"
  /\ Emitted("scenario.step", Resting) \/ Thrown
  /\ UNCHANGED <<loop, breaker, spent, paid, life>>

-----------------------------------------------------------------------------
(* The command guard.                                                      *)

\* run(command, {approvalToken}): an adapter uses the guard without a loop.
GuardDirectly(c, t) ==
  /\ Called
  /\ job' = [phase |-> "guard", by |-> "adapter", step |-> <<>>, cmd |-> c, token |-> t,
             decision |-> "run"]
  /\ UNCHANGED <<loop, breaker, spent, trace, paid, life, mishaps>>

\* The gate is built from the contract and asked about one command of low risk.
Gate == [mode |-> "HOTL", maxRisk |-> "high", files |-> {}, listsCommands |-> TRUE]
Asked(c) == [risk |-> "low", files |-> {}, commands |-> {Command[c]},
             mentionsTrigger |-> Command[c].trigger, approved |-> FALSE]

\* The result goes back into the loop, which stops, or to the adapter.
HeldBack(decision) ==
  IF job.by = "loop" THEN [job EXCEPT !.phase = "answer", !.decision = decision] ELSE Resting
Withhold(event, decision) ==
  \/ /\ Emitted(event, HeldBack(decision))
     /\ loop' = IF job.by = "loop" THEN [loop EXCEPT !.stopped = TRUE] ELSE loop
  \/ Thrown /\ UNCHANGED loop

Guard ==
  LET v == GateVerdict(Gate, Asked(job.cmd))
      redeems == job.token # NoToken /\ job.token \notin spent /\ Covers[job.token] = job.cmd
  IN /\ job.phase = "guard"
     /\ \/ v = "blocked" /\ Withhold("command.blocked", "block") /\ UNCHANGED spent
        \/ /\ v = "requiresApproval" /\ ~redeems
           /\ Withhold(IF job.token = NoToken THEN "approval.requested" ELSE "approval.denied",
                       "escalate")
           /\ UNCHANGED spent
        \/ /\ v = "requiresApproval" /\ redeems
           /\ spent' = spent \cup {job.token}
           /\ job' = [job EXCEPT !.phase = "redeemed"]
           /\ UNCHANGED <<loop, trace, calls, mishaps>>
        \/ /\ v = "allowed"
           /\ job' = [job EXCEPT !.phase = "spawn"]
           /\ UNCHANGED <<loop, spent, trace, calls, mishaps>>
     /\ UNCHANGED <<breaker, paid, life>>

\* The token is spent; its event comes before the command.
Granted ==
  /\ job.phase = "redeemed"
  /\ Emitted("approval.granted", [job EXCEPT !.phase = "spawn"]) \/ Thrown
  /\ UNCHANGED <<loop, breaker, spent, paid, life>>

Spawn ==
  /\ job.phase = "spawn"
  /\ trace' = Append(trace, Note("ran")) /\ job' = [job EXCEPT !.phase = "ran"]
  /\ paid' = IF job.by = "loop" THEN paid + job.step.cost ELSE paid
  /\ UNCHANGED <<loop, breaker, spent, life, calls, mishaps>>

\* Whatever came of the process, the event says that the command was allowed.
WriteDown ==
  /\ job.phase = "ran"
  /\ \/ Emitted("command.allowed", IF job.by = "loop"
                  THEN [job EXCEPT !.phase = "answer", !.decision = "continue"] ELSE Resting)
     \/ Thrown
  /\ UNCHANGED <<loop, breaker, spent, paid, life>>

-----------------------------------------------------------------------------
(* Specialists and effects.                                                *)

\* delegateSpecialistStep: recorded whatever the verdict, and reported as done.
Delegate(a) ==
  /\ Called /\ trace' = Append(trace, [what |-> "delegated", life |-> life,
                                       job |-> [act |-> a, verdict |-> SpecialistVerdict(a, {})]])
  /\ UNCHANGED <<loop, breaker, job, spent, paid, life, mishaps>>

\* evaluateSpecialistAction with the token of a delegation.
ActOn(a, token) ==
  /\ Called /\ trace' = Append(trace, [what |-> "acted", life |-> life,
                                       job |-> [act |-> a, token |-> token,
                                                verdict |-> SpecialistVerdict(a, {token})]])
  /\ UNCHANGED <<loop, breaker, job, spent, paid, life, mishaps>>

\* guardEffect: the effect happens before it is written down.
Cause(e) ==
  /\ Called
  /\ LET v == EffectVerdict(e.class, e.environment, Registered, Expected)
     IN job' = [phase |-> "caused", effect |-> e, verdict |-> v]
  /\ trace' = IF job'.verdict = "ALLOW"
              THEN Append(trace, [what |-> "effect", life |-> life, job |-> job']) ELSE trace
  /\ UNCHANGED <<loop, breaker, spent, paid, life, mishaps>>
Caused ==
  /\ job.phase = "caused" /\ (Emitted("effect.evaluated", Resting) \/ Thrown)
  /\ UNCHANGED <<loop, breaker, spent, paid, life>>

\* The process dies; what it held in memory is gone, and a new loop starts anew.
StartAnew ==
  /\ mishaps < MaxMishaps /\ mishaps' = mishaps + 1 /\ life' = life + 1
  /\ loop' = FreshLoop /\ breaker' = FreshBreaker /\ job' = Resting
  /\ paid' = 0
  /\ UNCHANGED <<spent, trace, calls>>

RunNext ==
  \/ \E s \in Step : StepLoop(s)
  \/ TimeRunsOut \/ Judge \/ Trip \/ Answered
  \/ \E c \in DOMAIN Command, t \in Token \cup {NoToken} : GuardDirectly(c, t)
  \/ Guard \/ Granted \/ Spawn \/ WriteDown
  \/ \E a \in Act : Delegate(a) \/ \E b \in Act : ActOn(a, Fingerprint(b))
  \/ \E e \in Effect : Cause(e)
  \/ Caused \/ StartAnew
RunSpec == RunInit /\ [][RunNext]_runVars
-----------------------------------------------------------------------------
Happened(what) == {i \in DOMAIN trace : trace[i].what = what}

\* Every command that ran was one the contract lists and none it blocks or that
\* chains another; where the contract wants an approval the stream had said before
\* that a token issued for this very command was accepted, and no other run used it.
\* A loop that has answered a step with anything but "continue" runs nothing more,
\* and what it ran stays within its budget.  Only a crash or a failed write leaves a
\* run that the stream does not tell of, and it tells of no run that was not.  An
\* effect that happened had its adapter or touches no production, and the token of
\* one delegation does not serve another step.
RunsAreGoverned ==
  /\ \A i \in Happened("ran") :
       LET c == Command[trace[i].job.cmd]
           t == trace[i].job.token
       IN /\ c.listed /\ ~c.blocked /\ ~c.chained
          /\ c.trigger =>
               /\ \E j \in Happened("approval.granted") :
                    j < i /\ trace[j].job.token = t /\ Covers[t] = trace[j].job.cmd
                    /\ trace[j].job.cmd = trace[i].job.cmd
               /\ \A k \in Happened("ran") \ {i} :
                    Command[trace[k].job.cmd].trigger => trace[k].job.token # t
          /\ trace[i].job.by = "loop" =>
               \A j \in Happened("scenario.step") :
                 j < i /\ trace[j].life = trace[i].life => trace[j].job.decision = "continue"
  /\ paid <= MaxCost
  /\ LET told == Cardinality(Happened("command.allowed"))
         ran == Cardinality(Happened("ran"))
     IN told <= ran /\ ran - told <= mishaps + (IF job.phase = "ran" THEN 1 ELSE 0)
  /\ \A i \in Happened("effect") : LET e == trace[i].job.effect IN
       e.environment = "production" => e.class \notin ApprovalEffects \cup (Expected \ Registered)
  /\ \A i \in Happened("acted") :
       trace[i].job.verdict # "DENY" => trace[i].job.token = Fingerprint(trace[i].job.act)
=============================================================================
