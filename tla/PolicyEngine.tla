----------------------------- MODULE PolicyEngine -----------------------------
(***************************************************************************)
(* The governed policy engine of src/failClosed.ts, asked asynchronously:  *)
(* the evaluator races a timer, and what the loser says later is dropped.  *)
(* An evaluator that throws, times out or answers something that is no     *)
(* decision is replaced by a fallback, which is written to the event       *)
(* stream; a write that fails throws into the same catch block and the     *)
(* fallback is decided and written a second time.                          *)
(*                                                                         *)
(* The rules themselves are in PolicyRules.  A question carries an input   *)
(* for the risk policy, the profile and the action the runtime core asks   *)
(* about.                                                                  *)
(***************************************************************************)
EXTENDS PolicyRules

CONSTANTS Question   \* [in, profile, gate, run]: what may be asked of the policies

\* What may be asked: policies that give one of the verdicts, and known words.
CustomPolicies == [risks : SUBSET STRING, needsEvidence : BOOLEAN, verdict : Verdicts]
RiskInputs ==
  [words : SUBSET DOMAIN WordRisk, measures : SUBSET DOMAIN MeasureRisk,
   clauses : SUBSET (DOMAIN ClauseRisk \cup {"approvalFor"}), policies : Seq(CustomPolicies),
   evidence : BOOLEAN, approved : BOOLEAN, expired : BOOLEAN, failClosed : BOOLEAN,
   openByDefault : BOOLEAN, readsLike : BOOLEAN,
   action : [kind : STRING, operation : STRING, workspace : STRING, sensitive : BOOLEAN,
             config : BOOLEAN, destroysText : BOOLEAN]]
PolicyGates == [mode : {"HITL", "HOTL", "HOOTL"}, maxRisk : DOMAIN RiskRank,
                listsCommands : BOOLEAN,
                files : SUBSET [base : Seq(STRING), ends : {"below", "child", "itself"}]]
AgentRuns == [risk : DOMAIN RiskRank, files : SUBSET Seq(STRING),
              commands : SUBSET [blocked : BOOLEAN, chained : BOOLEAN, listed : BOOLEAN],
              mentionsTrigger : BOOLEAN, approved : BOOLEAN]

ASSUME QuestionAssumption ==
  \A q \in Question : q.in \in RiskInputs /\ q.gate \in PolicyGates /\ q.run \in AgentRuns

VARIABLES asked,     \* the question in hand, <<>> or <<q>>
          race,      \* "idle", "running", "timedOut", "caught", "settled" or "rejected"
          verdict,   \* what the caller got, "" while there is nothing
          fallback,  \* whether it is a fallback
          recorded   \* the failures the event stream holds of this question
engineVars == <<asked, race, verdict, fallback, recorded>>

EngineInit == asked = <<>> /\ race = "idle" /\ verdict = "" /\ fallback = FALSE /\ recorded = 0

Ask(q) ==
  /\ race = "idle"
  /\ ValidProfile(q.profile)  \* loadProfile throws on any other
  /\ asked' = <<q>> /\ race' = "running"
  /\ UNCHANGED <<verdict, fallback, recorded>>

\* The evaluator is the risk policy itself, and its answer is a decision.
Answers ==
  /\ race = "running" /\ race' = "settled" /\ verdict' = RiskVerdict(asked[1].in)
  /\ UNCHANGED <<asked, fallback, recorded>>

\* The fallback is decided and written; where that fails the caller gets the
\* error of the second write, and no decision.
Falls(from, failed) ==
  /\ race = from
  /\ \/ /\ race' = "settled" /\ verdict' = EngineVerdict(asked[1].in, "none")
        /\ fallback' = TRUE /\ recorded' = recorded + 1
     \/ race' = failed /\ UNCHANGED <<verdict, fallback, recorded>>
  /\ UNCHANGED asked
Malformed == Falls("running", "caught")
Throws == race = "running" /\ race' = "caught" /\ UNCHANGED <<asked, verdict, fallback, recorded>>
TimesOut == race = "running" /\ race' = "timedOut" /\ UNCHANGED <<asked, verdict, fallback, recorded>>
Catches == Falls("caught", "rejected") \/ Falls("timedOut", "rejected")
\* An evaluator that answers after its timer: the promise was settled by the
\* timer, and the answer goes nowhere.
AnswersLate == race = "timedOut" /\ UNCHANGED engineVars

EngineNext ==
  \/ race = "idle" /\ \E q \in Question : Ask(q)
  \/ Answers \/ Malformed \/ Throws \/ TimesOut \/ Catches \/ AnswersLate
EngineSpec == EngineInit /\ [][EngineNext]_engineVars
-----------------------------------------------------------------------------
\* The inputs that ask for at least as much caution: one more risky word, a clause
\* of the scenario or a budget that is exceeded, no approval, an approval that has
\* expired, one more policy that denies.
Harder(in) ==
  {[in EXCEPT !.words = @ \cup {w}] : w \in DOMAIN WordRisk}
  \cup {[in EXCEPT !.clauses = @ \cup {k}] : k \in DOMAIN ClauseRisk \cup {"approvalFor"}}
  \cup {[in EXCEPT !.measures = @ \cup {x}] : x \in DOMAIN MeasureRisk}
  \cup {[in EXCEPT !.approved = FALSE], [in EXCEPT !.failClosed = TRUE],
        [in EXCEPT !.policies = Append(@, [risks |-> {}, needsEvidence |-> FALSE, verdict |-> "DENY"])]}

\* The same for the policy gate and the run it is asked to let start.
Stricter(gate, run) ==
  {[gate |-> g, run |-> run] : g \in {[gate EXCEPT !.maxRisk = "low"], [gate EXCEPT !.mode = "HITL"],
                                      [gate EXCEPT !.listsCommands = TRUE]}}
  \cup {[gate |-> gate, run |-> r] :
          r \in {[run EXCEPT !.risk = "high"], [run EXCEPT !.approved = FALSE],
                 [run EXCEPT !.mentionsTrigger = TRUE]}
               \cup {[run EXCEPT !.files = @ \cup {f}] : f \in {<<"src">>, <<"src", "a">>, <<"src", "a", "b">>}}
               \cup {[run EXCEPT !.commands = @ \cup {c}] :
                       c \in [blocked : BOOLEAN, chained : BOOLEAN, listed : BOOLEAN]}}
Firmness == [allowed |-> 0, requiresApproval |-> 1, blocked |-> 2]

\* More cause for caution never makes the risk policy more lenient, neither alone
\* nor in the stricter of two verdicts that the runtime core takes; and no input at
\* all gets past what the profile refuses.  So for the policy gate, for which a
\* file below an allowed directory is no such cause.  What the engine
\* gives its caller in time is that verdict; where it failed, the caller has the
\* fallback only if the stream holds it, once.
CautionOnlyTightens ==
  /\ race = "running" =>
       LET q == asked[1]
       IN /\ \A harder \in Harder(q.in) :
               /\ Strictness(RiskVerdict(harder)) >= Strictness(RiskVerdict(q.in))
               /\ Strictness(EffectiveVerdict(harder, q.profile)) >=
                    Strictness(EffectiveVerdict(q.in, q.profile))
          /\ Stops(ProfileVerdict(q.profile, ActionFacts(q.in.action))) =>
               Stops(EffectiveVerdict(q.in, q.profile))
          /\ \A s \in Stricter(q.gate, q.run) :
               Firmness[GateVerdict(s.gate, s.run)] >= Firmness[GateVerdict(q.gate, q.run)]
          /\ \A p \in {d \in q.gate.files : d.ends = "below"} :
               GateVerdict(q.gate, [q.run EXCEPT !.approved = TRUE, !.files = {p.base \o <<"a", "b">>}]) =
                 GateVerdict(q.gate, [q.run EXCEPT !.approved = TRUE, !.files = {}])
  /\ verdict # "" => recorded = IF fallback THEN 1 ELSE 0
  /\ verdict = "" => recorded = 0
=============================================================================
