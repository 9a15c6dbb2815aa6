----------------------------- MODULE PolicyRules -----------------------------
(***************************************************************************)
(* The rules a proposed action is judged by: the risk policy               *)
(* (src/runtimeGovernance.ts), the governance profile                      *)
(* (src/runtime/profiles.ts), their combination in the runtime core, the   *)
(* fail-closed wrapper (src/failClosed.ts) and the policy gate of an agent *)
(* run (src/index.ts).  Everything here is a function of its input.        *)
(*                                                                         *)
(* What the code finds in texts by patterns is part of the input: the      *)
(* groups of words an action contains, the clauses of the scenario it      *)
(* meets, the facts of the canonical action.                               *)
(***************************************************************************)
EXTENDS Integers, Sequences, FiniteSets, SequencesExt

\* SEVERITY, the total order in which a stricter verdict wins.
Severity == <<"ALLOW", "ALLOW_WITH_WARNING", "PAUSE", "REQUIRE_APPROVAL", "DENY", "STOP_AGENT">>
Verdicts == {Severity[i] : i \in DOMAIN Severity}
Rank(v) == CHOOSE i \in DOMAIN Severity : Severity[i] = v
MoreSevere(a, b) == IF Rank(a) >= Rank(b) THEN a ELSE b

\* decisionFlags: allowed, held for a human, or refused.
Allows(v) == v \in {"ALLOW", "ALLOW_WITH_WARNING"}
Stops(v) == v \in {"DENY", "STOP_AGENT"}
Strictness(v) == IF Allows(v) THEN 0 ELSE IF Stops(v) THEN 2 ELSE 1

-----------------------------------------------------------------------------
(* Risks.                                                                  *)

Risk(id, score) == [id |-> id, score |-> score]

\* The groups of words inferRiskDimensions looks for and what each one counts.
WordRisk ==
  [destroys   |-> Risk("DESTRUCTIVE_ACTION", 85),
   privileged |-> Risk("PRIVILEGE_ESCALATION", 80),
   identity   |-> Risk("IDENTITY_OR_PERMISSION_CHANGE", 85),
   production |-> Risk("PRODUCTION_CHANGE", 75),
   external   |-> Risk("EXTERNAL_COMMUNICATION", 70),
   personal   |-> Risk("PERSONAL_DATA", 85),
   exposes    |-> Risk("DATA_EXPOSURE", 80),
   financial  |-> Risk("FINANCIAL_ACTION", 80),
   security   |-> Risk("SECURITY_IMPACT", 85),
   legal      |-> Risk("LEGAL_OR_COMPLIANCE", 75),
   delegates  |-> Risk("AGENT_HANDOFF_RISK", 45),
   memory     |-> Risk("MEMORY_POISONING", 45)]

\* What the numbers of the input add: budgets of the scenario and confidence.
MeasureRisk ==
  [overCost   |-> Risk("COST_ANOMALY", 80),
   overTokens |-> Risk("COST_ANOMALY", 75),
   loopsDone  |-> Risk("LOOP_ANOMALY", 80),
   unsure     |-> Risk("MODEL_UNCERTAINTY", 45)]

InferredRisks(in) ==
  {WordRisk[w] : w \in in.words} \cup {MeasureRisk[m] : m \in in.measures}

\* applyScenarioContract: the clauses of the scenario the action meets.  The
\* one that requires approval triggers a policy and adds no risk.
ClauseRisk ==
  [forbiddenAction |-> Risk("SECURITY_IMPACT", 90),
   actionDrift     |-> Risk("AGENT_HANDOFF_RISK", 55),
   forbiddenTool   |-> Risk("SECURITY_IMPACT", 90),
   toolDrift       |-> Risk("AGENT_HANDOFF_RISK", 60),
   systemBoundary  |-> Risk("DATA_EXPOSURE", 70),
   evidenceFor     |-> Risk("UNVERIFIED_EVIDENCE", 65)]

ScenarioRisks(in) ==
  {ClauseRisk[c] : c \in {k \in in.clauses : /\ k # "approvalFor"
                                             /\ k = "evidenceFor" => ~in.evidence}}

\* One custom policy; those before it may have added the risk it matches.
ApplyPolicy(in, acc, p) ==
  IF p.risks # {} /\ \A r \in acc.risks : r.id \notin p.risks THEN acc
  ELSE [risks |-> IF p.needsEvidence /\ ~in.evidence
                  THEN acc.risks \cup {Risk("UNVERIFIED_EVIDENCE", 70)} ELSE acc.risks,
        verdicts |-> acc.verdicts \cup {p.verdict}]

\* addRisk: of two risks with one name the higher score stays.
Highest(risks) == {r \in risks : \A s \in risks : s.id = r.id => s.score <= r.score}

\* applyCustomPolicies, in the order they are listed.
Assess(in) ==
  LET applied[n \in 0 .. Len(in.policies)] ==
        IF n = 0 THEN [risks |-> InferredRisks(in) \cup ScenarioRisks(in), verdicts |-> {}]
        ELSE ApplyPolicy(in, applied[n - 1], in.policies[n])
  IN [applied[Len(in.policies)] EXCEPT !.risks = Highest(@)]

Critical90(r) == r.score >= 90
High70(r) == r.score >= 70 /\ r.score < 90
Medium40(r) == r.score >= 40 /\ r.score < 70

Forbidden(in) == in.clauses \cap {"forbiddenAction", "forbiddenTool"} # {}

\* chooseDisposition: the first rule that applies.
RiskVerdict(in) ==
  LET a == Assess(in)
      some(P(_)) == \E r \in a.risks : P(r)
      needsHuman == "approvalFor" \in in.clauses \/ some(High70)
                    \/ "REQUIRE_APPROVAL" \in a.verdicts
  IN IF "DENY" \in a.verdicts \/ Forbidden(in) THEN "DENY"
     ELSE IF "STOP_AGENT" \in a.verdicts \/ (some(Critical90) /\ in.failClosed) THEN "STOP_AGENT"
     ELSE IF in.expired THEN "REQUIRE_APPROVAL"
     ELSE IF "PAUSE" \in a.verdicts THEN "PAUSE"
     ELSE IF needsHuman /\ ~in.approved THEN "REQUIRE_APPROVAL"
     ELSE IF some(Medium40) \/ "ALLOW_WITH_WARNING" \in a.verdicts THEN "ALLOW_WITH_WARNING"
     ELSE "ALLOW"

-----------------------------------------------------------------------------
(* Profiles.                                                               *)

\* computeActionFacts, of an action that was already located on the host.
DestructiveOperations ==
  [filesystem |-> {"delete", "overwrite", "move", "chmod", "truncate"},
   git        |-> {"force_push", "reset_hard", "clean", "branch_delete", "remote_remove",
                   "remote_set_url", "tag_delete"},
   http       |-> {"authenticated_mutation"}]
ActionFacts(a) ==
  [kind |-> a.kind, operation |-> a.operation, workspace |-> a.workspace,
   sensitive |-> a.sensitive, config |-> a.config,
   destructive |-> \/ /\ a.kind \in DOMAIN DestructiveOperations
                      /\ a.operation \in DestructiveOperations[a.kind]
                   \/ a.kind = "shell" /\ a.destroysText]

\* ruleMatches: a rule constrains the facts it names and no other.
RuleMatches(rule, facts) == \A f \in DOMAIN rule.match : facts[f] \in rule.match[f]

\* evaluateProfile: the strictest rule that matches; the default stands only
\* when none does.
ProfileVerdict(profile, facts) ==
  LET M == {r \in profile.rules : RuleMatches(r, facts)}
  IN IF M = {} THEN profile.default
     ELSE Severity[CHOOSE i \in {Rank(r.verdict) : r \in M} :
                     \A j \in {Rank(r.verdict) : r \in M} : j <= i]

\* validateProfile: what loadProfile refuses to serve.
ValidProfile(profile) ==
  /\ profile.default \in Verdicts
  /\ \A r \in profile.rules : r.verdict \in Verdicts
  /\ \A r, s \in profile.rules : r.id = s.id => r = s

\* Mutant: the risk policy overrules the profile.
RiskAlone(in, profile) == RiskVerdict(in)

\* evaluateEffectiveGovernance: the runtime core asks with neither scenario nor
\* approval and takes the stricter of the two verdicts.
EffectiveVerdict(in, profile) ==
  MoreSevere(ProfileVerdict(profile, ActionFacts(in.action)), RiskVerdict(in))

-----------------------------------------------------------------------------
(* The fail-closed engine.                                                 *)

\* isValidDecision: outcome is what the evaluator gave, or how it failed.
ValidOutcome(outcome) == outcome \in Verdicts

\* evaluate and evaluateAsync: a failure is a denial, unless the engine is open
\* by configuration or the text contains a word that is taken for low risk.
EngineVerdict(in, outcome) ==
  IF ValidOutcome(outcome) THEN outcome
  ELSE IF in.openByDefault \/ in.readsLike THEN "ALLOW_WITH_WARNING"
  ELSE "DENY"

-----------------------------------------------------------------------------
(* Specialists.                                                            *)

Specialists ==
  [video_director |-> {"video_mcp", "analysis"}, coding |-> {"terminal", "filesystem", "analysis"},
   operations |-> {"terminal", "filesystem", "analysis"}, sales |-> {"analysis", "messaging"},
   general |-> {"analysis"}]

\* What an authorization token is the digest of.
Fingerprint(a) ==
  [f \in {"specialist", "task", "plan", "step", "tool", "environment", "target", "command"} |-> a[f]]

\* evaluateSpecialistAction.  A token is compared where one is given; it does
\* not stand for the approval.
SpecialistVerdict(a, token) ==
  IF a.specialist \notin DOMAIN Specialists THEN "DENY"
  ELSE IF a.tool \notin Specialists[a.specialist] THEN "DENY"
  ELSE IF token # {} /\ token # {Fingerprint(a)} THEN "DENY"
  ELSE IF a.risky THEN "DENY"
  ELSE IF a.environment = "production" \/ a.sensitive THEN "REQUIRES_APPROVAL"
  ELSE "ALLOW"

ApprovalEffects == {"external_message", "publish", "deploy", "credential_change", "dns_change",
                    "purchase", "production_change"}
\* guardEffect: an adapter that is expected and missing blocks what touches production.
EffectVerdict(effect, environment, registered, expected) ==
  IF /\ effect \in expected \ registered
     /\ environment = "production" \/ effect \in ApprovalEffects THEN "DENY"
  ELSE IF effect \in ApprovalEffects /\ environment # "development" THEN "REQUIRES_APPROVAL"
  ELSE "ALLOW"

-----------------------------------------------------------------------------
(* The policy gate of an agent run.                                        *)

\* riskRank
RiskRank == [low |-> 1, medium |-> 2, high |-> 3]

\* matchesAllowedFilePattern, on normalised paths as sequences of names: a pattern
\* ends in /**, in /*, or is a path.
MatchesFile(pattern, file) ==
  CASE pattern.ends = "below" -> IsPrefix(pattern.base, file)
    [] pattern.ends = "child" -> file # <<>> /\ Front(file) = pattern.base
    [] OTHER -> file = pattern.base

\* A requested command is listed or not, blocked or not, chained or not: one that
\* contains a blocked text, or a shell operator outside its quotes.
GateViolations(gate, q) ==
  {<<"risk">> : x \in {m \in {gate.maxRisk} : RiskRank[q.risk] > RiskRank[m]}}
  \cup {<<"file", f>> : f \in {g \in q.files : gate.files # {} /\ \A p \in gate.files : ~MatchesFile(p, g)}}
  \cup {<<"command", c>> : c \in {d \in q.commands : \/ d.blocked \/ d.chained
                                                     \/ gate.listsCommands /\ ~d.listed}}

\* createPolicyGate(policy).evaluate
GateVerdict(gate, q) ==
  LET asks == \/ q.mentionsTrigger
              \/ gate.mode = "HITL" /\ q.risk = "high"
  IN IF GateViolations(gate, q) # {} THEN "blocked"
     ELSE IF asks /\ ~q.approved THEN "requiresApproval"
     ELSE "allowed"
=============================================================================
