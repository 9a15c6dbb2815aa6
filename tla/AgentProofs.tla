------------------------------ MODULE AgentProofs ------------------------------
(***************************************************************************)
(* Proofs about the work of agents, in three parts that share little.       *)
(*                                                                         *)
(* Governed execution (ScenarioRun): for every contract, every command and *)
(* every order of steps, direct calls, failed writes and crashes, what ran *)
(* was allowed to run and the stream says so.  The invariant says what a   *)
(* call may still do by how far it has come (JobFits), what the stream     *)
(* tells one event at a time (TraceFits), and how the counts of the stream *)
(* lag behind what happened (CountsFit).                                   *)
(*                                                                         *)
(* Cases (CaseWork): a case has grown by exactly what its session counted  *)
(* (StoryFits), says of itself what is true (CasesFit), and is handed over *)
(* whole (SuccessorsCase).                                                 *)
(*                                                                         *)
(* The engine of policies (PolicyEngine): more risks, a stricter profile   *)
(* or a firmer gate never make a verdict milder, for every question that   *)
(* can be put (MoreIsStricter, HarderIsStricter, FirmerIsFirmer).          *)
(***************************************************************************)
EXTENDS ScenarioRun, CaseWork, PolicyEngine, Inductions, FiniteSetTheorems, SequenceTheorems, TLAPS

-----------------------------------------------------------------------------
(* The verdict the loop is given.                                          *)

\* Without policies of its own the risk policy judges by what it inferred.
LEMMA InferredAlone ==
  ASSUME NEW in, in.policies = <<>>,
         NEW all, all = [risks |-> InferredRisks(in) \cup ScenarioRisks(in), verdicts |-> {}]
  PROVE  Assess(in) = [all EXCEPT !.risks = Highest(@)]
<1>1. PICK n : n = Len(in.policies)
  OBVIOUS
<1>2. n = 0
  BY <1>1
<1>3. PICK u : u = CHOOSE q : q = [i \in 0 .. n |->
          IF i = 0 THEN all ELSE ApplyPolicy(in, q[i - 1], in.policies[i])]
  OBVIOUS
<1>4. PICK w : w = [i \in 0 .. n |-> all]
  OBVIOUS
<1>5. PICK q : q = [i \in 0 .. n |-> IF i = 0 THEN all ELSE ApplyPolicy(in, w[i - 1], in.policies[i])]
  OBVIOUS
<1>6. \A i \in 0 .. n : w[i] = q[i]
  BY <1>2, <1>4, <1>5
<1>7. w = q
  BY <1>4, <1>5, <1>6
<1>8. u = [i \in 0 .. n |-> IF i = 0 THEN all ELSE ApplyPolicy(in, u[i - 1], in.policies[i])]
  BY <1>3, <1>5, <1>7
<1>9. u[0] = all
  BY <1>2, <1>8
<1>10. Assess(in) = [u[n] EXCEPT !.risks = Highest(@)]
  BY <1>1, <1>3 DEF Assess
<1> QED BY <1>2, <1>9, <1>10

\* A step that would go over the budget of cost is never simply allowed.
LEMMA OverCostIsHeld ==
  ASSUME NEW in, in.policies = <<>>, in.approved = FALSE,
         in.words \subseteq DOMAIN WordRisk, in.measures \subseteq DOMAIN MeasureRisk,
         in.clauses \subseteq DOMAIN ClauseRisk \cup {"approvalFor"},
         "overCost" \in in.measures
  PROVE  ~Allows(RiskVerdict(in))
<1> DEFINE over == Risk("COST_ANOMALY", 80)
           all == [risks |-> InferredRisks(in) \cup ScenarioRisks(in), verdicts |-> {}]
<1>1. over \in InferredRisks(in)
  BY DEF InferredRisks, MeasureRisk
<1>2. ASSUME NEW r \in all.risks, r.id = over.id
      PROVE  r.score <= over.score
  <2>1. CASE \E w \in in.words : r = WordRisk[w]
    BY <2>1, <1>2 DEF WordRisk, Risk
  <2>2. CASE \E m \in in.measures : r = MeasureRisk[m]
    BY <2>2, <1>2 DEF MeasureRisk, Risk
  <2>3. CASE r \in ScenarioRisks(in)
    BY <2>3, <1>2 DEF ScenarioRisks, ClauseRisk, Risk
  <2>4. QED
    BY <2>1, <2>2, <2>3 DEF InferredRisks
<1>3. over \in Highest(all.risks)
  BY <1>1, <1>2 DEF Highest
<1>4. over \in Assess(in).risks /\ High70(over)
  <2>1. PICK a : a = all
    OBVIOUS
  <2>2. Assess(in) = [a EXCEPT !.risks = Highest(@)]
    BY <2>1, InferredAlone
  <2>3. over \in Highest(a.risks) /\ "risks" \in DOMAIN a
    BY <1>3, <2>1
  <2> HIDE DEF over, all
  <2>4. over \in Assess(in).risks
    BY <2>2, <2>3
  <2>5. QED
    BY <2>4 DEF High70, Risk, over
<1>5. QED
  BY <1>4 DEF RiskVerdict, Allows

-----------------------------------------------------------------------------
(* The invariant.                                                          *)

\* What a call holds: a step of the loop, or a command an adapter gave the guard.
LoopPhases == {"policy", "breaker", "answer", "guard", "redeemed", "spawn", "ran"}
Decisions == {"", "stop", "success", "block", "escalate", "run", "continue"}
LoopJobs == [phase : LoopPhases, by : {"loop"}, step : Step, cmd : DOMAIN Command,
             token : {NoToken}, decision : Decisions]
AdapterJobs == [phase : {"guard", "redeemed", "spawn", "ran"}, by : {"adapter"}, step : {<<>>},
                cmd : DOMAIN Command, token : Token \cup {NoToken}, decision : Decisions]
CausedJobs == {[phase |-> "caused", effect |-> e,
                verdict |-> EffectVerdict(e.class, e.environment, Registered, Expected)] : e \in Effect}

RunTypes ==
  /\ loop \in [stopped : BOOLEAN, cost : Nat, tokens : Nat, late : BOOLEAN]
  /\ job \in {Resting} \cup LoopJobs \cup AdapterJobs \cup CausedJobs
  /\ spent \subseteq Token
  /\ trace \in Seq(Range(trace))
  /\ paid \in Nat /\ life \in Nat /\ calls \in Nat /\ mishaps \in Nat

\* What the contract demands of a command, whoever approves it.
Contracted(c) == Command[c].listed /\ ~Command[c].blocked /\ ~Command[c].chained

\* No command that wanted an approval has used the token of the call.
Unused(t) == \A k \in Happened("ran") :
               Command[trace[k].job.cmd].trigger => trace[k].job.token # t

\* The stream says that the token was accepted for this very command.
Announced(c, t) == \E j \in Happened("approval.granted") :
                     trace[j].job.token = t /\ Covers[t] = trace[j].job.cmd /\ trace[j].job.cmd = c

\* What a call may do follows from how far it has come.
JobFits ==
  /\ job.phase \in LoopPhases /\ job.by = "loop" =>
       /\ job.phase # "answer" => ~loop.stopped
       /\ job.phase = "answer" => loop.stopped \/ job.decision = "continue"
       /\ job.phase \notin {"answer", "ran"} => paid + job.step.cost <= loop.cost
       /\ job.phase \in {"guard", "redeemed", "spawn"} => loop.cost <= MaxCost
  /\ job.phase \in {"redeemed", "spawn"} =>
       /\ Contracted(job.cmd)
       /\ job.phase = "redeemed" => Command[job.cmd].trigger
       /\ Command[job.cmd].trigger =>
            /\ job.token \in spent /\ Covers[job.token] = job.cmd /\ Unused(job.token)
            /\ job.phase = "spawn" => Announced(job.cmd, job.token)

BudgetFits == paid <= loop.cost /\ paid <= MaxCost

\* The stream so far, one event at a time, and what it says of the present loop.
RanWell(i) ==
  LET c == trace[i].job.cmd
      t == trace[i].job.token
  IN /\ Contracted(c)
     /\ Command[c].trigger =>
          /\ t \in spent
          /\ \E j \in Happened("approval.granted") :
               j < i /\ trace[j].job.token = t /\ Covers[t] = trace[j].job.cmd
               /\ trace[j].job.cmd = c
          /\ \A k \in Happened("ran") \ {i} :
               Command[trace[k].job.cmd].trigger => trace[k].job.token # t
     /\ trace[i].job.by = "loop" =>
          \A j \in Happened("scenario.step") :
            j < i /\ trace[j].life = trace[i].life => trace[j].job.decision = "continue"
TraceFits ==
  /\ \A i \in DOMAIN trace : trace[i].life \in Nat /\ trace[i].life <= life
  /\ \A i \in Happened("ran") : RanWell(i)
  /\ \A j \in Happened("scenario.step") :
       trace[j].life = life => trace[j].job.decision = "continue" \/ loop.stopped

\* The stream tells of the commands that ran, but for the one that is being run and
\* those a crash or a failed write kept from it.
CountsFit ==
  LET told == Cardinality(Happened("command.allowed"))
      ran == Cardinality(Happened("ran"))
      untold == IF job.phase = "ran" THEN 1 ELSE 0
  IN told + untold <= ran /\ ran <= told + untold + mishaps

EffectsFit ==
  /\ \A i \in Happened("effect") : LET e == trace[i].job.effect IN
       e.environment = "production" => e.class \notin ApprovalEffects \cup (Expected \ Registered)
  /\ \A i \in Happened("acted") :
       trace[i].job.verdict # "DENY" => trace[i].job.token = Fingerprint(trace[i].job.act)

RunInvariant == RunTypes /\ JobFits /\ BudgetFits /\ TraceFits /\ CountsFit /\ EffectsFit
\* The loop goes on only with what leaves the budget of cost alone.
LEMMA WithinBudget ==
  ASSUME RunTypes, NEW s \in Step, Allows(RiskVerdict(RuntimeInput(s)))
  PROVE  loop.cost + s.cost <= MaxCost
<1>1. PICK in : in = RuntimeInput(s)
  OBVIOUS
<1>2. /\ in.policies = <<>> /\ in.approved = FALSE
      /\ in.words = Command[s.cmd].words
      /\ in.measures \subseteq {"overCost", "overTokens", "loopsDone"}
      /\ in.clauses \subseteq DOMAIN ClauseRisk \cup {"approvalFor"}
      /\ loop.cost + s.cost > MaxCost => "overCost" \in in.measures
  BY <1>1 DEF RuntimeInput
<1>3. s.cmd \in DOMAIN Command /\ s.cost \in Nat /\ in.words \subseteq DOMAIN WordRisk
  BY <1>2, RunAssumption
<1>4. in.measures \subseteq DOMAIN MeasureRisk
  BY <1>2 DEF MeasureRisk
<1>5. "overCost" \notin in.measures
  BY <1>1, <1>2, <1>3, <1>4, OverCostIsHeld
<1>6. QED
  BY <1>2, <1>3, <1>5, RunAssumption DEF RunTypes

\* What the guard lets pass the contract lists, and an approval is asked for exactly
\* where the contract names a trigger.
LEMMA GuardListens ==
  ASSUME NEW c \in DOMAIN Command, NEW v, v = GateVerdict(Gate, Asked(c)), v # "blocked"
  PROVE  /\ Contracted(c)
         /\ v = "requiresApproval" <=> Command[c].trigger
         /\ v \in {"requiresApproval", "allowed"}
<1>1. GateViolations(Gate, Asked(c)) = {}
  BY DEF GateVerdict
<1>2. <<"command", Command[c]>> \notin GateViolations(Gate, Asked(c))
  BY <1>1
<1>3. Asked(c).commands = {Command[c]} /\ Gate.listsCommands
  BY DEF Asked, Gate
<1>4. Contracted(c)
  BY <1>2, <1>3, RunAssumption DEF GateViolations, Contracted
<1>5. QED
  BY <1>1, <1>4, RunAssumption DEF GateVerdict, Gate, Asked

-----------------------------------------------------------------------------
(* A stream that grows.                                                    *)

LEMMA Growth ==
  ASSUME NEW s, s \in Seq(Range(s)), NEW e
  PROVE  LET t == Append(s, e) IN
         /\ t \in Seq(Range(t))
         /\ Len(s) \in Nat /\ DOMAIN s = 1 .. Len(s)
         /\ DOMAIN t = DOMAIN s \cup {Len(s) + 1}
         /\ \A i \in DOMAIN s : t[i] = s[i] /\ i < Len(s) + 1
         /\ t[Len(s) + 1] = e /\ Len(s) + 1 \notin DOMAIN s
<1>1. PICK S : S = Range(s) \cup {e}
  OBVIOUS
<1>2. s \in Seq(S)
  BY <1>1
<1>3. PICK t : t = Append(s, e)
  OBVIOUS
<1>4. /\ t \in Seq(S) /\ Len(s) \in Nat /\ DOMAIN s = 1 .. Len(s)
      /\ DOMAIN t = 1 .. (Len(s) + 1)
      /\ \A i \in DOMAIN s : t[i] = s[i]
      /\ t[Len(s) + 1] = e
  BY <1>1, <1>2, <1>3
<1>5. t \in Seq(Range(t))
  BY <1>4 DEF Range
<1>6. QED
  BY <1>3, <1>4, <1>5

LEMMA HappenedGrows ==
  ASSUME trace \in Seq(Range(trace)), NEW e, trace' = Append(trace, e), NEW w
  PROVE  Happened(w)' = Happened(w) \cup (IF e.what = w THEN {Len(trace) + 1} ELSE {})
BY Growth DEF Happened

LEMMA HappenedIsFinite ==
  ASSUME trace \in Seq(Range(trace)), NEW w
  PROVE  IsFiniteSet(Happened(w)) /\ Cardinality(Happened(w)) \in Nat
<1>1. DOMAIN trace = 1 .. Len(trace) /\ Len(trace) \in Nat
  OBVIOUS
<1>2. IsFiniteSet(1 .. Len(trace))
  BY <1>1, FS_Interval
<1>3. Happened(w) \subseteq 1 .. Len(trace)
  BY <1>1 DEF Happened
<1>4. QED
  BY <1>2, <1>3, FS_Subset, FS_CardinalityType

\* One more event of its kind is one more.
LEMMA OneMore ==
  ASSUME trace \in Seq(Range(trace)), NEW e, trace' = Append(trace, e), NEW w
  PROVE  Cardinality(Happened(w)') = Cardinality(Happened(w)) + (IF e.what = w THEN 1 ELSE 0)
<1>1. Len(trace) + 1 \notin Happened(w)
  BY Growth DEF Happened
<1>2. IsFiniteSet(Happened(w)) /\ Cardinality(Happened(w)) \in Nat
  BY HappenedIsFinite
<1>3. CASE e.what = w
  BY <1>1, <1>2, <1>3, HappenedGrows, FS_AddElement
<1>4. CASE e.what # w
  <2>1. Happened(w)' = Happened(w) \cup {}
    BY <1>4, HappenedGrows
  <2>2. QED
    BY <1>2, <1>4, <2>1
<1>5. QED
  BY <1>3, <1>4

-----------------------------------------------------------------------------
(* What a step leaves alone.                                               *)

LEMMA SilentStream ==
  ASSUME TraceFits, trace' = trace, life' = life, spent \subseteq spent',
         loop.stopped => loop'.stopped
  PROVE  TraceFits'
BY DEF TraceFits, RanWell, Happened

\* An event that is no run, and a step's answer only of a loop that has stopped or goes on.
LEMMA NewEvent ==
  ASSUME RunTypes, TraceFits, life' = life, spent \subseteq spent',
         loop.stopped => loop'.stopped,
         NEW e, trace' = Append(trace, e), e.life = life, e.what # "ran",
         e.what = "scenario.step" => e.job.decision = "continue" \/ loop'.stopped
  PROVE  TraceFits'
<1>1. trace \in Seq(Range(trace)) /\ life \in Nat
  BY DEF RunTypes
<1>2. /\ DOMAIN trace' = DOMAIN trace \cup {Len(trace) + 1}
      /\ \A i \in DOMAIN trace : trace'[i] = trace[i] /\ i < Len(trace) + 1
      /\ trace'[Len(trace) + 1] = e
      /\ Len(trace) \in Nat /\ DOMAIN trace = 1 .. Len(trace)
  BY <1>1, Growth
<1>3. /\ Happened("ran")' = Happened("ran")
      /\ \A w : Happened(w) \subseteq DOMAIN trace
      /\ Happened("approval.granted") \subseteq Happened("approval.granted")'
      /\ Happened("scenario.step")' \subseteq Happened("scenario.step") \cup {Len(trace) + 1}
      /\ e.what # "scenario.step" => Happened("scenario.step")' = Happened("scenario.step")
  BY <1>1, HappenedGrows DEF Happened
<1>4. \A i \in DOMAIN trace' : trace'[i].life \in Nat /\ trace'[i].life <= life'
  BY <1>1, <1>2 DEF TraceFits
<1>5. \A j \in Happened("scenario.step")' :
        trace'[j].life = life' => trace'[j].job.decision = "continue" \/ loop'.stopped
  BY <1>2, <1>3 DEF TraceFits
<1>6. ASSUME NEW i \in Happened("ran") PROVE RanWell(i)'
  <2>1. RanWell(i) /\ i \in DOMAIN trace /\ trace'[i] = trace[i] /\ i < Len(trace) + 1
    BY <1>2, <1>3 DEF TraceFits
  <2>2. Contracted(trace'[i].job.cmd)
    BY <2>1 DEF RanWell
  <2>3. Command[trace'[i].job.cmd].trigger =>
          /\ trace'[i].job.token \in spent'
          /\ \E j \in Happened("approval.granted")' :
               j < i /\ trace'[j].job.token = trace'[i].job.token
               /\ Covers[trace'[i].job.token] = trace'[j].job.cmd
               /\ trace'[j].job.cmd = trace'[i].job.cmd
    BY <1>2, <1>3, <2>1 DEF RanWell
  <2>4. Command[trace'[i].job.cmd].trigger =>
          \A k \in Happened("ran")' \ {i} :
            Command[trace'[k].job.cmd].trigger => trace'[k].job.token # trace'[i].job.token
    BY <1>2, <1>3, <2>1 DEF RanWell
  <2>5. trace'[i].job.by = "loop" =>
          \A j \in Happened("scenario.step")' :
            j < i /\ trace'[j].life = trace'[i].life => trace'[j].job.decision = "continue"
    <3> SUFFICES ASSUME trace'[i].job.by = "loop", NEW j \in Happened("scenario.step")',
                        j < i, trace'[j].life = trace'[i].life
                 PROVE  trace'[j].job.decision = "continue"
      OBVIOUS
    <3>1. j \in Happened("scenario.step") /\ j \in DOMAIN trace
      BY <1>2, <1>3, <2>1
    <3>2. QED
      BY <1>2, <2>1, <3>1 DEF RanWell
  <2>6. QED
    BY <2>2, <2>3, <2>4, <2>5 DEF RanWell
<1>7. QED
  BY <1>3, <1>4, <1>5, <1>6 DEF TraceFits

LEMMA CountsStay ==
  ASSUME RunTypes, RunTypes', CountsFit,
         Cardinality(Happened("command.allowed")') = Cardinality(Happened("command.allowed")),
         Cardinality(Happened("ran")') = Cardinality(Happened("ran")),
         \/ (job.phase = "ran" <=> job'.phase = "ran") /\ mishaps' >= mishaps
         \/ job'.phase # "ran" /\ mishaps' = mishaps + 1
  PROVE  CountsFit'
<1>1. /\ Cardinality(Happened("ran")) \in Nat /\ Cardinality(Happened("command.allowed")) \in Nat
      /\ mishaps \in Nat /\ mishaps' \in Nat
  BY HappenedIsFinite DEF RunTypes
<1>2. QED
  BY <1>1 DEF CountsFit

LEMMA EffectsStay ==
  ASSUME RunTypes, EffectsFit,
         trace' = trace \/ \E e : trace' = Append(trace, e) /\ e.what \notin {"effect", "acted"}
  PROVE  EffectsFit'
<1>1. trace \in Seq(Range(trace))
  BY DEF RunTypes
<1>2. CASE trace' = trace
  BY <1>2 DEF EffectsFit, Happened
<1>3. ASSUME NEW e, trace' = Append(trace, e), e.what \notin {"effect", "acted"}
      PROVE  EffectsFit'
  <2>1. \A w \in {"effect", "acted"} : Happened(w)' = Happened(w) /\ Happened(w) \subseteq DOMAIN trace
    BY <1>1, <1>3, HappenedGrows DEF Happened
  <2>2. \A i \in DOMAIN trace : trace'[i] = trace[i]
    BY <1>1, <1>3, Growth
  <2>3. QED
    BY <2>1, <2>2 DEF EffectsFit
<1>4. QED
  BY <1>2, <1>3

StreamFits == TraceFits /\ CountsFit /\ EffectsFit

LEMMA StreamStays ==
  ASSUME RunInvariant, RunTypes', trace' = trace, life' = life, spent \subseteq spent',
         loop.stopped => loop'.stopped,
         \/ (job.phase = "ran" <=> job'.phase = "ran") /\ mishaps' >= mishaps
         \/ job'.phase # "ran" /\ mishaps' = mishaps + 1
  PROVE  StreamFits'
<1>1. TraceFits' /\ EffectsFit'
  BY SilentStream, EffectsStay DEF RunInvariant
<1>2. Happened("ran")' = Happened("ran") /\ Happened("command.allowed")' = Happened("command.allowed")
  BY DEF Happened
<1>3. CountsFit'
  BY <1>2, CountsStay DEF RunInvariant
<1>4. QED
  BY <1>1, <1>3 DEF StreamFits

LEMMA StreamGrows ==
  ASSUME RunInvariant, RunTypes', life' = life, spent \subseteq spent',
         loop.stopped => loop'.stopped,
         job.phase = "ran" <=> job'.phase = "ran", mishaps' = mishaps,
         NEW e, trace' = Append(trace, e), e.life = life,
         e.what \notin {"ran", "command.allowed", "effect", "acted"},
         e.what = "scenario.step" => e.job.decision = "continue" \/ loop'.stopped
  PROVE  StreamFits'
<1>1. TraceFits'
  BY NewEvent DEF RunInvariant
<1>2. EffectsFit'
  BY EffectsStay DEF RunInvariant
<1>3. trace \in Seq(Range(trace)) /\ mishaps \in Nat
  BY DEF RunInvariant, RunTypes
<1>4. \A w \in {"ran", "command.allowed"} :
        Cardinality(Happened(w)') = Cardinality(Happened(w)) + 0
  BY <1>3, OneMore
<1>5. \A w \in {"ran", "command.allowed"} : Cardinality(Happened(w)') = Cardinality(Happened(w))
  BY <1>3, <1>4, HappenedIsFinite
<1>6. CountsFit'
  BY <1>3, <1>5, CountsStay DEF RunInvariant
<1>7. QED
  BY <1>1, <1>2, <1>6 DEF StreamFits

\* What was announced stays announced, and an unused token unused but for a run.
LEMMA ApprovalsStay ==
  ASSUME RunTypes, NEW c, NEW t,
         trace' = trace \/ \E e : trace' = Append(trace, e) /\ e.what # "ran"
  PROVE  (Unused(t) => Unused(t)') /\ (Announced(c, t) => Announced(c, t)')
<1>1. trace \in Seq(Range(trace))
  BY DEF RunTypes
<1>2. CASE trace' = trace
  BY <1>2 DEF Unused, Announced, Happened
<1>3. ASSUME NEW e, trace' = Append(trace, e), e.what # "ran"
      PROVE  (Unused(t) => Unused(t)') /\ (Announced(c, t) => Announced(c, t)')
  <2>1. /\ Happened("ran")' = Happened("ran") /\ Happened("ran") \subseteq DOMAIN trace
        /\ Happened("approval.granted") \subseteq Happened("approval.granted")'
        /\ Happened("approval.granted") \subseteq DOMAIN trace
    BY <1>1, <1>3, HappenedGrows DEF Happened
  <2>2. \A i \in DOMAIN trace : trace'[i] = trace[i]
    BY <1>1, <1>3, Growth
  <2>3. QED
    BY <2>1, <2>2 DEF Unused, Announced
<1>4. QED
  BY <1>2, <1>3

\* The phase tells what is being done.
LEMMA PhaseTells ==
  ASSUME RunTypes
  PROVE  /\ job.phase \in {"policy", "breaker", "answer"} => job \in LoopJobs
         /\ job.phase \in {"guard", "redeemed", "spawn", "ran"} => job \in LoopJobs \cup AdapterJobs
         /\ job \in LoopJobs \cup AdapterJobs =>
              /\ job = [phase |-> job.phase, by |-> job.by, step |-> job.step, cmd |-> job.cmd,
                        token |-> job.token, decision |-> job.decision]
              /\ job.cmd \in DOMAIN Command /\ job.token \in Token \cup {NoToken}
              /\ job.decision \in Decisions
              /\ job \in LoopJobs <=> job.by = "loop"
              /\ job.by = "loop" => job.step \in Step /\ job.token = NoToken
         /\ Resting.phase = "rest"
BY DEF RunTypes, Resting, LoopJobs, AdapterJobs, CausedJobs, LoopPhases

LEMMA NotedStream ==
  ASSUME trace \in Seq(Range(trace)), NEW e, NEW t, t = trace \/ t = Append(trace, e)
  PROVE  t \in Seq(Range(t))
<1>1. PICK s : s = Append(trace, e)
  OBVIOUS
<1>2. s \in Seq(Range(s))
  BY <1>1, Growth
<1> QED BY <1>1, <1>2

-----------------------------------------------------------------------------
(* One step.                                                               *)

LEMMA TypesAtFirst == RunInit => RunTypes
<1> SUFFICES ASSUME RunInit PROVE RunTypes
  OBVIOUS
<1>1. trace \in Seq(Range(trace))
  BY DEF RunInit
<1>2. QED
  BY <1>1 DEF RunInit, RunTypes, FreshLoop

\* The events of a command that was held back.
Withheld == {"command.blocked", "approval.requested", "approval.denied"}

LEMMA TypesStay ==
  ASSUME RunTypes, [RunNext]_runVars PROVE RunTypes'
<1>1. trace \in Seq(Range(trace)) /\ life \in Nat /\ calls \in Nat /\ mishaps \in Nat /\ paid \in Nat
  BY DEF RunTypes
<1>2. ASSUME NEW s \in Step, StepLoop(s) PROVE RunTypes'
  <2>1. s.cost \in Nat /\ s.tokens \in Nat /\ s.cmd \in DOMAIN Command
    BY RunAssumption
  <2>2. loop' \in [stopped : BOOLEAN, cost : Nat, tokens : Nat, late : BOOLEAN]
    <3>1. PICK stops \in BOOLEAN : loop' = [loop EXCEPT !.cost = @ + s.cost, !.tokens = @ + s.tokens,
                                                       !.stopped = stops]
      BY <1>2 DEF StepLoop, RunTypes
    <3>2. loop.cost + s.cost \in Nat /\ loop.tokens + s.tokens \in Nat
      BY <2>1 DEF RunTypes
    <3>3. PICK c \in Nat, t \in Nat : c = loop.cost + s.cost /\ t = loop.tokens + s.tokens
      BY <3>2
    <3>4. loop' = [loop EXCEPT !.cost = c, !.tokens = t, !.stopped = stops]
      BY <3>1, <3>3
    <3>5. QED
      BY <3>4 DEF RunTypes
  <2>3. Refusal(loop, s) \in Decisions
    BY DEF Refusal, Decisions
  <2>4. job' \in LoopJobs
    BY <1>2, <2>1, <2>3 DEF StepLoop, LoopJobs, LoopPhases
  <2>5. calls' = calls + 1 /\ UNCHANGED <<spent, trace, paid, life, mishaps>>
    BY <1>2 DEF StepLoop, Called
  <2>6. QED
    BY <2>2, <2>4, <2>5, <1>1 DEF RunTypes
<1>3. CASE TimeRunsOut
  BY <1>3 DEF TimeRunsOut, RunTypes
<1>4. CASE Judge
  <2>1. job \in LoopJobs
    BY <1>4, PhaseTells DEF Judge
  <2>2. job' \in LoopJobs \cup {Resting}
    BY <1>4, <2>1 DEF Judge, Emitted, Thrown, LoopJobs, LoopPhases
  <2>3. QED
    BY <1>4, <1>1, <2>2 DEF Judge, Emitted, Thrown, RunTypes
<1>5. CASE Trip
  <2>1. job \in LoopJobs
    BY <1>5, PhaseTells DEF Trip
  <2>2. PICK in, b : LET outcome == Outcome(RiskVerdict(in), b.state, job.step) IN
          \/ /\ Decide(outcome)
             /\ Emitted("", [job EXCEPT !.phase = IF outcome = "run" THEN "guard" ELSE "answer",
                                        !.decision = outcome])
          \/ Thrown /\ UNCHANGED loop
    BY <1>5 DEF Trip
  <2>3. Outcome(RiskVerdict(in), b.state, job.step) \in Decisions
    BY DEF Outcome, Decisions
  <2>4. job' \in LoopJobs \cup {Resting}
    BY <2>1, <2>2, <2>3 DEF Emitted, Thrown, LoopJobs, LoopPhases
  <2>5. loop' \in [stopped : BOOLEAN, cost : Nat, tokens : Nat, late : BOOLEAN]
    BY <2>2 DEF Decide, RunTypes
  <2>6. trace' = trace /\ calls' = calls /\ mishaps' \in {mishaps, mishaps + 1}
    BY <2>2 DEF Emitted, Thrown
  <2>7. UNCHANGED <<spent, paid, life>>
    BY <1>5 DEF Trip
  <2>8. QED
    BY <1>1, <2>4, <2>5, <2>6, <2>7 DEF RunTypes
<1>6. CASE Answered
  <2>1. trace' \in Seq(Range(trace')) /\ mishaps' \in Nat /\ calls' \in Nat /\ job' = Resting
    BY <1>6, <1>1, NotedStream DEF Answered, Emitted, Thrown
  <2>2. QED
    BY <1>6, <1>1, <2>1 DEF Answered, RunTypes
<1>7. ASSUME NEW c \in DOMAIN Command, NEW t \in Token \cup {NoToken}, GuardDirectly(c, t)
      PROVE  RunTypes'
  <2>1. job' \in AdapterJobs
    BY <1>7 DEF GuardDirectly, AdapterJobs, Decisions
  <2>2. QED
    BY <1>7, <1>1, <2>1 DEF GuardDirectly, Called, RunTypes
<1>8. CASE Guard
  <2>1. job \in LoopJobs \cup AdapterJobs
    BY <1>8, PhaseTells DEF Guard
  <2>2. \/ \E event \in Withheld, decision \in Decisions : Withhold(event, decision) /\ UNCHANGED spent
        \/ /\ spent' = spent \cup {job.token} /\ job' = [job EXCEPT !.phase = "redeemed"]
           /\ job.token # NoToken /\ UNCHANGED <<loop, trace, calls, mishaps>>
        \/ job' = [job EXCEPT !.phase = "spawn"] /\ UNCHANGED <<loop, spent, trace, calls, mishaps>>
    BY <1>8 DEF Guard, Withheld, Decisions
  <2>3. life' = life /\ paid' = paid
    BY <1>8 DEF Guard
  <2>4. ASSUME NEW event \in Withheld, NEW decision \in Decisions, Withhold(event, decision),
               UNCHANGED spent
        PROVE  RunTypes'
    <3>1. job' \in LoopJobs \cup {Resting}
      BY <2>1, <2>4, PhaseTells DEF Withhold, Emitted, Thrown, HeldBack, LoopJobs, LoopPhases
    <3>2. loop' \in [stopped : BOOLEAN, cost : Nat, tokens : Nat, late : BOOLEAN]
      BY <2>4 DEF Withhold, RunTypes
    <3>3. trace' = trace \/ trace' = Append(trace, Note(event))
      BY <2>4 DEF Withhold, Emitted, Thrown
    <3>5. trace' \in Seq(Range(trace'))
      BY <1>1, <3>3, NotedStream
    <3>6. mishaps' \in {mishaps, mishaps + 1} /\ calls' = calls
      BY <2>4 DEF Withhold, Emitted, Thrown
    <3>4. QED
      BY <1>1, <2>3, <2>4, <3>1, <3>2, <3>5, <3>6 DEF RunTypes
  <2>5. ASSUME NEW p \in {"redeemed", "spawn"}, job' = [job EXCEPT !.phase = p]
        PROVE  job' \in LoopJobs \cup AdapterJobs
    BY <2>1, <2>5 DEF LoopJobs, AdapterJobs, LoopPhases
  <2>6. job.token \in Token \cup {NoToken}
    BY <2>1, PhaseTells
  <2>7. QED
    BY <1>1, <2>2, <2>3, <2>4, <2>5, <2>6 DEF RunTypes
<1>9. CASE Granted
  <2>1. job \in LoopJobs \cup AdapterJobs
    BY <1>9, PhaseTells DEF Granted
  <2>2. job' \in LoopJobs \cup AdapterJobs \cup {Resting}
    BY <1>9, <2>1 DEF Granted, Emitted, Thrown, LoopJobs, AdapterJobs, LoopPhases
  <2>5. trace' = trace \/ trace' = Append(trace, Note("approval.granted"))
    BY <1>9 DEF Granted, Emitted, Thrown
  <2>3. trace' \in Seq(Range(trace')) /\ mishaps' \in Nat /\ calls' \in Nat
    <3>1. trace' \in Seq(Range(trace'))
      BY <1>1, <2>5, NotedStream
    <3>2. mishaps' \in Nat /\ calls' \in Nat
      BY <1>9, <1>1 DEF Granted, Emitted, Thrown
    <3>3. QED
      BY <3>1, <3>2
  <2>4. QED
    BY <1>9, <1>1, <2>2, <2>3 DEF Granted, RunTypes
<1>10. CASE Spawn
  <2>1. job \in LoopJobs \cup AdapterJobs
    BY <1>10, PhaseTells DEF Spawn
  <2>2. job' \in LoopJobs \cup AdapterJobs
    BY <1>10, <2>1 DEF Spawn, LoopJobs, AdapterJobs, LoopPhases
  <2>3. trace' \in Seq(Range(trace'))
    BY <1>10, <1>1, NotedStream DEF Spawn
  <2>4. paid' \in Nat
    BY <1>10, <1>1, <2>1, PhaseTells, RunAssumption DEF Spawn
  <2>5. QED
    BY <1>10, <1>1, <2>2, <2>3, <2>4 DEF Spawn, RunTypes
<1>11. CASE WriteDown
  <2>1. job \in LoopJobs \cup AdapterJobs
    BY <1>11, PhaseTells DEF WriteDown
  <2>2. job' \in LoopJobs \cup {Resting}
    BY <1>11, <2>1, PhaseTells DEF WriteDown, Emitted, Thrown, LoopJobs, LoopPhases, Decisions
  <2>3. trace' \in Seq(Range(trace')) /\ mishaps' \in Nat /\ calls' \in Nat
    BY <1>11, <1>1, NotedStream DEF WriteDown, Emitted, Thrown
  <2>4. QED
    BY <1>11, <1>1, <2>2, <2>3 DEF WriteDown, RunTypes
<1>12. ASSUME NEW a, NEW b, Delegate(a) \/ ActOn(a, b) PROVE RunTypes'
  <2>1. trace' \in Seq(Range(trace'))
    BY <1>12, <1>1, NotedStream DEF Delegate, ActOn
  <2>2. calls' = calls + 1 /\ UNCHANGED <<loop, job, spent, paid, life, mishaps>>
    BY <1>12 DEF Delegate, ActOn, Called
  <2>3. QED
    BY <1>1, <2>1, <2>2 DEF RunTypes
<1>13. ASSUME NEW e \in Effect, Cause(e) PROVE RunTypes'
  <2>1. trace' \in Seq(Range(trace'))
    BY <1>13, <1>1, NotedStream DEF Cause
  <2>2. job' \in CausedJobs
    BY <1>13 DEF Cause, CausedJobs
  <2>3. QED
    BY <1>13, <1>1, <2>1, <2>2 DEF Cause, Called, RunTypes
<1>14. CASE Caused
  <2>1. trace' \in Seq(Range(trace')) /\ mishaps' \in Nat /\ calls' \in Nat /\ job' = Resting
    BY <1>14, <1>1, NotedStream DEF Caused, Emitted, Thrown
  <2>2. QED
    BY <1>14, <1>1, <2>1 DEF Caused, RunTypes
<1>15. CASE StartAnew
  BY <1>15, <1>1 DEF StartAnew, RunTypes, FreshLoop
<1>16. CASE UNCHANGED runVars
  BY <1>16 DEF runVars, RunTypes
<1>17. QED
  BY <1>2, <1>3, <1>4, <1>5, <1>6, <1>7, <1>8, <1>9, <1>10, <1>11, <1>12, <1>13, <1>14, <1>15,
     <1>16 DEF RunNext

\* Nothing is asked of a call that is over.
LEMMA RestFits ==
  ASSUME job' = Resting PROVE JobFits'
BY DEF JobFits, Resting, LoopPhases

LEMMA BudgetStays ==
  ASSUME BudgetFits, UNCHANGED paid, loop'.cost = loop.cost PROVE BudgetFits'
BY DEF BudgetFits

LEMMA JobsStay ==
  ASSUME RunInvariant, RunTypes', [RunNext]_runVars
  PROVE  JobFits' /\ BudgetFits'
<1>1. /\ RunTypes /\ JobFits /\ BudgetFits
      /\ loop.cost \in Nat /\ paid \in Nat /\ loop.stopped \in BOOLEAN /\ MaxCost \in Nat
  BY RunAssumption DEF RunInvariant, RunTypes
<1>2. ASSUME NEW s \in Step, StepLoop(s) PROVE JobFits' /\ BudgetFits'
  <2>1. s.cost \in Nat
    BY RunAssumption
  <2>2. loop'.cost = loop.cost + s.cost /\ paid' = paid
    BY <1>2, <1>1 DEF StepLoop, RunTypes
  <2>3. /\ job'.step = s /\ job'.phase \in {"policy", "answer"}
        /\ job'.phase = "policy" => ~loop'.stopped
        /\ job'.phase = "answer" => loop'.stopped
    BY <1>2, <1>1 DEF StepLoop, RunTypes, Refusal
  <2>4. JobFits'
    BY <1>1, <2>1, <2>2, <2>3 DEF JobFits, BudgetFits
  <2>5. QED
    BY <1>1, <2>1, <2>2, <2>4 DEF BudgetFits
<1>3. CASE TimeRunsOut
  <2>1. /\ loop'.stopped = loop.stopped /\ loop'.cost = loop.cost
        /\ UNCHANGED <<job, spent, trace, paid>>
    BY <1>3 DEF TimeRunsOut, RunTypes
  <2>2. QED
    BY <1>1, <2>1 DEF JobFits, BudgetFits, Unused, Announced, Happened
<1>4. CASE Judge
  <2>1. UNCHANGED <<loop, paid>> /\ job.phase = "policy" /\ job \in LoopJobs
    BY <1>4, <1>1, PhaseTells DEF Judge
  <2>2. CASE job' = [job EXCEPT !.phase = "breaker"]
    <3>1. job'.phase = "breaker" /\ job'.step = job.step /\ job.by = "loop"
      BY <2>1, <2>2 DEF LoopJobs
    <3>2. ~loop.stopped /\ paid + job.step.cost <= loop.cost
      BY <1>1, <2>1, <3>1 DEF JobFits, LoopPhases
    <3>3. JobFits'
      BY <2>1, <3>1, <3>2 DEF JobFits
    <3>4. QED
      BY <1>1, <2>1, <3>3 DEF BudgetFits
  <2>3. CASE job' = Resting
    BY <1>1, <2>1, <2>3, RestFits, BudgetStays
  <2>4. QED
    BY <1>4, <2>2, <2>3 DEF Judge, Emitted, Thrown
<1>5. CASE Trip
  <2>1. job \in LoopJobs /\ job.phase = "breaker" /\ job.by = "loop" /\ job.step \in Step /\ paid' = paid
    BY <1>5, <1>1, PhaseTells DEF Trip
  <2>2. ~loop.stopped /\ paid + job.step.cost <= loop.cost /\ job.step.cost \in Nat
    BY <1>1, <2>1, RunAssumption DEF JobFits, LoopPhases
  <2>3. PICK in, b : LET outcome == Outcome(RiskVerdict(in), b.state, job.step) IN
          /\ in = RuntimeInput(job.step)
          /\ \/ /\ Decide(outcome)
                /\ Emitted("", [job EXCEPT !.phase = IF outcome = "run" THEN "guard" ELSE "answer",
                                           !.decision = outcome])
             \/ Thrown /\ UNCHANGED loop
    BY <1>5 DEF Trip
  <2>4. PICK v, outcome : v = RiskVerdict(in) /\ outcome = Outcome(v, b.state, job.step)
    OBVIOUS
  <2>5. CASE Thrown /\ UNCHANGED loop
    BY <1>1, <2>1, <2>5, RestFits, BudgetStays DEF Thrown
  <2>6. CASE /\ Decide(outcome)
             /\ job' = [job EXCEPT !.phase = IF outcome = "run" THEN "guard" ELSE "answer",
                                   !.decision = outcome]
    <3>1. /\ loop'.cost = loop.cost
          /\ loop'.stopped <=> outcome \notin {"run", "continue"}
      BY <1>1, <2>2, <2>6 DEF Decide, RunTypes
    <3>2. /\ job'.step = job.step /\ job'.decision = outcome
          /\ job'.phase = IF outcome = "run" THEN "guard" ELSE "answer"
      BY <2>1, <2>6 DEF LoopJobs
    <3>3. outcome \in {"run", "continue"} => Allows(v)
      BY <2>4 DEF Outcome
    <3>4. outcome = "run" => loop.cost + job.step.cost <= MaxCost
      BY <1>1, <2>1, <2>3, <2>4, <3>3, WithinBudget
    <3>5. JobFits'
      BY <1>1, <2>1, <2>2, <3>1, <3>2, <3>4 DEF JobFits
    <3>6. QED
      BY <1>1, <2>1, <3>1, <3>5, BudgetStays
  <2>7. QED
    BY <2>3, <2>4, <2>5, <2>6 DEF Emitted
<1>6. CASE Answered \/ Caused
  BY <1>1, <1>6, RestFits, BudgetStays DEF Answered, Caused, Emitted, Thrown
<1>7. ASSUME NEW c \in DOMAIN Command, NEW t \in Token \cup {NoToken}, GuardDirectly(c, t)
      PROVE  JobFits' /\ BudgetFits'
  <2>1. job'.by = "adapter" /\ job'.phase = "guard" /\ UNCHANGED <<loop, paid>>
    BY <1>7 DEF GuardDirectly
  <2>2. QED
    BY <1>1, <2>1, BudgetStays DEF JobFits
<1>8. CASE Guard
  <2>1. /\ job \in LoopJobs \cup AdapterJobs /\ job.phase = "guard" /\ job.cmd \in DOMAIN Command
        /\ UNCHANGED paid
    BY <1>8, <1>1, PhaseTells DEF Guard
  <2>2. PICK v : v = GateVerdict(Gate, Asked(job.cmd))
    OBVIOUS
  <2>3. v # "blocked" => /\ Contracted(job.cmd)
                         /\ v = "requiresApproval" <=> Command[job.cmd].trigger
                         /\ v \in {"requiresApproval", "allowed"}
    BY <2>1, <2>2, GuardListens
  <2>4. job.by = "loop" => /\ ~loop.stopped /\ paid + job.step.cost <= loop.cost
                           /\ loop.cost <= MaxCost
    BY <1>1, <2>1 DEF JobFits, LoopPhases
  <2>5. ASSUME NEW event, NEW decision, Withhold(event, decision)
        PROVE  JobFits' /\ BudgetFits'
    <3>1. job' = Resting \/ (job.by = "loop" /\ loop'.stopped
                             /\ job' = [job EXCEPT !.phase = "answer", !.decision = decision])
      BY <1>1, <2>5 DEF Withhold, Emitted, Thrown, HeldBack, RunTypes
    <3>2. loop'.cost = loop.cost
      BY <2>5, <1>1 DEF Withhold, RunTypes
    <3>3. BudgetFits'
      BY <1>1, <2>1, <3>2, BudgetStays
    <3>4. CASE job' = Resting
      BY <3>3, <3>4, RestFits
    <3>5. CASE loop'.stopped /\ job' = [job EXCEPT !.phase = "answer", !.decision = decision]
      <4>1. job'.phase = "answer"
        BY <2>1, <3>5 DEF LoopJobs, AdapterJobs
      <4>2. JobFits'
        BY <3>5, <4>1 DEF JobFits
      <4>3. QED
        BY <3>3, <4>2
    <3>6. QED
      BY <3>1, <3>4, <3>5
  <2>6. CASE /\ v = "requiresApproval"
             /\ job.token # NoToken /\ job.token \notin spent /\ Covers[job.token] = job.cmd
             /\ spent' = spent \cup {job.token} /\ job' = [job EXCEPT !.phase = "redeemed"]
             /\ UNCHANGED <<loop, trace>>
    <3>1. /\ job'.phase = "redeemed" /\ job'.cmd = job.cmd /\ job'.token = job.token
          /\ job'.by = job.by /\ job'.step = job.step
      BY <2>1, <2>6 DEF LoopJobs, AdapterJobs
    <3>2. Unused(job.token)
      BY <1>1, <2>6 DEF RunInvariant, TraceFits, RanWell, Unused
    <3>3. Unused(job.token)'
      BY <2>6, <3>1, <3>2 DEF Unused, Happened
    <3>4. JobFits'
      BY <2>3, <2>4, <2>6, <2>1, <3>1, <3>3 DEF JobFits, Contracted
    <3>5. QED
      BY <1>1, <2>1, <2>6, <3>4, BudgetStays
  <2>7. CASE /\ v = "allowed" /\ job' = [job EXCEPT !.phase = "spawn"]
             /\ UNCHANGED <<loop, spent, trace>>
    <3>1. /\ job'.phase = "spawn" /\ job'.cmd = job.cmd /\ job'.token = job.token
          /\ job'.by = job.by /\ job'.step = job.step
      BY <2>1, <2>7 DEF LoopJobs, AdapterJobs
    <3>2. JobFits'
      BY <2>3, <2>4, <2>7, <2>1, <3>1 DEF JobFits, Contracted
    <3>3. QED
      BY <1>1, <2>1, <2>7, <3>2, BudgetStays
  <2>8. QED
    BY <1>8, <2>2, <2>5, <2>6, <2>7 DEF Guard
<1>9. CASE Granted
  <2>1. /\ job \in LoopJobs \cup AdapterJobs /\ job.phase = "redeemed"
        /\ UNCHANGED <<loop, paid, spent>>
    BY <1>9, <1>1, PhaseTells DEF Granted
  <2>2. BudgetFits'
    BY <1>1, <2>1, BudgetStays
  <2>3. CASE job' = Resting
    BY <2>2, <2>3, RestFits
  <2>4. CASE /\ trace' = Append(trace, Note("approval.granted"))
             /\ job' = [job EXCEPT !.phase = "spawn"]
    <3>1. /\ job'.phase = "spawn" /\ job'.cmd = job.cmd /\ job'.token = job.token
          /\ job'.by = job.by /\ job'.step = job.step
      BY <2>1, <2>4 DEF LoopJobs, AdapterJobs
    <3>2. /\ Contracted(job.cmd) /\ Command[job.cmd].trigger
          /\ job.token \in spent /\ Covers[job.token] = job.cmd /\ Unused(job.token)
          /\ job.by = "loop" => /\ ~loop.stopped /\ paid + job.step.cost <= loop.cost
                                /\ loop.cost <= MaxCost
      BY <1>1, <2>1 DEF JobFits, LoopPhases
    <3>3. PICK e : /\ e = Note("approval.granted") /\ e.what = "approval.granted"
                   /\ e.job.token = job.token /\ e.job.cmd = job.cmd
      <4>1. PICK j : j = [job EXCEPT !.phase = ""]
        OBVIOUS
      <4>2. j.token = job.token /\ j.cmd = job.cmd
        BY <2>1, <4>1 DEF LoopJobs, AdapterJobs
      <4>3. PICK e : e = Note("approval.granted")
        OBVIOUS
      <4>4. e.what = "approval.granted" /\ e.job = j
        BY <4>1, <4>3 DEF Note
      <4>5. QED
        BY <4>2, <4>3, <4>4
    <3>4. Unused(job.token)'
      <4>1. PICK t : t = job.token
        OBVIOUS
      <4>2. Unused(t)'
        BY <1>1, <2>4, <3>2, <3>3, <4>1, ApprovalsStay
      <4>3. QED
        BY <3>1, <4>1, <4>2 DEF Unused
    <3>5. Announced(job.cmd, job.token)'
      <4>1. trace \in Seq(Range(trace))
        BY <1>1 DEF RunTypes
      <4>2. Len(trace) + 1 \in Happened("approval.granted")' /\ trace'[Len(trace) + 1] = e
        BY <2>4, <3>3, <4>1, HappenedGrows, Growth
      <4>3. QED
        BY <3>1, <3>2, <3>3, <4>2 DEF Announced
    <3>6. JobFits'
      BY <2>1, <3>1, <3>2, <3>4, <3>5 DEF JobFits, Contracted
    <3>7. QED
      BY <2>2, <3>6
  <2>5. QED
    BY <1>9, <2>3, <2>4 DEF Granted, Emitted, Thrown
<1>10. CASE Spawn
  <2>1. /\ job \in LoopJobs \cup AdapterJobs /\ job.phase = "spawn" /\ UNCHANGED <<loop, spent>>
        /\ job' = [job EXCEPT !.phase = "ran"]
        /\ paid' = IF job.by = "loop" THEN paid + job.step.cost ELSE paid
    BY <1>10, <1>1, PhaseTells DEF Spawn
  <2>2. job'.phase = "ran" /\ job'.by = job.by
    BY <2>1 DEF LoopJobs, AdapterJobs
  <2>3. job.by = "loop" => /\ ~loop.stopped /\ paid + job.step.cost <= loop.cost
                           /\ loop.cost <= MaxCost /\ job.step.cost \in Nat
    BY <1>1, <2>1, PhaseTells, RunAssumption DEF JobFits, LoopPhases
  <2>4. JobFits'
    BY <2>1, <2>2, <2>3 DEF JobFits
  <2>5. BudgetFits'
    BY <1>1, <2>1, <2>3 DEF BudgetFits
  <2>6. QED
    BY <2>4, <2>5
<1>11. CASE WriteDown
  <2>1. job \in LoopJobs \cup AdapterJobs /\ UNCHANGED <<loop, paid>>
    BY <1>11, <1>1, PhaseTells DEF WriteDown
  <2>2. \/ job' = Resting
        \/ job' = [job EXCEPT !.phase = "answer", !.decision = "continue"]
    BY <1>11 DEF WriteDown, Emitted, Thrown
  <2>3. CASE job' = [job EXCEPT !.phase = "answer", !.decision = "continue"]
    <3>1. job'.phase = "answer" /\ job'.decision = "continue"
      BY <2>1, <2>3 DEF LoopJobs, AdapterJobs
    <3>2. QED
      BY <1>1, <2>1, <3>1, BudgetStays DEF JobFits
  <2>4. QED
    BY <1>1, <2>1, <2>2, <2>3, RestFits, BudgetStays
<1>12. ASSUME NEW a, NEW b, Delegate(a) \/ ActOn(a, b) PROVE JobFits' /\ BudgetFits'
  <2>1. job' = Resting /\ UNCHANGED <<loop, paid>>
    BY <1>12 DEF Delegate, ActOn, Called
  <2>2. QED
    BY <1>1, <2>1, RestFits, BudgetStays
<1>13. ASSUME NEW e, Cause(e) PROVE JobFits' /\ BudgetFits'
  <2>1. job'.phase = "caused" /\ UNCHANGED <<loop, paid>>
    BY <1>13 DEF Cause
  <2>2. QED
    BY <1>1, <2>1, BudgetStays DEF JobFits, LoopPhases
<1>14. CASE StartAnew
  BY <1>1, <1>14, RestFits DEF StartAnew, FreshLoop, BudgetFits
<1>15. CASE UNCHANGED runVars
  BY <1>1, <1>15 DEF runVars, JobFits, BudgetFits, Unused, Announced, Happened
<1>16. QED
  BY <1>2, <1>3, <1>4, <1>5, <1>6, <1>7, <1>8, <1>9, <1>10, <1>11, <1>12, <1>13, <1>14, <1>15
     DEF RunNext, RunInvariant

\* The counts of an event that is neither.
LEMMA SameCounts ==
  ASSUME RunTypes, NEW e, trace' = Append(trace, e), NEW w, e.what # w
  PROVE  Cardinality(Happened(w)') = Cardinality(Happened(w))
<1>1. trace \in Seq(Range(trace))
  BY DEF RunTypes
<1>2. Happened(w)' = Happened(w) \cup {}
  BY <1>1, HappenedGrows
<1>3. QED
  BY <1>2

LEMMA StreamStepFits ==
  ASSUME RunInvariant, RunTypes', [RunNext]_runVars
  PROVE  StreamFits'
<1>1. /\ RunTypes /\ JobFits /\ TraceFits /\ CountsFit /\ EffectsFit
      /\ trace \in Seq(Range(trace)) /\ mishaps \in Nat /\ life \in Nat /\ loop.stopped \in BOOLEAN
      /\ Resting.phase = "rest"
  BY PhaseTells DEF RunInvariant, RunTypes
<1>2. ASSUME NEW s \in Step, StepLoop(s) PROVE StreamFits'
  <2>1. /\ UNCHANGED <<spent, trace, life, mishaps>> /\ job.phase # "ran" /\ job'.phase # "ran"
        /\ loop.stopped => loop'.stopped
    BY <1>1, <1>2 DEF StepLoop, Called, RunTypes
  <2>2. QED
    BY <1>1, <2>1, StreamStays
<1>3. CASE TimeRunsOut
  <2>1. UNCHANGED <<spent, trace, life, mishaps, job>> /\ loop'.stopped = loop.stopped
    BY <1>1, <1>3 DEF TimeRunsOut, RunTypes
  <2>2. QED
    BY <1>1, <2>1, StreamStays
<1>4. CASE Judge
  <2>1. UNCHANGED <<spent, trace, life, loop>> /\ job.phase = "policy" /\ job \in LoopJobs
    BY <1>1, <1>4, PhaseTells DEF Judge, Emitted, Thrown
  <2>2. job'.phase # "ran" /\ mishaps' \in {mishaps, mishaps + 1}
    BY <1>1, <1>4, <2>1 DEF Judge, Emitted, Thrown, LoopJobs
  <2>3. QED
    BY <1>1, <2>1, <2>2, StreamStays
<1>5. CASE Trip
  <2>1. UNCHANGED <<spent, trace, life>> /\ job.phase = "breaker" /\ job \in LoopJobs
    BY <1>1, <1>5, PhaseTells DEF Trip, Emitted, Thrown
  <2>2. loop.stopped => loop'.stopped
    BY <1>1, <1>5 DEF Trip, Decide, RunTypes
  <2>3. job'.phase # "ran" /\ mishaps' \in {mishaps, mishaps + 1}
    BY <1>1, <1>5, <2>1 DEF Trip, Emitted, Thrown, LoopJobs
  <2>4. QED
    BY <1>1, <2>1, <2>2, <2>3, StreamStays
<1>6. ASSUME NEW what, what \notin {"", "ran", "command.allowed", "effect", "acted"}, NEW next,
             Emitted(what, next) \/ Thrown, job.phase # "ran", job'.phase # "ran", life' = life, spent \subseteq spent',
             loop.stopped => loop'.stopped,
             what = "scenario.step" =>
               job \in LoopJobs /\ (job.decision = "continue" \/ loop'.stopped)
      PROVE  StreamFits'
  <2>1. CASE Emitted(what, next)
    <3>1. PICK e : e = Note(what)
      OBVIOUS
    <3>2. e.what = what /\ e.life = life /\ trace' = Append(trace, e) /\ mishaps' = mishaps
      BY <1>6, <2>1, <3>1 DEF Emitted, Note
    <3>3. job \in LoopJobs => e.job.decision = job.decision
      <4>1. PICK j : j = [job EXCEPT !.phase = ""]
        OBVIOUS
      <4>2. job \in LoopJobs => j.decision = job.decision
        BY <4>1 DEF LoopJobs
      <4>3. e.job = j
        BY <3>1, <4>1 DEF Note
      <4>4. QED
        BY <4>2, <4>3
    <3>4. QED
      BY <1>6, <3>2, <3>3, StreamGrows
  <2>2. CASE Thrown
    BY <1>1, <1>6, <2>2, StreamStays DEF Thrown
  <2>3. QED
    BY <1>6, <2>1, <2>2
<1>7. CASE Answered
  <2>1. job \in LoopJobs /\ job.phase = "answer" /\ UNCHANGED <<loop, spent, life>>
    BY <1>1, <1>7, PhaseTells DEF Answered
  <2>2. loop.stopped \/ job.decision = "continue"
    BY <1>1, <2>1, PhaseTells DEF JobFits, LoopPhases
  <2>3. job' = Resting /\ (Emitted("scenario.step", Resting) \/ Thrown)
    BY <1>7 DEF Answered, Emitted, Thrown
  <2>4. QED
    BY <1>1, <1>6, <2>1, <2>2, <2>3
<1>8. ASSUME NEW c \in DOMAIN Command, NEW t \in Token \cup {NoToken}, GuardDirectly(c, t)
      PROVE  StreamFits'
  <2>1. UNCHANGED <<loop, spent, trace, life, mishaps>> /\ job.phase # "ran" /\ job'.phase # "ran"
    BY <1>1, <1>8 DEF GuardDirectly, Called
  <2>2. QED
    BY <1>1, <2>1, StreamStays
<1>9. CASE Guard
  <2>1. job \in LoopJobs \cup AdapterJobs /\ job.phase = "guard" /\ life' = life
    BY <1>1, <1>9, PhaseTells DEF Guard
  <2>2. ASSUME NEW event \in Withheld, NEW decision, Withhold(event, decision), UNCHANGED spent
        PROVE  StreamFits'
    <3>1. loop.stopped => loop'.stopped
      BY <1>1, <2>2 DEF Withhold, RunTypes
    <3>2. job'.phase # "ran"
      BY <1>1, <2>1, <2>2 DEF Withhold, HeldBack, Emitted, Thrown, LoopJobs, AdapterJobs
    <3>3. Emitted(event, HeldBack(decision)) \/ Thrown
      BY <2>2 DEF Withhold
    <3>4. event \notin {"", "ran", "command.allowed", "effect", "acted", "scenario.step"}
      BY <2>2 DEF Withheld
    <3>5. QED
      BY <1>6, <2>1, <2>2, <3>1, <3>2, <3>3, <3>4
  <2>3. ASSUME NEW p \in {"redeemed", "spawn"}, job' = [job EXCEPT !.phase = p],
               spent \subseteq spent', UNCHANGED <<loop, trace, mishaps>>
        PROVE  StreamFits'
    <3>1. job.phase # "ran" /\ job'.phase # "ran"
      BY <2>1, <2>3 DEF LoopJobs, AdapterJobs
    <3>2. QED
      BY <1>1, <2>1, <2>3, <3>1, StreamStays
  <2>4. QED
    BY <1>9, <2>2, <2>3 DEF Guard, Withheld
<1>10. CASE Granted
  <2>1. /\ job \in LoopJobs \cup AdapterJobs /\ job.phase = "redeemed"
        /\ UNCHANGED <<loop, spent, life>>
    BY <1>1, <1>10, PhaseTells DEF Granted
  <2>2. job'.phase # "ran"
    BY <1>1, <1>10, <2>1 DEF Granted, Emitted, Thrown, LoopJobs, AdapterJobs
  <2>3. PICK next : Emitted("approval.granted", next) \/ Thrown
    BY <1>10 DEF Granted
  <2>4. QED
    BY <1>6, <2>1, <2>2, <2>3
<1>11. CASE Caused
  <2>1. UNCHANGED <<loop, spent, life>> /\ job.phase = "caused" /\ job'.phase = "rest"
    BY <1>1, <1>11 DEF Caused, Emitted, Thrown
  <2>2. Emitted("effect.evaluated", Resting) \/ Thrown
    BY <1>11 DEF Caused
  <2>3. QED
    BY <1>6, <2>1, <2>2
<1>12. ASSUME NEW a, Delegate(a) PROVE StreamFits'
  <2>1. PICK e : /\ e.what = "delegated" /\ e.life = life
                 /\ trace' = Append(trace, e)
    BY <1>12 DEF Delegate
  <2>2. UNCHANGED <<loop, job, spent, life, mishaps>>
    BY <1>12 DEF Delegate
  <2>3. QED
    BY <1>1, <2>1, <2>2, StreamGrows
<1>13. CASE StartAnew
  <2>1. /\ job'.phase = "rest" /\ mishaps' = mishaps + 1 /\ life' = life + 1
        /\ UNCHANGED <<spent, trace>>
    BY <1>1, <1>13 DEF StartAnew
  <2>2. TraceFits'
    <3>1. \A i \in DOMAIN trace : trace[i].life \in Nat /\ trace[i].life <= life'
                                 /\ trace[i].life # life'
      BY <1>1, <2>1 DEF TraceFits
    <3>2. \A i \in Happened("ran") : RanWell(i)'
      BY <1>1, <2>1 DEF TraceFits, RanWell, Happened
    <3>3. QED
      BY <2>1, <3>1, <3>2 DEF TraceFits, Happened
  <2>3. EffectsFit'
    BY <1>1, <2>1, EffectsStay
  <2>4. Happened("ran")' = Happened("ran") /\ Happened("command.allowed")' = Happened("command.allowed")
    BY <2>1 DEF Happened
  <2>5. CountsFit'
    BY <1>1, <2>1, <2>4, CountsStay
  <2>6. QED
    BY <2>2, <2>3, <2>5 DEF StreamFits
<1>14. CASE UNCHANGED runVars
  <2>1. UNCHANGED <<loop, job, spent, trace, life, mishaps>>
    BY <1>14 DEF runVars
  <2>2. QED
    BY <1>1, <2>1, StreamStays
<1>15. CASE WriteDown
  <2>1. /\ job \in LoopJobs \cup AdapterJobs /\ job.phase = "ran" /\ UNCHANGED <<loop, spent, life>>
    BY <1>1, <1>15, PhaseTells DEF WriteDown
  <2>2. job'.phase # "ran"
    BY <1>1, <1>15, <2>1 DEF WriteDown, Emitted, Thrown, LoopJobs, AdapterJobs
  <2>3. CASE Thrown
    BY <1>1, <2>1, <2>2, <2>3, StreamStays DEF Thrown
  <2>4. CASE trace' = Append(trace, Note("command.allowed")) /\ mishaps' = mishaps
    <3>1. PICK e : e = Note("command.allowed")
      OBVIOUS
    <3>2. e.what = "command.allowed" /\ e.life = life /\ trace' = Append(trace, e)
      BY <2>4, <3>1 DEF Note
    <3>3. TraceFits'
      BY <1>1, <2>1, <3>2, NewEvent
    <3>4. EffectsFit'
      BY <1>1, <3>2, EffectsStay
    <3>5. Cardinality(Happened("ran")') = Cardinality(Happened("ran"))
      BY <1>1, <3>2, SameCounts
    <3>6. Cardinality(Happened("command.allowed")') = Cardinality(Happened("command.allowed")) + 1
      BY <1>1, <3>2, OneMore
    <3>7. /\ Cardinality(Happened("ran")) \in Nat
          /\ Cardinality(Happened("command.allowed")) \in Nat
      BY <1>1, HappenedIsFinite
    <3>8. CountsFit'
      BY <1>1, <2>1, <2>2, <2>4, <3>5, <3>6, <3>7 DEF CountsFit
    <3>9. QED
      BY <3>3, <3>4, <3>8 DEF StreamFits
  <2>5. QED
    BY <1>15, <2>3, <2>4 DEF WriteDown, Emitted
<1>16. CASE Spawn
  <2>1. /\ job \in LoopJobs \cup AdapterJobs /\ job.phase = "spawn"
        /\ UNCHANGED <<loop, spent, life, mishaps>> /\ job' = [job EXCEPT !.phase = "ran"]
        /\ trace' = Append(trace, Note("ran"))
    BY <1>1, <1>16, PhaseTells DEF Spawn
  <2>2. job'.phase = "ran"
    BY <2>1 DEF LoopJobs, AdapterJobs
  <2>3. PICK e : e = Note("ran")
    OBVIOUS
  <2>4. /\ e.what = "ran" /\ e.life = life /\ trace' = Append(trace, e)
        /\ e.job.cmd = job.cmd /\ e.job.token = job.token /\ e.job.by = job.by
    <3>1. PICK j : j = [job EXCEPT !.phase = ""]
      OBVIOUS
    <3>2. j.cmd = job.cmd /\ j.token = job.token /\ j.by = job.by
      BY <2>1, <3>1 DEF LoopJobs, AdapterJobs
    <3>3. e.what = "ran" /\ e.life = life /\ e.job = j
      BY <2>3, <3>1 DEF Note
    <3>4. QED
      BY <2>1, <2>3, <3>2, <3>3
  <2>5. PICK n : n = Len(trace) + 1
    OBVIOUS
  <2>6. /\ DOMAIN trace' = DOMAIN trace \cup {n} /\ n \notin DOMAIN trace
        /\ \A i \in DOMAIN trace : trace'[i] = trace[i] /\ i < n
        /\ trace'[n] = e
        /\ n \in Nat /\ DOMAIN trace = 1 .. Len(trace)
    BY <1>1, <2>4, <2>5, Growth
  <2>7. /\ Happened("ran")' = Happened("ran") \cup {n} /\ Happened("ran") \subseteq DOMAIN trace
        /\ \A w \in {"approval.granted", "scenario.step"} :
             Happened(w)' = Happened(w) /\ Happened(w) \subseteq DOMAIN trace
    BY <1>1, <2>4, <2>5, HappenedGrows DEF Happened
  <2>8. /\ Contracted(job.cmd)
        /\ Command[job.cmd].trigger =>
             /\ job.token \in spent /\ Covers[job.token] = job.cmd
             /\ Unused(job.token) /\ Announced(job.cmd, job.token)
        /\ job.by = "loop" => ~loop.stopped
    BY <1>1, <2>1 DEF JobFits, LoopPhases
  <2>9. RanWell(n)'
    <3>1. Contracted(trace'[n].job.cmd)
      BY <2>4, <2>6, <2>8
    <3>2. ASSUME Command[trace'[n].job.cmd].trigger
          PROVE  /\ trace'[n].job.token \in spent'
                 /\ \E j \in Happened("approval.granted")' :
                      j < n /\ trace'[j].job.token = trace'[n].job.token
                      /\ Covers[trace'[n].job.token] = trace'[j].job.cmd
                      /\ trace'[j].job.cmd = trace'[n].job.cmd
                 /\ \A k \in Happened("ran")' \ {n} :
                      Command[trace'[k].job.cmd].trigger =>
                        trace'[k].job.token # trace'[n].job.token
      BY <2>1, <2>4, <2>6, <2>7, <2>8, <3>2 DEF Unused, Announced
    <3>3. ASSUME trace'[n].job.by = "loop", NEW j \in Happened("scenario.step")', j < n,
                 trace'[j].life = trace'[n].life
          PROVE  trace'[j].job.decision = "continue"
      BY <1>1, <2>4, <2>6, <2>7, <2>8, <3>3 DEF TraceFits
    <3>4. QED
      BY <3>1, <3>2, <3>3 DEF RanWell
  <2>10. ASSUME NEW i \in Happened("ran") PROVE RanWell(i)'
    <3>1. RanWell(i) /\ i \in DOMAIN trace /\ trace'[i] = trace[i] /\ i < n /\ i # n
      BY <1>1, <2>6, <2>7 DEF TraceFits
    <3>2. Contracted(trace'[i].job.cmd)
      BY <3>1 DEF RanWell
    <3>3. ASSUME Command[trace'[i].job.cmd].trigger
          PROVE  /\ trace'[i].job.token \in spent'
                 /\ \E j \in Happened("approval.granted")' :
                      j < i /\ trace'[j].job.token = trace'[i].job.token
                      /\ Covers[trace'[i].job.token] = trace'[j].job.cmd
                      /\ trace'[j].job.cmd = trace'[i].job.cmd
      BY <2>1, <2>6, <2>7, <3>1, <3>3 DEF RanWell
    <3>4. ASSUME Command[trace'[i].job.cmd].trigger, NEW k \in Happened("ran")' \ {i},
                 Command[trace'[k].job.cmd].trigger
          PROVE  trace'[k].job.token # trace'[i].job.token
      <4>1. CASE k = n
        BY <2>4, <2>6, <2>8, <3>1, <3>4, <4>1 DEF Unused
      <4>2. CASE k \in Happened("ran")
        BY <2>6, <2>7, <3>1, <3>4, <4>2 DEF RanWell
      <4>3. QED
        BY <2>7, <4>1, <4>2
    <3>5. ASSUME trace'[i].job.by = "loop", NEW j \in Happened("scenario.step")', j < i,
                 trace'[j].life = trace'[i].life
          PROVE  trace'[j].job.decision = "continue"
      BY <2>6, <2>7, <3>1, <3>5 DEF RanWell
    <3>6. QED
      BY <3>2, <3>3, <3>4, <3>5 DEF RanWell
  <2>11. \A i \in DOMAIN trace' : trace'[i].life \in Nat /\ trace'[i].life <= life'
    BY <1>1, <2>1, <2>4, <2>6 DEF TraceFits
  <2>12. \A j \in Happened("scenario.step")' :
           trace'[j].life = life' => trace'[j].job.decision = "continue" \/ loop'.stopped
    BY <1>1, <2>1, <2>6, <2>7 DEF TraceFits
  <2>13. TraceFits'
    BY <2>7, <2>9, <2>10, <2>11, <2>12 DEF TraceFits
  <2>14. EffectsFit'
    BY <1>1, <2>4, EffectsStay
  <2>15. /\ Cardinality(Happened("ran")') = Cardinality(Happened("ran")) + 1
         /\ Cardinality(Happened("command.allowed")') = Cardinality(Happened("command.allowed"))
         /\ Cardinality(Happened("ran")) \in Nat
         /\ Cardinality(Happened("command.allowed")) \in Nat
    BY <1>1, <2>4, OneMore, SameCounts, HappenedIsFinite
  <2>16. CountsFit'
    BY <1>1, <2>1, <2>2, <2>15 DEF CountsFit
  <2>17. QED
    BY <2>13, <2>14, <2>16 DEF StreamFits
<1>17. ASSUME NEW what \in {"effect", "acted"}, NEW e, e.what = what, e.life = life,
              trace' = Append(trace, e), UNCHANGED <<loop, spent, life, mishaps>>,
              job.phase # "ran", job'.phase # "ran",
              what = "effect" => (e.job.effect.environment = "production" =>
                e.job.effect.class \notin ApprovalEffects \cup (Expected \ Registered)),
              what = "acted" => (e.job.verdict # "DENY" => e.job.token = Fingerprint(e.job.act))
       PROVE  StreamFits'
  <2>1. TraceFits'
    BY <1>1, <1>17, NewEvent
  <2>2. /\ Cardinality(Happened("ran")') = Cardinality(Happened("ran"))
        /\ Cardinality(Happened("command.allowed")') = Cardinality(Happened("command.allowed"))
    BY <1>1, <1>17, SameCounts
  <2>3. CountsFit'
    BY <1>1, <1>17, <2>2, CountsStay
  <2>4. PICK n : n = Len(trace) + 1
    OBVIOUS
  <2>5. /\ \A i \in DOMAIN trace : trace'[i] = trace[i]
        /\ trace'[n] = e /\ n \notin DOMAIN trace
    BY <1>1, <1>17, <2>4, Growth
  <2>6. \A w \in {"effect", "acted"} :
          /\ Happened(w)' = Happened(w) \cup (IF what = w THEN {n} ELSE {})
          /\ Happened(w) \subseteq DOMAIN trace
    BY <1>1, <1>17, <2>4, HappenedGrows DEF Happened
  <2>7. ASSUME NEW i \in Happened("effect")'
        PROVE  LET f == trace'[i].job.effect IN
               f.environment = "production" => f.class \notin ApprovalEffects \cup (Expected \ Registered)
    BY <1>1, <1>17, <2>5, <2>6 DEF EffectsFit
  <2>8. ASSUME NEW i \in Happened("acted")'
        PROVE  trace'[i].job.verdict # "DENY" => trace'[i].job.token = Fingerprint(trace'[i].job.act)
    BY <1>1, <1>17, <2>5, <2>6 DEF EffectsFit
  <2>9. EffectsFit'
    BY <2>7, <2>8 DEF EffectsFit
  <2>10. QED
    BY <2>1, <2>3, <2>9 DEF StreamFits
<1>18. ASSUME NEW a, NEW token, ActOn(a, token) PROVE StreamFits'
  <2>1. PICK e : /\ e.what = "acted" /\ e.life = life /\ trace' = Append(trace, e)
                 /\ e.job.act = a /\ e.job.token = token
                 /\ e.job.verdict = SpecialistVerdict(a, {token})
    <3>1. PICK v, j : v = SpecialistVerdict(a, {token})
                      /\ j = [act |-> a, token |-> token, verdict |-> v]
      OBVIOUS
    <3>2. trace' = Append(trace, [what |-> "acted", life |-> life, job |-> j])
      BY <1>18, <3>1 DEF ActOn
    <3>3. j.act = a /\ j.token = token /\ j.verdict = v
      BY <3>1
    <3>4. PICK e : e = [what |-> "acted", life |-> life, job |-> j]
      OBVIOUS
    <3>5. e.what = "acted" /\ e.life = life /\ e.job = j
      BY <3>4
    <3>6. QED
      BY <3>1, <3>2, <3>3, <3>4, <3>5
  <2>2. UNCHANGED <<loop, job, spent, life, mishaps>> /\ job.phase # "ran"
    BY <1>1, <1>18 DEF ActOn, Called
  <2>3. SpecialistVerdict(a, {token}) # "DENY" => token = Fingerprint(a)
    BY DEF SpecialistVerdict
  <2>4. QED
    BY <1>17, <2>1, <2>2, <2>3
<1>19. ASSUME NEW e \in Effect, Cause(e) PROVE StreamFits'
  <2>1. PICK v, j : /\ v = EffectVerdict(e.class, e.environment, Registered, Expected)
                    /\ j = [phase |-> "caused", effect |-> e, verdict |-> v]
    OBVIOUS
  <2>2. /\ job' = j /\ j.effect = e /\ j.verdict = v /\ j.phase = "caused"
        /\ job.phase = "rest" /\ UNCHANGED <<loop, spent, life, mishaps>>
    BY <1>1, <1>19, <2>1 DEF Cause, Called
  <2>3. CASE v = "ALLOW"
    <3>1. PICK f : f.what = "effect" /\ f.life = life /\ f.job = j /\ trace' = Append(trace, f)
      BY <1>19, <2>2, <2>3 DEF Cause
    <3>2. e.environment = "production" => e.class \notin ApprovalEffects \cup (Expected \ Registered)
      BY <2>1, <2>3 DEF EffectVerdict
    <3>3. QED
      BY <1>17, <2>2, <3>1, <3>2
  <2>4. CASE v # "ALLOW"
    <3>1. trace' = trace
      BY <1>19, <2>2, <2>4 DEF Cause
    <3>2. QED
      BY <1>1, <2>2, <3>1, StreamStays
  <2>5. QED
    BY <2>3, <2>4
<1>20. QED
  BY <1>2, <1>3, <1>4, <1>5, <1>7, <1>8, <1>9, <1>10, <1>11, <1>12, <1>13, <1>14, <1>15, <1>16,
     <1>18, <1>19 DEF RunNext

-----------------------------------------------------------------------------
(* The theorems.                                                           *)

LEMMA RunInvariantAtFirst == RunInit => RunInvariant
<1> SUFFICES ASSUME RunInit PROVE RunInvariant
  OBVIOUS
<1>1. RunTypes
  BY TypesAtFirst
<1>2. /\ trace = <<>> /\ paid = 0 /\ loop.cost = 0 /\ mishaps = 0 /\ job.phase = "rest"
  BY DEF RunInit, FreshLoop, Resting
<1>3. Happened("ran") = {} /\ Happened("command.allowed") = {}
  BY <1>2 DEF Happened
<1>4. JobFits /\ BudgetFits
  BY <1>2, RunAssumption DEF JobFits, BudgetFits, LoopPhases
<1>5. TraceFits /\ EffectsFit
  BY <1>2 DEF TraceFits, EffectsFit, Happened
<1>6. CountsFit
  <2>1. Cardinality(Happened("ran")) = 0 /\ Cardinality(Happened("command.allowed")) = 0
    BY <1>3, FS_EmptySet
  <2>2. QED
    BY <1>2, <2>1 DEF CountsFit
<1>7. QED
  BY <1>1, <1>4, <1>5, <1>6 DEF RunInvariant

LEMMA RunInvariantStays == RunInvariant /\ [RunNext]_runVars => RunInvariant'
<1> SUFFICES ASSUME RunInvariant, [RunNext]_runVars PROVE RunInvariant'
  OBVIOUS
<1>1. RunTypes'
  BY TypesStay DEF RunInvariant
<1>2. QED
  BY <1>1, JobsStay, StreamStepFits DEF RunInvariant, StreamFits

LEMMA RunInvariantIsEnough == RunInvariant => RunsAreGoverned
<1> SUFFICES ASSUME RunInvariant PROVE RunsAreGoverned
  OBVIOUS
<1>1. \A i \in Happened("ran") : RanWell(i)
  BY DEF RunInvariant, TraceFits
<1>2. paid <= MaxCost
  BY DEF RunInvariant, BudgetFits
<1>3. /\ Cardinality(Happened("ran")) \in Nat /\ Cardinality(Happened("command.allowed")) \in Nat
      /\ mishaps \in Nat
  BY HappenedIsFinite DEF RunInvariant, RunTypes
<1>4. CountsFit /\ EffectsFit
  BY DEF RunInvariant
<1>5. LET told == Cardinality(Happened("command.allowed"))
          ran == Cardinality(Happened("ran"))
      IN told <= ran /\ ran - told <= mishaps + (IF job.phase = "ran" THEN 1 ELSE 0)
  BY <1>3, <1>4 DEF CountsFit
<1>6. ASSUME NEW i \in Happened("ran")
      PROVE  LET c == Command[trace[i].job.cmd]
                 t == trace[i].job.token
             IN /\ c.listed /\ ~c.blocked /\ ~c.chained
                /\ c.trigger =>
                     /\ \E j \in Happened("approval.granted") :
                          j < i /\ trace[j].job.token = t /\ Covers[t] = trace[j].job.cmd
                          /\ trace[j].job.cmd = trace[i].job.cmd
                     /\ \A k \in Happened("ran") \ {i} :
                          Command[trace[k].job.cmd].trigger => trace[k].job.token # t
                /\ trace[i].job.by = "loop" =>
                     \A j \in Happened("scenario.step") :
                       j < i /\ trace[j].life = trace[i].life => trace[j].job.decision = "continue"
  BY <1>1 DEF RanWell, Contracted
<1>7. QED
  BY <1>2, <1>4, <1>5, <1>6 DEF RunsAreGoverned, EffectsFit

\* The state of a governed run has the shape the code gives it.
THEOREM RunsAreTyped == RunSpec => []RunTypes
<1>1. RunInit => RunInvariant
  BY RunInvariantAtFirst
<1>2. RunInvariant /\ [RunNext]_runVars => RunInvariant'
  BY RunInvariantStays
<1>3. RunInvariant => RunTypes
  BY DEF RunInvariant
<1>4. QED
  BY <1>1, <1>2, <1>3, PTL DEF RunSpec

\* Whatever commands, contracts, steps, tokens and crashes there are: every command
\* that ran was listed, unblocked and unchained, one that wants an approval ran after
\* the stream had said that a token of its own was accepted and none other used it, a
\* loop that answered anything but "continue" ran nothing more and stayed within its
\* budget, and the stream tells of every run but those a crash or a failed write kept
\* from it (src/commandGuard.ts, src/scenarioLoop.ts, src/specialistGovernance.ts).
THEOREM AgentsStayGoverned == RunSpec => []RunsAreGoverned
<1>1. RunInit => RunInvariant
  BY RunInvariantAtFirst
<1>2. RunInvariant /\ [RunNext]_runVars => RunInvariant'
  BY RunInvariantStays
<1>3. RunInvariant => RunsAreGoverned
  BY RunInvariantIsEnough
<1>4. QED
  BY <1>1, <1>2, <1>3, PTL DEF RunSpec


-----------------------------------------------------------------------------
(* A case and what each of its operations leaves of it.                    *)

Statuses == {"open", "blocked", "completed", "handed_off", "awaiting_approval"}
Attachments == [id : Nat \ {0}, origin : Nat]
Risks == [severity : {"medium", "high"}, status : {"open", "accepted"}]

\* Every field of a case has its type; who is in the case does not matter here.
IsCase(c) ==
  /\ c = [owner |-> c.owner, people |-> c.people, directory |-> c.directory,
          status |-> c.status, closed |-> c.closed, contexts |-> c.contexts, decisions |-> c.decisions,
          risks |-> c.risks, approvals |-> c.approvals, handoffs |-> c.handoffs,
          attachments |-> c.attachments, minted |-> c.minted]
  /\ c.status \in Statuses /\ c.closed \in BOOLEAN
  /\ c.contexts \in Nat /\ c.decisions \in Nat /\ c.minted \in Nat
  /\ c.risks \in Seq(Risks)
  /\ c.approvals \in Seq({"requested", "approved", "rejected"})
  /\ c.handoffs \in Seq(Range(c.handoffs))
  /\ c.attachments \subseteq Attachments /\ IsFiniteSet(c.attachments)

\* What StatusTellsTheTruth says of the case in hand.
Truthful(c) ==
  /\ c.status = "awaiting_approval" => Pending(c) # {}
  /\ c.status \in {"completed", "handed_off"} => c.closed
  /\ c.status \in {"open", "blocked"} => ~c.closed

\* Apart from the fields of F the second case tells what the first one does.
Same(c, d, F) == \A f \in {"contexts", "decisions", "minted", "approvals", "risks", "handoffs",
                           "status", "closed"} \ F : d[f] = c[f]

LEMMA AddingContext ==
  ASSUME NEW c, IsCase(c), NEW d, d = AddContext(c)
  PROVE  /\ IsCase(d) /\ d.contexts = c.contexts + 1 /\ Same(c, d, {"contexts"})
         /\ d.owner = c.owner /\ d.people = c.people /\ d.directory = c.directory
         /\ d.attachments = c.attachments
<1>1. PICK n : n = c.contexts + 1
  OBVIOUS
<1>2. n \in Nat
  BY <1>1 DEF IsCase
<1>3. d = [c EXCEPT !.contexts = n]
  BY <1>1 DEF AddContext
<1>4. QED
  BY <1>1, <1>2, <1>3 DEF IsCase, Same

LEMMA DecisionRecorded ==
  ASSUME NEW c, IsCase(c), NEW d, d = RecordDecision(c)
  PROVE  IsCase(d) /\ d.decisions = c.decisions + 1 /\ Same(c, d, {"decisions"})
<1>1. PICK n : n = c.decisions + 1
  OBVIOUS
<1>2. n \in Nat
  BY <1>1 DEF IsCase
<1>3. d = [c EXCEPT !.decisions = n]
  BY <1>1 DEF RecordDecision
<1>4. QED
  BY <1>1, <1>2, <1>3 DEF IsCase, Same

LEMMA RiskRecorded ==
  ASSUME NEW c, IsCase(c), NEW v \in {"medium", "high"}, NEW s \in {"open", "accepted"},
         NEW d, d = RecordRisk(c, v, s)
  PROVE  /\ IsCase(d) /\ Same(c, d, {"risks"})
         /\ Cardinality(OpenRisks(d)) = Cardinality(OpenRisks(c)) + (IF s = "open" THEN 1 ELSE 0)
<1>1. PICK r : r = [severity |-> v, status |-> s]
  OBVIOUS
<1>2. PICK rs : rs = Append(c.risks, r)
  OBVIOUS
<1>3. /\ d = [c EXCEPT !.risks = rs] /\ r \in Risks /\ r.status = s
      /\ rs \in Seq(Risks) /\ DOMAIN rs = DOMAIN c.risks \cup {Len(c.risks) + 1}
      /\ rs[Len(c.risks) + 1] = r /\ \A i \in DOMAIN c.risks : rs[i] = c.risks[i]
  <2>1. r \in Risks /\ r.status = s
    BY <1>1 DEF Risks
  <2>2. QED
    BY <1>1, <1>2, <2>1 DEF RecordRisk, IsCase
<1>4. IsCase(d) /\ Same(c, d, {"risks"}) /\ d.risks = rs
  BY <1>3 DEF IsCase, Same
<1>5. PICK n : n = Len(c.risks) + 1
  OBVIOUS
<1>6. OpenRisks(d) = OpenRisks(c) \cup (IF s = "open" THEN {n} ELSE {})
  BY <1>3, <1>4, <1>5 DEF OpenRisks
<1>7. OpenRisks(c) \subseteq 1 .. Len(c.risks) /\ Len(c.risks) \in Nat
  BY DEF OpenRisks, IsCase
<1>8. IsFiniteSet(OpenRisks(c)) /\ n \notin OpenRisks(c)
  <2>1. IsFiniteSet(1 .. Len(c.risks))
    BY <1>7, FS_Interval
  <2>2. QED
    BY <1>5, <1>7, <2>1, FS_Subset
<1>9. Cardinality(OpenRisks(c)) \in Nat
  BY <1>8, FS_CardinalityType
<1>10. CASE s = "open"
  <2>1. OpenRisks(d) = OpenRisks(c) \cup {n}
    BY <1>6, <1>10
  <2>2. QED
    BY <1>4, <1>8, <1>10, <2>1, FS_AddElement
<1>11. CASE s # "open"
  <2>1. OpenRisks(d) = OpenRisks(c)
    BY <1>6, <1>11
  <2>2. QED
    BY <1>4, <1>9, <1>11, <2>1
<1>12. QED
  BY <1>10, <1>11

LEMMA Attached ==
  ASSUME NEW c, IsCase(c), NEW o \in Nat, NEW d, d = Attach(c, o)
  PROVE  /\ IsCase(d) /\ d.minted = c.minted + 1 /\ Same(c, d, {"minted"})
         /\ d.attachments = c.attachments \cup {[id |-> c.minted + 1, origin |-> o]}
         /\ d.owner = c.owner /\ d.people = c.people /\ d.directory = c.directory
<1>1. PICK a, as, n : a = [id |-> c.minted + 1, origin |-> o] /\ as = c.attachments \cup {a}
                      /\ n = c.minted + 1
  OBVIOUS
<1>2. as \subseteq Attachments /\ IsFiniteSet(as) /\ n \in Nat
  <2>1. a \in Attachments /\ n \in Nat
    BY <1>1 DEF IsCase, Attachments
  <2>2. IsFiniteSet(as)
    BY <1>1, FS_AddElement DEF IsCase
  <2>3. QED
    BY <1>1, <2>1, <2>2 DEF IsCase
<1>4. d = [c EXCEPT !.attachments = as, !.minted = n]
  BY <1>1 DEF Attach
<1>5. QED
  BY <1>1, <1>2, <1>4 DEF IsCase, Same

LEMMA AttachedHere ==
  ASSUME NEW c, IsCase(c), NEW d, d = Attach(c, 0)
  PROVE  /\ IsCase(d) /\ d.minted = c.minted + 1 /\ Same(c, d, {"minted"})
         /\ d.attachments = c.attachments \cup {[id |-> c.minted + 1, origin |-> 0]}
         /\ d.owner = c.owner /\ d.people = c.people /\ d.directory = c.directory
<1>1. PICK z \in Nat : z = 0
  OBVIOUS
<1>2. QED
  BY <1>1, Attached

LEMMA AttachmentRemoved ==
  ASSUME NEW c, IsCase(c), NEW i, NEW d, d = RemoveAttachment(c, i)
  PROVE  IsCase(d) /\ Same(c, d, {})
<1>1. PICK as : as = {a \in c.attachments : a.id # i}
  OBVIOUS
<1>2. d = [c EXCEPT !.attachments = as]
  BY <1>1 DEF RemoveAttachment
<1>3. IsFiniteSet(as) /\ as \subseteq Attachments
  BY <1>1, FS_Subset DEF IsCase
<1>4. QED
  BY <1>2, <1>3 DEF IsCase, Same

LEMMA PeopleChanged ==
  ASSUME NEW c, IsCase(c), NEW p, NEW d, d = AddParticipant(c, p) \/ d = RemoveParticipant(c, p)
  PROVE  IsCase(d) /\ Same(c, d, {})
<1>1. PICK ds, ps : d = [c EXCEPT !.directory = ds, !.people = ps]
  BY DEF AddParticipant, RemoveParticipant
<1>2. QED
  BY <1>1 DEF IsCase, Same

LEMMA StatusSet ==
  ASSUME NEW c, IsCase(c), NEW s \in Statuses \ {"awaiting_approval"}, NEW d, d = SetStatus(c, s)
  PROVE  IsCase(d) /\ Same(c, d, {"status", "closed"}) /\ Truthful(d)
<1>1. PICK b \in BOOLEAN : b <=> s \in {"completed", "handed_off"}
  OBVIOUS
<1>2. d = [c EXCEPT !.status = s, !.closed = b]
  BY <1>1 DEF SetStatus
<1>3. IsCase(d) /\ Same(c, d, {"status", "closed"}) /\ d.status = s /\ d.closed = b
  BY <1>2 DEF IsCase, Same, Statuses
<1>4. QED
  BY <1>1, <1>3 DEF Truthful, Statuses

LEMMA ApprovalRequested ==
  ASSUME NEW c, IsCase(c), NEW d, d = RequestApproval(c)
  PROVE  /\ IsCase(d) /\ Same(c, d, {"approvals", "status"}) /\ Truthful(d)
         /\ Len(d.approvals) = Len(c.approvals) + 1
<1>1. PICK as \in Seq({"requested", "approved", "rejected"}) :
        as = Append(c.approvals, "requested") /\ Len(as) = Len(c.approvals) + 1
        /\ as[Len(as)] = "requested" /\ Len(as) \in DOMAIN as
  <2>1. PICK as : as = Append(c.approvals, "requested")
    OBVIOUS
  <2>2. /\ as \in Seq({"requested", "approved", "rejected"}) /\ Len(as) = Len(c.approvals) + 1
        /\ as[Len(as)] = "requested" /\ Len(as) \in DOMAIN as
    BY <2>1 DEF IsCase
  <2>3. QED
    BY <2>1, <2>2
<1>2. d = [c EXCEPT !.approvals = as, !.status = "awaiting_approval"]
  BY <1>1 DEF RequestApproval
<1>3. IsCase(d) /\ Same(c, d, {"approvals", "status"}) /\ d.status = "awaiting_approval"
      /\ d.approvals = as
  BY <1>2 DEF IsCase, Same, Statuses
<1>4. QED
  BY <1>1, <1>3 DEF Truthful, Pending

LEMMA ApprovalResolved ==
  ASSUME NEW c, IsCase(c), NEW i \in DOMAIN c.approvals, NEW v \in {"approved", "rejected"},
         NEW d, d = ResolveApproval(c, i, v)
  PROVE  /\ IsCase(d) /\ Same(c, d, {"approvals", "status", "closed"}) /\ Truthful(d)
         /\ Len(d.approvals) = Len(c.approvals)
<1>1. PICK as \in Seq({"requested", "approved", "rejected"}) :
        as = [c.approvals EXCEPT ![i] = v] /\ Len(as) = Len(c.approvals)
  <2>1. PICK as : as = [c.approvals EXCEPT ![i] = v]
    OBVIOUS
  <2>2. as \in Seq({"requested", "approved", "rejected"}) /\ Len(as) = Len(c.approvals)
    BY <2>1 DEF IsCase
  <2>3. QED
    BY <2>1, <2>2
<1>2. PICK s : s = IF v = "rejected" THEN "blocked"
                   ELSE IF "requested" \in ToSet(as) THEN "awaiting_approval" ELSE "open"
  OBVIOUS
<1>3. PICK b \in BOOLEAN : b <=> c.closed /\ s = "awaiting_approval"
  OBVIOUS
<1>4. d = [c EXCEPT !.approvals = as, !.status = s, !.closed = b]
  BY <1>1, <1>2, <1>3 DEF ResolveApproval, IsCase
<1>5. s \in {"blocked", "awaiting_approval", "open"} /\ s \in Statuses
  BY <1>2 DEF Statuses
<1>6. /\ IsCase(d) /\ Same(c, d, {"approvals", "status", "closed"})
      /\ d.approvals = as /\ d.status = s /\ d.closed = b
  BY <1>4, <1>5 DEF IsCase, Same
<1>7. s = "awaiting_approval" => Pending(d) # {}
  BY <1>2, <1>6 DEF Pending, ToSet
<1>8. QED
  BY <1>1, <1>3, <1>5, <1>6, <1>7 DEF Truthful

LEMMA HandoffRecorded ==
  ASSUME NEW c, IsCase(c), NEW from, NEW to, NEW as, NEW d, d = RecordHandoff(c, from, to, as)
  PROVE  /\ IsCase(d) /\ Same(c, d, {"handoffs", "status", "closed"}) /\ Truthful(d)
         /\ Len(d.handoffs) = Len(c.handoffs) + 1
         /\ d.owner = to /\ d.people = c.people \cup {to} /\ d.directory = c.directory
         /\ d.attachments = c.attachments
<1>1. PICK h : h = [from |-> from, to |-> to, attachments |-> as]
  OBVIOUS
<1>2. PICK hs : hs = Append(c.handoffs, h)
  OBVIOUS
<1>3. hs \in Seq(Range(hs)) /\ Len(hs) = Len(c.handoffs) + 1
  <2>1. PICK S : S = Range(c.handoffs) \cup {h}
    OBVIOUS
  <2>2. c.handoffs \in Seq(S) /\ h \in S
    BY <2>1 DEF IsCase
  <2>3. hs \in Seq(S) /\ Len(hs) = Len(c.handoffs) + 1
    BY <1>2, <2>2
  <2>4. QED
    BY <2>3 DEF Range
<1>4. PICK ps : ps = c.people \cup {to}
  OBVIOUS
<1>5. PICK e : e = [c EXCEPT !.handoffs = hs, !.owner = to, !.people = ps]
  OBVIOUS
<1>6. /\ IsCase(e) /\ Same(c, e, {"handoffs"}) /\ e.handoffs = hs
      /\ e.owner = to /\ e.people = ps /\ e.directory = c.directory /\ e.attachments = c.attachments
  BY <1>3, <1>5 DEF IsCase, Same
<1>7. d = [e EXCEPT !.status = "handed_off", !.closed = TRUE]
  BY <1>1, <1>2, <1>4, <1>5 DEF RecordHandoff, IsCase
<1>8. /\ IsCase(d) /\ Same(e, d, {"status", "closed"}) /\ d.status = "handed_off" /\ d.closed
      /\ d.owner = e.owner /\ d.people = e.people /\ d.directory = e.directory
      /\ d.attachments = e.attachments
  BY <1>6, <1>7 DEF IsCase, Same, Statuses
<1>9. QED
  BY <1>3, <1>4, <1>6, <1>8 DEF Same, Truthful

-----------------------------------------------------------------------------
(* An event and what it adds to a case.                                    *)

KindNames == {"model.usage", "task.started", "context.loaded", "decision.made", "approval.requested",
              "artifact.changed", "task.completed", "report.generated", "risk.detected",
              "approval.resolved", "handoff.created"}

LEMMA EventShapes ==
  ASSUME NEW e \in Events
  PROVE  /\ e.kind \in KindNames /\ e.fits \in BOOLEAN
         /\ ~e.fits => e.kind \in {"decision.made", "artifact.changed"}
         /\ e.kind = "risk.detected" => e.severity \in {"medium", "high"}
         /\ e.kind = "approval.resolved" => e.decision \in {"approved", "rejected"}
<1>1. CASE \E k \in Silent \cup {"task.started", "context.loaded", "decision.made",
          "approval.requested", "artifact.changed", "task.completed", "report.generated"} : e = Event(k)
  <2>1. PICK k \in Silent \cup {"task.started", "context.loaded", "decision.made",
          "approval.requested", "artifact.changed", "task.completed", "report.generated"} : e = Event(k)
    BY <1>1
  <2>2. e.kind = k /\ e.fits = TRUE
    BY <2>1 DEF Event
  <2>3. k \in KindNames \ {"risk.detected", "approval.resolved"}
    BY DEF KindNames, Silent
  <2>4. QED
    BY <2>2, <2>3
<1>2. CASE \E k \in {"decision.made", "artifact.changed"} : e = [Event(k) EXCEPT !.fits = FALSE]
  BY <1>2 DEF Event, KindNames
<1>3. CASE \E s \in {"medium", "high"} : e = [Event("risk.detected") EXCEPT !.severity = s]
  BY <1>3 DEF Event, KindNames
<1>4. CASE \E i \in 1 .. 2, d \in {"approved", "rejected"} :
             e = [Event("approval.resolved") EXCEPT !.approval = i, !.decision = d]
  BY <1>4 DEF Event, KindNames
<1>5. CASE \E p \in Person \cup {Nobody} : e = [Event("handoff.created") EXCEPT !.to = p]
  BY <1>5 DEF Event, KindNames
<1>6. QED
  BY <1>1, <1>2, <1>3, <1>4, <1>5 DEF Events

\* What an event of kind k adds to a count of the kinds of K.
By(k, K) == IF k \in K THEN 1 ELSE 0
\* Case d is case c after an event of kind k, as far as a session counts.
Grown(c, d, k) ==
  /\ IsCase(d) /\ Truthful(d)
  /\ d.contexts = c.contexts + By(k, {"task.started", "context.loaded"})
  /\ d.decisions = c.decisions + By(k, {"decision.made", "task.completed"})
  /\ d.minted = c.minted + By(k, {"artifact.changed", "report.generated"})
  /\ Len(d.approvals) = Len(c.approvals) + By(k, {"approval.requested"})
  /\ Cardinality(OpenRisks(d)) = Cardinality(OpenRisks(c)) + By(k, {"risk.detected"})
  /\ Len(d.handoffs) >= Len(c.handoffs) + By(k, {"handoff.created"})

LEMMA CaseNumbers ==
  ASSUME NEW c, IsCase(c)
  PROVE  /\ c.contexts \in Nat /\ c.decisions \in Nat /\ c.minted \in Nat
         /\ Len(c.approvals) \in Nat /\ Len(c.handoffs) \in Nat
         /\ Cardinality(OpenRisks(c)) \in Nat
<1>1. OpenRisks(c) \subseteq 1 .. Len(c.risks) /\ Len(c.risks) \in Nat
  BY DEF OpenRisks, IsCase
<1>2. IsFiniteSet(1 .. Len(c.risks))
  BY <1>1, FS_Interval
<1>3. Cardinality(OpenRisks(c)) \in Nat
  BY <1>1, <1>2, FS_Subset, FS_CardinalityType
<1>4. QED
  BY <1>3 DEF IsCase

\* What leaves approvals, status and closing alone leaves the status true.
LEMMA StaysTruthful ==
  ASSUME NEW c, Truthful(c), NEW d,
         d.approvals = c.approvals, d.status = c.status, d.closed = c.closed
  PROVE  Truthful(d)
BY DEF Truthful, Pending

LEMMA SameRisks ==
  ASSUME NEW c, NEW d, d.risks = c.risks PROVE OpenRisks(d) = OpenRisks(c)
BY DEF OpenRisks

LEMMA AppliedGrows ==
  ASSUME NEW c, IsCase(c), Truthful(c), NEW e \in Events,
         ~Refuses(c, e), NEW d, d = Applied(c, e)
  PROVE  Grown(c, d, e.kind)
<1> USE CaseNumbers
<1>1. e.kind \in KindNames
  BY EventShapes
<1>2. e.fits
  BY DEF Refuses
<1>3. CASE e.kind \in Silent
  <2>1. d = c
    BY <1>3 DEF Applied, Silent
  <2>2. e.kind = "model.usage"
    BY <1>3 DEF Silent
  <2>3. QED
    BY <2>1, <2>2 DEF Grown, By
<1>4. CASE e.kind = "context.loaded"
  <2>1. d = AddContext(c)
    BY <1>4 DEF Applied
  <2>2. IsCase(d) /\ d.contexts = c.contexts + 1 /\ Same(c, d, {"contexts"})
    BY <2>1, AddingContext
  <2>3. QED
    BY <1>4, <2>2, StaysTruthful, SameRisks DEF Grown, By, Same
<1>5. CASE e.kind = "task.started"
  <2>1. PICK b : b = AddContext(c)
    OBVIOUS
  <2>2. IsCase(b) /\ b.contexts = c.contexts + 1 /\ Same(c, b, {"contexts"})
    BY <2>1, AddingContext
  <2>3. d = IF c.status = "open" THEN b ELSE SetStatus(b, "open")
    BY <1>5, <2>1 DEF Applied
  <2>4. IsCase(d) /\ Same(b, d, {"status", "closed"}) /\ Truthful(d)
    BY <2>2, <2>3, StatusSet, StaysTruthful DEF Same, Statuses
  <2>5. QED
    BY <1>5, <2>2, <2>4, SameRisks DEF Grown, By, Same
<1>6. CASE e.kind = "decision.made"
  <2>1. d = RecordDecision(c)
    BY <1>6 DEF Applied
  <2>2. IsCase(d) /\ d.decisions = c.decisions + 1 /\ Same(c, d, {"decisions"})
    BY <2>1, DecisionRecorded
  <2>3. QED
    BY <1>6, <2>2, StaysTruthful, SameRisks DEF Grown, By, Same
<1>7. CASE e.kind = "task.completed"
  <2>1. PICK b : b = RecordDecision(c)
    OBVIOUS
  <2>2. IsCase(b) /\ b.decisions = c.decisions + 1 /\ Same(c, b, {"decisions"})
    BY <2>1, DecisionRecorded
  <2>3. d = SetStatus(b, "completed")
    BY <1>7, <2>1 DEF Applied
  <2>4. IsCase(d) /\ Same(b, d, {"status", "closed"}) /\ Truthful(d)
    BY <2>2, <2>3, StatusSet DEF Statuses
  <2>5. QED
    BY <1>7, <2>2, <2>4, SameRisks DEF Grown, By, Same
<1>8. CASE e.kind = "risk.detected"
  <2>1. d = RecordRisk(c, e.severity, "open") /\ e.severity \in {"medium", "high"}
    BY <1>8, EventShapes DEF Applied
  <2>2. /\ IsCase(d) /\ Same(c, d, {"risks"})
        /\ Cardinality(OpenRisks(d)) = Cardinality(OpenRisks(c)) + 1
    BY <2>1, RiskRecorded
  <2>3. QED
    BY <1>8, <2>2, StaysTruthful DEF Grown, By, Same
<1>9. CASE e.kind = "approval.requested"
  <2>1. d = RequestApproval(c)
    BY <1>9 DEF Applied
  <2>2. /\ IsCase(d) /\ Same(c, d, {"approvals", "status"}) /\ Truthful(d)
        /\ Len(d.approvals) = Len(c.approvals) + 1
    BY <2>1, ApprovalRequested
  <2>3. QED
    BY <1>9, <2>2, SameRisks DEF Grown, By, Same
<1>10. CASE e.kind = "approval.resolved"
  <2>1. /\ d = ResolveApproval(c, e.approval, e.decision) /\ e.approval \in DOMAIN c.approvals
        /\ e.decision \in {"approved", "rejected"}
    BY <1>10, EventShapes DEF Applied, Refuses
  <2>2. /\ IsCase(d) /\ Same(c, d, {"approvals", "status", "closed"}) /\ Truthful(d)
        /\ Len(d.approvals) = Len(c.approvals)
    BY <2>1, ApprovalResolved
  <2>3. OpenRisks(d) = OpenRisks(c)
    BY <2>2, SameRisks DEF Same
  <2>4. QED
    BY <1>10, <2>2, <2>3 DEF Grown, By, Same
<1>11. CASE e.kind \in {"artifact.changed", "report.generated"}
  <2>1. d = Attach(c, 0)
    BY <1>11 DEF Applied
  <2>2. IsCase(d) /\ d.minted = c.minted + 1 /\ Same(c, d, {"minted"})
    <3>1. IsCase(c)
      OBVIOUS
    <3>2. QED
      BY ONLY <2>1, <3>1, AttachedHere
  <2>3. Truthful(d) /\ OpenRisks(d) = OpenRisks(c)
    BY <2>2, StaysTruthful, SameRisks DEF Same
  <2>4. /\ d.contexts = c.contexts /\ d.decisions = c.decisions /\ d.approvals = c.approvals
        /\ d.handoffs = c.handoffs
    BY <2>2 DEF Same
  <2>5. CASE e.kind = "artifact.changed"
    BY <2>2, <2>3, <2>4, <2>5 DEF Grown, By
  <2>6. CASE e.kind = "report.generated"
    BY <2>2, <2>3, <2>4, <2>6 DEF Grown, By
  <2>7. QED
    BY <1>11, <2>5, <2>6
<1>12. CASE e.kind = "handoff.created"
  <2>1. PICK to : d = RecordHandoff(c, c.owner, to, {})
    BY <1>12 DEF Applied
  <2>2. /\ IsCase(d) /\ Same(c, d, {"handoffs", "status", "closed"}) /\ Truthful(d)
        /\ Len(d.handoffs) = Len(c.handoffs) + 1
    BY <2>1, HandoffRecorded
  <2>3. QED
    BY <1>12, <2>2, SameRisks DEF Grown, By, Same
<1>13. QED
  BY <1>1, <1>2, <1>3, <1>4, <1>5, <1>6, <1>7, <1>8, <1>9, <1>10, <1>11, <1>12, EventShapes
     DEF KindNames, Silent

\* What people do to a case leaves what the counts of a session are about.
LEMMA DeedsKeepCounts ==
  ASSUME IsCase(case), Truthful(case), Deeds
  PROVE  Grown(case, case', "")
<1> USE CaseNumbers
<1> SUFFICES ASSUME NEW d, d = case' PROVE Grown(case, d, "")
  OBVIOUS
<1>1. CASE \E i \in DOMAIN case.approvals, v \in {"approved", "rejected"} :
             Deed(ResolveApproval(case, i, v))
  <2>1. PICK i \in DOMAIN case.approvals, v \in {"approved", "rejected"} :
          d = ResolveApproval(case, i, v)
    BY <1>1 DEF Deed
  <2>2. /\ IsCase(d) /\ Same(case, d, {"approvals", "status", "closed"}) /\ Truthful(d)
        /\ Len(d.approvals) = Len(case.approvals)
    BY <2>1, ApprovalResolved
  <2>3. QED
    BY <2>2, SameRisks DEF Grown, By, Same
<1>2. CASE Deed(RecordRisk(case, "high", "accepted"))
  <2>1. d = RecordRisk(case, "high", "accepted")
    BY <1>2 DEF Deed
  <2>2. /\ IsCase(d) /\ Same(case, d, {"risks"})
        /\ Cardinality(OpenRisks(d)) = Cardinality(OpenRisks(case)) + 0
    BY <2>1, RiskRecorded
  <2>3. QED
    BY <2>2, StaysTruthful DEF Grown, By, Same
<1>3. CASE \/ \E p \in Person : ~Known(case, p) /\ Deed(AddParticipant(case, p))
           \/ \E p \in Listed(case) : Deed(RemoveParticipant(case, p))
  <2>1. PICK p : d = AddParticipant(case, p) \/ d = RemoveParticipant(case, p)
    BY <1>3 DEF Deed
  <2>2. IsCase(d) /\ Same(case, d, {})
    BY <2>1, PeopleChanged
  <2>3. QED
    BY <2>2, StaysTruthful, SameRisks DEF Grown, By, Same
<1>4. CASE \E a \in case.attachments : Deed(RemoveAttachment(case, a.id))
  <2>1. PICK a : d = RemoveAttachment(case, a.id)
    BY <1>4 DEF Deed
  <2>2. IsCase(d) /\ Same(case, d, {})
    BY <2>1, AttachmentRemoved
  <2>3. QED
    BY <2>2, StaysTruthful, SameRisks DEF Grown, By, Same
<1>5. CASE \E s \in {"open", "blocked", "completed"} : Deed(SetStatus(case, s))
  <2>1. PICK s \in {"open", "blocked", "completed"} : d = SetStatus(case, s)
    BY <1>5 DEF Deed
  <2>2. s \in Statuses \ {"awaiting_approval"}
    BY DEF Statuses
  <2>3. IsCase(d) /\ Same(case, d, {"status", "closed"}) /\ Truthful(d)
    BY <2>1, <2>2, StatusSet
  <2>4. QED
    BY <2>3, SameRisks DEF Grown, By, Same
<1>6. CASE \E p \in Person, named \in {{}, {a.id : a \in case.attachments}} :
             Deed(RecordHandoff(case, case.owner, p, named))
  <2>1. PICK p, named : d = RecordHandoff(case, case.owner, p, named)
    BY <1>6 DEF Deed
  <2>2. /\ IsCase(d) /\ Same(case, d, {"handoffs", "status", "closed"}) /\ Truthful(d)
        /\ Len(d.handoffs) = Len(case.handoffs) + 1
    BY <2>1, HandoffRecorded
  <2>3. QED
    BY <2>2, SameRisks DEF Grown, By, Same
<1>7. QED
  BY <1>1, <1>2, <1>3, <1>4, <1>5, <1>6 DEF Deeds

-----------------------------------------------------------------------------
(* The summary of a session.                                               *)

LEMMA KindsNamed == KindNames \subseteq Kinds
<1> SUFFICES ASSUME NEW k \in KindNames PROVE k \in Kinds
  OBVIOUS
<1>1. CASE k \in {"risk.detected", "approval.resolved", "handoff.created"}
  <2>1. /\ [Event("risk.detected") EXCEPT !.severity = "high"] \in Events
        /\ [Event("approval.resolved") EXCEPT !.approval = 1, !.decision = "approved"] \in Events
        /\ [Event("handoff.created") EXCEPT !.to = Nobody] \in Events
    BY DEF Events
  <2>2. /\ [Event("risk.detected") EXCEPT !.severity = "high"].kind = "risk.detected"
        /\ [Event("approval.resolved") EXCEPT !.approval = 1, !.decision = "approved"].kind = "approval.resolved"
        /\ [Event("handoff.created") EXCEPT !.to = Nobody].kind = "handoff.created"
    BY DEF Event
  <2>3. QED
    BY <1>1, <2>1, <2>2 DEF Kinds
<1>2. CASE k \notin {"risk.detected", "approval.resolved", "handoff.created"}
  <2>1. k \in Silent \cup {"task.started", "context.loaded", "decision.made",
          "approval.requested", "artifact.changed", "task.completed", "report.generated"}
    BY <1>2 DEF KindNames, Silent
  <2>2. Event(k) \in Events
    BY <2>1 DEF Events
  <2>4. Event(k).kind = k
    BY DEF Event
  <2>3. QED
    BY <2>2, <2>4 DEF Kinds
<1>3. QED
  BY <1>1, <1>2

LEMMA TallyOfNone == Tally(<<>>) = [k \in Kinds |-> 0]
<1>1. ASSUME NEW k PROVE Cardinality({i \in DOMAIN <<>> : <<>>[i].kind = k}) = 0
  <2>1. {i \in DOMAIN <<>> : <<>>[i].kind = k} = {}
    OBVIOUS
  <2>2. QED
    BY <2>1, FS_EmptySet
<1>2. QED
  BY <1>1 DEF Tally

Entries == [kind : KindNames, at : Nat \ {0}]

LEMMA TallyIsNatural ==
  ASSUME NEW s \in Seq(Entries), NEW k \in Kinds
  PROVE  Tally(s)[k] \in Nat
<1>1. IsFiniteSet(1 .. Len(s)) /\ {i \in DOMAIN s : s[i].kind = k} \subseteq 1 .. Len(s)
  BY FS_Interval
<1>2. QED
  BY <1>1, FS_Subset, FS_CardinalityType DEF Tally

LEMMA TallyOfMore ==
  ASSUME NEW s \in Seq(Entries), NEW x \in Entries, NEW k \in Kinds,
         NEW t, t = Append(s, x)
  PROVE  Tally(t)[k] = Tally(s)[k] + By(x.kind, {k})
<1>1. PICK n : n = Len(s) + 1
  OBVIOUS
<1>2. PICK A : A = {i \in DOMAIN s : s[i].kind = k}
  OBVIOUS
<1>3. /\ DOMAIN t = DOMAIN s \cup {n} /\ t[n] = x /\ n \notin DOMAIN s
      /\ \A i \in DOMAIN s : t[i] = s[i]
  BY <1>1
<1>4. {i \in DOMAIN t : t[i].kind = k} = A \cup (IF x.kind = k THEN {n} ELSE {})
  BY <1>2, <1>3
<1>5. IsFiniteSet(A) /\ n \notin A /\ Cardinality(A) \in Nat
  <2>1. IsFiniteSet(1 .. Len(s))
    BY FS_Interval
  <2>3. A \subseteq 1 .. Len(s)
    BY <1>2
  <2>2. QED
    BY <1>2, <1>3, <2>1, <2>3, FS_Subset, FS_CardinalityType
<1>6. Tally(s)[k] = Cardinality(A) /\ Tally(t)[k] = Cardinality(A \cup (IF x.kind = k THEN {n} ELSE {}))
  BY <1>2, <1>4 DEF Tally
<1>7. CASE x.kind = k
  <2>1. Tally(t)[k] = Cardinality(A \cup {n})
    BY <1>6, <1>7
  <2>2. Cardinality(A \cup {n}) = Cardinality(A) + 1
    BY <1>5, FS_AddElement
  <2>3. QED
    BY <1>6, <1>7, <2>1, <2>2 DEF By
<1>8. CASE x.kind # k
  <2>1. Tally(t)[k] = Cardinality(A)
    BY <1>6, <1>8
  <2>2. QED
    BY <1>5, <1>6, <1>8, <2>1 DEF By
<1>9. QED
  BY <1>7, <1>8

-----------------------------------------------------------------------------
(* The case a successor starts with.                                       *)

\* The people of P are in the case and stay known when its owner changes.
Staffed(c, P) == c.owner \in c.people /\ P \subseteq c.directory \cup c.people
Origins(as) == {a.origin : a \in as}

LEMMA CaseCreated ==
  ASSUME NEW o, NEW ps, NEW ds, NEW s \in {"open", "blocked"}, NEW c, c = NewCase(o, ps, ds, s)
  PROVE  /\ IsCase(c) /\ Truthful(c) /\ Staffed(c, {})
         /\ c.attachments = {} /\ c.minted = 0
<1>1. PICK qs : qs = ps \cup {o}
  OBVIOUS
<1>2. c = [owner |-> o, people |-> qs, directory |-> ds,
           status |-> s, closed |-> FALSE, contexts |-> 0, decisions |-> 0,
           risks |-> <<>>, approvals |-> <<>>, handoffs |-> <<>>, attachments |-> {}, minted |-> 0]
  BY <1>1 DEF NewCase
<1>3. IsFiniteSet({})
  BY FS_EmptySet
<1>4. /\ c.status = s /\ c.closed = FALSE /\ c.owner = o /\ c.people = qs /\ c.directory = ds
      /\ c.contexts = 0 /\ c.decisions = 0 /\ c.minted = 0
      /\ c.risks = <<>> /\ c.approvals = <<>> /\ c.handoffs = <<>> /\ c.attachments = {}
  BY <1>2
<1>5. IsCase(c)
  BY <1>2, <1>3, <1>4 DEF IsCase, Statuses
<1>6. QED
  BY <1>1, <1>4, <1>5 DEF Truthful, Staffed

LEMMA PeopleJoined ==
  ASSUME NEW c, IsCase(c), Truthful(c), NEW P, Staffed(c, P), NEW Q, NEW d, d = Joined(c, Q)
  PROVE  /\ IsCase(d) /\ Truthful(d) /\ Staffed(d, P \cup Q)
         /\ d.attachments = c.attachments /\ d.minted = c.minted
<1>1. PICK ds : ds = c.directory \cup (Q \ Listed(c))
  OBVIOUS
<1>2. PICK ps : ps = c.people \cup (Q \ Listed(c))
  OBVIOUS
<1>3. d = [c EXCEPT !.directory = ds, !.people = ps]
  BY <1>1, <1>2 DEF Joined
<1>4. /\ IsCase(d) /\ d.attachments = c.attachments /\ d.minted = c.minted
      /\ d.directory = ds /\ d.people = ps /\ d.owner = c.owner
      /\ d.status = c.status /\ d.closed = c.closed /\ d.approvals = c.approvals
  BY <1>3 DEF IsCase
<1>5. Staffed(d, P \cup Q)
  BY <1>1, <1>2, <1>4 DEF Staffed, Listed
<1>6. QED
  BY <1>4, <1>5, StaysTruthful

\* The i-th of the attachments gets the i-th new number and keeps its origin.
LEMMA AttachedAgain ==
  ASSUME NEW c, IsCase(c), Truthful(c), NEW P, Staffed(c, P),
         NEW S \in SUBSET Attachments, IsFiniteSet(S), NEW d, d = Reattached(c, S)
  PROVE  /\ IsCase(d) /\ Truthful(d) /\ Staffed(d, P)
         /\ Origins(d.attachments) = Origins(c.attachments) \cup {FirstId(a) : a \in S}
<1>1. PICK new : new = [a \in S |-> [id |-> c.minted + Cardinality({b \in S : b.id <= a.id}),
                                    origin |-> FirstId(a)]]
  OBVIOUS
<1>2. PICK R : R = {new[a] : a \in S}
  OBVIOUS
<1>3. PICK as, n : as = c.attachments \cup R /\ n = c.minted + Cardinality(S)
  OBVIOUS
<1>4. d = [c EXCEPT !.attachments = as, !.minted = n]
  BY <1>1, <1>2, <1>3 DEF Reattached
<1>5. \A a \in S : new[a] \in Attachments /\ new[a].origin = FirstId(a)
  <2> SUFFICES ASSUME NEW a \in S PROVE new[a] \in Attachments /\ new[a].origin = FirstId(a)
    OBVIOUS
  <2>1. PICK T : T = {b \in S : b.id <= a.id}
    OBVIOUS
  <2>2. a \in T /\ T \subseteq S
    BY <2>1 DEF Attachments
  <2>3. IsFiniteSet(T) /\ Cardinality(T) \in Nat /\ Cardinality(T) # 0
    BY <2>2, FS_Subset, FS_CardinalityType, FS_EmptySet
  <2>4. PICK k : k = c.minted + Cardinality(T)
    OBVIOUS
  <2>5. k \in Nat \ {0}
    BY <2>3, <2>4 DEF IsCase
  <2>6. FirstId(a) \in Nat
    BY DEF FirstId, Attachments
  <2>7. new[a] = [id |-> k, origin |-> FirstId(a)]
    BY <1>1, <2>1, <2>4
  <2>8. QED
    BY <2>5, <2>6, <2>7 DEF Attachments
<1>6. IsFiniteSet(R)
  <2>1. R = {new[a] : a \in S} /\ new \in [S -> R]
    BY <1>1, <1>2
  <2>2. new \in Surjection(S, R)
    BY <1>2, <2>1 DEF Surjection
  <2>3. QED
    BY <2>2, FS_Surjection
<1>7. as \subseteq Attachments /\ IsFiniteSet(as)
  <2>1. IsFiniteSet(as)
    BY <1>3, <1>6, FS_Union DEF IsCase
  <2>2. QED
    BY <1>2, <1>3, <1>5, <2>1 DEF IsCase
<1>8. n \in Nat
  BY <1>3, FS_CardinalityType DEF IsCase
<1>9. /\ IsCase(d) /\ d.attachments = as
      /\ d.directory = c.directory /\ d.people = c.people /\ d.owner = c.owner
      /\ d.status = c.status /\ d.closed = c.closed /\ d.approvals = c.approvals
  BY <1>4, <1>7, <1>8 DEF IsCase
<1>10. Origins(as) = Origins(c.attachments) \cup {FirstId(a) : a \in S}
  BY <1>2, <1>3, <1>5 DEF Origins
<1>11. QED
  BY <1>9, <1>10, StaysTruthful DEF Staffed

LEMMA SuccessorsCase ==
  ASSUME NEW m, m.required \in SUBSET Attachments, IsFiniteSet(m.required),
         NEW o, NEW h, h = Hydrated(m, o)
  PROVE  /\ IsCase(h) /\ Truthful(h) /\ m.participants \subseteq Listed(h)
         /\ Origins(h.attachments) \ {0} = {FirstId(a) : a \in m.required}
<1>1. PICK new : new = NewCase(m.owner, m.people, {}, "open")
  OBVIOUS
<1>2. PICK kept : kept = IF o.keepId THEN Attach(new, 0) ELSE new
  OBVIOUS
<1>3. PICK joined : joined = Joined(kept, m.participants)
  OBVIOUS
<1>4. PICK staffed : staffed = IF o.receiver = Nobody \/ ~o.roleFits THEN joined
                               ELSE Joined(joined, {o.receiver})
  OBVIOUS
<1>5. PICK full : full = Reattached(staffed, m.required)
  OBVIOUS
<1>6. \/ h = full
      \/ h = AddContext(RecordHandoff(full, m.currentOwner, m.nextOwner, {a.id : a \in full.attachments}))
  BY <1>1, <1>2, <1>3, <1>4, <1>5 DEF Hydrated
<1>7. IsCase(new) /\ Truthful(new) /\ Staffed(new, {}) /\ new.attachments = {} /\ new.minted = 0
  BY <1>1, CaseCreated
<1>8. IsCase(kept) /\ Truthful(kept) /\ Staffed(kept, {}) /\ Origins(kept.attachments) \subseteq {0}
  <2>1. CASE o.keepId
    <3>1. kept = Attach(new, 0)
      BY <1>2, <2>1
    <3>2. /\ IsCase(kept) /\ Same(new, kept, {"minted"})
          /\ kept.attachments = new.attachments \cup {[id |-> new.minted + 1, origin |-> 0]}
          /\ kept.owner = new.owner /\ kept.people = new.people /\ kept.directory = new.directory
      BY <1>7, <3>1, AttachedHere
    <3>3. Truthful(kept)
      BY <1>7, <3>2, StaysTruthful DEF Same
    <3>4. QED
      BY <1>7, <3>2, <3>3 DEF Staffed, Origins
  <2>2. CASE ~o.keepId
    BY <1>2, <1>7, <2>2 DEF Origins
  <2>3. QED
    BY <2>1, <2>2
<1>9. /\ IsCase(joined) /\ Truthful(joined) /\ Staffed(joined, m.participants)
      /\ joined.attachments = kept.attachments
  <2>0. PICK Q : Q = m.participants
    OBVIOUS
  <2>3. joined = Joined(kept, Q)
    BY <1>3, <2>0
  <2>4. IsCase(kept) /\ Truthful(kept) /\ Staffed(kept, {})
    BY <1>8
  <2>5. /\ IsCase(joined) /\ Truthful(joined) /\ Staffed(joined, {} \cup Q)
        /\ joined.attachments = kept.attachments
    BY ONLY <2>3, <2>4, PeopleJoined
  <2>1. /\ IsCase(joined) /\ Truthful(joined) /\ Staffed(joined, {} \cup m.participants)
        /\ joined.attachments = kept.attachments
    BY <2>0, <2>5
  <2>2. QED
    BY <2>1 DEF Staffed
<1>10. /\ IsCase(staffed) /\ Truthful(staffed) /\ Staffed(staffed, m.participants)
       /\ staffed.attachments = kept.attachments
  <2>1. CASE staffed = joined
    BY <1>9, <2>1
  <2>2. CASE staffed = Joined(joined, {o.receiver})
    <3>1. /\ IsCase(staffed) /\ Truthful(staffed) /\ Staffed(staffed, m.participants \cup {o.receiver})
          /\ staffed.attachments = joined.attachments
      <4>1. PICK Q : Q = {o.receiver}
        OBVIOUS
      <4>2. PICK P : P = m.participants
        OBVIOUS
      <4>3. staffed = Joined(joined, Q)
        BY <2>2, <4>1
      <4>4. IsCase(joined) /\ Truthful(joined) /\ Staffed(joined, P)
        BY <1>9, <4>2
      <4>5. /\ IsCase(staffed) /\ Truthful(staffed) /\ Staffed(staffed, P \cup Q)
            /\ staffed.attachments = joined.attachments
        BY ONLY <4>3, <4>4, PeopleJoined
      <4>6. QED
        BY <4>1, <4>2, <4>5
    <3>2. QED
      BY <1>9, <3>1 DEF Staffed
  <2>3. QED
    BY <1>4, <2>1, <2>2
<1>11. /\ IsCase(full) /\ Truthful(full) /\ Staffed(full, m.participants)
       /\ Origins(full.attachments) = Origins(kept.attachments) \cup {FirstId(a) : a \in m.required}
  BY <1>5, <1>10, AttachedAgain
<1>12. \A a \in m.required : FirstId(a) # 0
  BY DEF FirstId, Attachments
<1>13. Origins(full.attachments) \ {0} = {FirstId(a) : a \in m.required}
  BY <1>8, <1>11, <1>12
<1>14. CASE h = full
  BY <1>11, <1>13, <1>14 DEF Staffed, Listed
<1>15. CASE h = AddContext(RecordHandoff(full, m.currentOwner, m.nextOwner, {a.id : a \in full.attachments}))
  <2>1. PICK g : g = RecordHandoff(full, m.currentOwner, m.nextOwner, {a.id : a \in full.attachments})
    OBVIOUS
  <2>2. /\ IsCase(g) /\ Truthful(g) /\ g.people = full.people \cup {m.nextOwner}
        /\ g.directory = full.directory /\ g.attachments = full.attachments
    BY <1>11, <2>1, HandoffRecorded
  <2>3. h = AddContext(g)
    BY <1>15, <2>1
  <2>4. /\ IsCase(h) /\ Same(g, h, {"contexts"}) /\ h.people = g.people
        /\ h.directory = g.directory /\ h.attachments = g.attachments
    BY <2>2, <2>3, AddingContext
  <2>5. Truthful(h)
    BY <2>2, <2>4, StaysTruthful DEF Same
  <2>6. m.participants \subseteq Listed(h)
    BY <1>11, <2>2, <2>4 DEF Staffed, Listed
  <2>7. QED
    BY <1>13, <2>2, <2>4, <2>5, <2>6
<1>16. QED
  BY <1>6, <1>14, <1>15

-----------------------------------------------------------------------------
(* The invariant: a case and its session are typed, the case tells the     *)
(* truth about itself and has grown by what the session counted, and the   *)
(* manifest that waits was made of such a case.                            *)

\* Case c is case b and the events that n counts.
Story(c, b, n) ==
  /\ c.contexts = b.contexts + n["task.started"] + n["context.loaded"]
  /\ c.decisions = b.decisions + n["decision.made"] + n["task.completed"]
  /\ c.minted = b.minted + n["artifact.changed"] + n["report.generated"]
  /\ Len(c.approvals) = Len(b.approvals) + n["approval.requested"]
  /\ Cardinality(OpenRisks(c)) = Cardinality(OpenRisks(b)) + n["risk.detected"]
  /\ Len(c.handoffs) >= Len(b.handoffs) + n["handoff.created"]

CasesFit == IsCase(case) /\ Truthful(case) /\ IsCase(base)
\* The entries of the session are those of the stream, in the order of the stream.
SessionFits ==
  /\ session = [events |-> session.events, reports |-> session.reports,
                completed |-> session.completed, summary |-> session.summary]
  /\ session.events \in Seq(Entries) /\ stream \in Seq(KindNames)
  /\ session.summary = Tally(session.events)
  /\ session.reports = session.summary["report.generated"]
  /\ \A i \in DOMAIN session.events :
       /\ session.events[i].at <= Len(stream)
       /\ stream[session.events[i].at] = session.events[i].kind
       /\ i > 1 => session.events[i - 1].at < session.events[i].at
StoryFits == Story(case, base, session.summary)
ManifestFits ==
  /\ manifest # <<>> => manifest = <<manifest[1]>>
  /\ manifest # <<>> => /\ manifest[1].required \in SUBSET Attachments
                        /\ IsFiniteSet(manifest[1].required)
                        /\ manifest[1].openRisks \subseteq Risks
HandoverFits == contract = Inherited /\ hops \in Nat
CaseInvariant == CasesFit /\ SessionFits /\ StoryFits /\ ManifestFits /\ HandoverFits

\* A session that was just opened has nothing to tell.
LEMMA FreshStory ==
  ASSUME NEW c, IsCase(c)
  PROVE  Story(c, c, Tally(<<>>))
<1>1. \A k \in KindNames : Tally(<<>>)[k] = 0
  BY TallyOfNone, KindsNamed
<1>2. QED
  BY <1>1, CaseNumbers DEF Story, KindNames

LEMMA GrowsTogether ==
  ASSUME NEW c, IsCase(c), NEW b, IsCase(b), NEW n, NEW d, NEW k \in KindNames, NEW p,
         \A i \in KindNames : n[i] \in Nat,
         \A i \in KindNames : p[i] = n[i] + By(k, {i}),
         Story(c, b, n), Grown(c, d, k)
  PROVE  Story(d, b, p)
<1>1. /\ n["task.started"] \in Nat /\ n["context.loaded"] \in Nat /\ n["decision.made"] \in Nat
      /\ n["task.completed"] \in Nat /\ n["artifact.changed"] \in Nat
      /\ n["report.generated"] \in Nat /\ n["approval.requested"] \in Nat
      /\ n["risk.detected"] \in Nat /\ n["handoff.created"] \in Nat
  BY DEF KindNames
<1>2. /\ p["task.started"] = n["task.started"] + By(k, {"task.started"})
      /\ p["context.loaded"] = n["context.loaded"] + By(k, {"context.loaded"})
      /\ p["decision.made"] = n["decision.made"] + By(k, {"decision.made"})
      /\ p["task.completed"] = n["task.completed"] + By(k, {"task.completed"})
      /\ p["artifact.changed"] = n["artifact.changed"] + By(k, {"artifact.changed"})
      /\ p["report.generated"] = n["report.generated"] + By(k, {"report.generated"})
      /\ p["approval.requested"] = n["approval.requested"] + By(k, {"approval.requested"})
      /\ p["risk.detected"] = n["risk.detected"] + By(k, {"risk.detected"})
      /\ p["handoff.created"] = n["handoff.created"] + By(k, {"handoff.created"})
  BY DEF KindNames
<1>3. IsCase(d)
  BY DEF Grown
<1>4. /\ c.contexts \in Nat /\ c.decisions \in Nat /\ c.minted \in Nat
      /\ Len(c.approvals) \in Nat /\ Len(c.handoffs) \in Nat /\ Cardinality(OpenRisks(c)) \in Nat
  BY CaseNumbers
<1>5. /\ b.contexts \in Nat /\ b.decisions \in Nat /\ b.minted \in Nat
      /\ Len(b.approvals) \in Nat /\ Len(b.handoffs) \in Nat /\ Cardinality(OpenRisks(b)) \in Nat
  BY CaseNumbers
<1>6. Len(d.handoffs) \in Nat
  BY <1>3, CaseNumbers
<1>8. d.contexts = b.contexts + p["task.started"] + p["context.loaded"]
  <2>1. /\ d.contexts = c.contexts + By(k, {"task.started", "context.loaded"})
        /\ c.contexts = b.contexts + n["task.started"] + n["context.loaded"]
    BY DEF Story, Grown
  <2>2. b.contexts \in Nat
    BY <1>5
  <2>3. n["task.started"] \in Nat /\ p["task.started"] = n["task.started"] + By(k, {"task.started"})
    BY <1>1, <1>2
  <2>4. n["context.loaded"] \in Nat /\ p["context.loaded"] = n["context.loaded"] + By(k, {"context.loaded"})
    BY <1>1, <1>2
  <2> QED
    BY ONLY <2>1, <2>2, <2>3, <2>4 DEF By
<1>9. d.decisions = b.decisions + p["decision.made"] + p["task.completed"]
  <2>1. /\ d.decisions = c.decisions + By(k, {"decision.made", "task.completed"})
        /\ c.decisions = b.decisions + n["decision.made"] + n["task.completed"]
    BY DEF Story, Grown
  <2>2. b.decisions \in Nat
    BY <1>5
  <2>3. n["decision.made"] \in Nat /\ p["decision.made"] = n["decision.made"] + By(k, {"decision.made"})
    BY <1>1, <1>2
  <2>4. n["task.completed"] \in Nat /\ p["task.completed"] = n["task.completed"] + By(k, {"task.completed"})
    BY <1>1, <1>2
  <2> QED
    BY ONLY <2>1, <2>2, <2>3, <2>4 DEF By
<1>10. d.minted = b.minted + p["artifact.changed"] + p["report.generated"]
  <2>1. /\ d.minted = c.minted + By(k, {"artifact.changed", "report.generated"})
        /\ c.minted = b.minted + n["artifact.changed"] + n["report.generated"]
    BY DEF Story, Grown
  <2>2. b.minted \in Nat
    BY <1>5
  <2>3. n["artifact.changed"] \in Nat /\ p["artifact.changed"] = n["artifact.changed"] + By(k, {"artifact.changed"})
    BY <1>1, <1>2
  <2>4. n["report.generated"] \in Nat /\ p["report.generated"] = n["report.generated"] + By(k, {"report.generated"})
    BY <1>1, <1>2
  <2> QED
    BY ONLY <2>1, <2>2, <2>3, <2>4 DEF By
<1>11. Len(d.approvals) = Len(b.approvals) + p["approval.requested"]
  <2>1. /\ Len(d.approvals) = Len(c.approvals) + By(k, {"approval.requested"})
        /\ Len(c.approvals) = Len(b.approvals) + n["approval.requested"]
    BY DEF Story, Grown
  <2>2. Len(b.approvals) \in Nat
    BY <1>5
  <2>3. n["approval.requested"] \in Nat /\ p["approval.requested"] = n["approval.requested"] + By(k, {"approval.requested"})
    BY <1>1, <1>2
  <2> QED
    BY ONLY <2>1, <2>2, <2>3 DEF By
<1>12. Cardinality(OpenRisks(d)) = Cardinality(OpenRisks(b)) + p["risk.detected"]
  <2>1. /\ Cardinality(OpenRisks(d)) = Cardinality(OpenRisks(c)) + By(k, {"risk.detected"})
        /\ Cardinality(OpenRisks(c)) = Cardinality(OpenRisks(b)) + n["risk.detected"]
    BY DEF Story, Grown
  <2>2. Cardinality(OpenRisks(b)) \in Nat
    BY <1>5
  <2>3. n["risk.detected"] \in Nat /\ p["risk.detected"] = n["risk.detected"] + By(k, {"risk.detected"})
    BY <1>1, <1>2
  <2> QED
    BY ONLY <2>1, <2>2, <2>3 DEF By
<1>13. Len(d.handoffs) >= Len(b.handoffs) + p["handoff.created"]
  <2>1. /\ Len(d.handoffs) >= Len(c.handoffs) + By(k, {"handoff.created"})
        /\ Len(c.handoffs) >= Len(b.handoffs) + n["handoff.created"]
    BY DEF Story, Grown
  <2>2. Len(b.handoffs) \in Nat /\ Len(c.handoffs) \in Nat /\ Len(d.handoffs) \in Nat
    BY <1>5, <1>4, <1>6
  <2>3. n["handoff.created"] \in Nat /\ p["handoff.created"] = n["handoff.created"] + By(k, {"handoff.created"})
    BY <1>1, <1>2
  <2>4. PICK x \in {0, 1} : x = By(k, {"handoff.created"})
    BY DEF By
  <2>5. PICK y \in Nat : y = n["handoff.created"]
    BY <2>3
  <2>6. PICK z \in Int : z = p["handoff.created"]
    BY <2>3, <2>4, <2>5
  <2>7. z = y + x /\ Len(d.handoffs) >= Len(b.handoffs) + y + x
    <3>1. PICK lb, lc, ld : lb = Len(b.handoffs) /\ lc = Len(c.handoffs) /\ ld = Len(d.handoffs)
      OBVIOUS
    <3>2. lb \in Nat /\ lc \in Nat /\ ld \in Nat
      BY <2>2, <3>1
    <3>3. ld >= lc + x /\ lc >= lb + y
      BY <2>1, <2>4, <2>5, <3>1
    <3>4. ld >= lb + y + x
      BY ONLY <2>4, <2>5, <3>2, <3>3
    <3>5. z = y + x
      BY <2>3, <2>4, <2>5, <2>6
    <3>6. QED
      BY <3>1, <3>4, <3>5
  <2>8. Len(d.handoffs) >= Len(b.handoffs) + z
    BY <2>2, <2>4, <2>5, <2>7
  <2> QED
    BY <2>6, <2>8
<1>14. QED
  BY <1>8, <1>9, <1>10, <1>11, <1>12, <1>13 DEF Story

\* What no event tells is not in the story either.
LEMMA NothingGrows ==
  ASSUME NEW c, IsCase(c), NEW b, IsCase(b), NEW n, NEW d,
         \A i \in KindNames : n[i] \in Nat,
         Story(c, b, n), Grown(c, d, "")
  PROVE  Story(d, b, n)
<1>1. /\ c.contexts \in Nat /\ c.decisions \in Nat /\ c.minted \in Nat
      /\ Len(c.approvals) \in Nat /\ Len(c.handoffs) \in Nat /\ Cardinality(OpenRisks(c)) \in Nat
  BY CaseNumbers
<1>2. /\ d.contexts = c.contexts /\ d.decisions = c.decisions /\ d.minted = c.minted
      /\ Len(d.approvals) = Len(c.approvals) /\ Cardinality(OpenRisks(d)) = Cardinality(OpenRisks(c))
      /\ Len(d.handoffs) >= Len(c.handoffs)
  BY <1>1 DEF Grown, By
<1>3. IsCase(d)
  BY DEF Grown
<1>4. Len(d.handoffs) >= Len(b.handoffs) + n["handoff.created"]
  <2>1. Len(d.handoffs) \in Nat /\ Len(b.handoffs) \in Nat /\ n["handoff.created"] \in Nat
    BY <1>3, CaseNumbers DEF KindNames
  <2>2. Len(c.handoffs) >= Len(b.handoffs) + n["handoff.created"]
    BY DEF Story
  <2>3. QED
    BY ONLY <1>1, <1>2, <2>1, <2>2
<1>5. QED
  BY <1>2, <1>4 DEF Story

LEMMA CaseStarts == CaseInit => CaseInvariant
<1> SUFFICES ASSUME CaseInit PROVE CaseInvariant
  OBVIOUS
<1>1. PICK ds, s : s \in {"open", "blocked"} /\ case = NewCase(Owner, {}, ds, s)
  <2>1. \E ds \in {{}, {CHOOSE p \in Person : p # Owner}}, s \in {"open", "blocked"} :
           case = NewCase(Owner, {}, ds, s)
    BY DEF CaseInit
  <2>2. PICK ds \in {{}, {CHOOSE p \in Person : p # Owner}} :
          \E s \in {"open", "blocked"} : case = NewCase(Owner, {}, ds, s)
    BY <2>1
  <2>3. QED
    BY <2>2
<1>2. CasesFit
  BY <1>1, CaseCreated DEF CaseInit, CasesFit
<1>3. /\ session = [events |-> <<>>, reports |-> 0, completed |-> FALSE, summary |-> Tally(<<>>)]
      /\ stream = <<>> /\ manifest = <<>> /\ base = case /\ contract = Inherited /\ hops = 0
  BY DEF CaseInit, NewSession
<1>4. Tally(<<>>)["report.generated"] = 0
  BY TallyOfNone, KindsNamed DEF KindNames
<1>5. SessionFits
  BY <1>3, <1>4 DEF SessionFits
<1>6. StoryFits
  BY <1>2, <1>3, FreshStory DEF StoryFits, CasesFit
<1>7. QED
  BY <1>2, <1>3, <1>5, <1>6 DEF CaseInvariant, ManifestFits, HandoverFits

LEMMA EventLogged ==
  ASSUME SessionFits, NEW e, e.kind \in KindNames, stream' = Append(stream, e.kind),
         session' = Logged(session, e)
  PROVE  /\ SessionFits'
         /\ \A k \in KindNames : session'.summary[k] = session.summary[k] + By(e.kind, {k})
         /\ \A k \in KindNames : session.summary[k] \in Nat
<1>1. PICK x : x = [kind |-> e.kind, at |-> Len(stream) + 1]
  OBVIOUS
<1>2. PICK es : es = Append(session.events, x)
  OBVIOUS
<1>3. PICK r : r = session.reports + (IF e.kind = "report.generated" THEN 1 ELSE 0)
  OBVIOUS
<1>4. PICK t : t = Tally(es)
  OBVIOUS
<1>5. session' = [session EXCEPT !.events = es, !.summary = t, !.reports = r]
  BY <1>1, <1>2, <1>3, <1>4 DEF Logged
<1>6. session' = [events |-> es, reports |-> r, completed |-> session.completed, summary |-> t]
  BY <1>5 DEF SessionFits
<1>7. Len(stream) \in Nat /\ x \in Entries /\ x.kind = e.kind /\ x.at = Len(stream) + 1
  BY <1>1 DEF SessionFits, Entries
<1>8. /\ es \in Seq(Entries) /\ Len(es) = Len(session.events) + 1 /\ es[Len(es)] = x
      /\ \A i \in DOMAIN session.events : es[i] = session.events[i]
      /\ DOMAIN es = DOMAIN session.events \cup {Len(es)}
      /\ DOMAIN session.events = 1 .. Len(session.events) /\ Len(session.events) \in Nat
  BY <1>2, <1>7 DEF SessionFits
<1>9. /\ stream' \in Seq(KindNames) /\ Len(stream') = Len(stream) + 1
      /\ stream'[Len(stream) + 1] = e.kind
      /\ \A i \in 1 .. Len(stream) : stream'[i] = stream[i]
  BY DEF SessionFits
<1>10. /\ \A k \in KindNames : t[k] = session.summary[k] + By(e.kind, {k})
       /\ \A k \in KindNames : session.summary[k] \in Nat
  <2>1. session.events \in Seq(Entries) /\ session.summary = Tally(session.events)
    BY DEF SessionFits
  <2> SUFFICES ASSUME NEW k \in KindNames
               PROVE  t[k] = session.summary[k] + By(e.kind, {k}) /\ session.summary[k] \in Nat
    OBVIOUS
  <2>2. k \in Kinds
    BY KindsNamed
  <2>3. Tally(es)[k] = Tally(session.events)[k] + By(x.kind, {k})
    BY <1>2, <1>7, <2>1, <2>2, TallyOfMore
  <2>4. Tally(session.events)[k] \in Nat
    BY <2>1, <2>2, TallyIsNatural
  <2>5. QED
    BY <1>4, <1>7, <2>1, <2>3, <2>4
<1>11. r = t["report.generated"]
  BY <1>3, <1>10 DEF SessionFits, By, KindNames
<1>12. ASSUME NEW i \in DOMAIN es
       PROVE  /\ es[i].at <= Len(stream') /\ stream'[es[i].at] = es[i].kind
              /\ i > 1 => es[i - 1].at < es[i].at
  <2>1. CASE i \in DOMAIN session.events
    <3>1. session.events[i] \in Entries /\ session.events[i].at \in 1 .. Len(stream)
      <4>1. session.events[i] \in Entries /\ session.events[i].at <= Len(stream)
        BY <2>1 DEF SessionFits
      <4>2. session.events[i].at \in Nat \ {0}
        BY <4>1 DEF Entries
      <4>3. QED
        BY <1>7, <4>1, <4>2
    <3>2. es[i].at <= Len(stream') /\ stream'[es[i].at] = es[i].kind
      BY <1>7, <1>8, <1>9, <2>1, <3>1 DEF SessionFits
    <3>3. i > 1 => i - 1 \in DOMAIN session.events
      BY <1>8, <2>1
    <3>4. QED
      BY <1>8, <2>1, <3>2, <3>3 DEF SessionFits
  <2>2. CASE i = Len(es)
    <3>1. i > 1 => /\ i - 1 \in DOMAIN session.events
                   /\ session.events[i - 1].at <= Len(stream)
                   /\ session.events[i - 1].at \in Nat
      <4>1. i > 1 => i - 1 \in DOMAIN session.events
        BY <1>8, <2>2
      <4>2. i > 1 => session.events[i - 1] \in Entries /\ session.events[i - 1].at <= Len(stream)
        BY <4>1 DEF SessionFits
      <4>3. QED
        BY <4>1, <4>2 DEF Entries
    <3>2. i > 1 => es[i - 1] = session.events[i - 1]
      BY <1>8, <3>1
    <3>3. es[i] = x
      BY <1>8, <2>2
    <3>4. QED
      BY <1>7, <1>9, <3>1, <3>2, <3>3
  <2>3. QED
    BY <1>8, <2>1, <2>2
<1>13. SessionFits'
  <2>1. /\ session'.events = es /\ session'.reports = r /\ session'.summary = t
        /\ session'.completed = session.completed
    BY <1>6
  <2>2. QED
    BY <1>4, <1>6, <1>8, <1>9, <1>11, <1>12, <2>1 DEF SessionFits
<1>14. QED
  BY <1>6, <1>10, <1>13

\* What a manifest takes over from its case.
LEMMA ManifestMade ==
  ASSUME NEW c, IsCase(c), NEW m, m = Manifest(c)
  PROVE  /\ m.required \in SUBSET Attachments /\ IsFiniteSet(m.required)
         /\ m.openRisks = {c.risks[i] : i \in OpenRisks(c)} /\ m.openRisks \subseteq Risks
         /\ m.pending = Pending(c) /\ m.participants = Listed(c)
<1>1. /\ m.required = Required(c) /\ m.openRisks = {c.risks[i] : i \in OpenRisks(c)}
      /\ m.pending = Pending(c) /\ m.participants = Listed(c)
  BY DEF Manifest
<1>2. Required(c) \subseteq c.attachments
  BY DEF Required
<1>3. Required(c) \in SUBSET Attachments /\ IsFiniteSet(Required(c))
  BY <1>2, FS_Subset DEF IsCase
<1>4. \A i \in OpenRisks(c) : c.risks[i] \in Risks
  BY DEF OpenRisks, IsCase
<1>5. QED
  BY <1>1, <1>3, <1>4

LEMMA CaseStep == CaseInvariant /\ [CaseNext]_caseVars => CaseInvariant'
<1> SUFFICES ASSUME CaseInvariant, [CaseNext]_caseVars PROVE CaseInvariant'
  OBVIOUS
<1> USE DEF CaseInvariant
<1>1. CASE \E e \in Events : Emit(e)
  <2>1. PICK e \in Events : Emit(e)
    BY <1>1
  <2>2. e.kind \in KindNames
    BY EventShapes
  <2>3. UNCHANGED <<base, manifest, contract, deeds, hops>> /\ stream' = Append(stream, e.kind)
    BY <2>1 DEF Emit
  <2>4. ManifestFits' /\ HandoverFits'
    BY <2>3 DEF ManifestFits, HandoverFits
  <2>5. CASE ~Refuses(case, e) /\ case' = Applied(case, e) /\ session' = Logged(session, e)
    <3>1. PICK d : d = case'
      OBVIOUS
    <3>2. Grown(case, d, e.kind)
      BY <2>5, <3>1, AppliedGrows DEF CasesFit
    <3>3. CasesFit'
      BY <2>3, <3>1, <3>2 DEF CasesFit, Grown
    <3>4. /\ SessionFits'
          /\ \A k \in KindNames : session'.summary[k] = session.summary[k] + By(e.kind, {k})
          /\ \A k \in KindNames : session.summary[k] \in Nat
      BY <2>2, <2>3, <2>5, EventLogged
    <3>5. Story(d, base, session'.summary)
      <4>1. PICK n, p, k : n = session.summary /\ p = session'.summary /\ k = e.kind
        OBVIOUS
      <4>2. /\ k \in KindNames /\ \A i \in KindNames : n[i] \in Nat
            /\ \A i \in KindNames : p[i] = n[i] + By(k, {i})
        BY <2>2, <3>4, <4>1
      <4>3. IsCase(case) /\ IsCase(base) /\ Story(case, base, n) /\ Grown(case, d, k)
        BY <3>2, <4>1 DEF CasesFit, StoryFits
      <4>4. Story(d, base, p)
        BY ONLY <4>2, <4>3, GrowsTogether
      <4>5. QED
        BY <4>1, <4>4
    <3>6. StoryFits'
      BY <2>3, <3>1, <3>5 DEF StoryFits
    <3>7. QED
      BY <2>4, <3>3, <3>4, <3>6
  <2>6. CASE Refuses(case, e) /\ UNCHANGED <<case, session>>
    <3>1. CasesFit' /\ StoryFits'
      BY <2>3, <2>6 DEF CasesFit, StoryFits
    <3>2. /\ stream' \in Seq(KindNames) /\ Len(stream') = Len(stream) + 1 /\ Len(stream) \in Nat
          /\ \A i \in 1 .. Len(stream) : stream'[i] = stream[i]
      BY <2>2, <2>3 DEF SessionFits
    <3>3. ASSUME NEW i \in DOMAIN session.events
          PROVE  /\ session.events[i].at <= Len(stream')
                 /\ stream'[session.events[i].at] = session.events[i].kind
      <4>1. session.events[i] \in Entries /\ session.events[i].at <= Len(stream)
        BY DEF SessionFits
      <4>2. session.events[i].at \in Nat \ {0}
        BY <4>1 DEF Entries
      <4>3. QED
        BY <3>2, <4>1, <4>2 DEF SessionFits
    <3>4. SessionFits'
      BY <2>6, <3>2, <3>3 DEF SessionFits
    <3>5. QED
      BY <2>4, <3>1, <3>4
  <2>7. QED
    BY <2>1, <2>5, <2>6 DEF Emit
<1>2. CASE Complete
  <2>1. /\ UNCHANGED <<case, base, stream, manifest, contract, deeds, hops>>
        /\ session' = [session EXCEPT !.completed = TRUE]
    BY <1>2 DEF Complete
  <2>2. session' = [events |-> session.events, reports |-> session.reports,
                    completed |-> TRUE, summary |-> session.summary]
    BY <2>1 DEF SessionFits
  <2>3. SessionFits'
    BY <2>1, <2>2 DEF SessionFits
  <2>4. QED
    BY <2>1, <2>2, <2>3 DEF CasesFit, StoryFits, ManifestFits, HandoverFits
<1>3. CASE Deeds
  <2>1. UNCHANGED <<base, session, stream, manifest, contract, hops>>
    BY <1>3 DEF Deeds, Deed
  <2>2. Grown(case, case', "")
    BY <1>3, DeedsKeepCounts DEF CasesFit
  <2>3. CasesFit'
    BY <2>1, <2>2 DEF CasesFit, Grown
  <2>4. StoryFits'
    <3>1. PICK d : d = case'
      OBVIOUS
    <3>2. \A k \in KindNames : session.summary[k] \in Nat
      BY TallyIsNatural, KindsNamed DEF SessionFits
    <3>3. Story(d, base, session.summary)
      BY <2>2, <3>1, <3>2, NothingGrows DEF CasesFit, StoryFits
    <3>4. QED
      BY <2>1, <3>1, <3>3 DEF StoryFits
  <2>5. QED
    BY <2>1, <2>3, <2>4 DEF SessionFits, ManifestFits, HandoverFits
<1>4. CASE MakeManifest
  <2>1. /\ UNCHANGED <<case, base, session, stream, contract, deeds, hops>>
        /\ manifest' = <<Manifest(case)>>
    BY <1>4 DEF MakeManifest
  <2>2. PICK m : m = Manifest(case)
    OBVIOUS
  <2>3. manifest' = <<m>> /\ manifest'[1] = m
    BY <2>1, <2>2
  <2>4. ManifestFits'
    BY <2>2, <2>3, ManifestMade DEF ManifestFits, CasesFit
  <2>5. QED
    BY <2>1, <2>4 DEF CasesFit, SessionFits, StoryFits, HandoverFits
<1>5. CASE \E o \in Option, requested \in Contract : Receive(o, requested)
  <2>1. PICK o, requested : Receive(o, requested)
    BY <1>5
  <2>2. PICK m : /\ m \in ToSet(manifest) /\ case' = Hydrated(m, o) /\ base' = case'
                 /\ session' = NewSession /\ manifest' = <<>> /\ hops' = hops + 1
                 /\ contract' = contract /\ UNCHANGED stream
    BY <2>1 DEF Receive, HandoffVerdict
  <2>3. manifest # <<>> /\ m = manifest[1]
    BY <2>2 DEF ToSet, ManifestFits
  <2>4. PICK h : h = case'
    OBVIOUS
  <2>5. IsCase(h) /\ Truthful(h)
    BY <2>2, <2>3, <2>4, SuccessorsCase DEF ManifestFits
  <2>6. CasesFit'
    BY <2>2, <2>4, <2>5 DEF CasesFit
  <2>7. session' = [events |-> <<>>, reports |-> 0, completed |-> FALSE, summary |-> Tally(<<>>)]
    BY <2>2 DEF NewSession
  <2>8. SessionFits'
    <3>1. Tally(<<>>)["report.generated"] = 0
      BY TallyOfNone, KindsNamed DEF KindNames
    <3>2. QED
      BY <2>2, <2>7, <3>1 DEF SessionFits
  <2>9. StoryFits'
    <3>1. Story(h, h, Tally(<<>>))
      BY <2>5, FreshStory
    <3>2. QED
      BY <2>2, <2>4, <2>7, <3>1 DEF StoryFits
  <2>10. QED
    BY <2>2, <2>6, <2>8, <2>9 DEF ManifestFits, HandoverFits
<1>6. CASE UNCHANGED caseVars
  BY <1>6 DEF caseVars, CasesFit, SessionFits, StoryFits, ManifestFits, HandoverFits
<1>7. QED
  BY <1>1, <1>2, <1>3, <1>4, <1>5, <1>6 DEF CaseNext

\* Every case, session, stream and manifest that can be reached fits together.
THEOREM CasesKeepTheirInvariant == CaseSpec => []CaseInvariant
<1>1. CaseInit => CaseInvariant
  BY CaseStarts
<1>2. CaseInvariant /\ [CaseNext]_caseVars => CaseInvariant'
  BY CaseStep
<1>3. QED
  BY <1>1, <1>2, PTL DEF CaseSpec

\* A session and its case tell one story: what it logged is in the stream in that
\* order, and its case has grown by what it counted and by nothing else.
THEOREM CasesTellTheirSession == CaseSpec => []CaseTellsTheSession
<1>1. ASSUME CaseInvariant PROVE CaseTellsTheSession
  <2>1. \A k \in KindNames : session.summary[k] \in Nat
    BY <1>1, TallyIsNatural, KindsNamed DEF CaseInvariant, SessionFits
  <2>2. /\ session.summary["task.started"] \in Nat /\ session.summary["context.loaded"] \in Nat
        /\ session.summary["decision.made"] \in Nat /\ session.summary["task.completed"] \in Nat
        /\ session.summary["artifact.changed"] \in Nat /\ session.summary["report.generated"] \in Nat
        /\ session.summary["approval.requested"] \in Nat /\ session.summary["risk.detected"] \in Nat
        /\ session.summary["handoff.created"] \in Nat
    BY <2>1 DEF KindNames
  <2>3. /\ case.contexts - base.contexts = session.summary["task.started"] + session.summary["context.loaded"]
        /\ case.decisions - base.decisions = session.summary["decision.made"] + session.summary["task.completed"]
        /\ case.minted - base.minted = session.summary["artifact.changed"] + session.summary["report.generated"]
    <3>1. base.contexts \in Nat /\ base.decisions \in Nat /\ base.minted \in Nat
      BY <1>1 DEF CaseInvariant, CasesFit, IsCase
    <3>2. /\ case.contexts = base.contexts + session.summary["task.started"] + session.summary["context.loaded"]
          /\ case.decisions = base.decisions + session.summary["decision.made"] + session.summary["task.completed"]
          /\ case.minted = base.minted + session.summary["artifact.changed"] + session.summary["report.generated"]
      BY <1>1 DEF CaseInvariant, StoryFits, Story
    <3>3. QED
      BY ONLY <2>2, <3>1, <3>2
  <2>4. /\ Len(case.approvals) - Len(base.approvals) = session.summary["approval.requested"]
        /\ Cardinality(OpenRisks(case)) - Cardinality(OpenRisks(base)) = session.summary["risk.detected"]
        /\ Len(case.handoffs) - Len(base.handoffs) >= session.summary["handoff.created"]
    <3>1. /\ Len(base.approvals) \in Nat /\ Len(base.handoffs) \in Nat
          /\ Cardinality(OpenRisks(base)) \in Nat /\ Len(case.handoffs) \in Nat
      BY <1>1, CaseNumbers DEF CaseInvariant, CasesFit
    <3>2. /\ Len(case.approvals) = Len(base.approvals) + session.summary["approval.requested"]
          /\ Cardinality(OpenRisks(case)) = Cardinality(OpenRisks(base)) + session.summary["risk.detected"]
          /\ Len(case.handoffs) >= Len(base.handoffs) + session.summary["handoff.created"]
      BY <1>1 DEF CaseInvariant, StoryFits, Story
    <3>3. QED
      <4>1. PICK a, b, h \in Int :
              a = Len(base.approvals) /\ b = Cardinality(OpenRisks(base)) /\ h = Len(base.handoffs)
        BY <3>1
      <4>2. PICK n, m \in Int : /\ n = session.summary["approval.requested"]
                                /\ m = session.summary["risk.detected"]
        BY <2>2
      <4>3. PICK g, k \in Int : g = Len(case.handoffs) /\ k = session.summary["handoff.created"]
        BY <2>2, <3>1
      <4>4. Len(case.approvals) = a + n /\ Cardinality(OpenRisks(case)) = b + m /\ g >= h + k
        BY <3>2, <4>1, <4>2, <4>3
      <4>5. (a + n) - a = n /\ (b + m) - b = m /\ g - h >= k
        BY <4>4
      <4>6. QED
        BY <4>1, <4>2, <4>3, <4>4, <4>5
  <2>5. /\ \A i \in DOMAIN session.events :
             /\ stream[session.events[i].at] = session.events[i].kind
             /\ i > 1 => session.events[i - 1].at < session.events[i].at
        /\ session.summary = Tally(session.events)
        /\ session.reports = session.summary["report.generated"]
    BY <1>1 DEF CaseInvariant, SessionFits
  <2>6. QED
    BY <2>3, <2>4, <2>5 DEF CaseTellsTheSession
<1>2. QED
  BY <1>1, CasesKeepTheirInvariant, PTL

\* The status of a case says what its approvals and its closing time say.
THEOREM StatusesTellTheTruth == CaseSpec => []StatusTellsTheTruth
<1>1. ASSUME CaseInvariant PROVE StatusTellsTheTruth
  BY <1>1 DEF CaseInvariant, CasesFit, Truthful, StatusTellsTheTruth
<1>2. QED
  BY <1>1, CasesKeepTheirInvariant, PTL

\* A successor's case holds everybody and every required attachment of a manifest
\* that held no severe risk and no pending approval, under the first contract.
THEOREM SuccessorsAnswerToManifests == CaseSpec => SuccessorAnswersToManifest
<1> DEFINE AnswersFor ==
      hops' > hops =>
        LET m == manifest[1]
        IN /\ m.participants \subseteq Listed(case')
           /\ {a.origin : a \in case'.attachments} \ {0} = {FirstId(a) : a \in m.required}
           /\ m.pending = {} /\ \A r \in m.openRisks : r.severity = "medium"
           /\ contract' = Inherited
<1>1. ASSUME CaseInvariant, [CaseNext]_caseVars PROVE AnswersFor
  <2>1. SUFFICES ASSUME hops' > hops PROVE AnswersFor
    OBVIOUS
  <2>2. hops' # hops
    BY <1>1, <2>1 DEF CaseInvariant, HandoverFits
  <2>3. PICK o, requested : Receive(o, requested)
    BY <1>1, <2>2 DEF CaseNext, Emit, Complete, Deeds, Deed, MakeManifest, caseVars
  <2>4. PICK m : /\ m \in ToSet(manifest) /\ HandoffVerdict(m, contract, requested).allowed
                 /\ case' = Hydrated(m, o)
                 /\ contract' = HandoffVerdict(m, contract, requested).effectiveContract
    BY <2>3 DEF Receive
  <2>5. manifest # <<>> /\ m = manifest[1]
    BY <1>1, <2>4 DEF ToSet, CaseInvariant, ManifestFits
  <2>6. m.required \in SUBSET Attachments /\ IsFiniteSet(m.required) /\ m.openRisks \subseteq Risks
    BY <1>1, <2>5 DEF CaseInvariant, ManifestFits
  <2>7. PICK h : h = case'
    OBVIOUS
  <2>8. /\ m.participants \subseteq Listed(h)
        /\ Origins(h.attachments) \ {0} = {FirstId(a) : a \in m.required}
    BY <2>4, <2>6, <2>7, SuccessorsCase
  <2>9. m.pending = {} /\ \A r \in m.openRisks : r.severity = "medium"
    BY <2>4, <2>6 DEF HandoffVerdict, Risks
  <2>10. contract' = Inherited
    BY <1>1, <2>4 DEF HandoffVerdict, CaseInvariant, HandoverFits
  <2>11. QED
    BY <2>5, <2>7, <2>8, <2>9, <2>10 DEF Origins
<1>2. QED
  BY <1>1, CasesKeepTheirInvariant, PTL DEF CaseSpec, SuccessorAnswersToManifest

\* The reports about a case agree with one another and with its manifest.
THEOREM QueriesStayInAgreement == CaseSpec => []QueriesAgree
<1>1. ASSUME IsCase(case) PROVE QueriesAgree
  <2>1. PICK m : m = Manifest(case)
    OBVIOUS
  <2>2. /\ m.openRisks = {case.risks[i] : i \in OpenRisks(case)} /\ m.pending = Pending(case)
    BY <1>1, <2>1, ManifestMade
  <2>3. PICK ready, handed, safe, audited :
          /\ ready = Answer(case, "release-readiness").passed
          /\ handed = Answer(case, "handoff-summary").passed
          /\ safe = Answer(case, "safety-summary").passed
          /\ audited = Answer(case, "governance-audit").passed
    OBVIOUS
  <2>4. /\ "risksClosed" \in ready <=> OpenRisks(case) = {}
        /\ "approved" \in ready <=> case.approvals # <<>> /\ Last(case.approvals) = "approved"
        /\ "handoffs" \in ready <=> case.handoffs # <<>>
        /\ "handoffs" \in handed <=> case.handoffs # <<>>
        /\ "handoffs" \in safe <=> case.handoffs # <<>>
        /\ "handoffs" \in audited <=> case.handoffs # <<>>
    BY <2>3 DEF Answer, Asks, Has
  <2>5. "risksClosed" \in ready <=> m.openRisks = {}
    BY <2>2, <2>4
  <2>6. "approved" \in ready => Len(case.approvals) \notin m.pending
    BY <2>2, <2>4 DEF Pending, Last
  <2>7. ReleaseReady(case) => m.pending # {} \/ HandoffVerdict(m, Inherited, Inherited).allowed
    <3>1. SUFFICES ASSUME ReleaseReady(case), m.pending = {}
                   PROVE  HandoffVerdict(m, Inherited, Inherited).allowed
      OBVIOUS
    <3>2. m.openRisks = {}
      BY <2>3, <2>5, <3>1 DEF ReleaseReady
    <3>3. Within(Inherited.allowed, Inherited.allowed) /\ Preserves(Inherited.blocked, Inherited.blocked)
      BY CaseAssumption DEF Within, Preserves, Alike
    <3>4. QED
      BY <3>1, <3>2, <3>3 DEF HandoffVerdict
  <2>8. PICK passed : passed = [q \in {"safety-summary", "governance-audit", "release-readiness",
                                       "handoff-summary"} |-> Answer(case, q).passed]
    OBVIOUS
  <2>9. /\ passed["release-readiness"] = ready /\ passed["handoff-summary"] = handed
        /\ passed["safety-summary"] = safe /\ passed["governance-audit"] = audited
        /\ DOMAIN passed = {"safety-summary", "governance-audit", "release-readiness", "handoff-summary"}
    BY <2>3, <2>8
  <2>10. \A q \in DOMAIN passed : "handoffs" \in passed[q] <=> "handoffs" \in passed["handoff-summary"]
    BY <2>4, <2>9
  <2>11. QED
    BY <2>1, <2>5, <2>6, <2>7, <2>8, <2>9, <2>10 DEF QueriesAgree
<1>2. CaseInvariant => IsCase(case)
  BY DEF CaseInvariant, CasesFit
<1>3. QED
  BY <1>1, <1>2, CasesKeepTheirInvariant, PTL

-----------------------------------------------------------------------------
(* What the policies of a question come to.                                *)

\* The risks that an assessment may find, and what it may come to.
Findable(in) == InferredRisks(in) \cup ScenarioRisks(in) \cup {Risk("UNVERIFIED_EVIDENCE", 70)}
Opinions(in) == [risks : SUBSET Findable(in), verdicts : SUBSET Verdicts]
Unjudged(in) == [risks |-> InferredRisks(in) \cup ScenarioRisks(in), verdicts |-> {}]

\* The recursion that Assess is: u[i] is the opinion after i policies.
AssessedBy(u, in) ==
  /\ u[0] = Unjudged(in)
  /\ \A i \in 1 .. Len(in.policies) : u[i] = ApplyPolicy(in, u[i - 1], in.policies[i])

LEMMA InputTells ==
  ASSUME NEW in \in RiskInputs
  PROVE  /\ in.words \subseteq DOMAIN WordRisk /\ in.measures \subseteq DOMAIN MeasureRisk
         /\ in.clauses \subseteq DOMAIN ClauseRisk \cup {"approvalFor"}
         /\ in.policies \in Seq(CustomPolicies) /\ Len(in.policies) \in Nat
         /\ \A i \in 1 .. Len(in.policies) : in.policies[i] \in CustomPolicies
         /\ in.approved \in BOOLEAN /\ in.expired \in BOOLEAN
         /\ in.failClosed \in BOOLEAN /\ in.evidence \in BOOLEAN
<1>1. in.policies \in Seq(CustomPolicies)
  BY DEF RiskInputs
<1> QED BY <1>1 DEF RiskInputs

\* No risk counts more than 90, and 90 only what the scenario forbids.
LEMMA ScoresTell ==
  ASSUME NEW in \in RiskInputs, NEW r \in Findable(in)
  PROVE  r.score \in 0 .. 90 /\ (r.score >= 90 => Forbidden(in))
<1>1. CASE \E w \in in.words : r = WordRisk[w]
  <2>1. PICK w \in in.words : r = WordRisk[w]
    BY <1>1
  <2>2. w \in DOMAIN WordRisk
    BY <2>1, InputTells
  <2>3. r.score \in 0 .. 89
    BY <2>1, <2>2 DEF WordRisk, Risk
  <2> QED BY <2>3
<1>2. CASE \E m \in in.measures : r = MeasureRisk[m]
  <2>1. PICK m \in in.measures : r = MeasureRisk[m]
    BY <1>2
  <2>2. m \in DOMAIN MeasureRisk
    BY <2>1, InputTells
  <2>3. r.score \in 0 .. 89
    BY <2>1, <2>2 DEF MeasureRisk, Risk
  <2> QED BY <2>3
<1>3. CASE r \in ScenarioRisks(in)
  <2>1. PICK c \in in.clauses : c # "approvalFor" /\ r = ClauseRisk[c]
    BY <1>3 DEF ScenarioRisks
  <2>2. c \in DOMAIN ClauseRisk
    BY <2>1, InputTells
  <2>3. r.score \in 0 .. 90 /\ (r.score >= 90 => c \in {"forbiddenAction", "forbiddenTool"})
    BY <2>1, <2>2 DEF ClauseRisk, Risk
  <2> QED BY <2>1, <2>3 DEF Forbidden
<1>4. CASE r = Risk("UNVERIFIED_EVIDENCE", 70)
  BY <1>4 DEF Risk
<1> QED BY <1>1, <1>2, <1>3, <1>4 DEF Findable, InferredRisks

LEMMA ApplyTells ==
  ASSUME NEW in, NEW p \in CustomPolicies, NEW o \in Opinions(in)
  PROVE  ApplyPolicy(in, o, p) \in Opinions(in)
<1>1. p.verdict \in Verdicts /\ o.risks \in SUBSET Findable(in) /\ o.verdicts \in SUBSET Verdicts
  BY DEF CustomPolicies, Opinions
<1>2. CASE p.risks # {} /\ \A r \in o.risks : r.id \notin p.risks
  BY <1>2 DEF ApplyPolicy
<1>3. CASE ~(p.risks # {} /\ \A r \in o.risks : r.id \notin p.risks)
  <2>1. PICK R : R = IF p.needsEvidence /\ ~in.evidence
                     THEN o.risks \cup {Risk("UNVERIFIED_EVIDENCE", 70)} ELSE o.risks
    OBVIOUS
  <2>2. R \in SUBSET Findable(in)
    BY <1>1, <2>1 DEF Findable
  <2>3. ApplyPolicy(in, o, p) = [risks |-> R, verdicts |-> o.verdicts \cup {p.verdict}]
    BY <1>3, <2>1 DEF ApplyPolicy
  <2> QED BY <1>1, <2>2, <2>3 DEF Opinions
<1> QED BY <1>2, <1>3

LEMMA AssessTells ==
  ASSUME NEW in \in RiskInputs
  PROVE  \E u : /\ AssessedBy(u, in)
                /\ \A i \in 0 .. Len(in.policies) : u[i] \in Opinions(in)
                /\ Assess(in) = [u[Len(in.policies)] EXCEPT !.risks = Highest(@)]
<1>1. PICK n \in Nat : n = Len(in.policies)
  BY InputTells
<1>2. PICK V, a : V = Opinions(in) /\ a = Unjudged(in)
  OBVIOUS
<1>3. a \in V
  BY <1>2 DEF Unjudged, Opinions, Findable
<1>4. PICK g : g = [x \in (1 .. n) \X V |-> ApplyPolicy(in, x[2], in.policies[x[1]])]
  OBVIOUS
<1>5. g \in [(1 .. n) \X V -> V]
  <2>1. ASSUME NEW x \in (1 .. n) \X V PROVE g[x] \in V
    <3>1. x[1] \in 1 .. n /\ x[2] \in V
      OBVIOUS
    <3>2. in.policies[x[1]] \in CustomPolicies
      BY <1>1, <3>1, InputTells
    <3> QED BY <1>2, <1>4, <3>1, <3>2, ApplyTells
  <2> QED BY <1>4, <2>1
<1>6. PICK w \in [0 .. n -> V] : Recursion(w, n, a, g)
  BY <1>3, <1>5, RecursionExists
<1>7. w[0] = a /\ \A i \in 1 .. n : w[i] = ApplyPolicy(in, w[i - 1], in.policies[i])
  <2>1. w[0] = a
    BY <1>6 DEF Recursion
  <2>2. ASSUME NEW i \in 1 .. n PROVE w[i] = ApplyPolicy(in, w[i - 1], in.policies[i])
    <3>1. i - 1 \in 0 .. n
      OBVIOUS
    <3>2. PICK x : x = <<i, w[i - 1]>>
      OBVIOUS
    <3>3. x \in (1 .. n) \X V /\ x[1] = i /\ x[2] = w[i - 1]
      BY <3>1, <3>2
    <3>4. w[i] = g[x]
      BY <1>6, <3>2 DEF Recursion
    <3> QED BY <1>4, <3>3, <3>4
  <2> QED BY <2>1, <2>2
<1>8. PICK u : u = CHOOSE q : q = [i \in 0 .. n |->
          IF i = 0 THEN a ELSE ApplyPolicy(in, q[i - 1], in.policies[i])]
  OBVIOUS
<1>9. w = [i \in 0 .. n |-> IF i = 0 THEN a ELSE ApplyPolicy(in, w[i - 1], in.policies[i])]
  <2>1. PICK q : q = [i \in 0 .. n |-> IF i = 0 THEN a ELSE ApplyPolicy(in, w[i - 1], in.policies[i])]
    OBVIOUS
  <2>2. ASSUME NEW i \in 0 .. n PROVE w[i] = q[i]
    <3>1. CASE i = 0
      BY <1>7, <2>1, <3>1
    <3>2. CASE i # 0
      <4>1. i \in 1 .. n
        BY <3>2
      <4>2. q[i] = ApplyPolicy(in, w[i - 1], in.policies[i])
        BY <2>1, <3>2
      <4> QED BY <1>7, <4>1, <4>2
    <3> QED BY <3>1, <3>2
  <2>3. DOMAIN q = 0 .. n /\ DOMAIN w = 0 .. n /\ q = [i \in DOMAIN q |-> q[i]]
        /\ w = [i \in DOMAIN w |-> w[i]]
    BY <1>6, <2>1
  <2>4. w = q
    BY <2>2, <2>3
  <2> QED BY <2>1, <2>4
<1>10. u = [i \in 0 .. n |-> IF i = 0 THEN a ELSE ApplyPolicy(in, u[i - 1], in.policies[i])]
  BY <1>8, <1>9
<1>11. u[0] = a /\ \A i \in 1 .. n : u[i] = ApplyPolicy(in, u[i - 1], in.policies[i])
  <2>1. \A i \in 0 .. n : u[i] = IF i = 0 THEN a ELSE ApplyPolicy(in, u[i - 1], in.policies[i])
    BY <1>10
  <2>2. 0 \in 0 .. n /\ \A i \in 1 .. n : i \in 0 .. n /\ i # 0
    OBVIOUS
  <2> QED BY <2>1, <2>2
<1>12. \A i \in 0 .. n : u[i] \in V
  <2>1. PICK T : T = {i \in 0 .. n : u[i] \in V}
    OBVIOUS
  <2>2. 0 \in T
    BY <1>3, <1>11, <2>1
  <2>3. ASSUME NEW i \in 1 .. n, i - 1 \in T PROVE i \in T
    <3>1. in.policies[i] \in CustomPolicies
      BY <1>1, InputTells
    <3>2. u[i - 1] \in V
      BY <2>1, <2>3
    <3>3. u[i] \in V
      BY <1>2, <1>11, <3>1, <3>2, ApplyTells
    <3> QED BY <2>1, <3>3
  <2>4. \A i \in 1 .. n : i - 1 \in T => i \in T
    BY <2>3
  <2>5. \A i \in 0 .. n : i \in T
    BY <2>2, <2>4, InductionUpTo
  <2> QED BY <2>1, <2>5
<1>13. Assess(in) = [u[n] EXCEPT !.risks = Highest(@)]
  BY <1>1, <1>2, <1>8 DEF Assess, Unjudged
<1> QED BY <1>1, <1>2, <1>11, <1>12, <1>13 DEF AssessedBy

\* Of the risks with one name the highest counts: whether one of 70 or more was
\* found can be seen from all of them.
LEMMA HighestTells ==
  ASSUME NEW in \in RiskInputs, NEW R \in SUBSET Findable(in)
  PROVE  /\ Highest(R) \subseteq R
         /\ (\E r \in R : r.score >= 70) => \E r \in Highest(R) : r.score >= 70
<1>1. Highest(R) \subseteq R
  BY DEF Highest
<1>2. ASSUME NEW r \in R, r.score >= 70
      PROVE  \E s \in Highest(R) : s.score >= 70
  <2>1. \A s \in R : s.score \in 0 .. 90
    BY ScoresTell
  <2>2. PICK T : T = {s.score : s \in {x \in R : x.id = r.id}}
    OBVIOUS
  <2>3. T \subseteq 0 .. 90 /\ r.score \in T
    BY <2>1, <2>2
  <2>4. 90 \in Nat /\ T # {}
    BY <2>3
  <2>5. PICK k \in T : \A j \in T : k >= j
    BY <2>3, <2>4, GreatestOf
  <2>6. PICK s \in R : s.id = r.id /\ s.score = k
    BY <2>2
  <2>7. s \in Highest(R)
    <3>1. ASSUME NEW x \in R, x.id = s.id PROVE x.score <= s.score
      <4>1. x.score \in T /\ x.score \in 0 .. 90 /\ s.score \in 0 .. 90
        BY <2>1, <2>2, <2>6, <3>1
      <4>2. k >= x.score
        BY <2>5, <4>1
      <4> QED BY <2>6, <4>1, <4>2
    <3> QED BY <3>1 DEF Highest
  <2>8. s.score >= 70
    <3>1. k >= r.score /\ k \in 0 .. 90 /\ r.score \in 0 .. 90
      BY <2>3, <2>5
    <3> QED BY <1>2, <2>6, <3>1
  <2> QED BY <2>7, <2>8
<1> QED BY <1>1, <1>2

-----------------------------------------------------------------------------
(* The verdict of the risk policy.                                         *)

\* What makes the risk policy refuse, and what makes it ask a human.
Declines(in, o) == Forbidden(in) \/ "DENY" \in o.verdicts \/ "STOP_AGENT" \in o.verdicts
HoldsBack(in, o) ==
  \/ in.expired \/ "PAUSE" \in o.verdicts
  \/ /\ ~in.approved
     /\ \/ "approvalFor" \in in.clauses \/ "REQUIRE_APPROVAL" \in o.verdicts
        \/ \E r \in o.risks : r.score >= 70

LEMMA VerdictTells ==
  ASSUME NEW in \in RiskInputs, NEW o \in Opinions(in),
         Assess(in) = [o EXCEPT !.risks = Highest(@)]
  PROVE  /\ RiskVerdict(in) \in Verdicts
         /\ Strictness(RiskVerdict(in)) =
              IF Declines(in, o) THEN 2 ELSE IF HoldsBack(in, o) THEN 1 ELSE 0
<1>1. PICK a : a = Assess(in)
  OBVIOUS
<1>2. a.risks = Highest(o.risks) /\ a.verdicts = o.verdicts /\ o.risks \in SUBSET Findable(in)
  BY <1>1 DEF Opinions
<1>3. /\ \A r \in a.risks : r \in o.risks /\ r.score \in 0 .. 90 /\ (r.score >= 90 => Forbidden(in))
      /\ (\E r \in o.risks : r.score >= 70) => \E r \in a.risks : r.score >= 70
  <2>1. /\ Highest(o.risks) \subseteq o.risks
        /\ (\E r \in o.risks : r.score >= 70) => \E r \in Highest(o.risks) : r.score >= 70
    BY <1>2, HighestTells
  <2>2. \A r \in o.risks : r.score \in 0 .. 90 /\ (r.score >= 90 => Forbidden(in))
    BY <1>2, ScoresTell
  <2> QED BY <1>2, <2>1, <2>2
<1>4. PICK critical \in BOOLEAN : critical = \E r \in a.risks : r.score >= 90
  OBVIOUS
<1>5. PICK high \in BOOLEAN : high = \E r \in a.risks : r.score >= 70 /\ r.score < 90
  OBVIOUS
<1>6. PICK medium \in BOOLEAN : medium = \E r \in a.risks : r.score >= 40 /\ r.score < 70
  OBVIOUS
<1>7. critical => Forbidden(in)
  BY <1>3, <1>4
<1>8. ~Forbidden(in) => (high <=> \E r \in o.risks : r.score >= 70)
  BY <1>3, <1>5
<1>9. RiskVerdict(in) =
        IF "DENY" \in o.verdicts \/ Forbidden(in) THEN "DENY"
        ELSE IF "STOP_AGENT" \in o.verdicts \/ (critical /\ in.failClosed) THEN "STOP_AGENT"
        ELSE IF in.expired THEN "REQUIRE_APPROVAL"
        ELSE IF "PAUSE" \in o.verdicts THEN "PAUSE"
        ELSE IF ("approvalFor" \in in.clauses \/ high \/ "REQUIRE_APPROVAL" \in o.verdicts)
                /\ ~in.approved THEN "REQUIRE_APPROVAL"
        ELSE IF medium \/ "ALLOW_WITH_WARNING" \in o.verdicts THEN "ALLOW_WITH_WARNING"
        ELSE "ALLOW"
  BY <1>1, <1>2, <1>4, <1>5, <1>6 DEF RiskVerdict, Critical90, High70, Medium40
<1>10. /\ Strictness("DENY") = 2 /\ Strictness("STOP_AGENT") = 2
       /\ Strictness("REQUIRE_APPROVAL") = 1 /\ Strictness("PAUSE") = 1
       /\ Strictness("ALLOW") = 0 /\ Strictness("ALLOW_WITH_WARNING") = 0
  BY DEF Strictness, Allows, Stops
<1>11. Verdicts = {"ALLOW", "ALLOW_WITH_WARNING", "PAUSE", "REQUIRE_APPROVAL", "DENY", "STOP_AGENT"}
  BY DEF Verdicts, Severity
<1>12. RiskVerdict(in) \in Verdicts
  BY <1>9, <1>11
<1>13. CASE Declines(in, o)
  <2>1. RiskVerdict(in) \in {"DENY", "STOP_AGENT"}
    BY <1>9, <1>13 DEF Declines
  <2> QED BY <1>10, <1>12, <1>13, <2>1
<1>14. CASE ~Declines(in, o) /\ HoldsBack(in, o)
  <2>1. RiskVerdict(in) \in {"REQUIRE_APPROVAL", "PAUSE"}
    BY <1>7, <1>8, <1>9, <1>14 DEF Declines, HoldsBack
  <2> QED BY <1>10, <1>12, <1>14, <2>1
<1>15. CASE ~Declines(in, o) /\ ~HoldsBack(in, o)
  <2>1. RiskVerdict(in) \in {"ALLOW", "ALLOW_WITH_WARNING"}
    BY <1>7, <1>8, <1>9, <1>15 DEF Declines, HoldsBack
  <2> QED BY <1>10, <1>12, <1>15, <2>1
<1> QED BY <1>13, <1>14, <1>15

LEMMA RiskVerdictTells ==
  ASSUME NEW in \in RiskInputs
  PROVE  RiskVerdict(in) \in Verdicts
<1>1. PICK n \in Nat : n = Len(in.policies) /\ n \in 0 .. n
  BY InputTells
<1>2. PICK u : /\ AssessedBy(u, in) /\ \A i \in 0 .. n : u[i] \in Opinions(in)
               /\ Assess(in) = [u[n] EXCEPT !.risks = Highest(@)]
  BY <1>1, AssessTells
<1> QED BY <1>1, <1>2, VerdictTells

\* More risks and clauses, and no more approvals, are judged at least as strictly.
LEMMA MoreIsStricter ==
  ASSUME NEW in \in RiskInputs, NEW more \in RiskInputs,
         more.policies = in.policies, more.evidence = in.evidence,
         InferredRisks(in) \cup ScenarioRisks(in) \subseteq InferredRisks(more) \cup ScenarioRisks(more),
         in.clauses \subseteq more.clauses, in.expired => more.expired, more.approved => in.approved
  PROVE  Strictness(RiskVerdict(more)) >= Strictness(RiskVerdict(in))
<1>1. PICK n \in Nat : n = Len(in.policies) /\ n = Len(more.policies)
  BY InputTells
<1>2. PICK u : /\ AssessedBy(u, in) /\ \A i \in 0 .. n : u[i] \in Opinions(in)
               /\ Assess(in) = [u[n] EXCEPT !.risks = Highest(@)]
  BY <1>1, AssessTells
<1>3. PICK v : /\ AssessedBy(v, more) /\ \A i \in 0 .. n : v[i] \in Opinions(more)
               /\ Assess(more) = [v[n] EXCEPT !.risks = Highest(@)]
  BY <1>1, AssessTells
<1>4. PICK T : T = {i \in 0 .. n : u[i].risks \subseteq v[i].risks /\ u[i].verdicts \subseteq v[i].verdicts}
  OBVIOUS
<1>5. 0 \in T
  <2>1. u[0] = Unjudged(in) /\ v[0] = Unjudged(more)
    BY <1>2, <1>3 DEF AssessedBy
  <2>2. u[0].risks \subseteq v[0].risks /\ u[0].verdicts \subseteq v[0].verdicts
    BY <2>1 DEF Unjudged
  <2> QED BY <1>4, <2>2
<1>6. ASSUME NEW i \in 1 .. n, i - 1 \in T PROVE i \in T
  <2>1. PICK o, x, p : o = u[i - 1] /\ x = v[i - 1] /\ p = in.policies[i]
    OBVIOUS
  <2>2. o.risks \subseteq x.risks /\ o.verdicts \subseteq x.verdicts
    BY <1>4, <1>6, <2>1
  <2>3. u[i] = ApplyPolicy(in, o, p)
    BY <1>1, <1>2, <2>1 DEF AssessedBy
  <2>4. v[i] = ApplyPolicy(more, x, p)
    BY <1>1, <1>3, <2>1 DEF AssessedBy
  <2>5. CASE p.risks # {} /\ \A r \in o.risks : r.id \notin p.risks
    <3>1. u[i] = o
      BY <2>3, <2>5 DEF ApplyPolicy
    <3>2. x.risks \subseteq v[i].risks /\ x.verdicts \subseteq v[i].verdicts
      BY <2>4 DEF ApplyPolicy
    <3> QED BY <1>4, <2>2, <3>1, <3>2
  <2>6. CASE ~(p.risks # {} /\ \A r \in o.risks : r.id \notin p.risks)
    <3>1. ~(p.risks # {} /\ \A r \in x.risks : r.id \notin p.risks)
      BY <2>2, <2>6
    <3>2. u[i] = [risks |-> IF p.needsEvidence /\ ~in.evidence
                            THEN o.risks \cup {Risk("UNVERIFIED_EVIDENCE", 70)} ELSE o.risks,
                  verdicts |-> o.verdicts \cup {p.verdict}]
      BY <2>3, <2>6 DEF ApplyPolicy
    <3>3. v[i] = [risks |-> IF p.needsEvidence /\ ~in.evidence
                            THEN x.risks \cup {Risk("UNVERIFIED_EVIDENCE", 70)} ELSE x.risks,
                  verdicts |-> x.verdicts \cup {p.verdict}]
      BY <2>4, <3>1 DEF ApplyPolicy
    <3>4. u[i].risks \subseteq v[i].risks /\ u[i].verdicts \subseteq v[i].verdicts
      BY <2>2, <3>2, <3>3
    <3> QED BY <1>4, <3>4
  <2> QED BY <2>5, <2>6
<1>7. n \in T
  <2>1. \A i \in 1 .. n : i - 1 \in T => i \in T
    BY <1>6
  <2>2. \A i \in 0 .. n : i \in T
    BY <1>5, <2>1, InductionUpTo
  <2> QED BY <2>2
<1>8. PICK o \in Opinions(in), x \in Opinions(more) : o = u[n] /\ x = v[n]
  BY <1>2, <1>3
<1>9. o.risks \subseteq x.risks /\ o.verdicts \subseteq x.verdicts
  BY <1>4, <1>7, <1>8
<1>10. Strictness(RiskVerdict(in)) = IF Declines(in, o) THEN 2 ELSE IF HoldsBack(in, o) THEN 1 ELSE 0
  BY <1>2, <1>8, VerdictTells
<1>11. Strictness(RiskVerdict(more)) = IF Declines(more, x) THEN 2 ELSE IF HoldsBack(more, x) THEN 1 ELSE 0
  BY <1>3, <1>8, VerdictTells
<1>12. Declines(in, o) => Declines(more, x)
  BY <1>9 DEF Declines, Forbidden
<1>13. HoldsBack(in, o) => HoldsBack(more, x)
  BY <1>9, InputTells DEF HoldsBack
<1> QED BY <1>10, <1>11, <1>12, <1>13

\* A policy that denies, last, refuses whatever came before.
LEMMA DenialIsStrictest ==
  ASSUME NEW in \in RiskInputs, NEW more \in RiskInputs,
         NEW p \in CustomPolicies, p.risks = {}, p.verdict = "DENY",
         more.policies = Append(in.policies, p)
  PROVE  Strictness(RiskVerdict(more)) >= Strictness(RiskVerdict(in))
<1>1. PICK n \in Nat : n = Len(in.policies) /\ n + 1 = Len(more.policies) /\ more.policies[n + 1] = p
  BY InputTells
<1>2. PICK v : /\ AssessedBy(v, more) /\ \A i \in 0 .. n + 1 : v[i] \in Opinions(more)
               /\ Assess(more) = [v[n + 1] EXCEPT !.risks = Highest(@)]
  BY <1>1, AssessTells
<1>3. n + 1 \in 1 .. n + 1 /\ n + 1 \in 0 .. n + 1
  OBVIOUS
<1>4. v[n + 1] = ApplyPolicy(more, v[(n + 1) - 1], p)
  BY <1>1, <1>2, <1>3 DEF AssessedBy
<1>5. "DENY" \in v[n + 1].verdicts
  BY <1>4 DEF ApplyPolicy
<1>6. Strictness(RiskVerdict(more)) = 2
  BY <1>2, <1>3, <1>5, VerdictTells DEF Declines
<1>7. Strictness(RiskVerdict(in)) \in {0, 1, 2}
  BY DEF Strictness
<1> QED BY <1>6, <1>7

LEMMA HarderIsStricter ==
  ASSUME NEW in \in RiskInputs, NEW harder \in Harder(in)
  PROVE  /\ harder \in RiskInputs /\ harder.action = in.action
         /\ Strictness(RiskVerdict(harder)) >= Strictness(RiskVerdict(in))
<1> USE InputTells
<1>1. CASE \E w \in DOMAIN WordRisk : harder = [in EXCEPT !.words = @ \cup {w}]
  <2>1. PICK w \in DOMAIN WordRisk : harder = [in EXCEPT !.words = @ \cup {w}]
    BY <1>1
  <2>2. PICK W \in SUBSET DOMAIN WordRisk : W = in.words \cup {w}
    OBVIOUS
  <2>3. harder \in RiskInputs /\ harder = [in EXCEPT !.words = W] /\ harder.words = W
    BY <2>1, <2>2 DEF RiskInputs
  <2>4. /\ harder.policies = in.policies /\ harder.evidence = in.evidence
        /\ harder.clauses = in.clauses /\ harder.expired = in.expired
        /\ harder.approved = in.approved /\ harder.measures = in.measures
        /\ harder.action = in.action /\ in.words \subseteq harder.words
    BY <2>2, <2>3 DEF RiskInputs
  <2>5. InferredRisks(in) \cup ScenarioRisks(in) \subseteq InferredRisks(harder) \cup ScenarioRisks(harder)
    BY <2>4 DEF InferredRisks, ScenarioRisks
  <2> QED BY <2>3, <2>4, <2>5, MoreIsStricter
<1>2. CASE \E m \in DOMAIN MeasureRisk : harder = [in EXCEPT !.measures = @ \cup {m}]
  <2>1. PICK m \in DOMAIN MeasureRisk : harder = [in EXCEPT !.measures = @ \cup {m}]
    BY <1>2
  <2>2. PICK M \in SUBSET DOMAIN MeasureRisk : M = in.measures \cup {m}
    OBVIOUS
  <2>3. harder \in RiskInputs /\ harder = [in EXCEPT !.measures = M] /\ harder.measures = M
    BY <2>1, <2>2 DEF RiskInputs
  <2>4. /\ harder.policies = in.policies /\ harder.evidence = in.evidence
        /\ harder.clauses = in.clauses /\ harder.expired = in.expired
        /\ harder.approved = in.approved /\ harder.words = in.words
        /\ harder.action = in.action /\ in.measures \subseteq harder.measures
    BY <2>2, <2>3 DEF RiskInputs
  <2>5. InferredRisks(in) \cup ScenarioRisks(in) \subseteq InferredRisks(harder) \cup ScenarioRisks(harder)
    BY <2>4 DEF InferredRisks, ScenarioRisks
  <2> QED BY <2>3, <2>4, <2>5, MoreIsStricter
<1>3. CASE \E k \in DOMAIN ClauseRisk \cup {"approvalFor"} : harder = [in EXCEPT !.clauses = @ \cup {k}]
  <2>1. PICK k \in DOMAIN ClauseRisk \cup {"approvalFor"} : harder = [in EXCEPT !.clauses = @ \cup {k}]
    BY <1>3
  <2>2. PICK C \in SUBSET (DOMAIN ClauseRisk \cup {"approvalFor"}) : C = in.clauses \cup {k}
    OBVIOUS
  <2>3. harder \in RiskInputs /\ harder = [in EXCEPT !.clauses = C] /\ harder.clauses = C
    BY <2>1, <2>2 DEF RiskInputs
  <2>4. /\ harder.policies = in.policies /\ harder.evidence = in.evidence
        /\ in.clauses \subseteq harder.clauses /\ harder.expired = in.expired
        /\ harder.approved = in.approved /\ harder.words = in.words
        /\ harder.action = in.action /\ in.measures = harder.measures
    BY <2>2, <2>3 DEF RiskInputs
  <2>5. InferredRisks(in) \cup ScenarioRisks(in) \subseteq InferredRisks(harder) \cup ScenarioRisks(harder)
    <3>1. InferredRisks(in) = InferredRisks(harder)
      BY <2>4 DEF InferredRisks
    <3>2. ScenarioRisks(in) \subseteq ScenarioRisks(harder)
      BY <2>4 DEF ScenarioRisks
    <3> QED BY <3>1, <3>2
  <2> QED BY <2>3, <2>4, <2>5, MoreIsStricter
<1>4. CASE harder = [in EXCEPT !.approved = FALSE]
  <2>1. harder \in RiskInputs /\ harder.approved = FALSE
    BY <1>4 DEF RiskInputs
  <2>2. /\ harder.policies = in.policies /\ harder.evidence = in.evidence
        /\ harder.clauses = in.clauses /\ harder.expired = in.expired
        /\ harder.measures = in.measures /\ harder.words = in.words
        /\ harder.action = in.action
    BY <1>4 DEF RiskInputs
  <2>3. InferredRisks(in) \cup ScenarioRisks(in) \subseteq InferredRisks(harder) \cup ScenarioRisks(harder)
    BY <2>2 DEF InferredRisks, ScenarioRisks
  <2> QED BY <2>1, <2>2, <2>3, MoreIsStricter
<1>5. CASE harder = [in EXCEPT !.failClosed = TRUE]
  <2>1. harder \in RiskInputs
    BY <1>5 DEF RiskInputs
  <2>2. /\ harder.policies = in.policies /\ harder.evidence = in.evidence
        /\ harder.clauses = in.clauses /\ harder.expired = in.expired
        /\ harder.measures = in.measures /\ harder.words = in.words
        /\ harder.action = in.action /\ harder.approved = in.approved
    BY <1>5 DEF RiskInputs
  <2>3. InferredRisks(in) \cup ScenarioRisks(in) \subseteq InferredRisks(harder) \cup ScenarioRisks(harder)
    BY <2>2 DEF InferredRisks, ScenarioRisks
  <2> QED BY <2>1, <2>2, <2>3, MoreIsStricter
<1>6. CASE harder = [in EXCEPT !.policies =
                Append(@, [risks |-> {}, needsEvidence |-> FALSE, verdict |-> "DENY"])]
  <2>1. PICK p : p = [risks |-> {}, needsEvidence |-> FALSE, verdict |-> "DENY"]
    OBVIOUS
  <2>2. p \in CustomPolicies /\ p.risks = {} /\ p.verdict = "DENY"
    BY <2>1 DEF CustomPolicies, Verdicts, Severity
  <2>3. PICK P : P = Append(in.policies, p)
    OBVIOUS
  <2>31. P \in Seq(CustomPolicies)
    BY <2>2, <2>3
  <2>4. harder = [in EXCEPT !.policies = P]
    BY <1>6, <2>1, <2>3
  <2>5. harder \in RiskInputs /\ harder.policies = P /\ harder.action = in.action
    BY <2>31, <2>4 DEF RiskInputs
  <2> QED BY <2>2, <2>3, <2>5, DenialIsStrictest
<1> QED BY <1>1, <1>2, <1>3, <1>4, <1>5, <1>6 DEF Harder

-----------------------------------------------------------------------------
(* Profiles, and the stricter of two verdicts.                             *)

LEMMA RankTells ==
  /\ Rank("ALLOW") = 1 /\ Rank("ALLOW_WITH_WARNING") = 2 /\ Rank("PAUSE") = 3
  /\ Rank("REQUIRE_APPROVAL") = 4 /\ Rank("DENY") = 5 /\ Rank("STOP_AGENT") = 6
  /\ Verdicts = {"ALLOW", "ALLOW_WITH_WARNING", "PAUSE", "REQUIRE_APPROVAL", "DENY", "STOP_AGENT"}
<1>1. DOMAIN Severity = 1 .. 6
  BY DEF Severity
<1>2. /\ Severity[1] = "ALLOW" /\ Severity[2] = "ALLOW_WITH_WARNING" /\ Severity[3] = "PAUSE"
      /\ Severity[4] = "REQUIRE_APPROVAL" /\ Severity[5] = "DENY" /\ Severity[6] = "STOP_AGENT"
  BY DEF Severity
<1>3. \A i \in 1 .. 6 : i = 1 \/ i = 2 \/ i = 3 \/ i = 4 \/ i = 5 \/ i = 6
  OBVIOUS
<1>4. \A i, j \in 1 .. 6 : Severity[i] = Severity[j] => i = j
  BY <1>2, <1>3
<1>5. ASSUME NEW i \in 1 .. 6 PROVE Rank(Severity[i]) = i
  <2>1. \E j \in DOMAIN Severity : Severity[j] = Severity[i]
    BY <1>1
  <2>2. PICK r : r = Rank(Severity[i])
    OBVIOUS
  <2>3. r \in DOMAIN Severity /\ Severity[r] = Severity[i]
    BY <2>1, <2>2 DEF Rank
  <2> QED BY <1>1, <1>4, <2>2, <2>3
<1>6. /\ Rank(Severity[1]) = 1 /\ Rank(Severity[2]) = 2 /\ Rank(Severity[3]) = 3
      /\ Rank(Severity[4]) = 4 /\ Rank(Severity[5]) = 5 /\ Rank(Severity[6]) = 6
  BY <1>5
<1>7. Verdicts = {"ALLOW", "ALLOW_WITH_WARNING", "PAUSE", "REQUIRE_APPROVAL", "DENY", "STOP_AGENT"}
  BY <1>1, <1>2, <1>3 DEF Verdicts
<1> QED BY <1>2, <1>6, <1>7

LEMMA StricterOfTwo ==
  ASSUME NEW a \in Verdicts, NEW b \in Verdicts
  PROVE  /\ MoreSevere(a, b) \in {a, b}
         /\ Strictness(MoreSevere(a, b)) >= Strictness(a)
         /\ Strictness(MoreSevere(a, b)) >= Strictness(b)
         /\ Strictness(a) \in 0 .. 2
         /\ Stops(a) <=> Strictness(a) = 2
<1>1. ASSUME NEW v \in Verdicts
      PROVE  /\ Rank(v) \in 1 .. 6
             /\ Strictness(v) = IF Rank(v) <= 2 THEN 0 ELSE IF Rank(v) <= 4 THEN 1 ELSE 2
             /\ Stops(v) <=> Rank(v) >= 5
  <2>1. v \in {"ALLOW", "ALLOW_WITH_WARNING", "PAUSE", "REQUIRE_APPROVAL", "DENY", "STOP_AGENT"}
    BY RankTells
  <2> QED BY <2>1, RankTells DEF Strictness, Allows, Stops
<1>2. PICK i, j : i = Rank(a) /\ j = Rank(b)
  OBVIOUS
<1>3. i \in 1 .. 6 /\ j \in 1 .. 6
  BY <1>1, <1>2
<1>4. MoreSevere(a, b) = IF i >= j THEN a ELSE b
  BY <1>2 DEF MoreSevere
<1>5. Strictness(a) = IF i <= 2 THEN 0 ELSE IF i <= 4 THEN 1 ELSE 2
  BY <1>1, <1>2
<1>6. Strictness(b) = IF j <= 2 THEN 0 ELSE IF j <= 4 THEN 1 ELSE 2
  BY <1>1, <1>2
<1>7. CASE i >= j
  BY <1>1, <1>2, <1>3, <1>4, <1>5, <1>6, <1>7
<1>8. CASE ~(i >= j)
  BY <1>1, <1>2, <1>3, <1>4, <1>5, <1>6, <1>8
<1> QED BY <1>7, <1>8

LEMMA ProfileTells ==
  ASSUME NEW profile, ValidProfile(profile), NEW facts
  PROVE  ProfileVerdict(profile, facts) \in Verdicts
<1>1. PICK M : M = {r \in profile.rules : RuleMatches(r, facts)}
  OBVIOUS
<1>2. CASE M = {}
  BY <1>1, <1>2 DEF ProfileVerdict, ValidProfile
<1>3. CASE M # {}
  <2>1. PICK R : R = {Rank(r.verdict) : r \in M}
    OBVIOUS
  <2>2. \A r \in M : r.verdict \in Verdicts
    BY <1>1 DEF ValidProfile
  <2>3. \A v \in Verdicts : Rank(v) \in 0 .. 6 /\ Rank(v) \in DOMAIN Severity
    <3>1. DOMAIN Severity = 1 .. 6
      BY DEF Severity
    <3> QED BY <3>1, RankTells
  <2>4. R \subseteq 0 .. 6 /\ R # {} /\ R \subseteq DOMAIN Severity
    BY <1>3, <2>1, <2>2, <2>3
  <2>5. \E i \in R : \A j \in R : j <= i
    <3>1. 6 \in Nat
      OBVIOUS
    <3>2. PICK i \in R : \A j \in R : i >= j
      BY <2>4, <3>1, GreatestOf
    <3>3. \A j \in R : j <= i
      BY <2>4, <3>2
    <3> QED BY <3>3
  <2>6. PICK m : m = CHOOSE i \in R : \A j \in R : j <= i
    OBVIOUS
  <2>7. m \in R
    BY <2>5, <2>6
  <2>8. ProfileVerdict(profile, facts) = Severity[m]
    BY <1>1, <1>3, <2>1, <2>6 DEF ProfileVerdict
  <2> QED BY <2>4, <2>7, <2>8 DEF Verdicts
<1> QED BY <1>2, <1>3

LEMMA EffectiveTells ==
  ASSUME NEW in \in RiskInputs, NEW profile, ValidProfile(profile)
  PROVE  /\ \A harder \in Harder(in) :
               Strictness(EffectiveVerdict(harder, profile)) >= Strictness(EffectiveVerdict(in, profile))
         /\ Stops(ProfileVerdict(profile, ActionFacts(in.action))) => Stops(EffectiveVerdict(in, profile))
<1>1. PICK p : p = ProfileVerdict(profile, ActionFacts(in.action))
  OBVIOUS
<1>2. PICK v : v = RiskVerdict(in)
  OBVIOUS
<1>3. \A x \in RiskInputs : RiskVerdict(x) \in Verdicts
  BY RiskVerdictTells
<1>4. p \in Verdicts /\ v \in Verdicts
  BY <1>1, <1>2, <1>3, ProfileTells
<1>5. EffectiveVerdict(in, profile) = MoreSevere(p, v)
  BY <1>1, <1>2 DEF EffectiveVerdict
<1>6. ASSUME NEW harder \in Harder(in)
      PROVE  Strictness(EffectiveVerdict(harder, profile)) >= Strictness(EffectiveVerdict(in, profile))
  <2>1. PICK w : w = RiskVerdict(harder)
    OBVIOUS
  <2>2. w \in Verdicts /\ harder.action = in.action /\ Strictness(w) >= Strictness(v)
    BY <1>2, <1>3, <2>1, HarderIsStricter
  <2>3. EffectiveVerdict(harder, profile) = MoreSevere(p, w)
    BY <1>1, <2>1, <2>2 DEF EffectiveVerdict
  <2>4. /\ Strictness(MoreSevere(p, w)) >= Strictness(p)
        /\ Strictness(MoreSevere(p, w)) >= Strictness(w)
    BY <1>4, <2>2, StricterOfTwo
  <2>5. MoreSevere(p, v) \in {p, v}
    BY <1>4, StricterOfTwo
  <2>6. /\ Strictness(p) \in 0 .. 2 /\ Strictness(v) \in 0 .. 2 /\ Strictness(w) \in 0 .. 2
        /\ MoreSevere(p, w) \in Verdicts
    BY <1>4, <2>2, StricterOfTwo
  <2>7. Strictness(MoreSevere(p, w)) \in 0 .. 2
    BY <2>6, StricterOfTwo
  <2>8. PICK a, b, c, d : /\ a = Strictness(p) /\ b = Strictness(v) /\ c = Strictness(w)
                          /\ d = Strictness(MoreSevere(p, w))
    OBVIOUS
  <2>9. d >= a /\ d >= b
    BY <2>2, <2>4, <2>6, <2>7, <2>8
  <2>10. Strictness(MoreSevere(p, v)) = a \/ Strictness(MoreSevere(p, v)) = b
    BY <2>5, <2>8
  <2> QED BY <1>5, <2>3, <2>8, <2>9, <2>10
<1>7. ASSUME Stops(p) PROVE Stops(EffectiveVerdict(in, profile))
  <2>1. MoreSevere(p, v) \in Verdicts
    BY <1>4, StricterOfTwo
  <2>2. Strictness(p) = 2
    BY <1>4, <1>7, StricterOfTwo
  <2>3. Strictness(MoreSevere(p, v)) >= Strictness(p) /\ Strictness(MoreSevere(p, v)) \in 0 .. 2
    BY <1>4, <2>1, StricterOfTwo
  <2>4. Strictness(MoreSevere(p, v)) = 2
    BY <2>2, <2>3
  <2> QED BY <1>5, <2>1, <2>4, StricterOfTwo
<1> QED BY <1>1, <1>6, <1>7

-----------------------------------------------------------------------------
(* The policy gate of an agent run.                                        *)

\* When the gate blocks, and when it wants an approval.
Violates(gate, q) ==
  \/ RiskRank[q.risk] > RiskRank[gate.maxRisk]
  \/ \E f \in q.files : gate.files # {} /\ \A p \in gate.files : ~MatchesFile(p, f)
  \/ \E c \in q.commands : c.blocked \/ c.chained \/ (gate.listsCommands /\ ~c.listed)
WantsApproval(gate, q) ==
  (q.mentionsTrigger \/ (gate.mode = "HITL" /\ q.risk = "high")) /\ ~q.approved

LEMMA GateVerdictTells ==
  ASSUME NEW gate, NEW q
  PROVE  GateVerdict(gate, q) = IF Violates(gate, q) THEN "blocked"
                                ELSE IF WantsApproval(gate, q) THEN "requiresApproval" ELSE "allowed"
<1>1. ASSUME Violates(gate, q) PROVE GateViolations(gate, q) # {}
  <2>1. CASE RiskRank[q.risk] > RiskRank[gate.maxRisk]
    <3>1. <<"risk">> \in GateViolations(gate, q)
      BY <2>1 DEF GateViolations
    <3> QED BY <3>1
  <2>2. CASE \E f \in q.files : gate.files # {} /\ \A p \in gate.files : ~MatchesFile(p, f)
    <3>1. PICK f \in q.files : gate.files # {} /\ \A p \in gate.files : ~MatchesFile(p, f)
      BY <2>2
    <3>2. <<"file", f>> \in GateViolations(gate, q)
      BY <3>1 DEF GateViolations
    <3> QED BY <3>2
  <2>3. CASE \E c \in q.commands : c.blocked \/ c.chained \/ (gate.listsCommands /\ ~c.listed)
    <3>1. PICK c \in q.commands : c.blocked \/ c.chained \/ (gate.listsCommands /\ ~c.listed)
      BY <2>3
    <3>2. <<"command", c>> \in GateViolations(gate, q)
      BY <3>1 DEF GateViolations
    <3> QED BY <3>2
  <2> QED BY <1>1, <2>1, <2>2, <2>3 DEF Violates
<1>2. ASSUME ~Violates(gate, q) PROVE GateViolations(gate, q) = {}
  <2>1. {m \in {gate.maxRisk} : RiskRank[q.risk] > RiskRank[m]} = {}
    BY <1>2 DEF Violates
  <2>2. {g \in q.files : gate.files # {} /\ \A p \in gate.files : ~MatchesFile(p, g)} = {}
    BY <1>2 DEF Violates
  <2>3. {d \in q.commands : \/ d.blocked \/ d.chained
                            \/ gate.listsCommands /\ ~d.listed} = {}
    BY <1>2 DEF Violates
  <2> QED BY <2>1, <2>2, <2>3 DEF GateViolations
<1>3. GateViolations(gate, q) # {} <=> Violates(gate, q)
  BY <1>1, <1>2
<1>4. CASE Violates(gate, q)
  BY <1>3, <1>4 DEF GateVerdict
<1>5. CASE ~Violates(gate, q) /\ WantsApproval(gate, q)
  BY <1>3, <1>5 DEF GateVerdict, WantsApproval
<1>6. CASE ~Violates(gate, q) /\ ~WantsApproval(gate, q)
  <2>1. ~((q.mentionsTrigger \/ (gate.mode = "HITL" /\ q.risk = "high")) /\ ~q.approved)
    BY <1>6 DEF WantsApproval
  <2>2. GateViolations(gate, q) = {}
    BY <1>3, <1>6
  <2>3. GateVerdict(gate, q) = "allowed"
    BY <2>1, <2>2 DEF GateVerdict
  <2> QED BY <1>6, <2>3
<1> QED BY <1>4, <1>5, <1>6

LEMMA FirmerIsFirmer ==
  ASSUME NEW gate, NEW q, NEW g, NEW r,
         Violates(gate, q) => Violates(g, r), WantsApproval(gate, q) => WantsApproval(g, r)
  PROVE  Firmness[GateVerdict(g, r)] >= Firmness[GateVerdict(gate, q)]
<1>1. Firmness["allowed"] = 0 /\ Firmness["requiresApproval"] = 1 /\ Firmness["blocked"] = 2
  BY DEF Firmness
<1>2. GateVerdict(gate, q) = IF Violates(gate, q) THEN "blocked"
                             ELSE IF WantsApproval(gate, q) THEN "requiresApproval" ELSE "allowed"
  BY GateVerdictTells
<1>3. GateVerdict(g, r) = IF Violates(g, r) THEN "blocked"
                          ELSE IF WantsApproval(g, r) THEN "requiresApproval" ELSE "allowed"
  BY GateVerdictTells
<1> QED BY <1>1, <1>2, <1>3

LEMMA StricterIsFirmer ==
  ASSUME NEW gate \in PolicyGates, NEW run \in AgentRuns, NEW s \in Stricter(gate, run)
  PROVE  Firmness[GateVerdict(s.gate, s.run)] >= Firmness[GateVerdict(gate, run)]
<1>1. /\ RiskRank["low"] = 1 /\ RiskRank["medium"] = 2 /\ RiskRank["high"] = 3
      /\ DOMAIN RiskRank = {"low", "medium", "high"}
  BY DEF RiskRank
<1>2. RiskRank[gate.maxRisk] \in 1 .. 3 /\ RiskRank[run.risk] \in 1 .. 3
  BY <1>1 DEF PolicyGates, AgentRuns
<1>3. ASSUME NEW g, s.gate = g, s.run = run, g \in {[gate EXCEPT !.maxRisk = "low"],
                [gate EXCEPT !.mode = "HITL"], [gate EXCEPT !.listsCommands = TRUE]}
      PROVE  Firmness[GateVerdict(s.gate, s.run)] >= Firmness[GateVerdict(gate, run)]
  <2>1. /\ g.files = gate.files
        /\ g.maxRisk = gate.maxRisk \/ g.maxRisk = "low"
        /\ g.mode = gate.mode \/ g.mode = "HITL"
        /\ g.listsCommands = gate.listsCommands \/ g.listsCommands = TRUE
    BY <1>3 DEF PolicyGates
  <2>2. RiskRank[run.risk] > RiskRank[gate.maxRisk] => RiskRank[run.risk] > RiskRank[g.maxRisk]
    BY <1>1, <1>2, <2>1
  <2>3. Violates(gate, run) => Violates(g, run)
    BY <2>1, <2>2 DEF Violates
  <2>4. WantsApproval(gate, run) => WantsApproval(g, run)
    BY <2>1 DEF WantsApproval
  <2> QED BY <1>3, <2>3, <2>4, FirmerIsFirmer
<1>4. ASSUME NEW r, s.gate = gate, s.run = r,
             r.risk = run.risk \/ r.risk = "high", run.files \subseteq r.files,
             run.commands \subseteq r.commands, r.approved => run.approved,
             run.mentionsTrigger => r.mentionsTrigger
      PROVE  Firmness[GateVerdict(s.gate, s.run)] >= Firmness[GateVerdict(gate, run)]
  <2>1. RiskRank[run.risk] > RiskRank[gate.maxRisk] => RiskRank[r.risk] > RiskRank[gate.maxRisk]
    BY <1>1, <1>2, <1>4
  <2>2. Violates(gate, run) => Violates(gate, r)
    BY <1>4, <2>1 DEF Violates
  <2>3. WantsApproval(gate, run) => WantsApproval(gate, r)
    BY <1>4 DEF WantsApproval
  <2> QED BY <1>4, <2>2, <2>3, FirmerIsFirmer
<1>5. CASE \E g \in {[gate EXCEPT !.maxRisk = "low"], [gate EXCEPT !.mode = "HITL"],
                     [gate EXCEPT !.listsCommands = TRUE]} : s = [gate |-> g, run |-> run]
  BY <1>3, <1>5
<1>6. CASE \E r \in {[run EXCEPT !.risk = "high"], [run EXCEPT !.approved = FALSE],
                     [run EXCEPT !.mentionsTrigger = TRUE]} : s = [gate |-> gate, run |-> r]
  <2>1. PICK r \in {[run EXCEPT !.risk = "high"], [run EXCEPT !.approved = FALSE],
                    [run EXCEPT !.mentionsTrigger = TRUE]} : s = [gate |-> gate, run |-> r]
    BY <1>6
  <2>2. r \in [risk : DOMAIN RiskRank, files : {run.files}, commands : {run.commands},
               mentionsTrigger : BOOLEAN, approved : BOOLEAN]
    BY <1>1, <2>1 DEF AgentRuns
  <2>3. r.risk = run.risk \/ r.risk = "high"
    BY <2>1 DEF AgentRuns
  <2>4. r.approved => run.approved
    BY <2>1 DEF AgentRuns
  <2>5. run.mentionsTrigger => r.mentionsTrigger
    BY <2>1 DEF AgentRuns
  <2>6. r.files = run.files /\ r.commands = run.commands
    BY <2>2
  <2> QED BY <1>4, <2>1, <2>3, <2>4, <2>5, <2>6
<1>7. CASE \E f : s = [gate |-> gate, run |-> [run EXCEPT !.files = @ \cup {f}]]
  <2>1. PICK f : s = [gate |-> gate, run |-> [run EXCEPT !.files = @ \cup {f}]]
    BY <1>7
  <2>2. PICK r : r = [run EXCEPT !.files = @ \cup {f}]
    OBVIOUS
  <2>3. /\ r.risk = run.risk /\ run.files \subseteq r.files /\ r.commands = run.commands
        /\ r.approved = run.approved /\ run.mentionsTrigger = r.mentionsTrigger
    BY <2>2 DEF AgentRuns
  <2> QED BY <1>4, <2>1, <2>2, <2>3
<1>8. CASE \E c : s = [gate |-> gate, run |-> [run EXCEPT !.commands = @ \cup {c}]]
  <2>1. PICK c : s = [gate |-> gate, run |-> [run EXCEPT !.commands = @ \cup {c}]]
    BY <1>8
  <2>2. PICK r : r = [run EXCEPT !.commands = @ \cup {c}]
    OBVIOUS
  <2>3. /\ r.risk = run.risk /\ run.files = r.files /\ run.commands \subseteq r.commands
        /\ r.approved = run.approved /\ run.mentionsTrigger = r.mentionsTrigger
    BY <2>2 DEF AgentRuns
  <2> QED BY <1>4, <2>1, <2>2, <2>3
<1>9. PICK A : A = {[run EXCEPT !.risk = "high"], [run EXCEPT !.approved = FALSE],
                    [run EXCEPT !.mentionsTrigger = TRUE]}
  OBVIOUS
<1>10. PICK B : B = {[run EXCEPT !.files = @ \cup {f}] :
                       f \in {<<"src">>, <<"src", "a">>, <<"src", "a", "b">>}}
  OBVIOUS
<1>11. PICK C : C = {[run EXCEPT !.commands = @ \cup {c}] :
                       c \in [blocked : BOOLEAN, chained : BOOLEAN, listed : BOOLEAN]}
  OBVIOUS
<1>12. \/ \E g \in {[gate EXCEPT !.maxRisk = "low"], [gate EXCEPT !.mode = "HITL"],
                    [gate EXCEPT !.listsCommands = TRUE]} : s = [gate |-> g, run |-> run]
       \/ \E r \in A \cup B \cup C : s = [gate |-> gate, run |-> r]
  BY <1>9, <1>10, <1>11 DEF Stricter
<1>13. CASE \E r \in B : s = [gate |-> gate, run |-> r]
  <2>1. PICK r \in B : s = [gate |-> gate, run |-> r]
    BY <1>13
  <2>2. \E f : r = [run EXCEPT !.files = @ \cup {f}]
    BY <1>10
  <2> QED BY <1>7, <2>1, <2>2
<1>14. CASE \E r \in C : s = [gate |-> gate, run |-> r]
  <2>1. PICK r \in C : s = [gate |-> gate, run |-> r]
    BY <1>14
  <2>2. \E c : r = [run EXCEPT !.commands = @ \cup {c}]
    BY <1>11
  <2> QED BY <1>8, <2>1, <2>2
<1>15. (\E r \in A : s = [gate |-> gate, run |-> r]) \/ (\E r \in B : s = [gate |-> gate, run |-> r])
       \/ (\E r \in C : s = [gate |-> gate, run |-> r])
       \/ \E g \in {[gate EXCEPT !.maxRisk = "low"], [gate EXCEPT !.mode = "HITL"],
                    [gate EXCEPT !.listsCommands = TRUE]} : s = [gate |-> g, run |-> run]
  BY <1>12
<1> QED BY <1>5, <1>6, <1>9, <1>13, <1>14, <1>15

LEMMA BelowIsAllowed ==
  ASSUME NEW gate \in PolicyGates, NEW run \in AgentRuns, NEW p \in gate.files, p.ends = "below"
  PROVE  GateVerdict(gate, [run EXCEPT !.approved = TRUE, !.files = {p.base \o <<"a", "b">>}]) =
           GateVerdict(gate, [run EXCEPT !.approved = TRUE, !.files = {}])
<1>1. PICK b : b = p.base
  OBVIOUS
<1>2. PICK S : S = STRING \cup {"a", "b"}
  OBVIOUS
<1>3. b \in Seq(S)
  <2>1. b \in Seq(STRING)
    BY <1>1 DEF PolicyGates
  <2>2. STRING \subseteq S
    BY <1>2
  <2>3. Len(b) \in Nat /\ b = [i \in 1 .. Len(b) |-> b[i]]
    BY <2>1
  <2>4. \A i \in 1 .. Len(b) : b[i] \in STRING
    BY <2>1
  <2>5. \A i \in 1 .. Len(b) : b[i] \in S
    BY <2>2, <2>4
  <2> QED BY <2>3, <2>5
<1>4. PICK f : f = b \o <<"a", "b">>
  OBVIOUS
<1>5. MatchesFile(p, f)
  <2>0. PICK e : e = <<"a", "b">>
    OBVIOUS
  <2>1. Len(e) = 2 /\ e \in Seq(S)
    <3>1. PICK x, y : x = "a" /\ y = "b"
      OBVIOUS
    <3>2. e = <<x, y>>
      BY <2>0, <3>1
    <3>3. x \in S /\ y \in S
      BY <1>2, <3>1
    <3> QED BY <3>2, <3>3
  <2>2. f = b \o e
    BY <1>4, <2>0
  <2>3. Len(f) = Len(b) + 2 /\ Len(b) \in Nat /\ f \in Seq(S)
    <3>1. f \in Seq(S) /\ Len(f) = Len(b) + Len(e)
      BY <1>3, <2>1, <2>2, ConcatProperties
    <3> QED BY <1>3, <2>1, <3>1
  <2>4. \A i \in 1 .. Len(b) : f[i] = b[i]
    BY <1>3, <2>1, <2>2, ConcatProperties
  <2>5. SubSeq(f, 1, Len(b)) = SubSeq(b, 1, Len(b))
    BY <1>3, <2>3, <2>4
  <2>6. IsPrefix(b, f)
    BY <2>3, <2>5 DEF IsPrefix
  <2> QED BY <1>1, <2>6 DEF MatchesFile
<1>6. PICK q : q = [run EXCEPT !.approved = TRUE, !.files = {f}]
  OBVIOUS
<1>7. PICK r : r = [run EXCEPT !.approved = TRUE, !.files = {}]
  OBVIOUS
<1>8. /\ q.files = {f} /\ r.files = {} /\ q.risk = run.risk /\ r.risk = run.risk
      /\ q.commands = run.commands /\ r.commands = run.commands
      /\ q.approved = TRUE /\ r.approved = TRUE
  BY <1>6, <1>7 DEF AgentRuns
<1>9. Violates(gate, q) <=> Violates(gate, r)
  BY <1>5, <1>8 DEF Violates
<1>10. ~WantsApproval(gate, q) /\ ~WantsApproval(gate, r)
  BY <1>8 DEF WantsApproval
<1>11. GateVerdict(gate, q) = IF Violates(gate, q) THEN "blocked" ELSE "allowed"
  BY <1>10, GateVerdictTells
<1>12. GateVerdict(gate, r) = IF Violates(gate, r) THEN "blocked" ELSE "allowed"
  BY <1>10, GateVerdictTells
<1> QED BY <1>1, <1>4, <1>6, <1>7, <1>9, <1>11, <1>12

-----------------------------------------------------------------------------
(* The engine.                                                             *)

\* Until the race is settled the caller has nothing, and nothing is recorded.
EngineFits ==
  /\ race \in {"idle", "running", "timedOut", "caught", "settled", "rejected"}
  /\ race # "settled" => verdict = "" /\ recorded = 0 /\ fallback = FALSE
  /\ race = "settled" => verdict # "" /\ fallback \in BOOLEAN /\ recorded = IF fallback THEN 1 ELSE 0
  /\ race = "running" => asked[1] \in Question /\ ValidProfile(asked[1].profile)
  /\ race # "idle" => asked[1] \in Question

LEMMA EngineStays ==
  ASSUME EngineFits, [EngineNext]_engineVars
  PROVE  EngineFits'
<1>1. ASSUME NEW q \in Question, Ask(q) PROVE EngineFits'
  <2>1. asked'[1] = q
    BY <1>1 DEF Ask
  <2> QED BY <1>1, <2>1 DEF Ask, EngineFits
<1>2. CASE Answers
  <2>1. RiskVerdict(asked[1].in) \in Verdicts
    <3>1. asked[1].in \in RiskInputs /\ ValidProfile(asked[1].profile)
      BY <1>2, QuestionAssumption DEF Answers, EngineFits
    <3> QED BY <3>1, RiskVerdictTells
  <2>2. RiskVerdict(asked[1].in) # ""
    BY <2>1, RankTells
  <2> QED BY <1>2, <2>2 DEF Answers, EngineFits
<1>3. ASSUME NEW from \in {"running", "caught", "timedOut"}, NEW to \in {"caught", "rejected"}, Falls(from, to)
      PROVE  EngineFits'
  <2>1. EngineVerdict(asked[1].in, "none") # ""
    BY DEF EngineVerdict, ValidOutcome
  <2>2. CASE /\ race' = "settled" /\ verdict' = EngineVerdict(asked[1].in, "none")
             /\ fallback' = TRUE /\ recorded' = recorded + 1
    <3>1. race # "settled" /\ recorded = 0 /\ asked' = asked /\ asked[1] \in Question
      BY <1>3 DEF Falls, EngineFits
    <3>2. verdict' # "" /\ fallback' = TRUE /\ race' = "settled"
      BY <2>1, <2>2
    <3>3. recorded' = 1
      BY <2>2, <3>1
    <3> QED BY <3>1, <3>2, <3>3 DEF EngineFits
  <2>3. CASE race' = to /\ UNCHANGED <<verdict, fallback, recorded>>
    BY <1>3, <2>3 DEF Falls, EngineFits
  <2> QED BY <1>3, <2>2, <2>3 DEF Falls
<1>4. CASE Throws \/ TimesOut
  BY <1>4 DEF Throws, TimesOut, EngineFits
<1>5. CASE UNCHANGED engineVars
  BY <1>5 DEF engineVars, EngineFits
<1> QED BY <1>1, <1>2, <1>3, <1>4, <1>5 DEF EngineNext, Malformed, Catches, AnswersLate

LEMMA EngineInductive == EngineSpec => []EngineFits
<1>1. EngineInit => EngineFits
  BY DEF EngineInit, EngineFits
<1>2. EngineFits /\ [EngineNext]_engineVars => EngineFits'
  BY EngineStays
<1> QED BY <1>1, <1>2, PTL DEF EngineSpec

(* More cause for caution - a risky word, a clause of the scenario that is *)
(* met, an exceeded budget, a missing approval, a policy that denies -     *)
(* never makes the risk policy (runtimeGovernance.ts), the stricter of the *)
(* two verdicts the core takes, or the policy gate (index.ts) more         *)
(* lenient; and the engine of failClosed.ts gives its caller nothing but   *)
(* the verdict, or a fallback that is on record.                           *)
THEOREM CautionTightens == EngineSpec => []CautionOnlyTightens
<1>1. ASSUME EngineFits PROVE CautionOnlyTightens
  <2>1. verdict # "" => recorded = IF fallback THEN 1 ELSE 0
    BY <1>1 DEF EngineFits
  <2>2. verdict = "" => recorded = 0
    BY <1>1 DEF EngineFits
  <2>3. ASSUME race = "running", NEW q, q = asked[1]
        PROVE  /\ \A harder \in Harder(q.in) :
                    /\ Strictness(RiskVerdict(harder)) >= Strictness(RiskVerdict(q.in))
                    /\ Strictness(EffectiveVerdict(harder, q.profile)) >=
                         Strictness(EffectiveVerdict(q.in, q.profile))
               /\ Stops(ProfileVerdict(q.profile, ActionFacts(q.in.action))) =>
                    Stops(EffectiveVerdict(q.in, q.profile))
               /\ \A s \in Stricter(q.gate, q.run) :
                    Firmness[GateVerdict(s.gate, s.run)] >= Firmness[GateVerdict(q.gate, q.run)]
               /\ \A p \in {d \in q.gate.files : d.ends = "below"} :
                    GateVerdict(q.gate, [q.run EXCEPT !.approved = TRUE, !.files = {p.base \o <<"a", "b">>}]) =
                      GateVerdict(q.gate, [q.run EXCEPT !.approved = TRUE, !.files = {}])
    <3>1. /\ q.in \in RiskInputs /\ ValidProfile(q.profile)
          /\ q.gate \in PolicyGates /\ q.run \in AgentRuns
      BY <1>1, <2>3, QuestionAssumption DEF EngineFits
    <3>2. \A harder \in Harder(q.in) : Strictness(RiskVerdict(harder)) >= Strictness(RiskVerdict(q.in))
      BY <3>1, HarderIsStricter
    <3>3. /\ \A harder \in Harder(q.in) : Strictness(EffectiveVerdict(harder, q.profile)) >=
                                            Strictness(EffectiveVerdict(q.in, q.profile))
          /\ Stops(ProfileVerdict(q.profile, ActionFacts(q.in.action))) =>
               Stops(EffectiveVerdict(q.in, q.profile))
      BY <3>1, EffectiveTells
    <3>4. \A s \in Stricter(q.gate, q.run) :
             Firmness[GateVerdict(s.gate, s.run)] >= Firmness[GateVerdict(q.gate, q.run)]
      BY <3>1, StricterIsFirmer
    <3>5. \A p \in {d \in q.gate.files : d.ends = "below"} :
             GateVerdict(q.gate, [q.run EXCEPT !.approved = TRUE, !.files = {p.base \o <<"a", "b">>}]) =
               GateVerdict(q.gate, [q.run EXCEPT !.approved = TRUE, !.files = {}])
      BY <3>1, BelowIsAllowed
    <3> QED BY <3>2, <3>3, <3>4, <3>5
  <2> QED BY <2>1, <2>2, <2>3 DEF CautionOnlyTightens
<1>2. EngineFits => CautionOnlyTightens
  BY <1>1
<1> QED BY <1>2, EngineInductive, PTL

=============================================================================
