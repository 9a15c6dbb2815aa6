------------------------------- MODULE LoopView -------------------------------
(***************************************************************************)
(* What the monitor makes of the event stream: src/monitor/viewModel.ts,   *)
(* dashboardData.ts, oversightAnalyzer.ts and readinessScore.ts.  Events   *)
(* and model usage are sorted into loops, loops into current and           *)
(* historical ones; every section of the dashboard is a function of those. *)
(*                                                                         *)
(* An event has an id, a type, the time it was written at, the names it    *)
(* carries ("" for none), what it says (a decision, severity or rating),   *)
(* whether it gives a reason, and a trait its text is read for.  A token   *)
(* cost event is a usage record too.  Texts and money are left out: a      *)
(* usage record costs its tokens if its model had a price when it was      *)
(* written, and no feedback has a score.                                   *)
(***************************************************************************)
EXTENDS Integers, Sequences, FiniteSets, SequencesExt, FiniteSetsExt

CONSTANTS
  Active, Recent, MaxDuration, Stale, Historical, \* the windows, in units of the clock
  UsageWindow,                                    \* how far back the cost pulse looks
  MaxLoopTokens, MaxLoopCost, MaxHistoricalRunning, \* thresholds of the oversight
  HighCost                                        \* recent cost that is brought to attention

ASSUME WindowsAssumption ==
  /\ {Active, MaxLoopTokens, MaxLoopCost, MaxHistoricalRunning, HighCost} \subseteq Nat
  /\ {Recent, UsageWindow, MaxDuration, Stale, Historical} \subseteq Nat
  /\ Active <= Recent /\ Recent <= UsageWindow /\ UsageWindow <= MaxDuration
  /\ MaxDuration <= Stale /\ Stale <= Historical

-----------------------------------------------------------------------------
(* Loops.                                                                  *)

FirstOf(texts) == LET i == SelectInSeq(texts, LAMBDA t : t # "") IN IF i = 0 THEN "" ELSE texts[i]
CaseOf(e) == FirstOf(<<e.case, "case-unknown">>)

\* buildLoopKey
LoopKey(r) == <<CaseOf(r), FirstOf(<<r.session, r.task, r.name, r.agent, "loop">>),
                FirstOf(<<r.task, r.name, r.session, r.agent, "loop">>)>>

\* createBucketFromUsage, and createBucketFromEvent, which takes the summary for a name.
LoopOf(r) == [key |-> LoopKey(r), case |-> CaseOf(r), session |-> r.session, task |-> r.task,
              name |-> FirstOf(<<r.name, r.task, "Unnamed loop">>), agent |-> r.agent,
              project |-> r.project, usage |-> <<>>, events |-> <<>>]
LoopOfEvent(e) == LoopOf([e EXCEPT !.name = FirstOf(<<@, e.id>>),
                                   !.agent = FirstOf(<<@, "unknown-agent">>)])

\* What a loop does not know yet it learns from what is added to it.
Learned(l, e) ==
  [l EXCEPT !.session = FirstOf(<<@, e.session>>), !.task = FirstOf(<<@, e.task>>),
            !.agent = FirstOf(<<@, e.agent>>), !.project = FirstOf(<<@, e.project>>)]

AddUsage(ls, r) ==
  LET i == SelectInSeq(ls, LAMBDA l : l.key = LoopKey(r))
      with(l) == [Learned(l, r) EXCEPT !.usage = Append(@, r)]
  IN IF i = 0 THEN Append(ls, with(LoopOf(r))) ELSE [ls EXCEPT ![i] = with(@)]

\* Mutant: the task of an event counts for more than its session.
BestLoopByTask(ls, e) ==
  LET known(has(_)) == SelectInSeq(ls, LAMBDA l : l.case = CaseOf(e) /\ has(l))
      found == SelectSeq(<<known(LAMBDA l : e.task # "" /\ l.task = e.task),
                           known(LAMBDA l : e.session # "" /\ l.session = e.session),
                           known(LAMBDA l : TRUE)>>, LAMBDA i : i # 0)
  IN IF found = <<>> THEN 0 ELSE found[1]

\* chooseBestBucket: the first loop of the case with the session of the event, else
\* with its task, its task's name, its agent, else the first of all; 0 if it has none.
BestLoop(ls, e) ==
  LET known(has(_)) == SelectInSeq(ls, LAMBDA l : l.case = CaseOf(e) /\ has(l))
      found == SelectSeq(<<known(LAMBDA l : e.session # "" /\ l.session = e.session),
                           known(LAMBDA l : e.task # "" /\ l.task = e.task),
                           known(LAMBDA l : e.name # "" /\ l.name = e.name),
                           known(LAMBDA l : e.agent # "" /\ l.agent = e.agent),
                           known(LAMBDA l : TRUE)>>, LAMBDA i : i # 0)
  IN IF found = <<>> THEN 0 ELSE found[1]

AddEvent(ls, e) ==
  LET i == BestLoop(ls, e)
      with(l) == [Learned(l, e) EXCEPT !.events = Append(@, e)]
  IN IF i = 0 THEN Append(ls, with(LoopOfEvent(e))) ELSE [ls EXCEPT ![i] = with(@)]

\* readTokenCosts
UsageOf(events) == SelectSeq(events, LAMBDA e : e.type \in {"token.cost", "model.usage"} /\ e.case # "")

\* deriveLoopBuckets: usage first, then the events.
LoopsOf(events) == FoldLeft(AddEvent, FoldLeft(AddUsage, <<>>, UsageOf(events)), events)

Times(l) == {e.at : e \in ToSet(l.usage) \cup ToSet(l.events)}
LastTime(l) == Max(Times(l))
Duration(l) == LastTime(l) - Min(Times(l))
OfType(events, type) == SelectSeq(events, LAMBDA e : e.type = type)
Saw(l, type) == \E e \in ToSet(l.events) : e.type = type
TokensOf(records) == FoldLeft(LAMBDA n, r : n + r.tokens, 0, records)
CostOf(records) == FoldLeft(LAMBDA n, r : n + IF r.priced THEN r.tokens ELSE 0, 0, records)

LoopStatus(l, now) ==
  IF Saw(l, "task.completed") THEN "completed"
  ELSE IF Saw(l, "task.started") /\ now - LastTime(l) <= Recent THEN "running"
  ELSE IF Saw(l, "task.started") /\ now - LastTime(l) <= Stale THEN "stale"
  ELSE "historical"

ApprovalStatus(l) ==
  LET asked == Len(OfType(l.events, "approval.requested"))
      resolved == OfType(l.events, "approval.resolved")
  IN IF \E e \in ToSet(resolved) : e.says = "rejected" THEN "rejected"
     ELSE IF asked > Len(resolved) THEN "pending"
     ELSE IF resolved # <<>> THEN "approved" ELSE "none"

\* The loops, the one that was heard of last first.
ByRecency(ls) ==
  LET order == SetToSortSeq(DOMAIN ls, LAMBDA i, j :
                 \/ LastTime(ls[i]) > LastTime(ls[j])
                 \/ LastTime(ls[i]) = LastTime(ls[j]) /\ i < j)
  IN [i \in DOMAIN ls |-> ls[order[i]]]

-----------------------------------------------------------------------------
(* Current and historical.  A view is [now, events, all, current, latest], *)
(* where current is a set of places in all and latest is one, or 0.        *)

\* Running loops and those of the session, or of the case, that was chosen to be
\* shown; a finished newest loop is not shown beside a running one; if nothing else
\* is left, the newest.
ChosenLoops(all, now) ==
  LET running(l) == LoopStatus(l, now) = "running"
      recent(l) == LastTime(l) >= now - Recent
      live == {i \in DOMAIN all : running(all[i])}
      led == SelectInSeq(all, LAMBDA l : running(l) /\ l.session # "")
      named == SelectInSeq(all, LAMBDA l : l.session # "")
      finished == LoopStatus(all[1], now) = "completed" /\ Len(all[1].events) > 1
      candidates ==
        IF led # 0 THEN {i \in DOMAIN all : /\ ~(i = 1 /\ finished)
                                            /\ all[i].session = all[led].session \/ recent(all[i])}
        ELSE IF named # 0 /\ recent(all[named])
          THEN {i \in DOMAIN all : all[i].session = all[named].session}
        ELSE {i \in DOMAIN all : all[i].case = all[1].case /\ LastTime(all[i]) >= now - Historical}
  IN IF all # <<>> /\ live \cup candidates = {} THEN {1} ELSE live \cup candidates

ViewOf(events, now) ==
  LET all == ByRecency(LoopsOf(events))
      current == IF all = <<>> THEN {} ELSE ChosenLoops(all, now)
      live == {i \in current : LoopStatus(all[i], now) = "running"}
  IN [now |-> now, events |-> events, all |-> all, current |-> current,
      latest |-> IF live # {} THEN Min(live) ELSE IF current # {} THEN Min(current) ELSE 0]

\* The newest loop was shown for want of a better one.
HistoricalOnly(v) ==
  /\ v.current = {1}
  /\ LastTime(v.all[1]) < v.now - Recent /\ LoopStatus(v.all[1], v.now) # "running"

InView(v, places) == FlattenSeq([i \in 1..Len(v.all) |-> IF i \in places THEN v.all[i].events ELSE <<>>])
CurrentEvents(v) == InView(v, v.current)
HistoricalLoops(v) == {v.all[i] : i \in DOMAIN v.all \ v.current}

\* deriveActiveLoops, by case and agent: one that was started runs until the last
\* of its events says that it is over.
ActiveLoops(events) ==
  LET groups == {<<CaseOf(e), e.agent>> : e \in ToSet(events)}
      of(g) == SelectSeq(events, LAMBDA e : <<CaseOf(e), e.agent>> = g)
      started == {g \in groups : \E e \in ToSet(of(g)) : e.type \in {"task.started", "run.started"}}
      over == {"task.completed", "run.completed", "run.failed"}
  IN {[group |-> g, last |-> Last(of(g)).type, running |-> Last(of(g)).type \notin over] : g \in started}

-----------------------------------------------------------------------------
(* Approvals.                                                              *)

Waiting(items) == {i \in DOMAIN items : items[i].status = "pending"}
Item(e) == [id |-> e.id, names |-> {e.id, e.ref} \ {""}, case |-> e.case, agent |-> e.agent, at |-> e.at, status |-> "pending"]
Resolution(e) == IF e.says = "rejected" THEN "rejected" ELSE "approved"

\* A resolution that names no request that is known resolves the latest pending one.
Named(items, e, known(_)) ==
  LET named == {i \in DOMAIN items : known(items[i])}
  IN IF e.ref # "" /\ named # {} THEN Max(named) ELSE Max(Waiting(items) \cup {0})

\* buildApprovalItems, over the current loops; a request is known by its event.
\* Where nothing is pending the resolution makes an entry of its own.
ApprovalItems(v) ==
  LET step(items, e) ==
        LET i == Named(items, e, LAMBDA a : a.id = e.ref /\ a.asked)
            new == Item(e) @@ [asked |-> e.type = "approval.requested"]
        IN IF e.type = "approval.requested" THEN Append(items, new)
           ELSE IF e.type # "approval.resolved" THEN items
           ELSE IF i = 0 THEN Append(items, [new EXCEPT !.status = Resolution(e)])
           ELSE [items EXCEPT ![i].status = Resolution(e), ![i].at = e.at]
  IN FoldLeft(step, <<>>, CurrentEvents(v))

\* deriveApprovalQueue, over the stream; a request is known by its approvalId too.
ApprovalQueue(events) ==
  LET step(items, e) ==
        LET i == Named(items, e, LAMBDA a : e.ref \in a.names)
        IN IF e.type = "approval.requested" THEN Append(items, Item(e))
           ELSE IF e.type # "approval.resolved" \/ i = 0 THEN items
           ELSE [items EXCEPT ![i].status = Resolution(e), ![i].names = @ \cup ({e.ref} \ {""})]
  IN FoldLeft(step, <<>>, events)

-----------------------------------------------------------------------------
(* Oversight.                                                              *)

WarningOrder == <<"missing_explanation", "stale_loop", "duration", "token_usage", "cost",
  "usage_without_cost", "provider_retries", "patch_noop", "artifact_without_completion",
  "completion_without_report", "feedback_needs_review">>
AnomalyOrder == <<"decision_without_rationale", "high_risk_without_mitigation",
  "unresolved_approval", "missing_attribution", "repeated_failures", "historical_active">>
Penalty == [missing_explanation |-> 5, stale_loop |-> 10, duration |-> 10, token_usage |-> 12,
  cost |-> 15, usage_without_cost |-> 10, provider_retries |-> 10, patch_noop |-> 10,
  artifact_without_completion |-> 10, completion_without_report |-> 10,
  feedback_needs_review |-> 5, decision_without_rationale |-> 10,
  high_risk_without_mitigation |-> 15, unresolved_approval |-> 15, missing_attribution |-> 20,
  repeated_failures |-> 15, historical_active |-> 15]

\* collectLoopExplainability
Decisions(l) == ToSet(OfType(l.events, "decision.made"))
ExplanationMissing(l) ==
  \/ \E e \in ToSet(l.events) : e.type \in {"decision.made", "approval.requested"} /\ ~e.why
  \/ Saw(l, "task.completed") /\ ~Saw(l, "report.generated")

Issues(v, l) ==
  LET E == ToSet(l.events)
      status == LoopStatus(l, v.now)
      traits(t) == Cardinality({e \in E : e.trait = t})
      staleByAge == status = "stale" \/ (status # "historical" /\ v.now - LastTime(l) > Stale)
      holds ==
        [missing_explanation |-> ExplanationMissing(l),
         stale_loop |-> staleByAge /\ ~Saw(l, "task.completed"),
         duration |-> Duration(l) > MaxDuration,
         token_usage |-> TokensOf(l.usage) > MaxLoopTokens,
         cost |-> CostOf(l.usage) > MaxLoopCost,
         usage_without_cost |-> \E r \in ToSet(l.usage) : ~r.priced \/ r.tokens = 0,
         provider_retries |-> traits("retry") > 1,
         patch_noop |-> traits("noop") > 0,
         artifact_without_completion |-> Saw(l, "artifact.changed") /\ ~Saw(l, "task.completed"),
         completion_without_report |-> Saw(l, "task.completed") /\ ~Saw(l, "report.generated"),
         feedback_needs_review |-> \E e \in E : e.type = "feedback.recorded" /\ e.says = "negative",
         decision_without_rationale |-> Decisions(l) # {} /\ \A e \in Decisions(l) : ~e.why,
         high_risk_without_mitigation |-> \E e \in E : e.type = "risk.detected" /\ e.says = "high" /\ ~e.why,
         unresolved_approval |-> \/ ApprovalStatus(l) = "pending"
                                 \/ Saw(l, "approval.requested") /\ ~Saw(l, "approval.resolved"),
         missing_attribution |-> "" \in {l.project, l.task, l.agent},
         repeated_failures |-> traits("fails") > 1,
         historical_active |-> MaxHistoricalRunning < Cardinality(
            {h \in HistoricalLoops(v) : LoopStatus(h, v.now) # "historical"
                                        /\ v.now - LastTime(h) > Historical})]
  IN {c \in DOMAIN holds : holds[c]}

OversightScore(v, l) == Max({0, 100 - MapThenSumSet(LAMBDA c : Penalty[c], Issues(v, l))})
OversightLevel(v, l) ==
  LET s == OversightScore(v, l)
  IN IF s >= 80 THEN "healthy" ELSE IF s >= 60 THEN "watch" ELSE IF s >= 40 THEN "needs_review" ELSE "critical"
RecommendedAction(v, l) ==
  LET I == Issues(v, l)
  IN IF "missing_attribution" \in I THEN "fix_attribution"
     ELSE IF OversightLevel(v, l) = "critical"
             \/ I \cap {"repeated_failures", "patch_noop", "historical_active"} # {} THEN "stop_or_handoff"
     ELSE IF I \cap {"unresolved_approval", "high_risk_without_mitigation"} # {} THEN "approve_required"
     ELSE IF I \cap {"stale_loop", "duration"} # {} /\ ~Saw(l, "task.completed") THEN "investigate_stale_loop"
     ELSE IF I \cap {"cost", "token_usage", "usage_without_cost"} # {} THEN "investigate_cost"
     ELSE IF "missing_explanation" \in I THEN "add_explanation"
     ELSE IF I # {} THEN "review" ELSE "continue"

\* calculateReadinessScore, of the events of some loops.
Readiness(events) ==
  LET E == ToSet(events)
      says(type, what) == {e \in E : e.type = type /\ e.says = what}
      risks == OfType(events, "risk.detected")
      weight(e) == IF e.says = "high" THEN 20 ELSE IF e.says = "low" THEN 3 ELSE 8
      none(type) == OfType(events, type) = <<>>
      failed == \E e \in E : e.type = "test.completed" /\ e.says # "passed"
      rejected == says("approval.resolved", "rejected") # {}
      pending == says("approval.resolved", "pending") # {}
      approved == \E e \in E : e.type = "approval.resolved" /\ e.says \in {"", "approved"}
      off(b, n) == IF b THEN n ELSE 0
      score == Max({0, 100 - FoldLeft(LAMBDA n, e : n + weight(e), 0, risks)
                 - off(rejected, 25) - off(pending, 10) - off(~approved, 10)
                 - off(none("artifact.changed"), 5) - off(events = <<>>, 5)
                 - off(none("handoff.created"), 4) - off(failed, 12)})
  IN IF score < 80 \/ rejected \/ failed THEN "Not ready"
     ELSE IF score < 95 \/ risks # <<>> \/ pending \/ none("handoff.created") THEN "Ready with review"
     ELSE "Ready"

-----------------------------------------------------------------------------
(* Agents, attention, bills and the circuit map.                           *)

\* agentStatuses: a pending approval outweighs a risk.
AgentStatuses(v) ==
  LET E == {e \in ToSet(CurrentEvents(v)) : e.agent # ""}
      waits == {a.agent : a \in {ApprovalItems(v)[i] : i \in Waiting(ApprovalItems(v))}} \ {""}
      status(a) ==
        IF a \in waits THEN "waiting_for_approval"
        ELSE IF \E e \in E : e.type = "risk.detected" /\ e.agent = a THEN "warning"
        ELSE IF \E e \in E : e.agent = a /\ v.now - e.at <= Active THEN "active" ELSE "idle"
  IN [a \in {e.agent : e \in E} \cup waits |-> status(a)]

\* The usage of the last hour, of the latest loop's session, else of its case.
RecentUsage(v) ==
  LET recent == SelectSeq(UsageOf(v.events), LAMBDA r : v.now - r.at <= UsageWindow)
      ofSession == SelectSeq(recent, LAMBDA r : r.session = v.all[v.latest].session)
      ofCase == SelectSeq(recent, LAMBDA r : r.case = v.all[v.latest].case)
  IN IF v.latest = 0 \/ v.all[v.latest].session = "" THEN recent
     ELSE IF ofSession # <<>> THEN ofSession ELSE IF ofCase # <<>> THEN ofCase ELSE recent

\* aggregateSpend.latestRunCost: a record without the name of its task does not count.
LatestRunCost(v) ==
  IF v.latest = 0 THEN 0
  ELSE LET l == v.all[v.latest]
       IN CostOf(SelectSeq(UsageOf(v.events), LAMBDA r :
            r.case = l.case /\ r.name = l.name /\ (l.task # "" => r.task = l.task)
            /\ (l.agent # "" => r.agent = l.agent)))

CriticalLoops(v) == {i \in DOMAIN v.all : OversightLevel(v, v.all[i]) = "critical"}
StaleLoops(v) == {i \in DOMAIN v.all : LoopStatus(v.all[i], v.now) = "stale"}

\* attentionQueue before the operator's actions; the lists are cut after 20 entries.
Attention(id, case, priority, kind) ==
  [id |-> id, case |-> case, priority |-> priority, kind |-> kind, state |-> "open"]
AttentionItems(v) ==
  LET items == ApprovalItems(v)
      waiting == SetToSortSeq(Waiting(items), LAMBDA i, j : items[i].at > items[j].at
                                                  \/ (items[i].at = items[j].at /\ i < j))
      issues(order, kind) == FlattenSeq([i \in DOMAIN v.all |->
        LET I == Issues(v, v.all[i])
            found == SelectSeq(order, LAMBDA c : c \in I)
        IN [k \in DOMAIN found |-> Attention(<<found[k]>>, "", "high", kind)]])
      loops(S, kind) == LET s == SetToSortSeq(S, <)
                        IN [k \in DOMAIN s |-> Attention(v.all[s[k]].key, v.all[s[k]].case, "high", kind)]
      handoffs == OfType(CurrentEvents(v), "handoff.created")
      cost == CostOf(RecentUsage(v))
  IN [k \in DOMAIN waiting |->
        LET a == items[waiting[k]]
        IN Attention(<<a.id>>, a.case, IF Len(waiting) > 5 THEN "high" ELSE "medium", "approval")]
     \o issues(WarningOrder, "warning") \o issues(AnomalyOrder, "risk")
     \o loops(StaleLoops(v), "stale_loop") \o loops(CriticalLoops(v), "failed_loop")
     \o [k \in DOMAIN handoffs |-> Attention(<<CaseOf(handoffs[k]), handoffs[k].id>>, CaseOf(handoffs[k]), "medium", "handoff")]
     \o IF cost >= Max({HighCost, 2 * LatestRunCost(v)}) THEN <<Attention(<<"cost">>, "", "medium", "high_cost")>> ELSE <<>>

\* The first entry that bears the name the operator gave, or is of the case so named.
ActedOn(q, target) == SelectInSeq(q, LAMBDA a : a.id = <<target>> \/ (target # "" /\ a.case = target))

AttentionQueue(v) ==
  LET step(q, e) == LET i == ActedOn(q, e.ref) IN IF i = 0 THEN q ELSE [q EXCEPT ![i].state = e.says]
  IN FoldLeft(step, AttentionItems(v), OfType(v.events, "operator.action.recorded"))

ConsoleStatus(v) ==
  LET risks == Len(OfType(CurrentEvents(v), "risk.detected"))
  IN IF CriticalLoops(v) # {} THEN "stop"
     ELSE IF StaleLoops(v) # {} /\ CostOf(RecentUsage(v)) > LatestRunCost(v) THEN "pause"
     ELSE IF Waiting(ApprovalItems(v)) # {} \/ risks > 0 \/ AttentionItems(v) # <<>> THEN "review"
     ELSE "watch"

\* deriveBillableTimecardFromLoop, and what the summary makes of a historical view.
BillableCandidate(v, i) ==
  LET l == v.all[i]
  IN /\ TokensOf(l.usage) > 0 \/ Saw(l, "handoff.created") \/ Saw(l, "artifact.changed")
     /\ LoopStatus(l, v.now) \in {"running", "completed"}
     /\ ~(i \in v.current /\ HistoricalOnly(v))

\* deriveCircuitGraph: whoever an edge needs is added as a node.
CircuitEdges(v) ==
  LET live(s) == IF HistoricalOnly(v) THEN "completed" ELSE s
      records == ToSet(RecentUsage(v))
      handoffs == OfType(CurrentEvents(v), "handoff.created")
      items == ApprovalItems(v)
  IN {[from |-> <<"agent", r.agent>>, to |-> <<"model", r.model>>, status |-> live("active")] :
        r \in {s \in records : s.agent # ""}}
     \cup {[from |-> <<"agent", FirstOf(<<handoffs[i].agent, "unknown">>)>>,
            to |-> <<"agent", FirstOf(<<handoffs[i].ref, "unknown">>)>>,
            status |-> live(IF i = Len(handoffs) THEN "active" ELSE "completed")] : i \in DOMAIN handoffs}
     \cup {[from |-> <<"agent", FirstOf(<<items[i].agent, "unknown">>)>>, to |-> <<"human", "reviewer">>,
            status |-> live("pending")] : i \in Waiting(items)}
CircuitNodes(v) ==
  {<<"agent", a>> : a \in DOMAIN AgentStatuses(v)} \cup {<<"model", r.model>> : r \in ToSet(RecentUsage(v))}
  \cup UNION {{e.from, e.to} : e \in CircuitEdges(v)}
=============================================================================
