---------------------------- MODULE MonitorService ----------------------------
(***************************************************************************)
(* The monitor (src/monitor/server.ts) over a stream that agents append to *)
(* meanwhile: what it writes itself, and what it shows.  Every answer is   *)
(* computed from the stream that is read for it; the monitor keeps nothing. *)
(***************************************************************************)
EXTENDS LoopView

CONSTANTS
  Says,      \* Says[id]: what an event of that id says, besides when
  Request,   \* the POST requests that may come in
  Auth,      \* governanceAuth: [enabled, limits, token, tenants]
  MaxNow,    \* bounds of the model: the clock, the length of the stream
  MaxStream

VARIABLES
  written,   \* [id, at, priced]: the events, when they were written, and at what price
  clock,     \* Date.now()
  prices     \* the models model-pricing.json has a price for
monitorVars == <<written, clock, prices>>

MonitorInit == written = <<>> /\ clock = 1 /\ prices = {}

EventsOf(s) == [i \in DOMAIN s |-> Says[s[i].id] @@ s[i]]

\* appendEvent.  An id is appended once.
AppendEvent(id) ==
  /\ Len(written) < MaxStream /\ \A i \in DOMAIN written : written[i].id # id
  /\ written' = Append(written, [id |-> id, at |-> clock, priced |-> Says[id].model \in prices])
  /\ UNCHANGED <<clock, prices>>

SetModelPricing(model) ==
  model \notin prices /\ prices' = prices \cup {model} /\ UNCHANGED <<written, clock>>

Later == \E t \in clock + 1 .. MaxNow : clock' = t /\ UNCHANGED <<written, prices>>

-----------------------------------------------------------------------------
(* Requests: [path, body, bearer, limited, tenant, event].  event is the   *)
(* id of what the request writes if it is heard.                           *)

\* authorizeGovernanceRequest, in its order; 0 when it may proceed.
AuthorizationCode(r) ==
  IF ~Auth.enabled THEN 0
  ELSE IF Auth.limits /\ r.limited THEN 429
  ELSE IF Auth.token = "" THEN 500
  ELSE IF r.bearer # Auth.token THEN 401
  ELSE IF Auth.tenants # {} /\ r.tenant \notin Auth.tenants THEN 403
  ELSE 0

\* readJsonBody, and its copy in the operator's endpoint, which asks for no
\* authorization.
RefusalCode(r) ==
  IF r.body = "large" THEN 413
  ELSE IF r.body = "garbled" THEN 400
  ELSE IF r.path # "operator" /\ AuthorizationCode(r) # 0 THEN AuthorizationCode(r)
  ELSE IF r.body = "invalid" THEN 400
  ELSE 0

\* A request that is refused, or whose write fails, leaves everything as it is.
Post(r) == RefusalCode(r) = 0 /\ AppendEvent(r.event)

\* What only a request of the monitor writes.
Requested(id) == \E r \in Request : r.event = id

MonitorNext ==
  \/ \E id \in DOMAIN Says : ~Requested(id) /\ AppendEvent(id)
  \/ \E r \in Request : Post(r)
  \/ \E m \in {Says[id].model : id \in DOMAIN Says} \ {""} : SetModelPricing(m)
  \/ Later
-----------------------------------------------------------------------------
\* Two resolutions never compete: each answers, by its id, a request of its own loop
\* that came before it.
WellAnswered(l) ==
  \A i \in DOMAIN l.events : l.events[i].type = "approval.resolved" =>
    \E j \in 1 .. i - 1 : l.events[j].type = "approval.requested" /\ l.events[j].id = l.events[i].ref

\* The dashboard leaves nothing out and counts nothing twice: every event is in one
\* loop, and loops and stream add up to the same tokens and cost.  Where the usage of a
\* session is recorded, its events are on a card of that session.  A loop that runs is
\* shown, and one that runs is shown as the latest.
LoopsAddUp(v) ==
  LET usage == UsageOf(v.events)
      in(e) == {i \in DOMAIN v.all : e \in ToSet(v.all[i].events)}
      summed(f(_)) == MapThenSumSet(LAMBDA i : f(v.all[i]), DOMAIN v.all)
      runs(i) == LoopStatus(v.all[i], v.now) = "running"
  IN /\ \A e \in ToSet(v.events) : Cardinality(in(e)) = 1
     /\ summed(LAMBDA l : Len(l.events)) = Len(v.events)
     /\ summed(LAMBDA l : TokensOf(l.usage)) = TokensOf(usage)
     /\ summed(LAMBDA l : CostOf(l.usage)) = CostOf(usage)
     /\ \A e \in ToSet(v.events), r \in ToSet(usage) :
          e.session # "" /\ e.session = r.session /\ CaseOf(e) = CaseOf(r) =>
            \A i \in in(e) : v.all[i].session = e.session
     /\ \A i \in DOMAIN v.all : runs(i) => i \in v.current /\ runs(v.latest)

\* The sections, which are computed apart, agree.  Where all loops are shown and each
\* approval answers its request, the two lists of approvals name the same ones as
\* pending.  Nobody waits unseen: whoever asked for a pending approval is shown as
\* waiting, has an edge to the reviewer in the circuit map, and keeps the console from
\* "watch".  Work is called ready only with an approval and a handoff and no risk.
\* No operator's action changes two entries.  Nothing is billed of an old stream, nothing
\* in it is live.  Where the snapshot ends with a completed task, a card says so.
SectionsAgree(v) ==
  LET items == ApprovalItems(v)
      ids(q) == {q[i].id : i \in Waiting(q)}
      events == CurrentEvents(v)
      has(type) == OfType(events, type) # <<>>
      queue == AttentionQueue(v)
  IN /\ v.current = DOMAIN v.all /\ (\A i \in v.current : WellAnswered(v.all[i])) =>
          ids(items) = ids(ApprovalQueue(v.events))
     /\ \A i \in Waiting(items) :
          /\ AgentStatuses(v)[items[i].agent] = "waiting_for_approval"
          /\ \E e \in CircuitEdges(v) : e.from = <<"agent", items[i].agent>> /\ e.to[1] = "human"
          /\ ConsoleStatus(v) # "watch"
     /\ Readiness(events) = "Ready" =>
          has("approval.resolved") /\ has("handoff.created") /\ ~has("risk.detected")
     /\ Cardinality({i \in DOMAIN queue : queue[i].state # "open"})
          <= Len(OfType(v.events, "operator.action.recorded"))
     /\ \A i \in DOMAIN v.all :
          /\ RecommendedAction(v, v.all[i]) = "continue" => OversightScore(v, v.all[i]) = 100
          /\ BillableCandidate(v, i) => LoopStatus(v.all[i], v.now) # "stale" /\ ~(HistoricalOnly(v) /\ i \in v.current)
     /\ \A e \in CircuitEdges(v) :
          {e.from, e.to} \subseteq CircuitNodes(v) /\ (HistoricalOnly(v) => e.status = "completed")
     /\ \A g \in ActiveLoops(v.events) :
          g.last = "task.completed" => \E l \in ToSet(v.all) : l.case = g.group[1] /\ LoopStatus(l, v.now) = "completed"

\* Whatever was written, in whatever order, and whenever the dashboard is asked for, it
\* adds up and its sections agree.  (The empty one shows nothing.)
DashboardIsConsistent ==
  written # <<>> =>
    \A v \in {ViewOf(EventsOf(written), clock)} : LoopsAddUp(v) /\ SectionsAgree(v)
=============================================================================
