---------------------------- MODULE RuntimeCore ----------------------------
(***************************************************************************)
(* The authorization pipeline of the runtime daemon: sessions, tasks,      *)
(* proposals, human approvals, execution permits and managed execution     *)
(* (src/runtime/runtimeCore.ts with boundApproval.ts, executionPermit.ts,  *)
(* managedExecutor.ts and budgets.ts).                                     *)
(*                                                                         *)
(* Every handler of the daemon runs to its end without yielding, except    *)
(* that execute awaits the executor plugin; so a handler is one action     *)
(* here, and the plugin acts in a later one.  The host changes under the   *)
(* runtime at any time.  The daemon may restart: sessions, requests and    *)
(* approved contexts live in memory, claim files and issued tokens do not. *)
(*                                                                         *)
(* A fingerprint is the session, the task and the action: identity is      *)
(* bound from the session record, so it is a function of these three.  A   *)
(* request a handler refuses without any state change is no action.        *)
(*                                                                         *)
(* ALLOW stands for ALLOW_WITH_WARNING too and DENY for STOP_AGENT; of the *)
(* budgets, the action and the runtime ceilings are modelled.              *)
(***************************************************************************)
EXTENDS Integers, FiniteSets

CONSTANTS
  Session, Task, Action,
  Context,       \* what captureExecutionContext can resolve an action to
  Request, Approval, Permit,  \* bounds of the model: the ids that can be minted
  Policy,        \* Policy[a][x]: the effective disposition of a on host state x
  Critical,      \* the actions whose risk score locks the breaker
  Supported,     \* the actions whose kind has a registered executor
  Failing,       \* the actions the breaker counts as failures
  MaxActions,    \* the profile's budgets.maximum_actions
  MaxRuntime,    \* the profile's budgets.maximum_runtime_ms
  MaxDenied,     \* the breaker's maxDeniedActions
  MaxFailures,   \* the breaker's maxFailures
  ApprovalTTL, PermitTTL,
  MaxTime,       \* bound of the model: the clock stops here
  None

Dispositions == {"ALLOW", "REQUIRE_APPROVAL", "PAUSE", "DENY"}

ASSUME CoreAssumption ==
  /\ Policy \in [Action -> [Context -> Dispositions]]
  /\ Critical \subseteq Action /\ Supported \subseteq Action
  /\ Failing \subseteq Action
  /\ MaxActions \in Nat /\ MaxRuntime \in Nat
  /\ MaxDenied \in Nat \ {0} /\ MaxFailures \in Nat \ {0}
  /\ ApprovalTTL \in Nat /\ PermitTTL \in Nat /\ MaxTime \in Nat
  /\ None \notin Session \cup Context \cup Approval

VARIABLES
  now,           \* Date.now()
  host,          \* host[a]: what a resolves to on this host at this moment
  session,       \* session[s]: its stage
  tasks,         \* tasks[s]: state.tasks
  parent,        \* parent[s]: parent_session_id, or None
  limit,         \* limit[s]: maximum_actions of the session's budget tracker
  deadline,      \* deadline[s]: its startedAt plus its maximum_runtime_ms
  used,          \* used[s]: actions its budget tracker recorded
  denied,        \* denied[s]: the breaker's deniedActions, up to MaxDenied
  failures,      \* failures[s]: the breaker's failures, up to MaxFailures
  breaker,       \* breaker[s]: WARNING, which admits like CLOSED, is CLOSED
  requests,      \* history: every approval request ever recorded
  held,          \* pendingApprovals of all sessions, in memory
  grantedAs,     \* grantedAs[r]: granted_approval_id, or None
  tokens,        \* history: every approval token ever signed
  approvedContext, \* approvedContexts, in memory
  approvalClaim, \* approvalClaim[k]: the claim file of the approval id
  permits,       \* history: every execution permit ever signed
  permitClaim,   \* permitClaim[p]: the claim file of the permit id
  runs           \* history: the executions that were started

sessionVars == <<session, tasks, parent, limit, deadline>>
breakerVars == <<denied, failures, breaker>>
consentVars == <<requests, held, grantedAs, tokens, approvedContext, approvalClaim>>
vars == <<now, host, sessionVars, used, breakerVars, consentVars,
          permits, permitClaim, runs>>

NoRecord == [kind |-> "none"]
Requests == [kind : {"request"}, session : Session, task : Task,
             action : Action, context : Context]
Tokens == [kind : {"token"}, request : Request, session : Session, task : Task,
           action : Action, expires : Int]
Permits == [kind : {"permit"}, session : Session, task : Task, action : Action,
            context : Context, approval : Approval \cup {None}, expires : Int]
Runs == [permit : Permit, session : Session, action : Action, claimed : Int,
         status : {"running", "landed", "refused", "failed", "lost"},
         context : Context \cup {None}]
Claims == {"none", "consumed", "revoked"}

TypeOK ==
  /\ now \in 0 .. MaxTime
  /\ host \in [Action -> Context]
  /\ session \in [Session -> {"new", "active", "finished", "lost"}]
  /\ tasks \in [Session -> SUBSET Task]
  /\ parent \in [Session -> Session \cup {None}]
  /\ limit \in [Session -> Nat]
  /\ deadline \in [Session -> Nat]
  /\ used \in [Session -> Nat]
  /\ denied \in [Session -> 0 .. MaxDenied]
  /\ failures \in [Session -> 0 .. MaxFailures]
  /\ breaker \in [Session -> {"CLOSED", "OPEN", "LOCKED"}]
  /\ requests \in [Request -> Requests \cup {NoRecord}]
  /\ held \in SUBSET Request
  /\ grantedAs \in [Request -> Approval \cup {None}]
  /\ tokens \in [Approval -> Tokens \cup {NoRecord}]
  /\ approvedContext \in [Approval -> Context \cup {None}]
  /\ approvalClaim \in [Approval -> Claims]
  /\ permits \in [Permit -> Permits \cup {NoRecord}]
  /\ permitClaim \in [Permit -> Claims]
  /\ runs \in SUBSET Runs

Init ==
  /\ now = 0
  /\ host \in [Action -> Context]
  /\ session = [s \in Session |-> "new"]
  /\ tasks = [s \in Session |-> {}]
  /\ parent = [s \in Session |-> None]
  /\ limit = [s \in Session |-> 0]
  /\ deadline = [s \in Session |-> 0]
  /\ used = [s \in Session |-> 0]
  /\ denied = [s \in Session |-> 0]
  /\ failures = [s \in Session |-> 0]
  /\ breaker = [s \in Session |-> "CLOSED"]
  /\ requests = [r \in Request |-> NoRecord]
  /\ held = {}
  /\ grantedAs = [r \in Request |-> None]
  /\ tokens = [k \in Approval |-> NoRecord]
  /\ approvedContext = [k \in Approval |-> None]
  /\ approvalClaim = [k \in Approval |-> "none"]
  /\ permits = [p \in Permit |-> NoRecord]
  /\ permitClaim = [p \in Permit |-> "none"]
  /\ runs = {}

-----------------------------------------------------------------------------
(* Sessions and tasks.                                                     *)

\* authenticate: the credential names one session, known and not finished.
Authenticated(s) == session[s] = "active"

\* Mutant: a remainder that can go below zero.
RemainingUnclipped(s) == limit[s] - used[s] - 1

RemainingActions(s) == IF used[s] < limit[s] THEN limit[s] - used[s] ELSE 0

\* A delegated session may tighten the budget it inherits, never raise it.
InheritedLimit(s) ==
  IF RemainingActions(s) < MaxActions THEN RemainingActions(s) ELSE MaxActions

\* remaining() of the parent counts down to the parent's own deadline.
InheritedDeadline(s) ==
  IF deadline[s] < now THEN now
  ELSE IF deadline[s] < now + MaxRuntime THEN deadline[s] ELSE now + MaxRuntime

Open(s, by, budget, end) ==
  /\ session[s] = "new"
  /\ session' = [session EXCEPT ![s] = "active"]
  /\ parent' = [parent EXCEPT ![s] = by]
  /\ limit' = [limit EXCEPT ![s] = budget]
  /\ deadline' = [deadline EXCEPT ![s] = end]
  /\ UNCHANGED <<now, host, tasks, used, breakerVars, consentVars,
                 permits, permitClaim, runs>>

StartSession(s) == Open(s, None, MaxActions, now + MaxRuntime)

StartDelegatedSession(s, by) ==
  /\ Authenticated(by)
  /\ Open(s, by, InheritedLimit(by), InheritedDeadline(by))

StartTask(s, t) ==
  /\ Authenticated(s)
  /\ tasks' = [tasks EXCEPT ![s] = @ \cup {t}]
  /\ UNCHANGED <<now, host, session, parent, limit, deadline, used,
                 breakerVars, consentVars, permits, permitClaim, runs>>

FinishTask(s, t) ==
  /\ Authenticated(s)
  /\ t \in tasks[s]
  /\ tasks' = [tasks EXCEPT ![s] = @ \ {t}]
  /\ UNCHANGED <<now, host, session, parent, limit, deadline, used,
                 breakerVars, consentVars, permits, permitClaim, runs>>

FinishSession(s) ==
  /\ Authenticated(s)
  /\ session' = [session EXCEPT ![s] = "finished"]
  /\ UNCHANGED <<now, host, tasks, parent, limit, deadline, used, breakerVars,
                 consentVars, permits, permitClaim, runs>>

-----------------------------------------------------------------------------
(* Proposals.                                                              *)

CountDenied(s, disposition) ==
  IF disposition = "DENY" /\ denied[s] < MaxDenied THEN denied[s] + 1 ELSE denied[s]

CountFailure(s, a) ==
  IF a \in Failing /\ failures[s] < MaxFailures THEN failures[s] + 1 ELSE failures[s]

\* Mutant: the counts of this call alone decide, as if
\* the thresholds were compared with equality.
NextBreakerByEquality(s, a, d, f) ==
  CASE breaker[s] = "LOCKED" \/ a \in Critical -> "LOCKED"
    [] breaker[s] # "LOCKED" /\ a \notin Critical
         /\ \/ (d = MaxDenied /\ d # denied[s])
            \/ (f = MaxFailures /\ f # failures[s])
         -> "OPEN"
    [] OTHER -> "CLOSED"

\* The state evaluate leaves the breaker in.  Only LOCKED is kept for its own
\* sake: below the thresholds a repeated call makes any other state WARNING.
NextBreaker(s, a, d, f) ==
  CASE breaker[s] = "LOCKED" \/ a \in Critical -> "LOCKED"
    [] breaker[s] # "LOCKED" /\ a \notin Critical /\ (d >= MaxDenied \/ f >= MaxFailures)
         -> "OPEN"
    [] OTHER -> "CLOSED"

\* propose evaluates the policy on the host as it is and feeds the breaker
\* with the outcome, whatever the outcome is.
Evaluate(s, t, a, disposition) ==
  /\ Authenticated(s)
  /\ t \in tasks[s]
  /\ disposition = Policy[a][host[a]]
  /\ denied' = [denied EXCEPT ![s] = CountDenied(s, disposition)]
  /\ failures' = [failures EXCEPT ![s] = CountFailure(s, a)]
  /\ breaker' = [breaker EXCEPT ![s] =
       NextBreaker(s, a, CountDenied(s, disposition), CountFailure(s, a))]

ProposeAllowed(s, t, a, p) ==
  /\ Evaluate(s, t, a, "ALLOW")
  /\ permits[p] = NoRecord
  /\ permits' = [permits EXCEPT ![p] =
       [kind |-> "permit", session |-> s, task |-> t, action |-> a,
        context |-> host[a], approval |-> None, expires |-> now + PermitTTL]]
  /\ UNCHANGED <<now, host, sessionVars, used, consentVars, permitClaim, runs>>

ProposeHeld(s, t, a, r) ==
  /\ Evaluate(s, t, a, "REQUIRE_APPROVAL")
  /\ requests[r] = NoRecord
  /\ requests' = [requests EXCEPT ![r] =
       [kind |-> "request", session |-> s, task |-> t, action |-> a,
        context |-> host[a]]]
  /\ held' = held \cup {r}
  /\ UNCHANGED <<now, host, sessionVars, used, grantedAs, tokens,
                 approvedContext, approvalClaim, permits, permitClaim, runs>>

ProposeRefused(s, t, a) ==
  /\ \E d \in {"PAUSE", "DENY"} : Evaluate(s, t, a, d)
  /\ UNCHANGED <<now, host, sessionVars, used, consentVars, permits,
                 permitClaim, runs>>

-----------------------------------------------------------------------------
(* Human approvals.                                                        *)

\* Mutant: a held request can be granted again.
GrantableAgain(r) == r \in held

\* A request is the unit of consent: it is granted once.
Grantable(r) == r \in held /\ grantedAs[r] = None

\* grantApproval does not ask whether the session is still active.
GrantApproval(r, k) ==
  /\ Grantable(r)
  /\ tokens[k] = NoRecord
  /\ tokens' = [tokens EXCEPT ![k] =
       [kind |-> "token", request |-> r, session |-> requests[r].session,
        task |-> requests[r].task, action |-> requests[r].action,
        expires |-> now + ApprovalTTL]]
  /\ grantedAs' = [grantedAs EXCEPT ![r] = k]
  /\ approvedContext' = [approvedContext EXCEPT ![k] = requests[r].context]
  /\ UNCHANGED <<now, host, sessionVars, used, breakerVars, requests, held,
                 approvalClaim, permits, permitClaim, runs>>

\* Mutant: a consumed record is taken over at once.
ClaimableAgain(claim, expires, at) == claim # "revoked"

\* write() of the claim store: no record, or a consumed one that has expired.
Claimable(claim, expires, at) ==
  claim = "none" \/ (claim = "consumed" /\ expires < at)

RevokeApproval(k) ==
  /\ tokens[k] # NoRecord
  /\ Claimable(approvalClaim[k], tokens[k].expires, now)
  /\ approvalClaim' = [approvalClaim EXCEPT ![k] = "revoked"]
  /\ UNCHANGED <<now, host, sessionVars, used, breakerVars, requests, held,
                 grantedAs, tokens, approvedContext, permits, permitClaim, runs>>

\* verify of boundApproval.ts: any claim record refuses, expired or not.
TokenVerifies(s, t, a, k) ==
  /\ tokens[k] # NoRecord
  /\ approvalClaim[k] = "none"
  /\ now <= tokens[k].expires
  /\ tokens[k].session = s /\ tokens[k].task = t /\ tokens[k].action = a

\* compareAuthorizationContext: what the operator was shown is what is there.
ContextUnchanged(a, k) == approvedContext[k] # None /\ approvedContext[k] = host[a]

\* redeemApproval up to the claim.  It does not ask whether the task is open.
Redeemable(s, t, a, k) ==
  /\ Authenticated(s)
  /\ Policy[a][host[a]] = "REQUIRE_APPROVAL"
  /\ TokenVerifies(s, t, a, k)
  /\ ContextUnchanged(a, k)

\* Mutant: the token is claimed before the host is
\* compared with what the operator was shown.
RedeemClaimsFirst(s, t, a, k, p) ==
  /\ Authenticated(s)
  /\ Policy[a][host[a]] = "REQUIRE_APPROVAL"
  /\ TokenVerifies(s, t, a, k)
  /\ permits[p] = NoRecord
  /\ approvalClaim' = [approvalClaim EXCEPT ![k] = "consumed"]
  /\ permits' = IF ~ContextUnchanged(a, k) THEN permits ELSE
       [permits EXCEPT ![p] =
         [kind |-> "permit", session |-> s, task |-> t, action |-> a,
          context |-> approvedContext[k], approval |-> k,
          expires |-> now + PermitTTL]]
  /\ UNCHANGED <<now, host, sessionVars, used, breakerVars, requests, held,
                 grantedAs, tokens, approvedContext, permitClaim, runs>>

RedeemApproval(s, t, a, k, p) ==
  /\ Redeemable(s, t, a, k)
  /\ permits[p] = NoRecord
  /\ approvalClaim' = [approvalClaim EXCEPT ![k] = "consumed"]
  /\ permits' = [permits EXCEPT ![p] =
       [kind |-> "permit", session |-> s, task |-> t, action |-> a,
        context |-> approvedContext[k], approval |-> k,
        expires |-> now + PermitTTL]]
  /\ UNCHANGED <<now, host, sessionVars, used, breakerVars, requests, held,
                 grantedAs, tokens, approvedContext, permitClaim, runs>>

\* The claim file is created but cannot be written: the empty record counts as
\* a revocation, and no permit is issued.
RedeemIoError(s, t, a, k) ==
  /\ Redeemable(s, t, a, k)
  /\ approvalClaim' = [approvalClaim EXCEPT ![k] = "revoked"]
  /\ UNCHANGED <<now, host, sessionVars, used, breakerVars, requests, held,
                 grantedAs, tokens, approvedContext, permits, permitClaim, runs>>

-----------------------------------------------------------------------------
(* Managed execution.                                                      *)

RevokePermit(p) ==
  /\ permits[p] # NoRecord
  /\ Claimable(permitClaim[p], permits[p].expires, now)
  /\ permitClaim' = [permitClaim EXCEPT ![p] = "revoked"]
  /\ UNCHANGED <<now, host, sessionVars, used, breakerVars, consentVars,
                 permits, runs>>

\* verifyExecutionPermit; the task is the permit's own.
PermitVerifies(s, a, p) ==
  /\ permits[p] # NoRecord
  /\ now <= permits[p].expires
  /\ permits[p].session = s /\ permits[p].action = a

\* The claim reads the clock again, after the verification read it.
ClaimPermit(s, a, p, at) ==
  /\ Authenticated(s)
  /\ PermitVerifies(s, a, p)
  /\ at \in now .. now + 1 /\ at <= MaxTime
  /\ now' = at
  /\ Claimable(permitClaim[p], permits[p].expires, at)

\* Mutant: an off-by-one in the budget.
BudgetAdmitsOneMore(s, at) == used[s] <= limit[s] /\ at < deadline[s]

BreakerAdmits(s) == breaker[s] \notin {"OPEN", "LOCKED"}
BudgetAdmits(s, at) == used[s] < limit[s] /\ at < deadline[s]
Admitted(s, a, at) == BreakerAdmits(s) /\ BudgetAdmits(s, at) /\ a \in Supported

ExecuteStarts(s, a, p, at) ==
  /\ ClaimPermit(s, a, p, at)
  /\ Admitted(s, a, at)
  /\ permitClaim' = [permitClaim EXCEPT ![p] = "consumed"]
  /\ used' = [used EXCEPT ![s] = @ + 1]
  /\ runs' = runs \cup
       {[permit |-> p, session |-> s, action |-> a, claimed |-> at,
         status |-> "running", context |-> None]}
  /\ UNCHANGED <<host, sessionVars, breakerVars, consentVars, permits>>

\* Breaker, budget or a missing plugin stop it: the permit is spent already.
ExecuteBlocked(s, a, p, at) ==
  /\ ClaimPermit(s, a, p, at)
  /\ ~Admitted(s, a, at)
  /\ permitClaim' = [permitClaim EXCEPT ![p] = "consumed"]
  /\ UNCHANGED <<host, sessionVars, used, breakerVars, consentVars, permits, runs>>

ExecuteIoError(s, a, p, at) ==
  /\ ClaimPermit(s, a, p, at)
  /\ permitClaim' = [permitClaim EXCEPT ![p] = "revoked"]
  /\ UNCHANGED <<host, sessionVars, used, breakerVars, consentVars, permits, runs>>

\* Mutant: the executor trusts the permit.
GuardTrusts(e) == e.status = "running"

\* The executors resolve the action on the host again right before they act.
\* The comparison and the system call are one step here: what the host does
\* between the two is beyond any check of the runtime's.
GuardPasses(e) == host[e.action] = permits[e.permit].context

\* The run ends: the side effect lands, the guard refuses it, or it fails.
Conclude(e, status, context) ==
  /\ e \in runs /\ e.status = "running"
  /\ runs' = (runs \ {e}) \cup {[e EXCEPT !.status = status, !.context = context]}
  /\ UNCHANGED <<now, host, sessionVars, used, breakerVars, consentVars,
                 permits, permitClaim>>

PluginActs(e) == GuardPasses(e) /\ Conclude(e, "landed", host[e.action])
PluginRefuses(e) == ~GuardPasses(e) /\ Conclude(e, "refused", None)
PluginFails(e) == Conclude(e, "failed", None)

-----------------------------------------------------------------------------
(* The environment.                                                        *)

HostChanges(a, x) ==
  /\ host' = [host EXCEPT ![a] = x]
  /\ UNCHANGED <<now, sessionVars, used, breakerVars, consentVars, permits,
                 permitClaim, runs>>

Tick ==
  /\ now < MaxTime
  /\ now' = now + 1
  /\ UNCHANGED <<host, sessionVars, used, breakerVars, consentVars, permits,
                 permitClaim, runs>>

\* The daemon stops and starts again on the same state directory.
Restart ==
  /\ session' = [s \in Session |-> IF session[s] = "new" THEN "new" ELSE "lost"]
  /\ held' = {}
  /\ approvedContext' = [k \in Approval |-> None]
  /\ runs' = {IF e.status = "running" THEN [e EXCEPT !.status = "lost"] ELSE e :
                e \in runs}
  /\ UNCHANGED <<now, host, tasks, parent, limit, deadline, used, breakerVars,
                 requests, grantedAs, tokens, approvalClaim, permits, permitClaim>>

SessionStep ==
  \/ \E s \in Session : StartSession(s) \/ FinishSession(s)
  \/ \E s, by \in Session : StartDelegatedSession(s, by)
  \/ \E s \in Session, t \in Task : StartTask(s, t) \/ FinishTask(s, t)

ProposalStep ==
  \E s \in Session, t \in Task, a \in Action :
    \/ \E p \in Permit : ProposeAllowed(s, t, a, p)
    \/ \E r \in Request : ProposeHeld(s, t, a, r)
    \/ ProposeRefused(s, t, a)

RedemptionStep ==
  \E s \in Session, t \in Task, a \in Action, k \in Approval :
    \/ \E p \in Permit : RedeemApproval(s, t, a, k, p)
    \/ RedeemIoError(s, t, a, k)

OperatorStep ==
  \/ \E r \in Request, k \in Approval : GrantApproval(r, k)
  \/ \E k \in Approval : RevokeApproval(k)
  \/ \E p \in Permit : RevokePermit(p)

ExecutionStep ==
  \E s \in Session, a \in Action, p \in Permit, at \in 0 .. MaxTime :
    \/ ExecuteStarts(s, a, p, at)
    \/ ExecuteBlocked(s, a, p, at)
    \/ ExecuteIoError(s, a, p, at)

PluginStep ==
  \E e \in runs : PluginActs(e) \/ PluginRefuses(e) \/ PluginFails(e)

EnvironmentStep ==
  \/ \E a \in Action, x \in Context : HostChanges(a, x)
  \/ Tick
  \/ Restart

Next ==
  \/ SessionStep
  \/ ProposalStep
  \/ RedemptionStep
  \/ OperatorStep
  \/ ExecutionStep
  \/ PluginStep
  \/ EnvironmentStep

Spec == Init /\ [][Next]_vars
-----------------------------------------------------------------------------
(* Properties.                                                             *)

\* A run is on time when its permit was still alive at the moment of the claim.
OnTime(e) == e.claimed <= permits[e.permit].expires

\* A permit is spent by the execution it starts: while it is alive no second
\* execution starts on it, whatever was revoked, refused, failed or restarted in
\* between (managedExecutor.ts redeems before it asks breaker and budget).
OneStartPerLivePermit ==
  \A e, f \in runs : OnTime(e) /\ OnTime(f) /\ e.permit = f.permit => e = f

\* The request the permit of a run goes back to, if a human decided about it.
DecidedBy(e, r) ==
  /\ permits[e.permit].approval # None
  /\ tokens[permits[e.permit].approval] # NoRecord
  /\ tokens[permits[e.permit].approval].request = r

\* One human decision, one side effect: over grant, redemption and execution, all
\* keyed by different ids, a request leads to at most one execution on a live permit
\* (the comment "The request is the unit of consent" in grantApproval).
OneEffectPerDecision ==
  \A e, f \in runs, r \in Request :
    OnTime(e) /\ OnTime(f) /\ DecidedBy(e, r) /\ DecidedBy(f, r) => e = f

\* What lands is what was authorized, on the host that was authorized: the session
\* and the action of the permit, in the host state it was decided about, which is
\* the state the policy allowed by itself or the one a human was shown and granted.
EffectsMatchAuthority ==
  \A e \in runs : e.status = "landed" =>
    LET p == permits[e.permit] IN
    /\ p.session = e.session /\ p.action = e.action /\ p.context = e.context
    /\ IF p.approval = None THEN Policy[e.action][e.context] = "ALLOW"
       ELSE \E r \in Request :
              /\ grantedAs[r] = p.approval
              /\ requests[r] = [kind |-> "request", session |-> e.session,
                                task |-> p.task, action |-> e.action,
                                context |-> e.context]
              /\ Policy[e.action][e.context] = "REQUIRE_APPROVAL"

\* Every permit has its approval to account for: a consumed approval has led to a
\* permit (a refused redemption leaves the approval to a human, as redeemApproval
\* does everything else "before the token is consumed"), and an approval with a
\* permit is claimed and has led to no other permit.
ConsentIsAccountedFor ==
  \A k \in Approval :
    LET issued == {p \in Permit : permits[p] # NoRecord /\ permits[p].approval = k} IN
    /\ approvalClaim[k] = "consumed" => issued # {}
    /\ approvalClaim[k] = "none" => issued = {}
    /\ \A p, q \in issued : p = q

\* The ceilings hold: a session starts no more executions than its limit, none at
\* or after its deadline, and a sub-agent's ceilings lie within its parent's.
BudgetsHold ==
  /\ \A s \in Session : used[s] <= limit[s]
  /\ \A s \in Session : Cardinality({e \in runs : e.session = s}) = used[s]
  /\ \A e \in runs : e.claimed < deadline[e.session]
  /\ \A s, by \in Session : parent[s] = by =>
       limit[s] <= limit[by] /\ (deadline[s] <= deadline[by] \/ deadline[s] <= now)

Stopped(s) == session[s] \in {"finished", "lost"} \/ breaker[s] \in {"OPEN", "LOCKED"}

\* A session stopped by its end, by a restart or by its breaker stays stopped, and
\* no permit issued before starts an execution afterwards, a breaker reopening by
\* further proposals included (MANAGED_EXECUTION.md, "a permit issued before the
\* breaker opens ... still cannot execute afterwards").
StoppedStaysStopped ==
  [][\A s \in Session : Stopped(s) => Stopped(s)' /\ used'[s] = used[s]]_vars
=============================================================================
