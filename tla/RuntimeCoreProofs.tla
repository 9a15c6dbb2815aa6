------------------------- MODULE RuntimeCoreProofs -------------------------
(***************************************************************************)
(* Proofs about the authorization pipeline, for any sessions, tasks,       *)
(* actions, policy, budgets and life times.  The inductive invariant       *)
(* follows the chain of custody of an authorization: request, grant,       *)
(* token, claim, permit, claim, execution.                                 *)
(***************************************************************************)
EXTENDS RuntimeCore, FunctionTheorems, FiniteSetTheorems, TLAPS

\* Request to token: one token per request, for what the request said.
GrantChain ==
  /\ \A r \in held : requests[r] # NoRecord
  /\ \A r \in Request : requests[r] # NoRecord =>
       Policy[requests[r].action][requests[r].context] = "REQUIRE_APPROVAL"
  /\ \A k \in Approval : tokens[k] # NoRecord =>
       /\ requests[tokens[k].request] # NoRecord
       /\ grantedAs[tokens[k].request] = k
       /\ tokens[k].session = requests[tokens[k].request].session
       /\ tokens[k].task = requests[tokens[k].request].task
       /\ tokens[k].action = requests[tokens[k].request].action
  /\ \A k \in Approval : approvedContext[k] # None =>
       /\ tokens[k] # NoRecord
       /\ approvedContext[k] = requests[tokens[k].request].context

\* Token to permit: one permit per token, for what the request said.
PermitChain ==
  /\ \A p \in Permit : permits[p] # NoRecord /\ permits[p].approval = None =>
       Policy[permits[p].action][permits[p].context] = "ALLOW"
  /\ \A p \in Permit : permits[p] # NoRecord /\ permits[p].approval # None =>
       /\ tokens[permits[p].approval] # NoRecord
       /\ approvalClaim[permits[p].approval] # "none"
       /\ permits[p].session = tokens[permits[p].approval].session
       /\ permits[p].task = tokens[permits[p].approval].task
       /\ permits[p].action = tokens[permits[p].approval].action
       /\ permits[p].context = requests[tokens[permits[p].approval].request].context
  /\ \A p, q \in Permit :
       permits[p] # NoRecord /\ permits[q] # NoRecord
         /\ permits[p].approval = permits[q].approval /\ permits[p].approval # None
       => p = q
  /\ \A k \in Approval : approvalClaim[k] = "consumed" =>
       \E p \in Permit : permits[p] # NoRecord /\ permits[p].approval = k

\* Permit to execution: an execution has a claimed permit of its own session and
\* action, and no other execution was on time on it.
RunChain ==
  /\ \A e \in runs :
       /\ permits[e.permit] # NoRecord
       /\ permitClaim[e.permit] # "none"
       /\ permits[e.permit].session = e.session
       /\ permits[e.permit].action = e.action
       /\ e.status = "landed" => e.context = permits[e.permit].context
  /\ OneStartPerLivePermit

\* The breaker never forgets why it opened.
BreakerCounts ==
  \A s \in Session : breaker[s] = "OPEN" =>
    denied[s] >= MaxDenied \/ failures[s] >= MaxFailures

\* Executions are told apart by their permit and the time of its claim, and belong
\* to sessions that were opened, as the parents of sessions do.
StartsAreCounted ==
  /\ IsFiniteSet(runs)
  /\ \A s \in Session : session[s] = "new" => used[s] = 0
  /\ \A e \in runs : session[e.session] # "new" /\ e.claimed <= now
  /\ \A e, f \in runs : e.permit = f.permit /\ e.claimed = f.claimed => e = f
  /\ \A s, by \in Session : parent[s] = by => session[by] # "new"

IInv == /\ TypeOK /\ GrantChain /\ PermitChain /\ RunChain /\ BreakerCounts
        /\ StartsAreCounted /\ BudgetsHold

-----------------------------------------------------------------------------
\* A signed record is told from the absence of one by its kind.
LEMMA RecordsAreRecords ==
  /\ NoRecord \notin Requests
  /\ NoRecord \notin Tokens
  /\ NoRecord \notin Permits
BY DEF NoRecord, Requests, Tokens, Permits

\* TypeOK is kept by every step.
LEMMA TypeStep == TypeOK /\ GrantChain /\ [Next]_vars => TypeOK'
<1> SUFFICES ASSUME TypeOK, GrantChain, [Next]_vars PROVE TypeOK'
  OBVIOUS
<1> USE CoreAssumption DEF TypeOK
<1>1. ASSUME NEW s \in Session, NEW by \in Session \cup {None},
             NEW b \in Nat, NEW d \in Nat, Open(s, by, b, d)
      PROVE  TypeOK'
  BY <1>1 DEF Open, breakerVars, consentVars
<1>2. ASSUME NEW s \in Session, StartSession(s)
      PROVE  TypeOK'
  <2>1. now + MaxRuntime \in Nat
    OBVIOUS
  <2> QED BY <1>1, <1>2, <2>1 DEF StartSession
<1>3. ASSUME NEW s \in Session, NEW by \in Session, StartDelegatedSession(s, by)
      PROVE  TypeOK'
  <2>1. InheritedLimit(by) \in Nat
    BY DEF InheritedLimit, RemainingActions
  <2>2. InheritedDeadline(by) \in Nat
    BY DEF InheritedDeadline
  <2> QED BY <1>1, <1>3, <2>1, <2>2 DEF StartDelegatedSession
<1>4. ASSUME NEW s \in Session, NEW t \in Task, StartTask(s, t) \/ FinishTask(s, t)
      PROVE  TypeOK'
  BY <1>4 DEF StartTask, FinishTask, breakerVars, consentVars
<1>5. ASSUME NEW s \in Session, FinishSession(s)
      PROVE  TypeOK'
  BY <1>5 DEF FinishSession, breakerVars, consentVars
<1>6. ASSUME NEW s \in Session, NEW t \in Task, NEW a \in Action, NEW d \in Dispositions,
             Evaluate(s, t, a, d)
      PROVE  /\ denied' \in [Session -> 0 .. MaxDenied]
             /\ failures' \in [Session -> 0 .. MaxFailures]
             /\ breaker' \in [Session -> {"CLOSED", "OPEN", "LOCKED"}]
  <2>1. CountDenied(s, d) \in 0 .. MaxDenied
    BY DEF CountDenied
  <2>2. CountFailure(s, a) \in 0 .. MaxFailures
    BY DEF CountFailure
  <2>3. NextBreaker(s, a, CountDenied(s, d), CountFailure(s, a)) \in {"CLOSED", "OPEN", "LOCKED"}
    BY DEF NextBreaker
  <2> QED BY <1>6, <2>1, <2>2, <2>3 DEF Evaluate
<1>7. ASSUME NEW s \in Session, NEW t \in Task, NEW a \in Action, NEW p \in Permit,
             ProposeAllowed(s, t, a, p)
      PROVE  TypeOK'
  <2>1. permits' \in [Permit -> Permits \cup {NoRecord}]
    BY <1>7 DEF ProposeAllowed, Permits
  <2> QED BY <1>6, <1>7, <2>1 DEF ProposeAllowed, sessionVars, consentVars, Dispositions
<1>8. ASSUME NEW s \in Session, NEW t \in Task, NEW a \in Action, NEW r \in Request,
             ProposeHeld(s, t, a, r)
      PROVE  TypeOK'
  <2>1. requests' \in [Request -> Requests \cup {NoRecord}]
    BY <1>8 DEF ProposeHeld, Requests
  <2> QED BY <1>6, <1>8, <2>1 DEF ProposeHeld, sessionVars, Dispositions
<1>9. ASSUME NEW s \in Session, NEW t \in Task, NEW a \in Action, ProposeRefused(s, t, a)
      PROVE  TypeOK'
  BY <1>6, <1>9 DEF ProposeRefused, sessionVars, consentVars, Dispositions
<1>10. ASSUME NEW r \in Request, NEW k \in Approval, GrantApproval(r, k)
       PROVE  TypeOK'
  <2>1. requests[r] \in Requests
    BY <1>10 DEF GrantApproval, Grantable, GrantChain
  <2>2. tokens' \in [Approval -> Tokens \cup {NoRecord}]
    BY <1>10, <2>1 DEF GrantApproval, Tokens, Requests
  <2>3. approvedContext' \in [Approval -> Context \cup {None}]
    BY <1>10, <2>1 DEF GrantApproval, Requests
  <2> QED BY <1>10, <2>2, <2>3 DEF GrantApproval, sessionVars, breakerVars
<1>11. ASSUME NEW k \in Approval, RevokeApproval(k)
       PROVE  TypeOK'
  BY <1>11 DEF RevokeApproval, Claims, sessionVars, breakerVars
<1>12. ASSUME NEW s \in Session, NEW t \in Task, NEW a \in Action, NEW k \in Approval,
              NEW p \in Permit, RedeemApproval(s, t, a, k, p)
       PROVE  TypeOK'
  <2>1. approvedContext[k] \in Context
    BY <1>12 DEF RedeemApproval, Redeemable, ContextUnchanged
  <2>2. permits' \in [Permit -> Permits \cup {NoRecord}]
    BY <1>12, <2>1 DEF RedeemApproval, Permits
  <2> QED BY <1>12, <2>2 DEF RedeemApproval, Claims, sessionVars, breakerVars
<1>13. ASSUME NEW s \in Session, NEW t \in Task, NEW a \in Action, NEW k \in Approval,
              RedeemIoError(s, t, a, k)
       PROVE  TypeOK'
  BY <1>13 DEF RedeemIoError, Claims, sessionVars, breakerVars
<1>14. ASSUME NEW p \in Permit, RevokePermit(p)
       PROVE  TypeOK'
  BY <1>14 DEF RevokePermit, Claims, sessionVars, breakerVars, consentVars
<1>15. ASSUME NEW s \in Session, NEW a \in Action, NEW p \in Permit, NEW at \in 0 .. MaxTime,
              ExecuteStarts(s, a, p, at)
       PROVE  TypeOK'
  <2>1. runs' \in SUBSET Runs
    BY <1>15 DEF ExecuteStarts, Runs
  <2> QED BY <1>15, <2>1 DEF ExecuteStarts, ClaimPermit, Claims, sessionVars, breakerVars,
                             consentVars
<1>16. ASSUME NEW s \in Session, NEW a \in Action, NEW p \in Permit, NEW at \in 0 .. MaxTime,
              ExecuteBlocked(s, a, p, at) \/ ExecuteIoError(s, a, p, at)
       PROVE  TypeOK'
  <2>1. now' \in 0 .. MaxTime
    BY <1>16 DEF ExecuteBlocked, ExecuteIoError, ClaimPermit
  <2>2. permitClaim' \in [Permit -> Claims]
    BY <1>16 DEF ExecuteBlocked, ExecuteIoError, Claims
  <2>3. UNCHANGED <<host, sessionVars, used, breakerVars, consentVars, permits, runs>>
    BY <1>16 DEF ExecuteBlocked, ExecuteIoError
  <2> QED BY <2>1, <2>2, <2>3 DEF sessionVars, breakerVars, consentVars
<1>17. ASSUME NEW e \in runs, PluginActs(e) \/ PluginRefuses(e) \/ PluginFails(e)
       PROVE  TypeOK'
  <2>1. e \in Runs /\ host[e.action] \in Context
    BY DEF Runs
  <2>2. \E status \in {"landed", "refused", "failed"}, x \in Context \cup {None} :
           Conclude(e, status, x)
    BY <1>17, <2>1 DEF PluginActs, PluginRefuses, PluginFails
  <2>3. PICK status \in {"landed", "refused", "failed"}, x \in Context \cup {None} :
           Conclude(e, status, x)
    BY <2>2
  <2>4. [e EXCEPT !.status = status, !.context = x] \in Runs
    BY <2>1 DEF Runs
  <2>5. runs' \in SUBSET Runs
    BY <2>3, <2>4 DEF Conclude
  <2> QED BY <1>17, <2>5 DEF PluginActs, PluginRefuses, PluginFails, Conclude, sessionVars,
                             breakerVars, consentVars
<1>18. ASSUME NEW a \in Action, NEW x \in Context, HostChanges(a, x)
       PROVE  TypeOK'
  BY <1>18 DEF HostChanges, sessionVars, breakerVars, consentVars
<1>19. CASE Tick
  BY <1>19 DEF Tick, sessionVars, breakerVars, consentVars
<1>20. CASE Restart
  <2>1. runs' \in SUBSET Runs
    <3>1. \A e \in Runs : [e EXCEPT !.status = "lost"] \in Runs
      BY DEF Runs
    <3> QED BY <1>20, <3>1 DEF Restart
  <2> QED BY <1>20, <2>1 DEF Restart, breakerVars
<1>21. CASE UNCHANGED vars
  BY <1>21 DEF vars, sessionVars, breakerVars, consentVars
<1> QED
  BY <1>2, <1>3, <1>4, <1>5, <1>7, <1>8, <1>9, <1>10, <1>11, <1>12, <1>13, <1>14, <1>15,
     <1>16, <1>17, <1>18, <1>19, <1>20, <1>21
  DEF Next, SessionStep, ProposalStep, RedemptionStep, OperatorStep, ExecutionStep,
      PluginStep, EnvironmentStep
-----------------------------------------------------------------------------
\* Which steps leave the consent records, the permits and the executions alone.
LEMMA Frames ==
  /\ SessionStep => UNCHANGED <<now, host, used, breakerVars, consentVars, permits,
                                permitClaim, runs>>
  /\ ProposalStep => UNCHANGED <<now, host, sessionVars, used, grantedAs, tokens,
                                 approvedContext, approvalClaim, permitClaim, runs>>
  /\ RedemptionStep => UNCHANGED <<now, host, sessionVars, used, breakerVars, requests, held,
                                   grantedAs, tokens, approvedContext, permitClaim, runs>>
  /\ OperatorStep => UNCHANGED <<now, host, sessionVars, used, breakerVars, requests, held,
                                 permits, runs>>
  /\ ExecutionStep => UNCHANGED <<host, sessionVars, breakerVars, consentVars, permits>>
  /\ PluginStep => UNCHANGED <<now, host, sessionVars, used, breakerVars, consentVars, permits,
                               permitClaim>>
  /\ EnvironmentStep => UNCHANGED <<tasks, parent, limit, deadline, used, breakerVars, requests,
                                    grantedAs, tokens, approvalClaim, permits, permitClaim>>
<1> USE DEF sessionVars, breakerVars, consentVars
<1>1. SessionStep => UNCHANGED <<now, host, used, breakerVars, consentVars, permits,
                                 permitClaim, runs>>
  BY DEF SessionStep, StartSession, FinishSession, StartDelegatedSession, Open, StartTask,
         FinishTask
<1>2. ProposalStep => UNCHANGED <<now, host, sessionVars, used, grantedAs, tokens,
                                  approvedContext, approvalClaim, permitClaim, runs>>
  BY DEF ProposalStep, ProposeAllowed, ProposeHeld, ProposeRefused
<1>3. RedemptionStep => UNCHANGED <<now, host, sessionVars, used, breakerVars, requests, held,
                                    grantedAs, tokens, approvedContext, permitClaim, runs>>
  BY DEF RedemptionStep, RedeemApproval, RedeemIoError
<1>4. OperatorStep => UNCHANGED <<now, host, sessionVars, used, breakerVars, requests, held,
                                  permits, runs>>
  BY DEF OperatorStep, GrantApproval, RevokeApproval, RevokePermit
<1>5. ExecutionStep => UNCHANGED <<host, sessionVars, breakerVars, consentVars, permits>>
  BY DEF ExecutionStep, ExecuteStarts, ExecuteBlocked, ExecuteIoError
<1>6. EnvironmentStep => UNCHANGED <<tasks, parent, limit, deadline, used, breakerVars,
                                     requests, grantedAs, tokens, approvalClaim, permits,
                                     permitClaim>>
  BY DEF EnvironmentStep, HostChanges, Tick, Restart
<1>7. PluginStep => UNCHANGED <<now, host, sessionVars, used, breakerVars, consentVars, permits,
                                permitClaim>>
  BY DEF PluginStep, PluginActs, PluginRefuses, PluginFails, Conclude
<1> QED BY <1>1, <1>2, <1>3, <1>4, <1>5, <1>6, <1>7

-----------------------------------------------------------------------------
\* Records are only ever added: what a request, a token or a permit says, and which
\* request a token was granted for, never changes.
LEMMA RecordsStay ==
  ASSUME TypeOK, [Next]_vars
  PROVE  /\ \A r \in Request : requests[r] # NoRecord => requests'[r] = requests[r]
         /\ \A r \in Request : grantedAs[r] # None => grantedAs'[r] = grantedAs[r]
         /\ \A k \in Approval : tokens[k] # NoRecord => tokens'[k] = tokens[k]
         /\ \A p \in Permit : permits[p] # NoRecord => permits'[p] = permits[p]
<1> USE DEF TypeOK, vars, sessionVars, breakerVars, consentVars
<1>1. CASE ProposalStep
  <2>1. \A r \in Request : requests[r] # NoRecord => requests'[r] = requests[r]
    BY <1>1 DEF ProposalStep, ProposeAllowed, ProposeHeld, ProposeRefused
  <2>2. \A p \in Permit : permits[p] # NoRecord => permits'[p] = permits[p]
    BY <1>1 DEF ProposalStep, ProposeAllowed, ProposeHeld, ProposeRefused
  <2> QED BY <1>1, <2>1, <2>2, Frames
<1>2. CASE RedemptionStep
  <2>1. \A p \in Permit : permits[p] # NoRecord => permits'[p] = permits[p]
    BY <1>2 DEF RedemptionStep, RedeemApproval, RedeemIoError
  <2> QED BY <1>2, <2>1, Frames
<1>3. CASE OperatorStep
  <2>1. \A r \in Request : grantedAs[r] # None => grantedAs'[r] = grantedAs[r]
    BY <1>3 DEF OperatorStep, GrantApproval, Grantable, RevokeApproval, RevokePermit
  <2>2. \A k \in Approval : tokens[k] # NoRecord => tokens'[k] = tokens[k]
    BY <1>3 DEF OperatorStep, GrantApproval, RevokeApproval, RevokePermit
  <2> QED BY <1>3, <2>1, <2>2, Frames
<1>4. CASE SessionStep \/ ExecutionStep \/ PluginStep \/ EnvironmentStep \/ UNCHANGED vars
  BY <1>4, Frames
<1> QED BY <1>1, <1>2, <1>3, <1>4 DEF Next

-----------------------------------------------------------------------------
\* The request-to-token links survive every step.
LEMMA GrantStep ==
  ASSUME TypeOK, GrantChain, [Next]_vars
  PROVE  GrantChain'
<1> USE RecordsAreRecords, CoreAssumption DEF TypeOK
<1>1. CASE UNCHANGED <<requests, held, grantedAs, tokens, approvedContext>>
  BY <1>1 DEF GrantChain
<1>2. ASSUME NEW s \in Session, NEW t \in Task, NEW a \in Action, NEW r \in Request,
             ProposeHeld(s, t, a, r)
      PROVE  GrantChain'
  <2>1. /\ requests[r] = NoRecord /\ requests'[r] # NoRecord
        /\ Policy[requests'[r].action][requests'[r].context] = "REQUIRE_APPROVAL"
        /\ \A q \in Request : q # r => requests'[q] = requests[q]
    BY <1>2 DEF ProposeHeld, Evaluate, NoRecord
  <2>2. held' = held \cup {r}
        /\ UNCHANGED <<grantedAs, tokens, approvedContext>>
    BY <1>2 DEF ProposeHeld
  <2>3. \A k \in Approval : tokens[k] # NoRecord => tokens[k].request \in Request
    BY DEF Tokens
  <2>4. (\A q \in held : requests[q] # NoRecord)'
    BY <2>1, <2>2 DEF GrantChain
  <2>5. (\A q \in Request : requests[q] # NoRecord =>
           Policy[requests[q].action][requests[q].context] = "REQUIRE_APPROVAL")'
    BY <2>1 DEF GrantChain
  <2>6. \A k \in Approval : tokens[k] # NoRecord =>
          requests'[tokens[k].request] = requests[tokens[k].request]
    BY <2>1, <2>3 DEF GrantChain
  <2> QED BY <2>2, <2>4, <2>5, <2>6 DEF GrantChain
<1>3. ASSUME NEW r \in Request, NEW k \in Approval, GrantApproval(r, k)
      PROVE  GrantChain'
  <2>1. /\ r \in held /\ grantedAs[r] = None /\ tokens[k] = NoRecord /\ requests[r] # NoRecord
        /\ requests[r] \in Requests
    BY <1>3 DEF GrantApproval, Grantable, GrantChain
  <2>2. /\ tokens'[k] # NoRecord /\ tokens'[k].request = r
        /\ tokens'[k].session = requests[r].session
        /\ tokens'[k].task = requests[r].task
        /\ tokens'[k].action = requests[r].action
        /\ grantedAs'[r] = k
        /\ approvedContext'[k] = requests[r].context
    BY <1>3 DEF GrantApproval, NoRecord
  <2>3. /\ \A j \in Approval : j # k => tokens'[j] = tokens[j]
        /\ \A j \in Approval : j # k => approvedContext'[j] = approvedContext[j]
        /\ \A q \in Request : q # r => grantedAs'[q] = grantedAs[q]
        /\ UNCHANGED <<requests, held>>
    BY <1>3 DEF GrantApproval
  <2>4. \A j \in Approval : tokens[j] # NoRecord =>
          tokens[j].request \in Request /\ tokens[j].request # r
    BY <2>1 DEF Tokens, GrantChain
  <2>5. (\A j \in Approval : tokens[j] # NoRecord =>
           /\ requests[tokens[j].request] # NoRecord
           /\ grantedAs[tokens[j].request] = j
           /\ tokens[j].session = requests[tokens[j].request].session
           /\ tokens[j].task = requests[tokens[j].request].task
           /\ tokens[j].action = requests[tokens[j].request].action)'
    BY <2>1, <2>2, <2>3, <2>4 DEF GrantChain
  <2>6. (\A j \in Approval : approvedContext[j] # None =>
           /\ tokens[j] # NoRecord
           /\ approvedContext[j] = requests[tokens[j].request].context)'
    BY <2>1, <2>2, <2>3 DEF GrantChain
  <2> QED BY <2>3, <2>5, <2>6 DEF GrantChain
<1>4. CASE Restart
  BY <1>4 DEF Restart, GrantChain
<1>5. CASE ProposalStep
  BY <1>1, <1>2, <1>5 DEF ProposalStep, ProposeAllowed, ProposeRefused, consentVars
<1>6. CASE OperatorStep
  BY <1>1, <1>3, <1>6 DEF OperatorStep, RevokeApproval, RevokePermit, consentVars
<1>7. CASE EnvironmentStep
  BY <1>1, <1>4, <1>7 DEF EnvironmentStep, HostChanges, Tick, consentVars
<1>8. CASE SessionStep \/ RedemptionStep \/ ExecutionStep \/ PluginStep \/ UNCHANGED vars
  BY <1>1, <1>8, Frames DEF vars, consentVars
<1> QED BY <1>5, <1>6, <1>7, <1>8 DEF Next

\* The token-to-permit links survive every step.
LEMMA PermitStep ==
  ASSUME TypeOK, GrantChain, PermitChain, [Next]_vars
  PROVE  PermitChain'
<1> USE RecordsAreRecords, CoreAssumption DEF TypeOK
<1>1. \A k \in Approval : tokens[k] # NoRecord =>
        /\ tokens'[k] = tokens[k]
        /\ requests'[tokens[k].request] = requests[tokens[k].request]
  BY RecordsStay DEF GrantChain, Tokens
<1>2. \A p \in Permit : permits[p] # NoRecord => permits[p].approval \in Approval \cup {None}
  BY DEF Permits
<1>3. CASE UNCHANGED <<permits, approvalClaim>>
  BY <1>1, <1>2, <1>3 DEF PermitChain
<1>4. ASSUME NEW s \in Session, NEW t \in Task, NEW a \in Action, NEW p \in Permit,
             ProposeAllowed(s, t, a, p)
      PROVE  PermitChain'
  <2>1. /\ permits[p] = NoRecord
        /\ permits'[p].approval = None
        /\ Policy[permits'[p].action][permits'[p].context] = "ALLOW"
        /\ \A q \in Permit : q # p => permits'[q] = permits[q]
        /\ UNCHANGED approvalClaim
    BY <1>4 DEF ProposeAllowed, Evaluate, consentVars
  <2>2. \A q \in Permit : permits[q] # NoRecord => permits'[q] = permits[q]
    BY <2>1
  <2>3. (\A q \in Permit : permits[q] # NoRecord /\ permits[q].approval = None =>
           Policy[permits[q].action][permits[q].context] = "ALLOW")'
    BY <2>1 DEF PermitChain
  <2>4. (\A q \in Permit : permits[q] # NoRecord /\ permits[q].approval # None =>
           /\ tokens[permits[q].approval] # NoRecord
           /\ approvalClaim[permits[q].approval] # "none"
           /\ permits[q].session = tokens[permits[q].approval].session
           /\ permits[q].task = tokens[permits[q].approval].task
           /\ permits[q].action = tokens[permits[q].approval].action
           /\ permits[q].context = requests[tokens[permits[q].approval].request].context)'
    BY <1>1, <1>2, <2>1 DEF PermitChain
  <2>5. (\A q1, q2 \in Permit :
           permits[q1] # NoRecord /\ permits[q2] # NoRecord
             /\ permits[q1].approval = permits[q2].approval /\ permits[q1].approval # None
           => q1 = q2)'
    BY <2>1 DEF PermitChain
  <2>6. ASSUME NEW k \in Approval, approvalClaim'[k] = "consumed"
        PROVE  \E q \in Permit : permits'[q] # NoRecord /\ permits'[q].approval = k
    <3>1. PICK q \in Permit : permits[q] # NoRecord /\ permits[q].approval = k
      BY <2>1, <2>6 DEF PermitChain
    <3> QED BY <2>2, <3>1
  <2> QED BY <2>3, <2>4, <2>5, <2>6 DEF PermitChain
<1>5. ASSUME NEW s \in Session, NEW t \in Task, NEW a \in Action, NEW k \in Approval,
             NEW p \in Permit, RedeemApproval(s, t, a, k, p)
      PROVE  PermitChain'
  <2>1. /\ permits[p] = NoRecord /\ permits'[p] # NoRecord
        /\ permits'[p].approval = k /\ permits'[p].session = s /\ permits'[p].task = t
        /\ permits'[p].action = a /\ permits'[p].context = approvedContext[k]
        /\ \A q \in Permit : q # p => permits'[q] = permits[q]
    BY <1>5 DEF RedeemApproval, NoRecord
  <2>2. /\ tokens[k] # NoRecord /\ approvalClaim[k] = "none"
        /\ tokens[k].session = s /\ tokens[k].task = t /\ tokens[k].action = a
        /\ approvedContext[k] # None
    BY <1>5 DEF RedeemApproval, Redeemable, TokenVerifies, ContextUnchanged
  <2>3. approvedContext[k] = requests[tokens[k].request].context
    BY <2>2 DEF GrantChain
  <2>4. /\ approvalClaim'[k] = "consumed"
        /\ \A j \in Approval : j # k => approvalClaim'[j] = approvalClaim[j]
        /\ UNCHANGED <<tokens, requests>>
    BY <1>5 DEF RedeemApproval
  <2>5. \A q \in Permit : permits[q] # NoRecord => permits[q].approval # k
    BY <2>2 DEF PermitChain
  <2>6. k # None
    OBVIOUS
  <2>7. (\A q \in Permit : permits[q] # NoRecord /\ permits[q].approval = None =>
           Policy[permits[q].action][permits[q].context] = "ALLOW")'
    BY <2>1, <2>6 DEF PermitChain
  <2>8. (\A q \in Permit : permits[q] # NoRecord /\ permits[q].approval # None =>
           /\ tokens[permits[q].approval] # NoRecord
           /\ approvalClaim[permits[q].approval] # "none"
           /\ permits[q].session = tokens[permits[q].approval].session
           /\ permits[q].task = tokens[permits[q].approval].task
           /\ permits[q].action = tokens[permits[q].approval].action
           /\ permits[q].context = requests[tokens[permits[q].approval].request].context)'
    BY <1>2, <2>1, <2>2, <2>3, <2>4, <2>5 DEF PermitChain
  <2>9. (\A q1, q2 \in Permit :
           permits[q1] # NoRecord /\ permits[q2] # NoRecord
             /\ permits[q1].approval = permits[q2].approval /\ permits[q1].approval # None
           => q1 = q2)'
    BY <2>1, <2>5 DEF PermitChain
  <2>10. ASSUME NEW j \in Approval, approvalClaim'[j] = "consumed"
         PROVE  \E q \in Permit : permits'[q] # NoRecord /\ permits'[q].approval = j
    <3>1. CASE j = k
      BY <2>1, <3>1
    <3>2. CASE j # k
      <4>1. PICK q \in Permit : permits[q] # NoRecord /\ permits[q].approval = j
        BY <2>4, <2>10, <3>2 DEF PermitChain
      <4> QED BY <2>1, <4>1
    <3> QED BY <3>1, <3>2
  <2> QED BY <2>7, <2>8, <2>9, <2>10 DEF PermitChain
<1>6. ASSUME NEW k \in Approval, UNCHANGED permits,
             approvalClaim' = [approvalClaim EXCEPT ![k] = "revoked"]
      PROVE  PermitChain'
  <2>1. /\ \A j \in Approval : approvalClaim'[j] = "consumed" => approvalClaim[j] = "consumed"
        /\ \A j \in Approval : approvalClaim[j] # "none" => approvalClaim'[j] # "none"
    BY <1>6
  <2> QED BY <1>1, <1>2, <1>6, <2>1 DEF PermitChain
<1>7. CASE ProposalStep
  BY <1>3, <1>4, <1>7 DEF ProposalStep, ProposeHeld, ProposeRefused, consentVars
<1>8. CASE RedemptionStep
  BY <1>5, <1>6, <1>8 DEF RedemptionStep, RedeemIoError
<1>9. CASE OperatorStep
  BY <1>3, <1>6, <1>9 DEF OperatorStep, GrantApproval, RevokeApproval, RevokePermit, consentVars
<1>10. CASE SessionStep \/ ExecutionStep \/ PluginStep \/ EnvironmentStep \/ UNCHANGED vars
  BY <1>3, <1>10, Frames DEF vars, consentVars
<1> QED BY <1>7, <1>8, <1>9, <1>10 DEF Next

\* The permit-to-execution links survive every step.
LEMMA RunStep ==
  ASSUME TypeOK, RunChain, [Next]_vars
  PROVE  RunChain'
<1> USE RecordsAreRecords DEF TypeOK
<1>1. \A e \in runs : e \in Runs /\ e.permit \in Permit /\ permits'[e.permit] = permits[e.permit]
  BY RecordsStay DEF RunChain, Runs
<1>2. CASE UNCHANGED <<runs, permitClaim>>
  BY <1>1, <1>2 DEF RunChain, OneStartPerLivePermit, OnTime
<1>3. ASSUME NEW p \in Permit, NEW c \in {"consumed", "revoked"}, UNCHANGED runs,
             permitClaim' = [permitClaim EXCEPT ![p] = c]
      PROVE  RunChain'
  BY <1>1, <1>3 DEF RunChain, OneStartPerLivePermit, OnTime
<1>4. ASSUME NEW s \in Session, NEW a \in Action, NEW p \in Permit, NEW at \in 0 .. MaxTime,
             ExecuteStarts(s, a, p, at)
      PROVE  RunChain'
  <2> DEFINE new == [permit |-> p, session |-> s, action |-> a, claimed |-> at,
                     status |-> "running", context |-> None]
  <2>1. /\ permits[p] # NoRecord /\ permits[p].session = s /\ permits[p].action = a
        /\ permitClaim[p] = "none" \/ permits[p].expires < at
        /\ runs' = runs \cup {new}
        /\ permitClaim' = [permitClaim EXCEPT ![p] = "consumed"]
        /\ UNCHANGED permits
    BY <1>4 DEF ExecuteStarts, ClaimPermit, PermitVerifies, Claimable
  <2>2. permits[p].expires \in Int
    BY <2>1 DEF Permits
  <2>3. OnTime(new) => permitClaim[p] = "none"
    BY <2>1, <2>2 DEF OnTime
  <2>4. OnTime(new) => \A e \in runs : e.permit # p
    BY <2>3 DEF RunChain
  <2>5. OneStartPerLivePermit'
    BY <1>1, <2>1, <2>4 DEF RunChain, OneStartPerLivePermit, OnTime
  <2>6. (\A e \in runs :
           /\ permits[e.permit] # NoRecord
           /\ permitClaim[e.permit] # "none"
           /\ permits[e.permit].session = e.session
           /\ permits[e.permit].action = e.action
           /\ e.status = "landed" => e.context = permits[e.permit].context)'
    BY <1>1, <2>1 DEF RunChain
  <2> QED BY <2>5, <2>6 DEF RunChain
<1>5. ASSUME NEW e \in runs, NEW status \in {"landed", "refused", "failed"},
             NEW x \in Context \cup {None}, Conclude(e, status, x),
             status = "landed" => x = permits[e.permit].context
      PROVE  RunChain'
  <2> DEFINE done == [e EXCEPT !.status = status, !.context = x]
  <2>1. /\ done.permit = e.permit /\ done.session = e.session /\ done.action = e.action
        /\ done.claimed = e.claimed /\ done.status = status /\ done.context = x
    BY <1>1 DEF Runs
  <2> HIDE DEF done
  <2>2. runs' = (runs \ {e}) \cup {done} /\ UNCHANGED <<permits, permitClaim>>
    BY <1>5 DEF Conclude, done
  <2>3. OneStartPerLivePermit'
    BY <2>1, <2>2 DEF RunChain, OneStartPerLivePermit, OnTime
  <2>4. (\A f \in runs :
           /\ permits[f.permit] # NoRecord
           /\ permitClaim[f.permit] # "none"
           /\ permits[f.permit].session = f.session
           /\ permits[f.permit].action = f.action
           /\ f.status = "landed" => f.context = permits[f.permit].context)'
    BY <1>5, <2>1, <2>2 DEF RunChain
  <2> QED BY <2>3, <2>4 DEF RunChain
<1>6. CASE PluginStep
  <2>1. PICK e \in runs : PluginActs(e) \/ PluginRefuses(e) \/ PluginFails(e)
    BY <1>6 DEF PluginStep
  <2>2. host[e.action] \in Context
    BY <1>1 DEF Runs
  <2>3. CASE PluginActs(e)
    BY <1>5, <2>2, <2>3 DEF PluginActs, GuardPasses
  <2>4. CASE PluginRefuses(e) \/ PluginFails(e)
    BY <1>5, <2>4 DEF PluginRefuses, PluginFails
  <2> QED BY <2>1, <2>3, <2>4
<1>7. CASE Restart
  <2> DEFINE cut(e) == IF e.status = "running" THEN [e EXCEPT !.status = "lost"] ELSE e
  <2>1. \A e \in runs :
          /\ cut(e).permit = e.permit /\ cut(e).session = e.session
          /\ cut(e).action = e.action /\ cut(e).claimed = e.claimed
          /\ cut(e).context = e.context
          /\ cut(e).status = "landed" => e.status = "landed"
    BY <1>1 DEF Runs
  <2>2. runs' = {cut(e) : e \in runs} /\ UNCHANGED <<permits, permitClaim>>
    BY <1>7 DEF Restart
  <2> HIDE DEF cut
  <2>3. \A f \in runs' : \E e \in runs : f = cut(e)
    BY <2>2
  <2>4. OneStartPerLivePermit'
    BY <2>1, <2>2, <2>3 DEF RunChain, OneStartPerLivePermit, OnTime
  <2>5. (\A f \in runs :
           /\ permits[f.permit] # NoRecord
           /\ permitClaim[f.permit] # "none"
           /\ permits[f.permit].session = f.session
           /\ permits[f.permit].action = f.action
           /\ f.status = "landed" => f.context = permits[f.permit].context)'
    BY <2>1, <2>2, <2>3 DEF RunChain
  <2> QED BY <2>4, <2>5 DEF RunChain
<1>8. CASE OperatorStep
  <2>1. CASE \E p \in Permit : RevokePermit(p)
    BY <1>3, <2>1 DEF RevokePermit
  <2>2. CASE \/ \E r \in Request, k \in Approval : GrantApproval(r, k)
             \/ \E k \in Approval : RevokeApproval(k)
    BY <1>2, <2>2 DEF GrantApproval, RevokeApproval
  <2> QED BY <1>8, <2>1, <2>2 DEF OperatorStep
<1>9. CASE ExecutionStep
  BY <1>3, <1>4, <1>9 DEF ExecutionStep, ExecuteBlocked, ExecuteIoError
<1>10. CASE EnvironmentStep
  BY <1>2, <1>7, <1>10 DEF EnvironmentStep, HostChanges, Tick
<1>11. CASE SessionStep \/ ProposalStep \/ RedemptionStep \/ UNCHANGED vars
  BY <1>2, <1>11, Frames DEF vars
<1> QED BY <1>6, <1>8, <1>9, <1>10, <1>11 DEF Next

\* An open breaker has counted up to a threshold, and the counts only grow.
LEMMA BreakerStep ==
  ASSUME TypeOK, BreakerCounts, [Next]_vars
  PROVE  BreakerCounts'
<1> USE CoreAssumption DEF TypeOK
<1>1. CASE UNCHANGED breakerVars
  BY <1>1 DEF BreakerCounts, breakerVars
<1>2. ASSUME NEW s \in Session, NEW t \in Task, NEW a \in Action, NEW d \in Dispositions,
             Evaluate(s, t, a, d)
      PROVE  BreakerCounts'
  <2>1. NextBreaker(s, a, CountDenied(s, d), CountFailure(s, a)) = "OPEN" =>
          CountDenied(s, d) >= MaxDenied \/ CountFailure(s, a) >= MaxFailures
    BY DEF NextBreaker
  <2>2. /\ denied'[s] = CountDenied(s, d)
        /\ failures'[s] = CountFailure(s, a)
        /\ breaker'[s] = NextBreaker(s, a, CountDenied(s, d), CountFailure(s, a))
        /\ \A q \in Session : q # s => /\ denied'[q] = denied[q]
                                       /\ failures'[q] = failures[q]
                                       /\ breaker'[q] = breaker[q]
    BY <1>2 DEF Evaluate
  <2> QED BY <2>1, <2>2 DEF BreakerCounts
<1>3. CASE ProposalStep
  BY <1>2, <1>3 DEF ProposalStep, ProposeAllowed, ProposeHeld, ProposeRefused, Dispositions
<1>4. CASE \/ SessionStep \/ RedemptionStep \/ OperatorStep \/ ExecutionStep \/ PluginStep
           \/ EnvironmentStep \/ UNCHANGED vars
  BY <1>1, <1>4, Frames DEF vars
<1> QED BY <1>3, <1>4 DEF Next

-----------------------------------------------------------------------------
(* Budgets.                                                                *)

StartsOf(s) == {e \in runs : e.session = s}

\* What rewrites every execution but keeps its permit, session and claim keeps the
\* executions of a session as many as they were.
LEMMA RewritingKeepsCounts ==
  ASSUME StartsAreCounted, NEW f, f \in [runs -> runs'], runs' = {f[e] : e \in runs},
         \A e \in runs : /\ f[e].permit = e.permit /\ f[e].session = e.session
                         /\ f[e].claimed = e.claimed
  PROVE  /\ IsFiniteSet(runs')
         /\ \A e, g \in runs' : e.permit = g.permit /\ e.claimed = g.claimed => e = g
         /\ \A s \in Session : Cardinality(StartsOf(s)') = Cardinality(StartsOf(s))
<1>1. \A g \in runs' : \E e \in runs : g = f[e]
  OBVIOUS
<1>2. \A d, e \in runs : f[d].permit = f[e].permit /\ f[d].claimed = f[e].claimed => d = e
  BY DEF StartsAreCounted
<1>3. \A d, e \in runs : f[d] = f[e] => d = e
  BY <1>2
<1>4. IsFiniteSet(runs')
  <2>1. f \in Bijection(runs, runs')
    BY <1>1, <1>3, Fun_IsBij
  <2> QED BY <2>1, FS_Bijection DEF StartsAreCounted, ExistsBijection
<1>5. ASSUME NEW s \in Session
      PROVE  Cardinality(StartsOf(s)') = Cardinality(StartsOf(s))
  <2>1. PICK S, T : S = StartsOf(s) /\ T = StartsOf(s)'
    OBVIOUS
  <2>2. PICK h : h = [e \in S |-> f[e]]
    OBVIOUS
  <2>3. h \in [S -> T] /\ \A t \in T : \E e \in S : h[e] = t
    BY <1>1, <2>1, <2>2 DEF StartsOf
  <2>4. \A d, e \in S : h[d] = h[e] => d = e
    BY <1>3, <2>1, <2>2 DEF StartsOf
  <2>5. IsFiniteSet(S)
    <3>1. S \in SUBSET runs
      BY <2>1 DEF StartsOf
    <3> QED BY <3>1, FS_Subset DEF StartsAreCounted
  <2>6. h \in Bijection(S, T)
    BY <2>3, <2>4, Fun_IsBij
  <2>7. Cardinality(T) = Cardinality(S)
    BY <2>5, <2>6, FS_Bijection DEF ExistsBijection
  <2> QED BY <2>1, <2>7
<1>6. \A e, g \in runs' : e.permit = g.permit /\ e.claimed = g.claimed => e = g
  BY <1>1, <1>2
<1> QED BY <1>4, <1>5, <1>6

\* No step passes a ceiling, and the counter of a session counts its executions.
LEMMA BudgetStep ==
  ASSUME TypeOK, RunChain, StartsAreCounted, BudgetsHold, [Next]_vars
  PROVE  StartsAreCounted' /\ BudgetsHold'
<1> USE CoreAssumption DEF TypeOK
<1>1. \A e \in runs : e \in Runs /\ e.session \in Session /\ e.claimed \in Int
  BY DEF Runs
<1>2. ASSUME UNCHANGED <<parent, limit, deadline, used, runs>>, now' \in Nat, now' >= now,
             \A s \in Session : (session'[s] = "new") <=> (session[s] = "new")
      PROVE  StartsAreCounted' /\ BudgetsHold'
  <2>1. StartsAreCounted'
    BY <1>1, <1>2 DEF StartsAreCounted
  <2> QED BY <1>1, <1>2, <2>1 DEF BudgetsHold
<1>3. ASSUME NEW s \in Session, NEW by \in Session \cup {None}, NEW b \in Nat, NEW d \in Nat,
             Open(s, by, b, d),
             by # None => /\ session[by] # "new" /\ b <= limit[by]
                          /\ d <= deadline[by] \/ d <= now
      PROVE  StartsAreCounted' /\ BudgetsHold'
  <2>1. /\ used[s] = 0 /\ s # by /\ \A e \in runs : e.session # s
        /\ \A q \in Session : parent[q] # s
    BY <1>3 DEF Open, StartsAreCounted
  <2>2. /\ session' = [session EXCEPT ![s] = "active"] /\ parent' = [parent EXCEPT ![s] = by]
        /\ limit' = [limit EXCEPT ![s] = b] /\ deadline' = [deadline EXCEPT ![s] = d]
        /\ UNCHANGED <<now, used, runs>>
    BY <1>3 DEF Open
  <2>3. StartsAreCounted'
    BY <1>1, <1>3, <2>1, <2>2 DEF StartsAreCounted
  <2>4. \A q \in Session : used'[q] <= limit'[q]
    BY <2>1, <2>2 DEF BudgetsHold
  <2>5. \A q \in Session : Cardinality({e \in runs' : e.session = q}) = used'[q]
    BY <2>2 DEF BudgetsHold
  <2>6. \A e \in runs' : e.claimed < deadline'[e.session]
    BY <1>1, <2>1, <2>2 DEF BudgetsHold
  <2>7. \A q, o \in Session : parent'[q] = o =>
          limit'[q] <= limit'[o] /\ (deadline'[q] <= deadline'[o] \/ deadline'[q] <= now')
    BY <1>3, <2>1, <2>2 DEF BudgetsHold
  <2> QED BY <2>3, <2>4, <2>5, <2>6, <2>7 DEF BudgetsHold
<1>4. ASSUME NEW s \in Session, StartSession(s)
      PROVE  StartsAreCounted' /\ BudgetsHold'
  <2>1. now + MaxRuntime \in Nat
    OBVIOUS
  <2> QED BY <1>3, <1>4, <2>1 DEF StartSession
<1>5. ASSUME NEW s \in Session, NEW by \in Session, StartDelegatedSession(s, by)
      PROVE  StartsAreCounted' /\ BudgetsHold'
  <2>1. InheritedLimit(by) \in Nat /\ InheritedLimit(by) <= limit[by]
    BY DEF InheritedLimit, RemainingActions
  <2>2. /\ InheritedDeadline(by) \in Nat
        /\ InheritedDeadline(by) <= deadline[by] \/ InheritedDeadline(by) <= now
    BY DEF InheritedDeadline
  <2> QED BY <1>3, <1>5, <2>1, <2>2 DEF StartDelegatedSession, Authenticated
<1>6. CASE SessionStep
  <2>1. ASSUME NEW s \in Session, FinishSession(s)
        PROVE  StartsAreCounted' /\ BudgetsHold'
    BY <1>2, <2>1 DEF FinishSession, Authenticated
  <2>2. ASSUME NEW s \in Session, NEW t \in Task, StartTask(s, t) \/ FinishTask(s, t)
        PROVE  StartsAreCounted' /\ BudgetsHold'
    BY <1>2, <2>2 DEF StartTask, FinishTask
  <2> QED BY <1>4, <1>5, <1>6, <2>1, <2>2 DEF SessionStep
<1>7. CASE ProposalStep \/ RedemptionStep \/ OperatorStep
  <2>1. UNCHANGED <<now, sessionVars, used, runs>>
    BY <1>7, Frames
  <2> QED BY <1>2, <2>1 DEF sessionVars
<1>8. ASSUME NEW s \in Session, NEW a \in Action, NEW p \in Permit, NEW at \in 0 .. MaxTime,
             ExecuteStarts(s, a, p, at)
      PROVE  StartsAreCounted' /\ BudgetsHold'
  <2>1. PICK new : new = [permit |-> p, session |-> s, action |-> a, claimed |-> at,
                          status |-> "running", context |-> None]
    OBVIOUS
  <2>2. /\ new.permit = p /\ new.session = s /\ new.claimed = at
        /\ runs' = runs \cup {new} /\ now' = at /\ at >= now
        /\ used' = [used EXCEPT ![s] = @ + 1] /\ UNCHANGED sessionVars
        /\ session[s] = "active" /\ used[s] < limit[s] /\ at < deadline[s]
    BY <1>8, <2>1 DEF ExecuteStarts, ClaimPermit, Admitted, BudgetAdmits, Authenticated
  <2>3. /\ permits[p] # NoRecord /\ now <= permits[p].expires
        /\ permitClaim[p] = "none" \/ permits[p].expires < at
    BY <1>8 DEF ExecuteStarts, ClaimPermit, PermitVerifies, Claimable
  <2>4. permits[p].expires \in Int
    BY <2>3 DEF Permits
  <2>5. \A e \in runs : ~(e.permit = p /\ e.claimed = at)
    BY <1>1, <2>3, <2>4 DEF RunChain, StartsAreCounted
  <2>6. StartsAreCounted'
    <3>1. IsFiniteSet(runs')
      BY <2>2, FS_AddElement DEF StartsAreCounted
    <3>2. \A e, f \in runs' : e.permit = f.permit /\ e.claimed = f.claimed => e = f
      BY <2>2, <2>5 DEF StartsAreCounted
    <3>3. \A e \in runs' : session'[e.session] # "new" /\ e.claimed <= now'
      BY <1>1, <2>2 DEF StartsAreCounted, sessionVars
    <3> QED BY <2>2, <3>1, <3>2, <3>3 DEF StartsAreCounted, sessionVars
  <2>7. ASSUME NEW q \in Session
        PROVE  Cardinality({e \in runs' : e.session = q}) = used'[q]
    <3>1. PICK S : S = {e \in runs : e.session = q}
      OBVIOUS
    <3>2. IsFiniteSet(S) /\ Cardinality(S) = used[q] /\ new \notin S
      <4>1. S \in SUBSET runs /\ new \notin S
        BY <2>2, <2>5, <3>1
      <4>2. IsFiniteSet(runs)
        BY DEF StartsAreCounted, BudgetsHold
      <4>3. IsFiniteSet(S)
        BY <4>1, <4>2, FS_Subset
      <4>4. Cardinality(S) = used[q]
        BY <3>1 DEF StartsAreCounted, BudgetsHold
      <4> QED BY <4>1, <4>3, <4>4
    <3>3. CASE q = s
      <4>1. {e \in runs' : e.session = q} = S \cup {new}
        <5>1. runs' = runs \cup {new} /\ new.session = q
          BY <2>2, <3>3
        <5> QED BY <3>1, <5>1
      <4>2. Cardinality(S \cup {new}) = used[q] + 1
        <5>1. IsFiniteSet(S) /\ new \notin S
          BY <3>2
        <5>2. Cardinality(S \cup {new}) = Cardinality(S) + 1
          BY <5>1, FS_AddElement
        <5> QED BY <3>2, <5>2
      <4>3. used'[q] = used[q] + 1
        BY <2>2, <3>3
      <4> QED BY <4>1, <4>2, <4>3
    <3>4. CASE q # s
      <4>1. {e \in runs' : e.session = q} = S
        <5>1. runs' = runs \cup {new} /\ new.session # q
          BY <2>2, <3>4
        <5> QED BY <3>1, <5>1
      <4>2. used'[q] = used[q]
        BY <2>2, <3>4
      <4> QED BY <3>2, <4>1, <4>2
    <3> QED BY <3>3, <3>4
  <2>8. \A e \in runs' : e.claimed < deadline'[e.session]
    BY <2>2 DEF BudgetsHold, sessionVars
  <2>9. \A q \in Session : used'[q] <= limit'[q]
    BY <2>2 DEF BudgetsHold, sessionVars
  <2>10. \A q, o \in Session : parent'[q] = o =>
           limit'[q] <= limit'[o] /\ (deadline'[q] <= deadline'[o] \/ deadline'[q] <= now')
    BY <2>2 DEF BudgetsHold, sessionVars
  <2> QED BY <2>6, <2>7, <2>8, <2>9, <2>10 DEF BudgetsHold
<1>9. CASE ExecutionStep
  <2>1. PICK s \in Session, a \in Action, p \in Permit, at \in 0 .. MaxTime :
          \/ ExecuteStarts(s, a, p, at)
          \/ ExecuteBlocked(s, a, p, at)
          \/ ExecuteIoError(s, a, p, at)
    BY <1>9 DEF ExecutionStep
  <2>2. CASE ExecuteBlocked(s, a, p, at) \/ ExecuteIoError(s, a, p, at)
    BY <1>2, <2>2 DEF ExecuteBlocked, ExecuteIoError, ClaimPermit, sessionVars
  <2> QED BY <1>8, <2>1, <2>2
<1>10. ASSUME NEW f, f \in [runs -> runs'], runs' = {f[e] : e \in runs},
              \A e \in runs : /\ f[e].permit = e.permit /\ f[e].session = e.session
                              /\ f[e].claimed = e.claimed,
              UNCHANGED <<now, parent, limit, deadline, used>>,
              \A s \in Session : (session'[s] = "new") <=> (session[s] = "new")
       PROVE  StartsAreCounted' /\ BudgetsHold'
  <2>1. /\ IsFiniteSet(runs')
        /\ \A e, g \in runs' : e.permit = g.permit /\ e.claimed = g.claimed => e = g
        /\ \A s \in Session : Cardinality(StartsOf(s)') = Cardinality(StartsOf(s))
    BY <1>10, RewritingKeepsCounts
  <2>2. \A g \in runs' : \E e \in runs : g.session = e.session /\ g.claimed = e.claimed
    BY <1>10
  <2>3. StartsAreCounted'
    BY <1>1, <1>10, <2>1, <2>2 DEF StartsAreCounted
  <2>4. \A s \in Session : Cardinality({e \in runs' : e.session = s}) = used'[s]
    BY <1>10, <2>1 DEF StartsOf, BudgetsHold
  <2>5. \A e \in runs' : e.claimed < deadline'[e.session]
    BY <1>10, <2>2 DEF BudgetsHold
  <2> QED BY <1>10, <2>3, <2>4, <2>5 DEF BudgetsHold
<1>11. CASE PluginStep
  <2>1. PICK e \in runs : PluginActs(e) \/ PluginRefuses(e) \/ PluginFails(e)
    BY <1>11 DEF PluginStep
  <2>2. \E status, x : Conclude(e, status, x)
    BY <2>1 DEF PluginActs, PluginRefuses, PluginFails
  <2>3. PICK status, x : Conclude(e, status, x)
    BY <2>2
  <2>4. PICK done : done = [e EXCEPT !.status = status, !.context = x]
    OBVIOUS
  <2>5. /\ done.permit = e.permit /\ done.session = e.session /\ done.claimed = e.claimed
        /\ runs' = (runs \ {e}) \cup {done} /\ UNCHANGED <<now, sessionVars, used>>
    BY <1>1, <2>3, <2>4 DEF Conclude, Runs
  <2>6. PICK f : f = [g \in runs |-> IF g = e THEN done ELSE g]
    OBVIOUS
  <2>7. /\ f \in [runs -> runs'] /\ runs' = {f[g] : g \in runs}
        /\ \A g \in runs : /\ f[g].permit = g.permit /\ f[g].session = g.session
                           /\ f[g].claimed = g.claimed
    BY <2>5, <2>6
  <2> QED BY <1>10, <2>5, <2>7 DEF sessionVars
<1>12. CASE Restart
  <2>1. PICK f : f = [e \in runs |-> IF e.status = "running" THEN [e EXCEPT !.status = "lost"]
                                     ELSE e]
    OBVIOUS
  <2>2. runs' = {f[e] : e \in runs} /\ UNCHANGED <<now, parent, limit, deadline, used>>
    BY <1>12, <2>1 DEF Restart
  <2>3. \A e \in runs : /\ f[e].permit = e.permit /\ f[e].session = e.session
                        /\ f[e].claimed = e.claimed
    BY <1>1, <2>1 DEF Runs
  <2>4. f \in [runs -> runs']
    BY <2>1, <2>2
  <2>5. \A s \in Session : (session'[s] = "new") <=> (session[s] = "new")
    BY <1>12 DEF Restart
  <2> QED BY <1>10, <2>2, <2>3, <2>4, <2>5
<1>13. CASE EnvironmentStep
  <2>1. CASE \E a \in Action, x \in Context : HostChanges(a, x)
    BY <1>2, <2>1 DEF HostChanges, sessionVars
  <2>2. CASE Tick
    BY <1>2, <2>2 DEF Tick, sessionVars
  <2> QED BY <1>12, <1>13, <2>1, <2>2 DEF EnvironmentStep
<1>14. CASE UNCHANGED vars
  BY <1>2, <1>14 DEF vars, sessionVars
<1> QED BY <1>6, <1>7, <1>9, <1>11, <1>13, <1>14 DEF Next

\* The inductive invariant holds in every state.
LEMMA CoreInvariant == Spec => []IInv
<1>1. Init => IInv
  <2>1. Init => TypeOK /\ GrantChain /\ PermitChain /\ RunChain /\ BreakerCounts
    BY CoreAssumption DEF Init, TypeOK, GrantChain, PermitChain, RunChain, BreakerCounts,
       OneStartPerLivePermit, Claims, Runs
  <2>2. Init => StartsAreCounted
    BY CoreAssumption, FS_EmptySet DEF Init, StartsAreCounted
  <2>3. Init => BudgetsHold
    <3> SUFFICES ASSUME Init PROVE BudgetsHold
      OBVIOUS
    <3>1. \A s \in Session : Cardinality({e \in runs : e.session = s}) = used[s]
      <4>1. \A s \in Session : {e \in runs : e.session = s} = {} /\ used[s] = 0
        BY DEF Init
      <4> QED BY <4>1, FS_EmptySet
    <3> QED BY <3>1, CoreAssumption DEF Init, BudgetsHold
  <2> QED BY <2>1, <2>2, <2>3 DEF IInv
<1>2. IInv /\ [Next]_vars => IInv'
  BY TypeStep, GrantStep, PermitStep, RunStep, BreakerStep, BudgetStep DEF IInv
<1> QED BY <1>1, <1>2, PTL DEF Spec

-----------------------------------------------------------------------------
\* Every variable keeps its type: the records, the counters and the claims.
THEOREM CoreTypeOK == Spec => []TypeOK
BY CoreInvariant, PTL DEF IInv

\* No permit starts two executions while it is alive.
THEOREM PermitsStartOnce == Spec => []OneStartPerLivePermit
BY CoreInvariant, PTL DEF IInv, RunChain

\* No human decision leads to two executions on live permits: a request has one
\* token, the token one permit, the permit one execution that is on time.
THEOREM DecisionsActOnce == Spec => []OneEffectPerDecision
<1>1. IInv => OneEffectPerDecision
  <2> SUFFICES ASSUME IInv, NEW e \in runs, NEW f \in runs, NEW r \in Request,
                      OnTime(e), OnTime(f), DecidedBy(e, r), DecidedBy(f, r)
               PROVE  e = f
    BY DEF OneEffectPerDecision
  <2> USE DEF IInv, TypeOK
  <2>1. /\ e.permit \in Permit /\ permits[e.permit] # NoRecord
        /\ f.permit \in Permit /\ permits[f.permit] # NoRecord
    BY DEF RunChain, Runs
  <2>2. permits[e.permit].approval \in Approval /\ permits[f.permit].approval \in Approval
    BY <2>1 DEF DecidedBy, Permits
  <2>3. /\ grantedAs[r] = permits[e.permit].approval
        /\ grantedAs[r] = permits[f.permit].approval
    BY <2>2 DEF DecidedBy, GrantChain
  <2>4. permits[e.permit].approval # None
        /\ permits[e.permit].approval = permits[f.permit].approval
    BY <2>3 DEF DecidedBy
  <2>5. \A p, q \in Permit :
          permits[p] # NoRecord /\ permits[q] # NoRecord
            /\ permits[p].approval = permits[q].approval /\ permits[p].approval # None
          => p = q
    BY DEF PermitChain
  <2>6. e.permit = f.permit
    BY <2>1, <2>4, <2>5
  <2> QED BY <2>6 DEF RunChain, OneStartPerLivePermit
<1> QED BY <1>1, CoreInvariant, PTL

\* What lands was authorized, for this session, this action and this host state.
THEOREM EffectsAreAuthorized == Spec => []EffectsMatchAuthority
<1>1. IInv => EffectsMatchAuthority
  <2> SUFFICES ASSUME IInv, NEW e \in runs, e.status = "landed"
               PROVE  LET p == permits[e.permit] IN
                      /\ p.session = e.session /\ p.action = e.action /\ p.context = e.context
                      /\ IF p.approval = None THEN Policy[e.action][e.context] = "ALLOW"
                         ELSE \E r \in Request :
                                /\ grantedAs[r] = p.approval
                                /\ requests[r] = [kind |-> "request", session |-> e.session,
                                                  task |-> p.task, action |-> e.action,
                                                  context |-> e.context]
                                /\ Policy[e.action][e.context] = "REQUIRE_APPROVAL"
    BY DEF EffectsMatchAuthority
  <2> USE DEF IInv, TypeOK
  <2> DEFINE p == permits[e.permit]
  <2>1. /\ e.permit \in Permit /\ p # NoRecord
        /\ p.session = e.session /\ p.action = e.action /\ p.context = e.context
    BY DEF RunChain, Runs
  <2>2. CASE p.approval = None
    BY <2>1, <2>2 DEF PermitChain
  <2>3. CASE p.approval # None
    <3>k. PICK k : k = p.approval
      OBVIOUS
    <3>r. PICK r : r = tokens[k].request
      OBVIOUS
    <3>1. k \in Approval /\ tokens[k] # NoRecord /\ p.session = tokens[k].session
          /\ p.task = tokens[k].task /\ p.action = tokens[k].action
          /\ p.context = requests[r].context
      BY <2>1, <2>3, <3>k, <3>r DEF Permits, PermitChain
    <3>2. /\ r \in Request /\ requests[r] # NoRecord /\ grantedAs[r] = k
          /\ tokens[k].session = requests[r].session /\ tokens[k].task = requests[r].task
          /\ tokens[k].action = requests[r].action
      BY <3>1, <3>r DEF GrantChain, Tokens
    <3>3. Policy[requests[r].action][requests[r].context] = "REQUIRE_APPROVAL"
      BY <3>2 DEF GrantChain
    <3>4. requests[r] = [kind |-> "request", session |-> e.session, task |-> p.task,
                         action |-> e.action, context |-> e.context]
      <4>1. requests[r] \in Requests
        BY <3>2
      <4>2. /\ requests[r].kind = "request" /\ requests[r].session = e.session
            /\ requests[r].task = p.task /\ requests[r].action = e.action
            /\ requests[r].context = e.context
        <5>1. requests[r].kind = "request"
          BY <4>1 DEF Requests
        <5> QED BY <2>1, <3>1, <3>2, <5>1
      <4> QED BY <4>1, <4>2 DEF Requests
    <3>5. Policy[e.action][e.context] = "REQUIRE_APPROVAL"
      <4>1. requests[r].action = e.action /\ requests[r].context = e.context
        BY <3>4
      <4> QED BY <3>3, <4>1
    <3> QED BY <2>1, <2>3, <3>k, <3>2, <3>4, <3>5
  <2> QED BY <2>1, <2>2, <2>3
<1> QED BY <1>1, CoreInvariant, PTL

\* Approvals and the permits they paid for agree.
THEOREM ApprovalsAreAccountedFor == Spec => []ConsentIsAccountedFor
<1>1. IInv => ConsentIsAccountedFor
  <2> SUFFICES ASSUME IInv, NEW k \in Approval
               PROVE  LET issued == {p \in Permit :
                                       permits[p] # NoRecord /\ permits[p].approval = k} IN
                      /\ approvalClaim[k] = "consumed" => issued # {}
                      /\ approvalClaim[k] = "none" => issued = {}
                      /\ \A p, q \in issued : p = q
    BY DEF ConsentIsAccountedFor
  <2>1. k # None
    BY CoreAssumption
  <2> QED BY <2>1 DEF IInv, PermitChain
<1> QED BY <1>1, CoreInvariant, PTL

\* The ceilings of budgets.ts hold for sessions and for what they delegate: the
\* executions of a session are as many as its tracker recorded and at most its limit,
\* none was claimed at or after its deadline, and no sub-agent outlives or outspends
\* the session that opened it.
THEOREM CeilingsHold == Spec => []BudgetsHold
BY CoreInvariant, PTL DEF IInv

\* A stopped session stays stopped and starts nothing more.
THEOREM NothingStartsOnceStopped == Spec => StoppedStaysStopped
<1>1. ASSUME IInv, [Next]_vars, NEW s \in Session, Stopped(s)
      PROVE  Stopped(s)' /\ used'[s] = used[s]
  <2> USE <1>1, CoreAssumption DEF IInv, TypeOK, Stopped
  <2>1. CASE SessionStep
    <3>1. UNCHANGED <<used, breaker>>
      BY <2>1, Frames DEF breakerVars
    <3>2. session[s] \in {"finished", "lost"} => session'[s] \in {"finished", "lost"}
      BY <2>1 DEF SessionStep, StartSession, StartDelegatedSession, Open, FinishSession,
         StartTask, FinishTask, Authenticated
    <3> QED BY <3>1, <3>2
  <2>2. CASE ProposalStep
    <3>1. UNCHANGED <<used, session>>
      BY <2>2, Frames DEF sessionVars
    <3>2. ASSUME NEW q \in Session, NEW t \in Task, NEW a \in Action, NEW d \in Dispositions,
                 Evaluate(q, t, a, d)
          PROVE  breaker[s] \in {"OPEN", "LOCKED"} => breaker'[s] \in {"OPEN", "LOCKED"}
      <4>1. breaker[q] = "OPEN" =>
              CountDenied(q, d) >= MaxDenied \/ CountFailure(q, a) >= MaxFailures
        BY DEF BreakerCounts, CountDenied, CountFailure
      <4>2. breaker[q] \in {"OPEN", "LOCKED"} =>
              NextBreaker(q, a, CountDenied(q, d), CountFailure(q, a)) \in {"OPEN", "LOCKED"}
        BY <4>1 DEF NextBreaker
      <4> QED BY <3>2, <4>2 DEF Evaluate
    <3>3. breaker[s] \in {"OPEN", "LOCKED"} => breaker'[s] \in {"OPEN", "LOCKED"}
      BY <2>2, <3>2 DEF ProposalStep, ProposeAllowed, ProposeHeld, ProposeRefused, Dispositions
    <3> QED BY <3>1, <3>3
  <2>3. CASE ExecutionStep
    <3>1. UNCHANGED <<session, breaker>>
      BY <2>3, Frames DEF sessionVars, breakerVars
    <3>2. used'[s] = used[s]
      BY <2>3 DEF ExecutionStep, ExecuteStarts, ExecuteBlocked, ExecuteIoError, ClaimPermit,
         Authenticated, Admitted, BreakerAdmits
    <3> QED BY <3>1, <3>2
  <2>4. CASE EnvironmentStep
    <3>1. UNCHANGED <<used, breaker>>
      BY <2>4, Frames DEF breakerVars
    <3>2. session[s] \in {"finished", "lost"} => session'[s] \in {"finished", "lost"}
      BY <2>4 DEF EnvironmentStep, HostChanges, Tick, Restart, sessionVars
    <3> QED BY <3>1, <3>2
  <2>5. CASE RedemptionStep \/ OperatorStep \/ PluginStep \/ UNCHANGED vars
    BY <2>5, Frames DEF vars, sessionVars, breakerVars
  <2> QED BY <2>1, <2>2, <2>3, <2>4, <2>5 DEF Next
<1>2. IInv /\ [Next]_vars =>
        [\A s \in Session : Stopped(s) => Stopped(s)' /\ used'[s] = used[s]]_vars
  BY <1>1
<1> QED BY <1>2, CoreInvariant, PTL DEF Spec, StoppedStaysStopped
=============================================================================
