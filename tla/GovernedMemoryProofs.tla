------------------------ MODULE GovernedMemoryProofs ------------------------
(***************************************************************************)
(* Proofs about governed memory, for any candidates, policy and life       *)
(* times, and any number of processes sharing one memory file.  The        *)
(* inductive invariant extends what is claimed of the file to the copies   *)
(* of it that calls hold: what a call read, and what it is about to write. *)
(***************************************************************************)
EXTENDS GovernedMemory, TLAPS

Calls == Persists \cup Externals \cup Retrievals

\* A call that began knows what it was called with, and governs a candidate.
ArgumentsFit ==
  \A k \in Call :
    /\ pc[k] # "new" => args[k] \in Calls
    /\ pc[k] = "read" => args[k] \in Persists
    /\ pc[k] = "govern" => args[k] \in Persists \cup Externals

\* Only an activating decision carries a permit.
PermitsAreGoverned == \A q \in permits : Activating(Verdict(q.candidate))

\* An authorized call holds a permit for its candidate, and its claim file
\* stays.
AuthorizedHoldPermits ==
  \A k \in authorized :
    /\ pc[k] # "new"
    /\ args[k] \in Persists \cup Externals
    /\ args[k].permit \in permits
    /\ args[k].permit.candidate = args[k].candidate
    /\ args[k].permit.id \in spent

Backed(x) ==
  x.status = "ACTIVE" =>
    /\ x.candidate.flaws = {}
    /\ \E k \in authorized : /\ args[k].op = "persist"
                             /\ args[k].candidate = x.candidate
                             /\ args[k].permit.candidate = x.candidate

\* Every copy of the file holds governed records only.
CopiesAreBacked ==
  /\ \A x \in memory : Backed(x)
  /\ \A k \in Call : \A x \in snapshot[k] : Backed(x)
  /\ \A k \in Call : \A x \in draft[k] : Backed(x)

\* Only a retrieval expires records.
ExpiriesAreRetrievals ==
  \A k \in Call : pc[k] = "expire" => args[k].op = "active"

IInv == /\ TypeOK /\ ArgumentsFit /\ PermitsAreGoverned
        /\ AuthorizedHoldPermits /\ CopiesAreBacked /\ PermitsAuthorizeOnce
        /\ ExpiriesAreRetrievals /\ PersistsKeepToTheirTenant

-----------------------------------------------------------------------------
(* Governance and the record operations.                                   *)

\* Every candidate gets one of the codes, a TTL from the profile alone.
LEMMA VerdictIsCode ==
  ASSUME NEW c \in Candidate
  PROVE  /\ OwnVerdict(c) \in Codes \ {"ALLOW_WITH_TTL"}
         /\ Verdict(c) \in Codes
<1>1. c.flaws \subseteq Flaws
  BY MemoryAssumption
<1>2. OwnVerdict(c) \in Codes \ {"ALLOW_WITH_TTL"}
  BY <1>1 DEF OwnVerdict, Codes, Flaws
<1>3. Verdict(c) \in Codes
  BY <1>2, MemoryAssumption DEF Verdict, Codes
<1> QED BY <1>2, <1>3

\* Whatever the policy of the profile, only a flawless candidate is activated.
LEMMA ActivatingIsFlawless ==
  ASSUME NEW c \in Candidate, Activating(Verdict(c))
  PROVE  c.flaws = {}
<1>1. OwnVerdict(c) = "ALLOW"
  BY VerdictIsCode, MemoryAssumption DEF Verdict, Activating, Codes
<1>2. c.flaws \subseteq Flaws
  BY MemoryAssumption
<1> QED BY <1>1, <1>2 DEF OwnVerdict, Flaws

\* A decision that does not activate names an inactive status.
LEMMA InactiveStatus ==
  ASSUME NEW c \in Candidate, ~Activating(Verdict(c))
  PROVE  InactiveStatusFor(Verdict(c)) \in Statuses \ {"ACTIVE"}
BY VerdictIsCode DEF InactiveStatusFor, Activating, Codes, Statuses

\* upsert() adds its record and nothing else.
LEMMA UpsertAdds ==
  ASSUME NEW S \in SUBSET Memories, NEW r \in Memories
  PROVE  /\ Upsert(S, r) \in SUBSET Memories
         /\ \A x \in Upsert(S, r) : x \in S \/ x = r
BY DEF Upsert

\* The supersede loop activates nothing.
LEMMA SupersedeActivatesNothing ==
  ASSUME NEW S \in SUBSET Memories, NEW c \in Candidate
  PROVE  /\ Supersede(S, c) \in SUBSET Memories
         /\ \A x \in Supersede(S, c) : x \in S \/ x.status = "SUPERSEDED"
BY DEF Supersede, Memories, Statuses

\* expire() activates nothing.
LEMMA ExpireActivatesNothing ==
  ASSUME NEW S \in SUBSET Memories
  PROVE  /\ Expire(S) \in SUBSET Memories
         /\ \A x \in Expire(S) : x \in S \/ x.status = "EXPIRED"
BY DEF Expire, Memories, Statuses

\* The record a persist builds is a record.
LEMMA RecordIsMemory ==
  ASSUME NEW a \in Persists, NEW status \in Statuses, NEW ttl \in Int \cup {None}
  PROVE  /\ RecordOf(a, status, ttl) \in Memories
         /\ RecordOf(a, status, ttl).status = status
         /\ RecordOf(a, status, ttl).candidate = a.candidate
BY DEF RecordOf, Persists, Memories

-----------------------------------------------------------------------------
\* TypeOK and ArgumentsFit are kept by every step.
LEMMA TypeStep == TypeOK /\ ArgumentsFit /\ [Next]_vars => TypeOK' /\ ArgumentsFit'
<1> SUFFICES ASSUME TypeOK, ArgumentsFit, [Next]_vars
             PROVE  TypeOK' /\ ArgumentsFit'
  OBVIOUS
<1> USE MemoryAssumption DEF TypeOK, fileVars, callVars
<1>1. ASSUME NEW c \in Candidate, NEW p \in Permit, Propose(c, p)
      PROVE  TypeOK' /\ ArgumentsFit'
  <2>1. c.ttl \in Int \cup {None} /\ now + PermitTTL \in Int /\ now + DefaultTTL \in Int
    OBVIOUS
  <2>2. [id |-> p, candidate |-> c, expires |-> now + PermitTTL,
         ttl |-> IF Verdict(c) = "ALLOW_WITH_TTL" /\ c.ttl = None
                 THEN now + DefaultTTL ELSE c.ttl] \in Permits
    BY <2>1 DEF Permits
  <2> QED BY <1>1, <2>2 DEF Propose, ArgumentsFit
<1>2. ASSUME NEW k \in Call, NEW a \in Calls, NEW phase \in Phases,
             Begin(k, phase, a),
             phase = "read" => a \in Persists,
             phase = "govern" => a \in Persists \cup Externals
      PROVE  TypeOK' /\ ArgumentsFit'
  BY <1>2 DEF Begin, Goto, ArgumentsFit, Calls, Phases
<1>3. ASSUME NEW k \in Call, BeginPersist(k)
      PROVE  TypeOK' /\ ArgumentsFit'
  <2>1. PICK c \in Candidate, g \in Candidate, permit \in permits \cup {None} :
          Begin(k, "read", [op |-> "persist", candidate |-> c, governed |-> g,
                            permit |-> permit])
    BY <1>3 DEF BeginPersist
  <2>2. [op |-> "persist", candidate |-> c, governed |-> g, permit |-> permit] \in Persists
    BY DEF Persists
  <2> QED BY <1>2, <2>1, <2>2 DEF Calls, Phases
<1>4. ASSUME NEW k \in Call, BeginAuthorize(k)
      PROVE  TypeOK' /\ ArgumentsFit'
  <2>1. PICK c \in Candidate, permit \in permits \cup {None} :
          Begin(k, "govern", [op |-> "authorize", candidate |-> c, permit |-> permit])
    BY <1>4 DEF BeginAuthorize
  <2>2. [op |-> "authorize", candidate |-> c, permit |-> permit] \in Externals
    BY DEF Externals
  <2> QED BY <1>2, <2>1, <2>2 DEF Calls, Phases
<1>5. ASSUME NEW k \in Call, BeginActive(k)
      PROVE  TypeOK' /\ ArgumentsFit'
  <2>1. PICK t \in Tenant :
          Begin(k, "expire", [op |-> "active", tenant |-> t, since |-> now])
    BY <1>5 DEF BeginActive
  <2>2. [op |-> "active", tenant |-> t, since |-> now] \in Retrievals
    BY DEF Retrievals
  <2> QED BY <1>2, <2>1, <2>2 DEF Calls, Phases
<1>6. ASSUME NEW k \in Call, ReadRecords(k)
      PROVE  TypeOK' /\ ArgumentsFit'
  BY <1>6 DEF ReadRecords, Goto, ArgumentsFit, Phases
<1>7. ASSUME NEW k \in Call, NEW S \in SUBSET Memories, Drafts(k, S), pc[k] = "govern",
             spent' \in SUBSET Permit, authorized' \in SUBSET Call
      PROVE  TypeOK' /\ ArgumentsFit'
  BY <1>7 DEF Drafts, Goto, ArgumentsFit, Phases
<1>8. ASSUME NEW k \in Call, Persisting(k)
      PROVE  /\ args[k] \in Persists
             /\ args[k].candidate \in Candidate /\ args[k].governed \in Candidate
             /\ snapshot[k] \in SUBSET Memories
  BY <1>8 DEF Persisting, ArgumentsFit, Persists, Externals
<1>9. ASSUME NEW k \in Call, PersistInactive(k)
      PROVE  TypeOK' /\ ArgumentsFit'
  <2>1. Persisting(k)
    BY <1>9 DEF PersistInactive
  <2>2. RecordOf(args[k], InactiveStatusFor(Verdict(args[k].governed)), None) \in Memories
    BY <1>8, <1>9, <2>1, InactiveStatus, RecordIsMemory DEF PersistInactive
  <2> QED BY <1>7, <1>8, <1>9, <2>1, <2>2, UpsertAdds DEF PersistInactive, Persisting
<1>10. ASSUME NEW k \in Call, Authorizes(args[k].permit, args[k].candidate)
       PROVE  args[k].permit.id \in Permit /\ args[k].permit.ttl \in Int \cup {None}
  BY <1>10 DEF Authorizes, Permits
<1>11. ASSUME NEW k \in Call, PersistActive(k)
       PROVE  TypeOK' /\ ArgumentsFit'
  <2>1. Persisting(k) /\ Authorizes(args[k].permit, args[k].candidate)
    BY <1>11 DEF PersistActive
  <2>2. RecordOf(args[k], "ACTIVE", args[k].permit.ttl) \in Memories
    <3>1. "ACTIVE" \in Statuses
      BY DEF Statuses
    <3>2. args[k].permit.id \in Permit /\ args[k].permit.ttl \in Int \cup {None}
      BY <1>10, <2>1
    <3> QED BY <1>8, <2>1, <3>1, <3>2, RecordIsMemory
  <2>3. Supersede(snapshot[k], args[k].candidate) \in SUBSET Memories
    BY <1>8, <2>1, SupersedeActivatesNothing
  <2>4. spent' \in SUBSET Permit /\ authorized' \in SUBSET Call
    BY <1>10, <1>11, <2>1 DEF PersistActive
  <2> QED BY <1>7, <1>11, <2>1, <2>2, <2>3, <2>4, UpsertAdds DEF PersistActive, Persisting
<1>12. ASSUME NEW k \in Call, PersistQuarantined(k) \/ PersistIoError(k)
       PROVE  TypeOK' /\ ArgumentsFit'
  <2>1. Persisting(k)
    BY <1>12 DEF PersistQuarantined, PersistIoError
  <2>2. RecordOf(args[k], "QUARANTINED", None) \in Memories
    BY <1>8, <2>1, RecordIsMemory DEF Statuses
  <2>3. spent' \in SUBSET Permit /\ authorized' \in SUBSET Call
    BY <1>10, <1>12 DEF PersistQuarantined, PersistIoError
  <2> QED BY <1>7, <1>8, <1>12, <2>1, <2>2, <2>3, UpsertAdds
          DEF PersistQuarantined, PersistIoError, Persisting
<1>13. ASSUME NEW k \in Call, AuthorizeExternal(k) \/ AuthorizeNothing(k)
       PROVE  TypeOK' /\ ArgumentsFit'
  <2>1. spent' \in SUBSET Permit /\ authorized' \in SUBSET Call /\ Answers(k)
    BY <1>10, <1>13 DEF AuthorizeExternal, AuthorizeNothing
  <2>2. pc[k] # "new"
    BY <1>13 DEF AuthorizeExternal, AuthorizeNothing, Authorizing
  <2> QED BY <2>1, <2>2 DEF Answers, Goto, ArgumentsFit, Outcomes, Phases
<1>14. ASSUME NEW k \in Call, ExpireRecords(k)
       PROVE  TypeOK' /\ ArgumentsFit'
  <2>1. Expire(memory) \in SUBSET Memories
    BY ExpireActivatesNothing
  <2> QED BY <1>14, <2>1 DEF ExpireRecords, Goto, ArgumentsFit, Phases
<1>15. ASSUME NEW k \in Call, TruncateFile(k) \/ FillFile(k) \/ FillHalf(k)
       PROVE  TypeOK' /\ ArgumentsFit'
  BY <1>15 DEF TruncateFile, FillFile, FillHalf, Forget, Goto, ArgumentsFit, Phases, Outcomes
<1>16. ASSUME NEW k \in Call, ReturnActive(k) \/ Crash(k)
       PROVE  TypeOK' /\ ArgumentsFit'
  BY <1>16 DEF ReturnActive, Crash, InProgress, Forget, Goto, ArgumentsFit, Phases, Outcomes
<1>17. ASSUME Tick \/ Quiescent \/ UNCHANGED vars
       PROVE  TypeOK' /\ ArgumentsFit'
  BY <1>17 DEF Tick, Quiescent, vars, ArgumentsFit
<1> QED BY <1>1, <1>3, <1>4, <1>5, <1>6, <1>9, <1>11, <1>12, <1>13, <1>14, <1>15,
           <1>16, <1>17 DEF Next, PersistStep, RetrievalStep, FileStep

-----------------------------------------------------------------------------
(* What a step can do to permits, claims and authorizations.               *)

Proposes ==
  \E c \in Candidate, p \in Permit : Propose(c, p)

Begins ==
  /\ \E k \in Call : pc[k] = "new" /\ (\A l \in Call : l # k => args'[l] = args[l])
  /\ UNCHANGED <<permits, spent, authorized, memory, snapshot, draft>>

Claims(k) ==
  /\ pc[k] = "govern"
  /\ args[k] \in Persists \cup Externals
  /\ Authorizes(args[k].permit, args[k].candidate)
  /\ spent' = spent \cup {args[k].permit.id}
  /\ authorized' = authorized \cup {k}
  /\ UNCHANGED <<permits, args>>

Keeps ==
  /\ UNCHANGED <<permits, args, authorized>>
  /\ spent \subseteq spent'

\* Every step is one of the four, and no call becomes new again.
LEMMA Frames ==
  ASSUME TypeOK, ArgumentsFit, [Next]_vars
  PROVE  /\ Proposes \/ Begins \/ (\E k \in Call : Claims(k)) \/ Keeps
         /\ \A k \in Call : pc[k] # "new" => pc'[k] # "new" /\ args'[k] = args[k]
<1> USE DEF TypeOK, fileVars, callVars
<1>1. ASSUME NEW c \in Candidate, NEW p \in Permit, Propose(c, p)
      PROVE  /\ Proposes
             /\ \A k \in Call : pc[k] # "new" => pc'[k] # "new" /\ args'[k] = args[k]
  BY <1>1 DEF Proposes, Propose
<1>2. ASSUME NEW k \in Call, BeginPersist(k) \/ BeginAuthorize(k) \/ BeginActive(k)
      PROVE  /\ Begins
             /\ \A l \in Call : pc[l] # "new" => pc'[l] # "new" /\ args'[l] = args[l]
  <2>1. PICK phase \in {"read", "govern", "expire"} : \E a : Begin(k, phase, a)
    BY <1>2 DEF BeginPersist, BeginAuthorize, BeginActive
  <2> QED BY <2>1 DEF Begin, Begins, Goto
<1>3. ASSUME NEW k \in Call, PersistActive(k)
      PROVE  /\ Claims(k)
             /\ \A l \in Call : pc[l] # "new" => pc'[l] # "new" /\ args'[l] = args[l]
  BY <1>3 DEF PersistActive, Persisting, Drafts, Goto, Claims, ArgumentsFit
<1>4. ASSUME NEW k \in Call, AuthorizeExternal(k)
      PROVE  /\ Claims(k)
             /\ \A l \in Call : pc[l] # "new" => pc'[l] # "new" /\ args'[l] = args[l]
  BY <1>4 DEF AuthorizeExternal, Authorizing, Answers, Goto, Claims, ArgumentsFit
<1>5. ASSUME NEW k \in Call,
             PersistInactive(k) \/ PersistQuarantined(k) \/ PersistIoError(k)
               \/ AuthorizeNothing(k)
      PROVE  /\ Keeps
             /\ \A l \in Call : pc[l] # "new" => pc'[l] # "new" /\ args'[l] = args[l]
  BY <1>5 DEF PersistInactive, PersistQuarantined, PersistIoError, AuthorizeNothing,
              Drafts, Answers, Goto, Keeps
<1>6. ASSUME NEW k \in Call,
             ReadRecords(k) \/ ExpireRecords(k) \/ ReturnActive(k) \/ FileStep(k)
      PROVE  /\ Keeps
             /\ \A l \in Call : pc[l] # "new" => pc'[l] # "new" /\ args'[l] = args[l]
  BY <1>6 DEF ReadRecords, ExpireRecords, ReturnActive, FileStep, TruncateFile,
              FillFile, FillHalf, Crash, Goto, Keeps
<1>7. ASSUME Tick \/ Quiescent \/ UNCHANGED vars
      PROVE  /\ Keeps
             /\ \A l \in Call : pc[l] # "new" => pc'[l] # "new" /\ args'[l] = args[l]
  BY <1>7 DEF Tick, Quiescent, vars, Keeps
<1> QED BY <1>1, <1>2, <1>3, <1>4, <1>5, <1>6, <1>7 DEF Next, PersistStep, RetrievalStep

\* What is claimed of the permits is kept by every step.
LEMMA AuthorityStep ==
  ASSUME TypeOK, ArgumentsFit, PermitsAreGoverned, AuthorizedHoldPermits,
         PermitsAuthorizeOnce, [Next]_vars
  PROVE  /\ PermitsAreGoverned' /\ AuthorizedHoldPermits' /\ PermitsAuthorizeOnce'
         /\ authorized \subseteq authorized'
         /\ \A k \in authorized : args'[k] = args[k]
<1>1. /\ authorized \in SUBSET Call
      /\ \A k \in Call : pc[k] # "new" => pc'[k] # "new" /\ args'[k] = args[k]
  BY Frames DEF TypeOK
<1>2. \A k \in authorized : args'[k] = args[k] /\ pc'[k] # "new"
  BY <1>1 DEF AuthorizedHoldPermits
<1>3. CASE Proposes
  <2>1. PICK c \in Candidate, p \in Permit : Propose(c, p)
    BY <1>3 DEF Proposes
  <2>2. permits \subseteq permits' /\ spent' = spent /\ authorized' = authorized
    BY <2>1 DEF Propose
  <2>3. PermitsAreGoverned'
    BY <2>1 DEF Propose, PermitsAreGoverned
  <2> QED BY <1>2, <2>2, <2>3 DEF AuthorizedHoldPermits, PermitsAuthorizeOnce
<1>4. CASE Begins \/ Keeps
  <2>1. permits' = permits /\ authorized' = authorized /\ spent \subseteq spent'
    BY <1>4 DEF Begins, Keeps
  <2> QED BY <1>2, <2>1 DEF PermitsAreGoverned, AuthorizedHoldPermits, PermitsAuthorizeOnce
<1>5. ASSUME NEW k \in Call, Claims(k)
      PROVE  /\ PermitsAreGoverned' /\ AuthorizedHoldPermits' /\ PermitsAuthorizeOnce'
             /\ authorized \subseteq authorized'
  <2>1. /\ args[k].permit \in permits /\ args[k].permit.candidate = args[k].candidate
        /\ args[k].permit.id \notin spent /\ pc'[k] # "new"
    BY <1>1, <1>5 DEF Claims, Authorizes
  <2>2. permits' = permits /\ args' = args /\ authorized' = authorized \cup {k}
    BY <1>5 DEF Claims
  <2>3. \A l \in authorized : args[l].permit.id \in spent
    BY DEF AuthorizedHoldPermits
  <2>4. PermitsAuthorizeOnce'
    BY <2>1, <2>2, <2>3 DEF PermitsAuthorizeOnce
  <2>5. AuthorizedHoldPermits'
    BY <1>2, <1>5, <2>1, <2>2 DEF AuthorizedHoldPermits, Claims
  <2> QED BY <2>2, <2>4, <2>5 DEF PermitsAreGoverned
<1> QED BY <1>2, <1>3, <1>4, <1>5, Frames

\* Every copy of the file keeps holding governed records only.
LEMMA CopiesStep ==
  ASSUME TypeOK, ArgumentsFit, PermitsAreGoverned, AuthorizedHoldPermits,
         CopiesAreBacked, authorized \subseteq authorized',
         \A k \in authorized : args'[k] = args[k], [Next]_vars
  PROVE  CopiesAreBacked'
<1>1. ASSUME NEW x, Backed(x)
      PROVE  Backed(x)'
  BY <1>1 DEF Backed
<1>2. ASSUME memory' \in {memory, {}} \/ (\E k \in Call : memory' = draft[k]),
             \A k \in Call : snapshot'[k] \in {snapshot[k], memory, {}},
             \A k \in Call : \A x \in draft'[k] :
               x \in draft[k] \/ x \in snapshot[k] \/ x \in memory
                 \/ x.status # "ACTIVE" \/ Backed(x)'
      PROVE  CopiesAreBacked'
  <2>1. \A x \in memory' : Backed(x)'
    BY <1>1, <1>2 DEF CopiesAreBacked
  <2>2. \A k \in Call : \A x \in snapshot'[k] : Backed(x)'
    BY <1>1, <1>2 DEF CopiesAreBacked
  <2>3. ASSUME NEW x, x.status # "ACTIVE"
        PROVE  Backed(x)'
    BY <2>3 DEF Backed
  <2>4. \A k \in Call : \A x \in draft'[k] : Backed(x)'
    BY <1>1, <1>2, <2>3 DEF CopiesAreBacked
  <2> QED BY <2>1, <2>2, <2>4 DEF CopiesAreBacked
<1> USE DEF TypeOK, fileVars, callVars
<1>3. ASSUME NEW k \in Call, NEW S, Drafts(k, S), Persisting(k), memory' = memory,
             \A x \in S : x \in snapshot[k] \/ x.status # "ACTIVE" \/ Backed(x)'
      PROVE  CopiesAreBacked'
  BY <1>2, <1>3 DEF Drafts
<1>4. ASSUME NEW k \in Call, Persisting(k)
      PROVE  /\ args[k] \in Persists
             /\ args[k].candidate \in Candidate /\ args[k].governed \in Candidate
             /\ snapshot[k] \in SUBSET Memories
  BY <1>4 DEF Persisting, ArgumentsFit, Persists, Externals
<1>5. ASSUME NEW k \in Call, PersistInactive(k)
      PROVE  CopiesAreBacked'
  <2> DEFINE r == RecordOf(args[k], InactiveStatusFor(Verdict(args[k].governed)), None)
  <2>1. Persisting(k)
    BY <1>5 DEF PersistInactive
  <2>2. r \in Memories /\ r.status # "ACTIVE"
    <3>1. args[k] \in Persists /\ args[k].governed \in Candidate
      BY <1>4, <2>1
    <3>2. InactiveStatusFor(Verdict(args[k].governed)) \in Statuses \ {"ACTIVE"}
      BY <1>5, <3>1, InactiveStatus DEF PersistInactive
    <3> HIDE DEF TypeOK
    <3> QED BY <3>1, <3>2, RecordIsMemory
  <2>3. \A x \in Upsert(snapshot[k], r) : x \in snapshot[k] \/ x.status # "ACTIVE"
    BY <1>4, <2>1, <2>2, UpsertAdds
  <2> QED BY <1>3, <1>5, <2>1, <2>3 DEF PersistInactive, Drafts
<1>6. ASSUME NEW k \in Call, PersistQuarantined(k) \/ PersistIoError(k)
      PROVE  CopiesAreBacked'
  <2> DEFINE r == RecordOf(args[k], "QUARANTINED", None)
  <2>1. Persisting(k)
    BY <1>6 DEF PersistQuarantined, PersistIoError
  <2>2. r \in Memories /\ r.status # "ACTIVE"
    <3>1. args[k] \in Persists /\ "QUARANTINED" \in Statuses
      BY <1>4, <2>1 DEF Statuses
    <3> HIDE DEF TypeOK
    <3> QED BY <3>1, RecordIsMemory
  <2>3. \A x \in Upsert(snapshot[k], r) : x \in snapshot[k] \/ x.status # "ACTIVE"
    BY <1>4, <2>1, <2>2, UpsertAdds
  <2> QED BY <1>3, <1>6, <2>1, <2>3 DEF PersistQuarantined, PersistIoError, Drafts
<1>7. ASSUME NEW k \in Call, PersistActive(k)
      PROVE  CopiesAreBacked'
  <2> DEFINE a == args[k]
             T == Supersede(snapshot[k], a.candidate)
             r == RecordOf(a, "ACTIVE", a.permit.ttl)
  <2>1. /\ Persisting(k) /\ a.permit \in permits /\ a.permit.candidate = a.candidate
        /\ k \in authorized' /\ args' = args /\ memory' = memory
        /\ Drafts(k, Upsert(T, r))
    BY <1>7 DEF PersistActive, Authorizes, Drafts
  <2>2. a.permit.ttl \in Int \cup {None}
    BY <2>1 DEF Permits
  <2>3. r \in Memories /\ r.candidate = a.candidate
    <3>1. args[k] \in Persists /\ "ACTIVE" \in Statuses
      BY <1>4, <2>1 DEF Statuses
    <3> HIDE DEF TypeOK
    <3> QED BY <2>2, <3>1, RecordIsMemory
  <2>4. a.candidate.flaws = {}
    BY <1>4, <2>1, ActivatingIsFlawless DEF PermitsAreGoverned
  <2>5. ASSUME NEW x, x = r
        PROVE  Backed(x)'
    BY <1>4, <2>1, <2>3, <2>4, <2>5 DEF Backed, Persists
  <2>6. T \in SUBSET Memories /\ \A x \in T : x \in snapshot[k] \/ x.status = "SUPERSEDED"
    BY <1>4, <2>1, SupersedeActivatesNothing
  <2>7. \A x \in Upsert(T, r) : x \in snapshot[k] \/ x.status # "ACTIVE" \/ Backed(x)'
    <3>1. \A x \in Upsert(T, r) : x \in T \/ x = r
      <4>1. r \in Memories /\ T \in SUBSET Memories
        BY <2>3, <2>6
      <4> HIDE DEF T, r, TypeOK
      <4> QED BY <4>1, UpsertAdds
    <3> HIDE DEF T, r, TypeOK
    <3> QED BY <2>5, <2>6, <3>1
  <2> QED BY <1>3, <2>1, <2>7
<1>8. ASSUME NEW k \in Call, ExpireRecords(k)
      PROVE  CopiesAreBacked'
  <2>1. \A x \in Expire(memory) : x \in memory \/ x.status # "ACTIVE"
    BY ExpireActivatesNothing
  <2> QED BY <1>2, <1>8, <2>1 DEF ExpireRecords
<1>9. ASSUME NEW k \in Call, \/ ReadRecords(k) \/ ReturnActive(k)
                               \/ AuthorizeExternal(k) \/ AuthorizeNothing(k)
      PROVE  CopiesAreBacked'
  BY <1>2, <1>9 DEF ReadRecords, ReturnActive, AuthorizeExternal, AuthorizeNothing,
                    Answers, Forget
<1>10. ASSUME NEW k \in Call, FileStep(k)
       PROVE  CopiesAreBacked'
  BY <1>2, <1>10 DEF FileStep, TruncateFile, FillFile, FillHalf, Crash, Forget
<1>11. ASSUME NEW k \in Call, BeginPersist(k) \/ BeginAuthorize(k) \/ BeginActive(k)
       PROVE  CopiesAreBacked'
  BY <1>2, <1>11 DEF BeginPersist, BeginAuthorize, BeginActive, Begin
<1>12. ASSUME NEW c \in Candidate, NEW p \in Permit, Propose(c, p)
       PROVE  CopiesAreBacked'
  BY <1>2, <1>12 DEF Propose
<1>13. ASSUME Tick \/ Quiescent \/ UNCHANGED vars
       PROVE  CopiesAreBacked'
  BY <1>2, <1>13 DEF Tick, Quiescent, vars
<1> QED BY <1>5, <1>6, <1>7, <1>8, <1>9, <1>10, <1>11, <1>12, <1>13
        DEF Next, PersistStep, RetrievalStep

-----------------------------------------------------------------------------
(* What a persist writes, against what it read.                            *)

\* S and T differ in records of tenant t alone.
SameButFor(t, S, T) == \A x \in (S \ T) \cup (T \ S) : x.candidate.tenant = t

\* upsert() touches the tenant of its record.
LEMMA UpsertKeepsToTenant ==
  ASSUME NEW S \in SUBSET Memories, NEW r \in Memories
  PROVE  SameButFor(r.candidate.tenant, S, Upsert(S, r))
BY DEF SameButFor, Upsert, SameKey

\* The supersede loop touches the tenant of its candidate.
LEMMA SupersedeKeepsToTenant ==
  ASSUME NEW S \in SUBSET Memories, NEW c \in Candidate
  PROVE  SameButFor(c.tenant, S, Supersede(S, c))
<1>1. ASSUME NEW x \in S, x \notin Supersede(S, c)
      PROVE  x.candidate.tenant = c.tenant
  BY <1>1 DEF Supersede
<1>2. ASSUME NEW x \in Supersede(S, c), x \notin S
      PROVE  x.candidate.tenant = c.tenant
  <2>1. PICK y \in S : x = IF /\ y.candidate.memory_id \in c.supersedes
                              /\ y.candidate.tenant = c.tenant
                           THEN [y EXCEPT !.status = "SUPERSEDED"] ELSE y
    BY <1>2 DEF Supersede
  <2>2. y.candidate.tenant = c.tenant /\ x = [y EXCEPT !.status = "SUPERSEDED"]
    BY <1>2, <2>1
  <2> QED BY <2>2 DEF Memories
<1> QED BY <1>1, <1>2 DEF SameButFor

\* A persist keeps to its tenant when it drafts, and until it has written.
LEMMA TenantStep ==
  ASSUME TypeOK, ArgumentsFit, ExpiriesAreRetrievals, PersistsKeepToTheirTenant, [Next]_vars
  PROVE  ExpiriesAreRetrievals' /\ PersistsKeepToTheirTenant'
<1> USE DEF TypeOK, fileVars, callVars
<1>1. ASSUME \A k \in Call :
               \/ pc'[k] \notin {"truncate", "fill"}
               \/ args'[k].op # "persist"
               \/ /\ pc[k] \in {"truncate", "fill"} /\ args'[k] = args[k]
                  /\ snapshot'[k] = snapshot[k] /\ draft'[k] = draft[k]
               \/ SameButFor(args'[k].candidate.tenant, snapshot'[k], draft'[k])
      PROVE  PersistsKeepToTheirTenant'
  BY <1>1 DEF PersistsKeepToTheirTenant, SameButFor
<1>2. ASSUME \A k \in Call : \/ pc'[k] # "expire"
                             \/ args'[k].op = "active"
                             \/ pc[k] = "expire" /\ args'[k] = args[k]
      PROVE  ExpiriesAreRetrievals'
  BY <1>2 DEF ExpiriesAreRetrievals
<1>3. ASSUME NEW k \in Call, NEW phase \in {"read", "govern", "expire"}, NEW a,
             Begin(k, phase, a), phase = "expire" => a.op = "active"
      PROVE  ExpiriesAreRetrievals' /\ PersistsKeepToTheirTenant'
  BY <1>1, <1>2, <1>3 DEF Begin, Goto
<1>4. ASSUME NEW k \in Call, BeginPersist(k)
      PROVE  ExpiriesAreRetrievals' /\ PersistsKeepToTheirTenant'
  <2>1. PICK a : Begin(k, "read", a)
    BY <1>4 DEF BeginPersist
  <2> QED BY <1>3, <2>1
<1>5. ASSUME NEW k \in Call, BeginAuthorize(k)
      PROVE  ExpiriesAreRetrievals' /\ PersistsKeepToTheirTenant'
  <2>1. PICK a : Begin(k, "govern", a)
    BY <1>5 DEF BeginAuthorize
  <2> QED BY <1>3, <2>1
<1>6. ASSUME NEW k \in Call, BeginActive(k)
      PROVE  ExpiriesAreRetrievals' /\ PersistsKeepToTheirTenant'
  <2>1. PICK t \in Tenant :
          Begin(k, "expire", [op |-> "active", tenant |-> t, since |-> now])
    BY <1>6 DEF BeginActive
  <2> QED BY <1>3, <2>1
<1>7. ASSUME NEW k \in Call, NEW S, Drafts(k, S),
             SameButFor(args[k].candidate.tenant, snapshot[k], S)
      PROVE  ExpiriesAreRetrievals' /\ PersistsKeepToTheirTenant'
  BY <1>1, <1>2, <1>7 DEF Drafts, Goto
<1>8. ASSUME NEW k \in Call, Persisting(k), NEW status \in Statuses,
             NEW ttl \in Int \cup {None}
      PROVE  /\ args[k].candidate \in Candidate
             /\ snapshot[k] \in SUBSET Memories
             /\ RecordOf(args[k], status, ttl) \in Memories
             /\ RecordOf(args[k], status, ttl).candidate = args[k].candidate
  <2>1. args[k] \in Persists /\ snapshot[k] \in SUBSET Memories
    BY <1>8 DEF Persisting, ArgumentsFit, Persists, Externals
  <2>2. args[k].candidate \in Candidate
    BY <2>1 DEF Persists
  <2> HIDE DEF TypeOK
  <2> QED BY <2>1, <2>2, RecordIsMemory
<1>9. ASSUME NEW k \in Call, Persisting(k), NEW status \in Statuses,
             Drafts(k, Upsert(snapshot[k], RecordOf(args[k], status, None)))
      PROVE  ExpiriesAreRetrievals' /\ PersistsKeepToTheirTenant'
  BY <1>7, <1>8, <1>9, UpsertKeepsToTenant
<1>10. ASSUME NEW k \in Call, PersistInactive(k)
       PROVE  ExpiriesAreRetrievals' /\ PersistsKeepToTheirTenant'
  <2>1. Persisting(k) /\ args[k].governed \in Candidate
    BY <1>10 DEF PersistInactive, Persisting, ArgumentsFit, Persists, Externals
  <2>2. InactiveStatusFor(Verdict(args[k].governed)) \in Statuses
    BY <1>10, <2>1, InactiveStatus DEF PersistInactive
  <2> QED BY <1>9, <1>10, <2>1, <2>2 DEF PersistInactive
<1>11. ASSUME NEW k \in Call, PersistQuarantined(k) \/ PersistIoError(k)
       PROVE  ExpiriesAreRetrievals' /\ PersistsKeepToTheirTenant'
  BY <1>9, <1>11 DEF PersistQuarantined, PersistIoError, Statuses
<1>12. ASSUME NEW k \in Call, PersistActive(k)
       PROVE  ExpiriesAreRetrievals' /\ PersistsKeepToTheirTenant'
  <2>1. PICK r : r = RecordOf(args[k], "ACTIVE", args[k].permit.ttl)
    OBVIOUS
  <2>2. PICK T : T = Supersede(snapshot[k], args[k].candidate)
    OBVIOUS
  <2>3. Persisting(k) /\ Drafts(k, Upsert(T, r)) /\ args[k].permit \in permits
    BY <1>12, <2>1, <2>2 DEF PersistActive, Authorizes
  <2>4. args[k].permit.ttl \in Int \cup {None}
    BY <2>3 DEF Permits
  <2>5. /\ args[k].candidate \in Candidate /\ snapshot[k] \in SUBSET Memories
        /\ r \in Memories /\ r.candidate = args[k].candidate
    BY <1>8, <2>1, <2>3, <2>4 DEF Statuses
  <2>6. /\ T \in SUBSET Memories
        /\ SameButFor(args[k].candidate.tenant, snapshot[k], T)
    BY <2>2, <2>5, SupersedeActivatesNothing, SupersedeKeepsToTenant
  <2>7. SameButFor(args[k].candidate.tenant, T, Upsert(T, r))
    BY <2>5, <2>6, UpsertKeepsToTenant
  <2>8. SameButFor(args[k].candidate.tenant, snapshot[k], Upsert(T, r))
    BY <2>6, <2>7 DEF SameButFor
  <2> QED BY <1>7, <2>3, <2>8
<1>13. ASSUME NEW k \in Call, ExpireRecords(k)
       PROVE  ExpiriesAreRetrievals' /\ PersistsKeepToTheirTenant'
  <2>1. args[k].op = "active" /\ args' = args
    BY <1>13 DEF ExpireRecords, ExpiriesAreRetrievals
  <2> QED BY <1>1, <1>2, <1>13, <2>1 DEF ExpireRecords, Goto
<1>14. ASSUME NEW k \in Call, \/ ReadRecords(k) \/ ReturnActive(k)
                               \/ AuthorizeExternal(k) \/ AuthorizeNothing(k)
       PROVE  ExpiriesAreRetrievals' /\ PersistsKeepToTheirTenant'
  BY <1>1, <1>2, <1>14 DEF ReadRecords, ReturnActive, AuthorizeExternal, AuthorizeNothing,
                           Answers, Forget, Goto
<1>15. ASSUME NEW k \in Call, FileStep(k)
       PROVE  ExpiriesAreRetrievals' /\ PersistsKeepToTheirTenant'
  BY <1>1, <1>2, <1>15 DEF FileStep, TruncateFile, FillFile, FillHalf, Crash, Forget, Goto
<1>16. ASSUME NEW c \in Candidate, NEW p \in Permit, Propose(c, p)
       PROVE  ExpiriesAreRetrievals' /\ PersistsKeepToTheirTenant'
  BY <1>1, <1>2, <1>16 DEF Propose
<1>17. ASSUME Tick \/ Quiescent \/ UNCHANGED vars
       PROVE  ExpiriesAreRetrievals' /\ PersistsKeepToTheirTenant'
  BY <1>1, <1>2, <1>17 DEF Tick, Quiescent, vars
<1> QED BY <1>4, <1>5, <1>6, <1>10, <1>11, <1>12, <1>13, <1>14, <1>15, <1>16, <1>17
        DEF Next, PersistStep, RetrievalStep

-----------------------------------------------------------------------------
\* The invariant holds initially and is kept.
LEMMA MemoryInvariant == Spec => []IInv
<1>1. Init => IInv
  <2> SUFFICES ASSUME Init PROVE IInv
    OBVIOUS
  <2>1. TypeOK
    <3>1. now \in 0 .. MaxTime
      BY MemoryAssumption DEF Init
    <3>2. /\ pc \in [Call -> Phases \cup Outcomes \cup {"new"}]
          /\ args \in [Call -> Persists \cup Externals \cup Retrievals \cup {None}]
      BY DEF Init
    <3>3. /\ snapshot \in [Call -> SUBSET Memories]
          /\ draft \in [Call -> SUBSET Memories]
          /\ returned \in [Call -> SUBSET Memories]
      BY DEF Init
    <3>4. /\ permits \in SUBSET Permits /\ spent \in SUBSET Permit
          /\ memory \in SUBSET Memories /\ truncated \in BOOLEAN
          /\ authorized \in SUBSET Call
      BY DEF Init
    <3> QED BY <3>1, <3>2, <3>3, <3>4 DEF TypeOK
  <2>2. ArgumentsFit /\ PermitsAreGoverned
    BY DEF Init, ArgumentsFit, PermitsAreGoverned
  <2>3. AuthorizedHoldPermits /\ CopiesAreBacked /\ PermitsAuthorizeOnce
    BY DEF Init, AuthorizedHoldPermits, CopiesAreBacked, PermitsAuthorizeOnce
  <2>4. ExpiriesAreRetrievals /\ PersistsKeepToTheirTenant
    BY DEF Init, ExpiriesAreRetrievals, PersistsKeepToTheirTenant
  <2> QED BY <2>1, <2>2, <2>3, <2>4 DEF IInv
<1>2. IInv /\ [Next]_vars => IInv'
  <2> SUFFICES ASSUME IInv, [Next]_vars PROVE IInv'
    OBVIOUS
  <2>1. TypeOK' /\ ArgumentsFit'
    BY TypeStep DEF IInv
  <2>2. /\ PermitsAreGoverned' /\ AuthorizedHoldPermits' /\ PermitsAuthorizeOnce'
        /\ authorized \subseteq authorized' /\ \A k \in authorized : args'[k] = args[k]
    BY AuthorityStep DEF IInv
  <2>3. CopiesAreBacked'
    BY <2>2, CopiesStep DEF IInv
  <2>4. ExpiriesAreRetrievals' /\ PersistsKeepToTheirTenant'
    BY TenantStep DEF IInv
  <2> QED BY <2>1, <2>2, <2>3, <2>4 DEF IInv
<1> QED BY <1>1, <1>2, PTL DEF Spec

(* Every permit, record and copy of the memory file keeps its type         *)
(* (memoryGateway.ts and memoryStore.ts).                                  *)
THEOREM MemoryTypeOK == Spec => []TypeOK
<1>1. IInv => TypeOK
  BY DEF IInv
<1> QED BY <1>1, MemoryInvariant, PTL

(* The invariant in the header of memoryStore.ts: nothing is ACTIVE in the *)
(* memory file but what was governed, allowed and authorized as it is,     *)
(* however many processes write that file without a lock.                  *)
THEOREM OnlyGovernedMemoryIsActive == Spec => []ActiveWasGoverned
<1>1. IInv => ActiveWasGoverned
  BY DEF IInv, CopiesAreBacked, Backed, ActiveWasGoverned
<1> QED BY <1>1, MemoryInvariant, PTL

(* A persistence permit authorizes one call, whether that is persist() or  *)
(* an authorization for an external store.                                 *)
THEOREM MemoryPermitsAreSpentOnce == Spec => []PermitsAuthorizeOnce
<1>1. IInv => PermitsAuthorizeOnce
  BY DEF IInv
<1> QED BY <1>1, MemoryInvariant, PTL

(* What a persist writes differs from what it read in records of its own   *)
(* tenant: neither the supersede loop nor upsert() of memoryStore.ts       *)
(* reaches a record of another tenant, whatever a candidate names.         *)
THEOREM PersistsStayInTheirTenant == Spec => []PersistsKeepToTheirTenant
<1>1. IInv => PersistsKeepToTheirTenant
  BY DEF IInv
<1> QED BY <1>1, MemoryInvariant, PTL
=============================================================================
