--------------------------- MODULE GovernedMemory ---------------------------
(***************************************************************************)
(* Durable memory: the gateway that governs a candidate and binds its      *)
(* persistence permit to it (src/runtime/memoryGateway.ts, with the checks *)
(* of verifyCandidateMemory in src/runtimeGovernance.ts), and the          *)
(* reference store that keeps runtime-memory.json (memoryStore.ts).        *)
(*                                                                         *)
(* A call is one persist, one external authorization or one retrieval.     *)
(* Calls of different processes interleave between their accesses to the   *)
(* memory file; calls of one process do not, all of them being synchronous *)
(* (SingleProcess).  The file is read whole and written whole, by a        *)
(* truncation followed by a write.                                         *)
(*                                                                         *)
(* A candidate stands for its binding set, so that it is its own           *)
(* fingerprint; agent, task and session are part of it.  The claim on a    *)
(* permit is one step here: ClaimStore has its system calls, and the race  *)
(* of an expiry with a claim.                                              *)
(***************************************************************************)
EXTENDS Integers

CONSTANTS
  Call,          \* the invocations made of the gateway and of the store
  Ops,           \* the operations the invocations may be
  Permit,        \* bound of the model: the permit ids that can be minted
  MemoryId, Tenant,
  Candidate,     \* the candidates an agent may submit
  WritePolicy,   \* the profile's memory_write_policy
  PermitTTL,     \* permitTtlMs
  DefaultTTL,    \* the seven days of ALLOW_WITH_TTL
  MaxTime,       \* bound of the model: the clock stops here
  SingleProcess, \* TRUE: the calls come from one process, one after another
  None

\* What verifyCandidateMemory can hold against a candidate.
Flaws == {"incomplete", "sensitive", "narrow", "poisoned", "unsure", "unevidenced"}

ASSUME MemoryAssumption ==
  /\ Candidate \subseteq [memory_id : MemoryId, tenant : Tenant,
                          supersedes : SUBSET MemoryId, lesson : STRING,
                          flaws : SUBSET Flaws, ttl : Nat \cup {None}]
  /\ WritePolicy \in {"allow", "allow_with_ttl", "require_review",
                      "quarantine", "reject"}
  /\ PermitTTL \in Nat /\ DefaultTTL \in Nat /\ MaxTime \in Nat
  /\ Ops \subseteq {"persist", "authorize", "active"}
  /\ SingleProcess \in BOOLEAN
  /\ None \notin Nat

VARIABLES
  now,        \* Date.now()
  permits,    \* history: every persistence permit ever signed
  spent,      \* the permit ids that have a claim file
  memory,     \* the records of runtime-memory.json, {} when it does not parse
  truncated,  \* the file was opened for writing and is empty
  pc,         \* pc[k]: the next file access of k, or its outcome
  args,       \* args[k]: what k was called with
  snapshot,   \* snapshot[k]: the records k has read
  draft,      \* draft[k]: the records k is about to write
  authorized, \* history: the calls that were authorized by a permit
  returned    \* returned[k]: what a retrieval has returned

fileVars == <<memory, truncated>>
callVars == <<pc, args, snapshot, draft, returned>>
vars == <<now, permits, spent, fileVars, callVars, authorized>>

Codes == {"ALLOW", "ALLOW_WITH_TTL", "QUARANTINE", "REQUIRE_REVIEW", "REJECT"}
Statuses == {"ACTIVE", "QUARANTINED", "REVIEW_REQUIRED", "REJECTED",
             "EXPIRED", "SUPERSEDED"}
Permits == [id : Permit, candidate : Candidate, ttl : Int \cup {None}, expires : Int]
\* governed: the candidate whose decision the provenance record quotes.
Memories == [candidate : Candidate, governed : Candidate, status : Statuses,
             expires : Int \cup {None}]
Persists == [op : {"persist"}, candidate : Candidate, governed : Candidate,
             permit : Permits \cup {None}]
Externals == [op : {"authorize"}, candidate : Candidate, permit : Permits \cup {None}]
Retrievals == [op : {"active"}, tenant : Tenant, since : Int]

Phases == {"read", "govern", "expire", "truncate", "fill", "reread"}
Outcomes == {"done", "dead"}

TypeOK ==
  /\ now \in 0 .. MaxTime
  /\ permits \in SUBSET Permits
  /\ spent \in SUBSET Permit
  /\ memory \in SUBSET Memories
  /\ truncated \in BOOLEAN
  /\ pc \in [Call -> Phases \cup Outcomes \cup {"new"}]
  /\ args \in [Call -> Persists \cup Externals \cup Retrievals \cup {None}]
  /\ snapshot \in [Call -> SUBSET Memories]
  /\ draft \in [Call -> SUBSET Memories]
  /\ authorized \in SUBSET Call
  /\ returned \in [Call -> SUBSET Memories]

Init ==
  /\ now = 0
  /\ permits = {} /\ spent = {}
  /\ memory = {} /\ truncated = FALSE
  /\ pc = [k \in Call |-> "new"]
  /\ args = [k \in Call |-> None]
  /\ snapshot = [k \in Call |-> {}]
  /\ draft = [k \in Call |-> {}]
  /\ authorized = {}
  /\ returned = [k \in Call |-> {}]
-----------------------------------------------------------------------------
(* Governance of a candidate.                                              *)

\* The strictest finding decides; the two weak ones ask for a review.
OwnVerdict(c) ==
  CASE "incomplete" \in c.flaws -> "REJECT"
    [] "incomplete" \notin c.flaws /\ c.flaws \cap {"narrow", "poisoned", "unsure"} # {}
       -> "QUARANTINE"
    [] c.flaws # {} /\ c.flaws \subseteq {"sensitive", "unevidenced"} -> "REQUIRE_REVIEW"
    [] c.flaws = {} -> "ALLOW"

\* The profile's policy rejects everything, or qualifies an ALLOW.
Verdict(c) ==
  CASE WritePolicy = "reject" -> "REJECT"
    [] WritePolicy # "reject" /\ OwnVerdict(c) # "ALLOW" -> OwnVerdict(c)
    [] WritePolicy = "require_review" /\ OwnVerdict(c) = "ALLOW" -> "REQUIRE_REVIEW"
    [] WritePolicy = "quarantine" /\ OwnVerdict(c) = "ALLOW" -> "QUARANTINE"
    [] WritePolicy = "allow_with_ttl" /\ OwnVerdict(c) = "ALLOW" -> "ALLOW_WITH_TTL"
    [] WritePolicy = "allow" /\ OwnVerdict(c) = "ALLOW" -> "ALLOW"

\* decision.allowed, and ACTIVATING_DECISIONS: no check returns MERGE.
Activating(code) == code \in {"ALLOW", "ALLOW_WITH_TTL"}

\* propose(): only an activating decision carries a permit.  Any other leaves
\* no state behind, and the same candidate gets the same decision again.
Propose(c, p) ==
  /\ Activating(Verdict(c))
  /\ \A q \in permits : q.id # p
  /\ permits' = permits \cup
       {[id |-> p, candidate |-> c, expires |-> now + PermitTTL,
         ttl |-> IF Verdict(c) = "ALLOW_WITH_TTL" /\ c.ttl = None
                 THEN now + DefaultTTL ELSE c.ttl]}
  /\ UNCHANGED <<now, spent, fileVars, callVars, authorized>>

\* Mutant: the decision is not bound to the bytes it governed.
BoundByName(permit, candidate) ==
  /\ permit \in permits
  /\ permit.expires >= now
  /\ candidate.memory_id = permit.candidate.memory_id
  /\ candidate.tenant = permit.candidate.tenant
  /\ permit.id \notin spent

\* Mutant: nothing looks for the claim.
BoundNotClaimed(permit, candidate) ==
  /\ permit \in permits
  /\ permit.expires >= now
  /\ candidate = permit.candidate

\* authorizePersistence: a permit signed here, alive, bound to the candidate
\* being persisted right now, and claimed by nobody.
Authorizes(permit, candidate) ==
  /\ permit \in permits
  /\ permit.expires >= now
  /\ candidate = permit.candidate
  /\ permit.id \notin spent
-----------------------------------------------------------------------------
(* The records of the store.                                               *)

SameKey(x, y) ==
  /\ x.candidate.memory_id = y.candidate.memory_id
  /\ x.candidate.tenant = y.candidate.tenant

\* upsert(): a record takes the place of the one with its id and tenant.
Upsert(records, r) == {x \in records : ~SameKey(x, r)} \cup {r}

\* Mutant: the code of the decision is taken for a status.
CodeAsStatus(code) == code

InactiveStatusFor(code) ==
  CASE code = "QUARANTINE" -> "QUARANTINED"
    [] code = "REQUIRE_REVIEW" -> "REVIEW_REQUIRED"
    [] code = "REJECT" -> "REJECTED"

\* Mutant: memory ids are taken for unique across tenants.
SupersedeAnyTenant(records, c) ==
  {IF x.candidate.memory_id \in c.supersedes
   THEN [x EXCEPT !.status = "SUPERSEDED"] ELSE x : x \in records}

\* What the candidate says it replaces, within its tenant.
Supersede(records, c) ==
  {IF x.candidate.memory_id \in c.supersedes /\ x.candidate.tenant = c.tenant
   THEN [x EXCEPT !.status = "SUPERSEDED"] ELSE x : x \in records}

\* An unset TTL never passes.
Overdue(x) == x.status = "ACTIVE" /\ x.expires # None /\ x.expires <= now

Expire(records) ==
  {IF Overdue(x) THEN [x EXCEPT !.status = "EXPIRED"] ELSE x : x \in records}
-----------------------------------------------------------------------------
(* The calls.                                                              *)

InProgress(k) == pc[k] \in Phases

\* A call that is over has no local variables left.
Forget(k) ==
  /\ snapshot' = [snapshot EXCEPT ![k] = {}]
  /\ draft' = [draft EXCEPT ![k] = {}]
Goto(k, phase) == pc' = [pc EXCEPT ![k] = phase]

Begin(k, phase, a) ==
  /\ pc[k] = "new" /\ a.op \in Ops
  /\ SingleProcess => \A l \in Call : ~InProgress(l)
  /\ Goto(k, phase)
  /\ args' = [args EXCEPT ![k] = a]
  /\ UNCHANGED <<now, permits, spent, fileVars, snapshot, draft, authorized, returned>>

\* A decision a caller can hold is one that propose() returns.
Decided(c) == ~Activating(Verdict(c)) \/ \E q \in permits : q.candidate = c

\* persistMemory: the candidate, the decision and the permit are arguments of
\* their own, and a retry may repeat any of them.
BeginPersist(k) ==
  \E c, g \in Candidate, permit \in permits \cup {None} :
    /\ Decided(g)
    /\ Begin(k, "read", [op |-> "persist", candidate |-> c, governed |-> g,
                         permit |-> permit])

BeginAuthorize(k) ==
  \E c \in Candidate, permit \in permits \cup {None} :
    Begin(k, "govern", [op |-> "authorize", candidate |-> c, permit |-> permit])

BeginActive(k) ==
  \E t \in Tenant :
    Begin(k, "expire", [op |-> "active", tenant |-> t, since |-> now])

ReadRecords(k) ==
  /\ pc[k] = "read"
  /\ snapshot' = [snapshot EXCEPT ![k] = memory]
  /\ Goto(k, "govern")
  /\ UNCHANGED <<now, permits, spent, fileVars, args, draft, authorized, returned>>

\* The record persist() builds, from the decision it was handed.
RecordOf(a, status, ttl) ==
  [candidate |-> a.candidate, governed |-> a.governed,
   status |-> status, expires |-> ttl]

Persisting(k) == pc[k] = "govern" /\ args[k].op = "persist"

Drafts(k, records) ==
  /\ draft' = [draft EXCEPT ![k] = records]
  /\ Goto(k, "truncate")
  /\ UNCHANGED <<now, permits, fileVars, args, snapshot, returned>>

\* A decision that does not allow is recorded and never reaches the gateway.
PersistInactive(k) ==
  LET a == args[k]
      status == InactiveStatusFor(Verdict(a.governed))
  IN  /\ Persisting(k)
      /\ ~Activating(Verdict(a.governed))
      /\ Drafts(k, Upsert(snapshot[k], RecordOf(a, status, None)))
      /\ UNCHANGED <<spent, authorized>>

PersistActive(k) ==
  LET a == args[k]
      superseded == Supersede(snapshot[k], a.candidate)
  IN  /\ Persisting(k)
      /\ Activating(Verdict(a.governed))
      /\ Authorizes(a.permit, a.candidate)
      /\ spent' = spent \cup {a.permit.id}
      /\ authorized' = authorized \cup {k}
      /\ Drafts(k, Upsert(superseded, RecordOf(a, "ACTIVE", a.permit.ttl)))

\* Refused by the gateway: the record is quarantined, in the place of whatever
\* has its key, an ACTIVE record included.
PersistQuarantined(k) ==
  LET a == args[k]
  IN  /\ Persisting(k)
      /\ Activating(Verdict(a.governed))
      /\ ~Authorizes(a.permit, a.candidate)
      /\ Drafts(k, Upsert(snapshot[k], RecordOf(a, "QUARANTINED", None)))
      /\ UNCHANGED <<spent, authorized>>

\* The claim throws, before or after it created its file: state_corrupted.
PersistIoError(k) ==
  LET a == args[k]
  IN  /\ Persisting(k)
      /\ Activating(Verdict(a.governed))
      /\ Authorizes(a.permit, a.candidate)
      /\ spent' \in {spent, spent \cup {a.permit.id}}
      /\ Drafts(k, Upsert(snapshot[k], RecordOf(a, "QUARANTINED", None)))
      /\ UNCHANGED authorized

\* authorizeMemoryPersistence: the claim without the store.
Authorizing(k) == pc[k] = "govern" /\ args[k].op = "authorize"

Answers(k) ==
  /\ Goto(k, "done")
  /\ UNCHANGED <<now, permits, fileVars, args, snapshot, draft, returned>>

AuthorizeExternal(k) ==
  LET a == args[k]
  IN  /\ Authorizing(k)
      /\ Authorizes(a.permit, a.candidate)
      /\ spent' = spent \cup {a.permit.id}
      /\ authorized' = authorized \cup {k}
      /\ Answers(k)

\* Refused, or the claim throws.
AuthorizeNothing(k) ==
  LET a == args[k]
  IN  /\ Authorizing(k)
      /\ IF Authorizes(a.permit, a.candidate)
         THEN spent' \in {spent, spent \cup {a.permit.id}}
         ELSE UNCHANGED spent
      /\ Answers(k)
      /\ UNCHANGED authorized

\* active() begins with expire(), which writes only when something changed.
ExpireRecords(k) ==
  /\ pc[k] = "expire"
  /\ draft' = [draft EXCEPT ![k] = Expire(memory)]
  /\ Goto(k, IF \E x \in memory : Overdue(x) THEN "truncate" ELSE "reread")
  /\ UNCHANGED <<now, permits, spent, fileVars, args, snapshot, authorized, returned>>

TruncateFile(k) ==
  /\ pc[k] = "truncate"
  /\ memory' = {} /\ truncated' = TRUE
  /\ Goto(k, "fill")
  /\ UNCHANGED <<now, permits, spent, args, snapshot, draft, authorized, returned>>

\* Two writers that overlap may leave a file that does not parse.
FillFile(k) ==
  /\ pc[k] = "fill"
  /\ \/ memory' = draft[k]
     \/ ~truncated /\ memory' = {}
  /\ truncated' = FALSE
  /\ Goto(k, IF args[k].op = "active" THEN "reread" ELSE "done")
  /\ Forget(k)
  /\ UNCHANGED <<now, permits, spent, args, authorized, returned>>

\* The file is read again, and filtered by status and tenant alone.
ReturnActive(k) ==
  /\ pc[k] = "reread"
  /\ returned' = [returned EXCEPT ![k] =
       {x \in memory : x.status = "ACTIVE" /\ x.candidate.tenant = args[k].tenant}]
  /\ Goto(k, "done") /\ Forget(k)
  /\ UNCHANGED <<now, permits, spent, fileVars, args, authorized>>

\* The process dies, or the call throws, between two file accesses.
Crash(k) ==
  /\ InProgress(k)
  /\ Goto(k, "dead") /\ Forget(k)
  /\ UNCHANGED <<now, permits, spent, fileVars, args, authorized, returned>>

\* The write stops halfway: what it leaves does not parse.
FillHalf(k) ==
  /\ pc[k] = "fill"
  /\ memory' = {} /\ truncated' = FALSE
  /\ Goto(k, "dead") /\ Forget(k)
  /\ UNCHANGED <<now, permits, spent, args, authorized, returned>>

Tick ==
  /\ now < MaxTime
  /\ now' = now + 1
  /\ UNCHANGED <<permits, spent, fileVars, callVars, authorized>>

PersistStep(k) ==
  \/ BeginPersist(k) \/ ReadRecords(k)
  \/ PersistInactive(k) \/ PersistActive(k)
  \/ PersistQuarantined(k) \/ PersistIoError(k)

RetrievalStep(k) == BeginActive(k) \/ ExpireRecords(k) \/ ReturnActive(k)

FileStep(k) == TruncateFile(k) \/ FillFile(k) \/ FillHalf(k) \/ Crash(k)

\* The bounded set of calls is used up.
Quiescent ==
  /\ now = MaxTime
  /\ \A k \in Call : pc[k] \in Outcomes
  /\ UNCHANGED vars

Next ==
  \/ \E c \in Candidate, p \in Permit : Propose(c, p)
  \/ \E k \in Call : \/ PersistStep(k) \/ RetrievalStep(k) \/ FileStep(k)
                     \/ BeginAuthorize(k) \/ AuthorizeExternal(k) \/ AuthorizeNothing(k)
  \/ Tick
  \/ Quiescent

Spec == Init /\ [][Next]_vars
-----------------------------------------------------------------------------
(* Properties.                                                             *)

(* Nothing is ACTIVE in the file unless some persist was authorized by a   *)
(* permit for exactly that candidate, and the governance of that candidate *)
(* allowed it: whatever the other processes wrote, lost or garbled, and    *)
(* whatever decision the caller passed along (header of memoryStore.ts).   *)
ActiveWasGoverned ==
  \A x \in memory : x.status = "ACTIVE" =>
    /\ x.candidate.flaws = {}
    /\ \E k \in authorized : /\ args[k].op = "persist"
                             /\ args[k].candidate = x.candidate
                             /\ args[k].permit.candidate = x.candidate

(* A permit authorizes one call: an adapter cannot authorize once for its  *)
(* own store and then spend the permit through persist, nor retry either   *)
(* (comment of authorizeMemoryPersistence in runtimeCore.ts).              *)
PermitsAuthorizeOnce ==
  \A k, l \in authorized : args[k].permit.id = args[l].permit.id => k = l

(* What a persist is about to write differs from what it read only in      *)
(* records of its candidate's tenant: no supersession and no upsert        *)
(* reaches into another tenant (supersede loop and upsert of persist()).   *)
PersistsKeepToTheirTenant ==
  \A k \in Call : pc[k] \in {"truncate", "fill"} /\ args[k].op = "persist" =>
    \A x \in (snapshot[k] \ draft[k]) \cup (draft[k] \ snapshot[k]) :
      x.candidate.tenant = args[k].candidate.tenant

(* A retrieval returns records of its tenant that were ACTIVE and not yet  *)
(* overdue when it began: TTL expiry is applied on read, and the read of   *)
(* active() that answers comes after it.                                   *)
RetrievalsAreFresh ==
  \A k \in Call : \A x \in returned[k] :
    /\ x.candidate.tenant = args[k].tenant
    /\ x.expires # None => x.expires > args[k].since

(* The provenance of an ACTIVE record quotes the decision that governed    *)
(* its candidate, so that it answers why the agent remembers this.         *)
ProvenanceNamesItsCandidate ==
  \A x \in memory : x.status = "ACTIVE" => x.governed = x.candidate
=============================================================================
