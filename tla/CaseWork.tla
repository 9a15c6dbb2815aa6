------------------------------- MODULE CaseWork -------------------------------
(***************************************************************************)
(* A case file, the agent session that works on it and its handoff to the  *)
(* next owner.  A case is a value: every operation clones it, changes the  *)
(* clone and returns it (caseFile.ts), or throws and leaves the caller with *)
(* the case he had.  A session (agentAdapter.ts) turns each event an agent *)
(* emits into an operation on its case, after the event is in the stream.  *)
(* A manifest (handoffManifest.ts) sums the case up for whoever takes it   *)
(* over; handoff governance judges the manifest, and hydration builds the  *)
(* successor's case from it and from nothing else.                         *)
(*                                                                         *)
(* Texts, times, authors and roles are left out.  A context or a decision  *)
(* is counted, a risk is its severity and status, an approval its status,  *)
(* an attachment the number it was given and the one it had in the case it *)
(* came from (`originalAttachmentId`, 0 when it was made here).            *)
(***************************************************************************)
EXTENDS Integers, FiniteSets, SequencesExt

CONSTANTS Owner,      \* who a case is created for
          Person,     \* who may join it
          NameOf,     \* the display name of each person of a directory
          Contract,   \* what a successor may ask for: [allowed, blocked], sets of words
          Inherited,  \* the contract of the first owner
          Option,     \* how a receiver hydrates: [keepId, record, roleFits, receiver]
          Includes(_, _), \* whether the first word contains the second
          MaxWork, MaxDeeds, MaxHops  \* bounds: events and deeds of people, deeds, handovers

\* A text contains itself.
ASSUME CaseAssumption == \A w \in Inherited.allowed \cup Inherited.blocked : Includes(w, w)

VARIABLES case,       \* the case in hand
          base,       \* the case its session was opened with
          session,    \* [events, reports, completed, summary]
          stream,     \* the kinds of the events in the stream file
          manifest,   \* the manifest that waits for its receiver, <<>> or <<m>>
          contract,   \* the contract the owner works under
          deeds, hops
caseVars == <<case, base, session, stream, manifest, contract, deeds, hops>>

Nobody == ""
-----------------------------------------------------------------------------
(* The operations of a case.                                               *)
NewCase(owner, people, directory, status) ==
  [owner |-> owner, people |-> people \cup {owner}, directory |-> directory,
   status |-> status, closed |-> FALSE, contexts |-> 0, decisions |-> 0,
   risks |-> <<>>, approvals |-> <<>>, handoffs |-> <<>>, attachments |-> {}, minted |-> 0]

Listed(c) == c.directory \cup c.people \cup {c.owner}
Known(c, p) == p \in Listed(c)
Display(c, p) == IF p \in c.directory THEN NameOf[p] ELSE p

AddContext(c) == [c EXCEPT !.contexts = @ + 1]
RecordDecision(c) == [c EXCEPT !.decisions = @ + 1]
RecordRisk(c, severity, status) ==
  [c EXCEPT !.risks = Append(@, [severity |-> severity, status |-> status])]
Attach(c, origin) ==
  [c EXCEPT !.attachments = @ \cup {[id |-> c.minted + 1, origin |-> origin]}, !.minted = @ + 1]
RemoveAttachment(c, id) == [c EXCEPT !.attachments = {a \in @ : a.id # id}]
AddParticipant(c, p) == [c EXCEPT !.directory = @ \cup {p}, !.people = @ \cup {p}]
RemoveParticipant(c, p) == [c EXCEPT !.directory = @ \ {p}, !.people = @ \ {p}]
SetStatus(c, status) ==
  [c EXCEPT !.status = status, !.closed = status \in {"completed", "handed_off"}]
RequestApproval(c) ==
  [c EXCEPT !.approvals = Append(@, "requested"), !.status = "awaiting_approval"]

\* Mutant: whether an approval is pending is asked of the case before the change.
ResolveAgainstOld(c, i, decision) ==
  LET status == IF decision = "rejected" THEN "blocked"
                ELSE IF "requested" \in ToSet(c.approvals) THEN "awaiting_approval" ELSE "open"
  IN [c EXCEPT !.approvals[i] = decision, !.status = status,
               !.closed = @ /\ status = "awaiting_approval"]
\* An approval that was resolved before may be resolved again.  A case that
\* goes on waiting keeps the closing time it may have had.
ResolveApproval(c, i, decision) ==
  LET approvals == [c.approvals EXCEPT ![i] = decision]
      status == IF decision = "rejected" THEN "blocked"
                ELSE IF "requested" \in ToSet(approvals) THEN "awaiting_approval" ELSE "open"
  IN [c EXCEPT !.approvals = approvals, !.status = status,
               !.closed = @ /\ status = "awaiting_approval"]

RecordHandoff(c, from, to, attachments) ==
  [c EXCEPT !.handoffs = Append(@, [from |-> from, to |-> to, attachments |-> attachments]),
            !.owner = to, !.people = @ \cup {to}, !.status = "handed_off", !.closed = TRUE]
-----------------------------------------------------------------------------
(* An event of an agent and what it makes of the case.                     *)
Event(kind) == [kind |-> kind, fits |-> TRUE, approval |-> 0, decision |-> "",
                severity |-> "", to |-> Nobody]
Silent == {"model.usage"}  \* and token.cost, steering.applied, test.completed
Events ==
  {Event(k) : k \in Silent \cup {"task.started", "context.loaded", "decision.made",
     "approval.requested", "artifact.changed", "task.completed", "report.generated"}}
  \* an agent without a name; an artifact of no known type
  \cup {[Event(k) EXCEPT !.fits = FALSE] : k \in {"decision.made", "artifact.changed"}}
  \cup {[Event("risk.detected") EXCEPT !.severity = s] : s \in {"medium", "high"}}
  \cup {[Event("approval.resolved") EXCEPT !.approval = i, !.decision = d] :
          i \in 1 .. 2, d \in {"approved", "rejected"}}
  \cup {[Event("handoff.created") EXCEPT !.to = p] : p \in Person \cup {Nobody}}
Kinds == {e.kind : e \in Events}

\* Where the operation throws, the caller keeps the case he had.
Refuses(c, e) ==
  ~e.fits \/ (e.kind = "approval.resolved" /\ e.approval \notin DOMAIN c.approvals)

Applied(c, e) ==
  CASE e.kind = "task.started" ->
         IF c.status = "open" THEN AddContext(c) ELSE SetStatus(AddContext(c), "open")
    [] e.kind = "context.loaded" -> AddContext(c)
    [] e.kind = "decision.made" -> RecordDecision(c)
    [] e.kind = "risk.detected" -> RecordRisk(c, e.severity, "open")
    [] e.kind = "approval.requested" -> RequestApproval(c)
    [] e.kind = "approval.resolved" -> ResolveApproval(c, e.approval, e.decision)
    [] e.kind \in {"artifact.changed", "report.generated"} -> Attach(c, 0)
    [] e.kind = "handoff.created" ->
         RecordHandoff(c, c.owner, IF e.to = Nobody THEN c.owner ELSE e.to, {})
    [] e.kind = "task.completed" -> SetStatus(RecordDecision(c), "completed")
    [] OTHER -> c

Tally(events) == [k \in Kinds |-> Cardinality({i \in DOMAIN events : events[i].kind = k})]
NewSession == [events |-> <<>>, reports |-> 0, completed |-> FALSE, summary |-> Tally(<<>>)]
Logged(s, e) ==
  LET events == Append(s.events, [kind |-> e.kind, at |-> Len(stream) + 1])
  IN [s EXCEPT !.events = events, !.summary = Tally(events),
               !.reports = @ + (IF e.kind = "report.generated" THEN 1 ELSE 0)]

\* A bound of the model: what was handed over is worked on less.
MayWork == Len(stream) + deeds + hops < MaxWork

\* Mutant: the session logs the event first and applies it afterwards.
EmitLogsFirst(e) ==
  /\ ~session.completed /\ MayWork
  /\ stream' = Append(stream, e.kind) /\ session' = Logged(session, e)
  /\ case' = IF Refuses(case, e) THEN case ELSE Applied(case, e)
  /\ UNCHANGED <<base, manifest, contract, deeds, hops>>
\* emit(): the stream keeps the event even where applying it throws.  An event
\* for another case throws before that and changes nothing.
Emit(e) ==
  /\ ~session.completed /\ MayWork
  /\ stream' = Append(stream, e.kind)
  /\ \/ ~Refuses(case, e) /\ case' = Applied(case, e) /\ session' = Logged(session, e)
     \/ Refuses(case, e) /\ UNCHANGED <<case, session>>
  /\ UNCHANGED <<base, manifest, contract, deeds, hops>>

Complete ==
  /\ ~session.completed /\ session' = [session EXCEPT !.completed = TRUE]
  /\ UNCHANGED <<case, base, stream, manifest, contract, deeds, hops>>
-----------------------------------------------------------------------------
(* What people do to the case without an event.  Nobody sets it to         *)
(* awaiting_approval by hand.                                              *)
Deed(c) ==
  /\ deeds < MaxDeeds /\ MayWork
  /\ deeds' = deeds + 1 /\ case' = c
  /\ UNCHANGED <<base, session, stream, manifest, contract, hops>>
Deeds ==
  \/ \E i \in DOMAIN case.approvals, d \in {"approved", "rejected"} :
       Deed(ResolveApproval(case, i, d))
  \/ Deed(RecordRisk(case, "high", "accepted"))
  \/ \E p \in Person : ~Known(case, p) /\ Deed(AddParticipant(case, p))
  \/ \E p \in Listed(case) : Deed(RemoveParticipant(case, p))
  \/ \E a \in case.attachments : Deed(RemoveAttachment(case, a.id))
  \/ \E s \in {"open", "blocked", "completed"} : Deed(SetStatus(case, s))
  \/ \E p \in Person, named \in {{}, {a.id : a \in case.attachments}} :
       Deed(RecordHandoff(case, case.owner, p, named))
-----------------------------------------------------------------------------
(* The manifest and what becomes of it.                                    *)
OpenRisks(c) == {i \in DOMAIN c.risks : c.risks[i].status = "open"}
Pending(c) == {i \in DOMAIN c.approvals : c.approvals[i] = "requested"}
\* What the latest handoff names, as far as it is still attached; everything
\* where it names nothing.
Required(c) ==
  LET named == IF c.handoffs = <<>> THEN {} ELSE Last(c.handoffs).attachments
  IN {a \in c.attachments : named # {} => a.id \in named}

Manifest(c) ==
  LET latest == IF c.handoffs = <<>> THEN [from |-> c.owner, to |-> c.owner] ELSE Last(c.handoffs)
  IN [owner |-> c.owner, people |-> c.people, participants |-> Listed(c), status |-> c.status,
      currentOwner |-> IF c.handoffs = <<>> THEN c.owner ELSE Display(c, latest.from),
      nextOwner |-> IF c.handoffs = <<>> THEN c.owner ELSE Display(c, latest.to),
      required |-> Required(c), openRisks |-> {c.risks[i] : i \in OpenRisks(c)}, pending |-> Pending(c),
      recentDecisions |-> IF c.decisions < 3 THEN c.decisions ELSE 3]

MakeManifest ==
  /\ manifest = <<>> /\ hops < MaxHops /\ manifest' = <<Manifest(case)>>
  /\ UNCHANGED <<case, base, session, stream, contract, deeds, hops>>

\* Words are compared as texts, either of which may contain the other; no word
\* allowed means that every word is.
Alike(v, w) == Includes(v, w) \/ Includes(w, v)
Within(parent, child) == parent # {} => \A w \in child : \E v \in parent : Alike(w, v)
Preserves(parent, child) == \A v \in parent : \E w \in child : Alike(v, w)
HandoffVerdict(m, inherited, requested) ==
  [allowed |-> /\ m.pending = {}
               /\ \A r \in m.openRisks : r.severity \notin {"high", "critical"}
               /\ Within(inherited.allowed, requested.allowed)
               /\ Preserves(inherited.blocked, requested.blocked),
   effectiveContract |-> inherited]

\* Who is in the new case already is not added again, so no name, type or role
\* comes along from the directory; the error is swallowed and the rest goes on.
Joined(c, people) ==
  [c EXCEPT !.directory = @ \cup (people \ Listed(c)), !.people = @ \cup (people \ Listed(c))]
\* An attachment keeps the number it had in the case it was first made in.  The
\* attachments, listed in the order of their ids, are attached again one by one.
FirstId(a) == IF a.origin = 0 THEN a.id ELSE a.origin
Reattached(c, attachments) ==
  [c EXCEPT !.attachments = @ \cup {[id |-> c.minted + Cardinality({b \in attachments : b.id <= a.id}),
                                     origin |-> FirstId(a)] : a \in attachments},
            !.minted = @ + Cardinality(attachments)]
\* Mutant: the first participant that is there already ends the hydration.
HydratedUntilError(m, o) ==
  LET new == NewCase(m.owner, m.people, {}, "open")
  IN IF m.participants \cap Listed(new) # {} THEN new ELSE Reattached(Joined(new, m.participants), m.required)
\* A receiver whose role does not fit is not added, and then the handoff that
\* names him is not recorded either.
Hydrated(m, o) ==
  LET new == NewCase(m.owner, m.people, {}, "open")
      kept == IF o.keepId THEN Attach(new, 0) ELSE new
      joined == Joined(kept, m.participants)
      staffed == IF o.receiver = Nobody \/ ~o.roleFits THEN joined ELSE Joined(joined, {o.receiver})
      full == Reattached(staffed, m.required)
      known == o.receiver = Nobody \/ Known(full, o.receiver)
  IN IF o.record /\ known
     THEN AddContext(RecordHandoff(full, m.currentOwner, m.nextOwner, {a.id : a \in full.attachments}))
     ELSE full
\* A receiver that heeds the verdict: it hydrates what governance allowed and
\* opens a session of its own.
Receive(o, requested) ==
  \E m \in ToSet(manifest) :
    LET verdict == HandoffVerdict(m, contract, requested)
    IN /\ verdict.allowed
       /\ case' = Hydrated(m, o) /\ base' = case' /\ session' = NewSession
       /\ contract' = verdict.effectiveContract
       /\ manifest' = <<>> /\ hops' = hops + 1
       /\ UNCHANGED <<stream, deeds>>
-----------------------------------------------------------------------------
(* The reports: what each one lists as passed and as failed.               *)
Has(c, item) ==
  CASE item = "participants" -> Listed(c) # {}
    [] item = "approvals" -> c.approvals # <<>>
    [] item = "handoffs" -> c.handoffs # <<>>
    [] item = "attachments" -> c.attachments # {}
    [] item = "contexts" -> c.contexts > 0
    [] item = "decisions" -> c.decisions > 0
    [] item = "risksClosed" -> OpenRisks(c) = {}
    [] item = "approved" -> c.approvals # <<>> /\ Last(c.approvals) = "approved"
Asks(query) ==
  CASE query \in {"safety-summary", "governance-audit"} -> {"participants", "approvals", "handoffs"}
    [] query = "handoff-summary" -> {"handoffs"}
    [] query = "release-readiness" -> {"risksClosed", "approved", "attachments", "handoffs"}
    [] query = "evidence-summary" -> {"contexts", "decisions", "attachments", "approvals", "handoffs"}
    [] query = "case-summary" -> {}
\* Mutant: only a mitigated risk counts as closed.
OnlyMitigated(c, query) ==
  LET passed == {i \in Asks(query) : IF i = "risksClosed"
                   THEN \A r \in ToSet(c.risks) : r.status = "mitigated" ELSE Has(c, i)}
  IN [passed |-> passed, failed |-> Asks(query) \ passed]
Answer(c, query) ==
  LET passed == {i \in Asks(query) : Has(c, i)}
  IN [passed |-> passed, failed |-> IF query = "evidence-summary" THEN {} ELSE Asks(query) \ passed]
ReleaseReady(c) == {"risksClosed", "approved"} \subseteq Answer(c, "release-readiness").passed
-----------------------------------------------------------------------------
\* A case is created open or blocked: created completed it would have no closing time.
CaseInit ==
  /\ case \in {NewCase(Owner, {}, directory, status) :
                 directory \in {{}, {CHOOSE p \in Person : p # Owner}}, status \in {"open", "blocked"}}
  /\ base = case /\ session = NewSession /\ stream = <<>> /\ manifest = <<>>
  /\ contract = Inherited /\ deeds = 0 /\ hops = 0
CaseNext ==
  \/ \E e \in Events : Emit(e)
  \/ Complete \/ Deeds \/ MakeManifest
  \/ \E o \in Option, requested \in Contract : Receive(o, requested)
CaseSpec == CaseInit /\ [][CaseNext]_caseVars
-----------------------------------------------------------------------------
\* A session and its case tell one story: the events the session logged are in
\* the stream, in the order they were emitted; the case has grown by exactly what
\* they say (a refused event, which is in the stream too, left no trace in either);
\* and the summary counts them.
CaseTellsTheSession ==
  LET n == session.summary
      grown(f) == case[f] - base[f]
      longer(f) == Len(case[f]) - Len(base[f])
  IN /\ \A i \in DOMAIN session.events :
          /\ stream[session.events[i].at] = session.events[i].kind
          /\ i > 1 => session.events[i - 1].at < session.events[i].at
     /\ n = Tally(session.events) /\ session.reports = n["report.generated"]
     /\ grown("contexts") = n["task.started"] + n["context.loaded"]
     /\ grown("decisions") = n["decision.made"] + n["task.completed"]
     /\ grown("minted") = n["artifact.changed"] + n["report.generated"]
     /\ longer("approvals") = n["approval.requested"]
     /\ Cardinality(OpenRisks(case)) - Cardinality(OpenRisks(base)) = n["risk.detected"]
     /\ longer("handoffs") >= n["handoff.created"]

\* The status is what the rest of the case says: a case that awaits an approval
\* has one that is pending, one that is completed or handed over is closed, and one
\* that is open or blocked is not.  (The converse fails: a task may start, complete
\* or be handed over while an approval is pending.)
StatusTellsTheTruth ==
  /\ case.status = "awaiting_approval" => Pending(case) # {}
  /\ case.status \in {"completed", "handed_off"} => case.closed
  /\ case.status \in {"open", "blocked"} => ~case.closed

\* A case that was taken over holds everybody and every required attachment of its
\* manifest, each traced to the case it was first made in; and what it leaves
\* behind held no pending approval and no severe risk.  The contract is still the
\* first owner's, whatever each receiver asked for.
SuccessorAnswersToManifest ==
  [][hops' > hops =>
       LET m == manifest[1]
       IN /\ m.participants \subseteq Listed(case')
          /\ {a.origin : a \in case'.attachments} \ {0} = {FirstId(a) : a \in m.required}
          /\ m.pending = {} /\ \A r \in m.openRisks : r.severity = "medium"
          /\ contract' = Inherited]_caseVars

\* The reports, each coded on its own, agree with one another and with the
\* manifest of the same case about risks, approvals and handoffs.
QueriesAgree ==
  \A m \in {Manifest(case)},
     passed \in {[q \in {"safety-summary", "governance-audit", "release-readiness", "handoff-summary"} |->
                  Answer(case, q).passed]} :
     /\ "risksClosed" \in passed["release-readiness"] <=> m.openRisks = {}
     /\ "approved" \in passed["release-readiness"] => Len(case.approvals) \notin m.pending
     /\ ReleaseReady(case) => \/ m.pending # {}
                              \/ HandoffVerdict(m, Inherited, Inherited).allowed
     /\ \A q \in DOMAIN passed : "handoffs" \in passed[q] <=> "handoffs" \in passed["handoff-summary"]
=============================================================================
