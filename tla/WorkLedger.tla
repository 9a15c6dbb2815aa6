----------------------------- MODULE WorkLedger -----------------------------
(***************************************************************************)
(* The append-only ledger of a SafeLoop directory and what is derived from *)
(* it: the runtime's recorder (src/runtime/recorder.ts) appends events to  *)
(* events.jsonl (eventStream.ts, localStorage.ts), the seal                *)
(* (ledgerIntegrity.ts) fixes what was there, the dashboard folds the      *)
(* control events (monitor/runtimeControls.ts), and the session timeline   *)
(* (runtime/sessionWorkGraph.ts) is read page by page while it grows.      *)
(*                                                                         *)
(* A handler of the runtime changes its state first and then appends its   *)
(* events one after the other without yielding; readers are other          *)
(* processes and see every prefix.  An append may be cut by a crash, which *)
(* leaves a fragment without its newline, or throw, which ends the handler.*)
(* Of the handlers, those that record sessions, controls and memory are    *)
(* here; the others record their events in the same way.                   *)
(***************************************************************************)
EXTENDS Integers, Sequences, FiniteSets, SequencesExt

CONSTANTS
  WSession, Control, Memory,
  Declared,      \* Declared[c]: the control's declaration in the profile
  PageLimit,     \* the limit of a timeline page
  MaxEvents,     \* bound of the model: the work event ids that can be minted
  MaxLines,      \* bound of the model: control events stop at this length
  MaxCuts      \* bound of the model: crashes in an append, throws and edits

Intended == {"DISABLED", "UNREACHABLE", "UNMANAGED", "NOT_APPLICABLE"}
ControlStates == Intended \cup {"PENDING_VERIFICATION", "VERIFICATION_FAILED"}
NoId == 0
Ids == 1 .. MaxEvents

ASSUME LedgerAssumption ==
  /\ Declared \in [Control -> [intended : Intended, requires : BOOLEAN,
                               consequential : BOOLEAN]]
  /\ IsFiniteSet(Control)
  /\ PageLimit \in Nat \ {0}
  /\ MaxEvents \in Nat /\ MaxLines \in Nat /\ MaxCuts \in Nat

VARIABLES
  lines,         \* events.jsonl: events, and Junk for what JSON.parse refuses
  torn,          \* the last line has no newline
  seal,          \* ledger.seal.json: the hashed events (sha256 is injective)
  index,         \* the recorder's domainIndex, in memory
  todo,          \* the events the running handler has still to append
  live,          \* the sessions of the runtime: "new", "active", "finished"
  verification,  \* controlVerifications, in memory
  blocked,       \* blocked_reason is set
  reader,        \* a client that pages through one session's timeline
  minted,        \* history: the ids of work events
  acked,         \* history: the events whose append returned
  crashes,       \* history: appends cut by a crash
  cuts         \* history: "append" threw, the file was "edit"ed

fileVars == <<lines, torn>>
runtimeVars == <<live, verification, blocked>>
observers == <<seal, reader>>
history == <<minted, acked, crashes, cuts>>
ledgerVars == <<fileVars, index, todo, runtimeVars, observers, history>>

Junk == [kind |-> "junk"]
\* A work event has an id, is about a memory and has a parent; a control
\* event, which carries no work event, is about a control and has a state.
WorkEvent == [kind : {"candidate", "decision", "persisted",
                  "declared", "verified", "failed"},
          id : Ids \cup {NoId}, session : WSession, parent : Ids \cup {NoId},
          about : Control \cup Memory, state : ControlStates \cup {"none"}]
ControlKinds == {"declared", "verified", "failed"}
NoSeal == <<Junk>>
Idle == [stage |-> "idle"]

\* Every record of the ledger and of its readers keeps its shape.
LedgerTypeOK ==
  /\ lines \in Seq(WorkEvent \cup {Junk}) /\ torn \in BOOLEAN
  /\ index \in SUBSET [session : WSession, memory : Control \cup Memory, id : Ids \cup {NoId}]
  /\ todo \in Seq(WorkEvent)
  /\ live \in [WSession -> {"new", "active", "finished"}]
  /\ verification \in [WSession \X Control -> {"none", "passed", "failed"}]
  /\ blocked \in SUBSET WSession
  /\ minted \in SUBSET Ids /\ acked \in SUBSET WorkEvent
  /\ crashes \in Nat /\ cuts \in SUBSET {"append", "edit"}

LedgerInit ==
  /\ lines = <<>> /\ torn = FALSE /\ seal = NoSeal
  /\ index = {} /\ todo = <<>>
  /\ live = [s \in WSession |-> "new"]
  /\ verification = [sc \in WSession \X Control |-> "none"]
  /\ blocked = {} /\ reader = Idle /\ minted = {} /\ acked = {} /\ crashes = 0 /\ cuts = {}

-----------------------------------------------------------------------------
(* Reading the file.                                                       *)

\* Mutant: a reader that stops at the first line it cannot parse.
ParsedToFirstJunk(file) == {i \in DOMAIN file : \A j \in 1 .. i : file[j] # Junk}

\* readEventsWithDiagnostics: what does not parse is counted and skipped.
Parsed(file) == {i \in DOMAIN file : file[i] # Junk}
ReadEvents(file) ==
  LET read[n \in 0 .. Len(file)] ==
        IF n = 0 THEN <<>>
        ELSE IF file[n] = Junk THEN read[n - 1] ELSE Append(read[n - 1], file[n])
  IN read[Len(file)]

WorkEvents == {lines[i] : i \in Parsed(lines)}

-----------------------------------------------------------------------------
(* Runtime controls.                                                       *)

\* computeControlStatus: DISABLED is claimed only once it was confirmed.
ControlStatus(c, v) ==
  CASE Declared[c].intended # "DISABLED" -> Declared[c].intended
    [] Declared[c].intended = "DISABLED" /\ ~Declared[c].requires -> "DISABLED"
    [] OTHER -> CASE v = "none" -> "PENDING_VERIFICATION"
                  [] v = "passed" -> "DISABLED"
                  [] v = "failed" -> "VERIFICATION_FAILED"

ControlLines(file, s, c) ==
  {i \in Parsed(file) : file[i].kind \in ControlKinds /\ file[i].session = s /\ file[i].about = c}

\* Mutant: a fold in which the first event of a control stays.
FirstControlEvent(file, s, c) ==
  LET I == ControlLines(file, s, c) IN IF I = {} THEN Junk ELSE file[Min(I)]

\* deriveRuntimeControls: the last event of a session's control stands.
ControlEvent(file, s, c) ==
  LET I == ControlLines(file, s, c) IN IF I = {} THEN Junk ELSE file[Max(I)]

\* controlsCompliant over the controls the dashboard derived for s.
Compliant(file, s) ==
  \A c \in Control : LET e == ControlEvent(file, s, c) IN e # Junk =>
    \/ e.state \in {"DISABLED", "NOT_APPLICABLE"}
    \/ e.state = "UNREACHABLE" /\ ~Declared[c].consequential

-----------------------------------------------------------------------------
(* Appending.                                                              *)

MayFail == crashes + Cardinality(cuts) < MaxCuts

\* Mutant: an index whose key forgets the session.
IndexedByDomain(s, m) ==
  IF \E x \in index : x.memory = m
  THEN (CHOOSE x \in index : x.memory = m).id ELSE NoId

\* findWorkEventIdByDomainId: the last event of s that carried the id m.
Indexed(s, m) ==
  IF \E x \in index : x.session = s /\ x.memory = m
  THEN (CHOOSE x \in index : x.session = s /\ x.memory = m).id ELSE NoId

\* indexWorkEvent, which comes before the append.
IndexAfter(e) ==
  IF e.kind \in ControlKinds THEN index
  ELSE {x \in index : ~(x.session = e.session /\ x.memory = e.about)}
       \cup {[session |-> e.session, memory |-> e.about, id |-> e.id]}

\* recordEvent: the line lands.  After a fragment it is glued to it, and the
\* glued line is one that does not parse.
Append1 ==
  /\ todo # <<>>
  /\ index' = IndexAfter(Head(todo))
  /\ lines' = IF torn THEN lines ELSE Append(lines, Head(todo))
  /\ torn' = FALSE
  /\ acked' = acked \cup {Head(todo)}
  /\ todo' = Tail(todo)
  /\ UNCHANGED <<observers, runtimeVars, minted, crashes, cuts>>

\* The append throws: what the handler changed before stays changed.
AppendThrows ==
  /\ todo # <<>> /\ MayFail
  /\ index' = IndexAfter(Head(todo))
  /\ todo' = <<>>
  /\ cuts' = cuts \cup {"append"}
  /\ UNCHANGED <<fileVars, observers, runtimeVars, acked, minted, crashes>>

\* The runtime dies in the middle of an append and comes up empty.
CrashInAppend ==
  /\ todo # <<>> /\ MayFail
  /\ crashes' = crashes + 1
  /\ lines' = IF torn THEN lines ELSE Append(lines, Junk)
  /\ torn' = TRUE
  /\ todo' = <<>> /\ index' = {} /\ blocked' = {}
  /\ live' = [s \in WSession |-> IF live[s] = "active" THEN "finished" ELSE live[s]]
  /\ verification' = [sc \in WSession \X Control |-> "none"]
  /\ UNCHANGED <<observers, acked, cuts, minted>>

-----------------------------------------------------------------------------
(* The handlers that record.                                               *)

NewEvent(kind, i, s, p, a, st) ==
  [kind |-> kind, id |-> i, session |-> s, parent |-> p,
   about |-> a, state |-> st]

\* A timeline is in the order of the time stamps and, within a millisecond, of
\* ids that end in random bytes: a new event sorts last, or anywhere.  The id
\* stands for both; it is drawn from either end of those that are left.
Ends(I) == {i \in I : (\A j \in I : i <= j) \/ (\A j \in I : i >= j)}
Free(n) == IF n = 1 THEN {<<i>> : i \in Ends(Ids \ minted)}
           ELSE UNION {{<<i, j>> : j \in Ends(Ids \ (minted \cup {i}))} :
                         i \in Ends(Ids \ minted)}

\* startSession: one event per declared control.  (Its own event has no parent
\* and nothing refers to it: it is left out.)
LedgerStartSession(s) ==
  /\ todo = <<>> /\ live[s] = "new"
  /\ todo' = SetToSeq({NewEvent("declared", NoId, s, NoId, c, ControlStatus(c, "none"))
                         : c \in Control})
  /\ live' = [live EXCEPT ![s] = "active"]
  /\ UNCHANGED <<fileVars, observers, index, verification, blocked, history>>

\* reportControlVerification: blocked_reason is set and never cleared.
ReportVerification(s, c, passed) ==
  LET v == IF passed THEN "passed" ELSE "failed" IN
  /\ todo = <<>> /\ live[s] = "active"
  /\ verification' = [verification EXCEPT ![<<s, c>>] = v]
  /\ blocked' = IF ControlStatus(c, v) = "VERIFICATION_FAILED" THEN blocked \cup {s} ELSE blocked
  /\ Len(lines) < MaxLines
  /\ todo' = <<NewEvent(IF passed THEN "verified" ELSE "failed", NoId, s, NoId, c,
                        ControlStatus(c, v))>>
  /\ UNCHANGED <<fileVars, observers, index, live, history>>

\* proposeMemory: the candidate's parent is what the index has for the evidence
\* it cites, here for the memory itself; the decision's is the candidate event.
LedgerProposeMemory(s, m) ==
  /\ todo = <<>> /\ live[s] = "active"
  /\ \E ids \in Free(2) :
       /\ minted' = minted \cup Range(ids)
       /\ todo' = <<NewEvent("candidate", ids[1], s, Indexed(s, m), m, "none"),
                 NewEvent("decision", ids[2], s, ids[1], m, "none")>>
  /\ UNCHANGED <<fileVars, observers, index, runtimeVars, acked, crashes, cuts>>

\* persistMemory and authorizeMemoryPersistence: the parent is what the index
\* has for the decision, if this process still knows it.
RecordPersisted(s, m) ==
  /\ todo = <<>> /\ live[s] = "active"
  /\ \E ids \in Free(1) :
       /\ minted' = minted \cup Range(ids)
       /\ todo' = <<NewEvent("persisted", ids[1], s, Indexed(s, m), m, "none")>>
  /\ UNCHANGED <<fileVars, observers, index, runtimeVars, acked, crashes, cuts>>

-----------------------------------------------------------------------------
(* Sealing.                                                                *)

\* sealLedger: the chain hash of every line that parses.  (Bound of the model:
\* one observer, a seal or a reader, in a behaviour; they do not meet.)
SealLedger ==
  /\ seal = NoSeal /\ reader = Idle
  /\ seal' = ReadEvents(lines)
  /\ UNCHANGED <<fileVars, index, todo, runtimeVars, reader, history>>

\* Mutant: a verification that compares the number of events only.
VerifiesByCount == seal # NoSeal /\ Len(seal) = Len(ReadEvents(lines))

\* verifyLedger: the root hash and the count are those of the seal.
Verifies ==
  /\ seal # NoSeal
  /\ seal = ReadEvents(lines)
  /\ Len(seal) = Len(ReadEvents(lines))

\* Somebody removes an event from the file.
EditFile ==
  /\ cuts' = cuts \cup {"edit"} /\ MayFail /\ seal # NoSeal
  /\ \E i \in DOMAIN lines : lines[i] # Junk /\ lines' = RemoveAt(lines, i)
  /\ UNCHANGED <<torn, observers, index, todo, runtimeVars, acked, minted, crashes>>

-----------------------------------------------------------------------------
(* Paging through a timeline.                                              *)

\* buildSessionWorkGraph: the work events of s, by time and then by id.
SessionEvents(s) == {e \in WorkEvents : e.session = s /\ e.kind \notin ControlKinds}
Sorted(t) == \A i, j \in DOMAIN t : i < j => t[i].id < t[j].id
Timeline(s) == CHOOSE t \in [1 .. Cardinality(SessionEvents(s)) -> SessionEvents(s)] : Sorted(t)

\* Its internal edges.
ParentEdges(s) == {<<e.parent, e.id>> : e \in {x \in SessionEvents(s) : x.parent # NoId}}

\* Mutant: a page that starts at the number of events already read.
PageStartByCount(s) == Len(reader.got) + 1

\* buildSessionTimelinePage: after the cursor; a cursor that is gone throws.
PageStart(s) ==
  IF reader.got = <<>> THEN 1
  ELSE 1 + SelectInSeq(Timeline(s), LAMBDA e : e = reader.got[Len(reader.got)])

ReadFirst(s) ==
  /\ reader = Idle /\ seal = NoSeal /\ SessionEvents(s) # {}
  /\ reader' = [stage |-> "reading", session |-> s, there |-> SessionEvents(s), got |-> <<>>]
  /\ UNCHANGED <<fileVars, seal, index, todo, runtimeVars, history>>

ReadPage ==
  /\ reader.stage = "reading"
  /\ LET s == reader.session
         T == Timeline(s)
         from == PageStart(s)
         page == SubSeq(T, from, IF from + PageLimit - 1 < Len(T) THEN from + PageLimit - 1
                                 ELSE Len(T))
         more == from + Len(page) - 1 < Len(T) /\ page # <<>>
     IN reader' = [reader EXCEPT
          !.stage = CASE reader.got # <<>> /\ from = 1 -> "invalid_cursor"
                      [] more -> "reading"
                      [] OTHER -> "done",
          !.got = @ \o page]
  /\ UNCHANGED <<fileVars, seal, index, todo, runtimeVars, history>>

LedgerNext ==
  \/ Append1 \/ AppendThrows \/ CrashInAppend
  \/ \E s \in WSession :
       \/ LedgerStartSession(s)
       \/ ReadFirst(s)
       \/ \E c \in Control, passed \in BOOLEAN : ReportVerification(s, c, passed)
       \/ \E m \in Memory : LedgerProposeMemory(s, m) \/ RecordPersisted(s, m)
  \/ SealLedger \/ EditFile \/ ReadPage

LedgerSpec == LedgerInit /\ [][LedgerNext]_ledgerVars

-----------------------------------------------------------------------------
(* What the ledger promises.                                               *)

\* An append that returned is read back by every reader, however many
\* fragments crashes have left in the file: a crash costs at most the one
\* event that was glued to its fragment.
CrashesCostOneEvent ==
  "edit" \notin cuts => Cardinality(acked \ WorkEvents) <= crashes

\* A ledger that verifies holds exactly what was sealed, after any mixture of
\* appends, crashes and removed lines; and while nobody removes a line it still
\* begins with what was sealed, also where it no longer verifies.
VerifiedIsAsSealed ==
  seal # NoSeal =>
    /\ Verifies => ReadEvents(lines) = seal
    /\ "edit" \notin cuts => IsPrefix(seal, ReadEvents(lines))

\* The dashboard, which knows only the file, shows for every control of a live
\* session the state the runtime computes, and calls no session compliant that
\* the runtime has a failed control for; unless an event was lost.
DashboardAgrees ==
  (cuts = {} /\ crashes = 0 /\ todo = <<>>) =>
    \A s \in WSession : live[s] = "active" =>
      /\ \A c \in Control :
           ControlEvent(lines, s, c).state = ControlStatus(c, verification[<<s, c>>])
      /\ Compliant(lines, s) =>
           \A c \in Control : Declared[c].requires /\ Declared[c].intended = "DISABLED"
                                => verification[<<s, c>>] = "passed"

\* A parent stands in the same session, earlier in the file; only an append
\* that threw, a crash or an edit can leave it dangling.
ParentsStayInTheirSession ==
  \A s \in WSession : \A edge \in ParentEdges(s) :
    \/ \E i, j \in DOMAIN lines :
         /\ i < j /\ lines[i] # Junk /\ lines[j] # Junk
         /\ lines[i].id = edge[1] /\ lines[j].id = edge[2]
         /\ lines[i].session = s /\ lines[j].session = s
    \/ /\ cuts # {} \/ crashes > 0
       /\ \A e \in WorkEvents : e.id # edge[1]

\* A reader that comes to the end was given everything that was there when it
\* began, each event once, although events are recorded between its pages.
PagesAreComplete ==
  (reader # Idle /\ "edit" \notin cuts) =>
    /\ \A i, j \in DOMAIN reader.got : i # j => reader.got[i] # reader.got[j]
    /\ reader.stage = "done" => reader.there \subseteq Range(reader.got)
    /\ reader.stage # "invalid_cursor"
=============================================================================
