-------------------------- MODULE WorkLedgerProofs --------------------------
(***************************************************************************)
(* Proofs about the ledger of a directory, for any sessions, controls and  *)
(* memories, any number of events, crashes, throws and edits.  The         *)
(* inductive invariant says which id belongs to which event, where the     *)
(* parent of an event is - in the file, still to come, or lost - and which *)
(* event of a control is the last one.                                     *)
(***************************************************************************)
EXTENDS WorkLedger, Inductions, FunctionTheorems, FiniteSetTheorems, SequenceTheorems, TLAPS

\* A fragment is what a crash left; it is the last line.
FragmentFits ==
  /\ torn => crashes > 0
  /\ "edit" \notin cuts =>
       /\ IsFiniteSet(acked)
       /\ Cardinality(acked \ WorkEvents) + (IF torn THEN 1 ELSE 0) <= crashes

\* No id is used twice, be its event in the file or still to be appended.
IdsFit ==
  /\ \A i \in Parsed(lines) : lines[i].id # NoId => lines[i].id \in minted
  /\ \A k \in DOMAIN todo : todo[k].id # NoId => todo[k].id \in minted
  /\ \A i, j \in Parsed(lines) : lines[i].id # NoId /\ lines[i].id = lines[j].id => i = j
  /\ \A k, l \in DOMAIN todo : todo[k].id # NoId /\ todo[k].id = todo[l].id => k = l
  /\ \A i \in Parsed(lines), k \in DOMAIN todo : lines[i].id # NoId => lines[i].id # todo[k].id

\* The event p is in the file before the line n, as one of session s.
Recorded(file, p, s, n) == \E i \in Parsed(file) : i < n /\ file[i].id = p /\ file[i].session = s

\* The events that were lost, and will not come.
LostIds ==
  {p \in minted : /\ cuts # {} \/ crashes > 0
                  /\ \A i \in Parsed(lines) : lines[i].id # p
                  /\ \A k \in DOMAIN todo : todo[k].id # p}

ParentsFit ==
  /\ \A x \in index : x.id # NoId => Recorded(lines, x.id, x.session, Len(lines) + 1) \/ x.id \in LostIds
  /\ \A j \in Parsed(lines) : lines[j].parent # NoId =>
       Recorded(lines, lines[j].parent, lines[j].session, j) \/ lines[j].parent \in LostIds
  /\ \A k \in DOMAIN todo : todo[k].parent # NoId =>
       \/ Recorded(lines, todo[k].parent, todo[k].session, Len(lines) + 1)
       \/ \E l \in DOMAIN todo : /\ l < k /\ todo[l].id = todo[k].parent
                                 /\ todo[l].session = todo[k].session
       \/ todo[k].parent \in LostIds

\* e tells the state of the control c of session s.
TellsOf(e, s, c) == e.kind \in ControlKinds /\ e.session = s /\ e.about = c
Told(e, s, c) == e.state = ControlStatus(c, verification[<<s, c>>])

\* The last event of a control, in the file or to be appended, tells the state that
\* the runtime computes.
ToldLast(s, c) ==
  \/ \E k \in DOMAIN todo :
       /\ TellsOf(todo[k], s, c) /\ Told(todo[k], s, c)
       /\ \A l \in DOMAIN todo : TellsOf(todo[l], s, c) => l <= k
  \/ /\ \A l \in DOMAIN todo : ~TellsOf(todo[l], s, c)
     /\ \E i \in ControlLines(lines, s, c) :
          Told(lines[i], s, c) /\ \A j \in ControlLines(lines, s, c) : j <= i

\* Unless something was lost, that is so for every control of an active session.
ControlsFit ==
  /\ \A s \in WSession, c \in Control : live[s] = "new" => verification[<<s, c>>] = "none"
  /\ (cuts = {} /\ crashes = 0) =>
       \A s \in WSession, c \in Control : live[s] = "active" => ToldLast(s, c)

LedgerInvariant ==
  /\ LedgerTypeOK /\ FragmentFits /\ IdsFit /\ ParentsFit /\ ControlsFit

-----------------------------------------------------------------------------
(* Sequences, and the statuses of a control.                               *)

LEMMA AppendTells ==
  ASSUME NEW S, NEW f \in Seq(S), NEW e \in S
  PROVE  /\ Append(f, e) \in Seq(S) /\ Len(Append(f, e)) = Len(f) + 1
         /\ DOMAIN f = 1 .. Len(f) /\ DOMAIN Append(f, e) = 1 .. Len(f) + 1 /\ Len(f) \in Nat
         /\ \A i \in 1 .. Len(f) : Append(f, e)[i] = f[i] /\ f[i] \in S
         /\ Append(f, e)[Len(f) + 1] = e
OBVIOUS

LEMMA TailTells ==
  ASSUME NEW S, NEW f \in Seq(S), f # <<>>
  PROVE  /\ Tail(f) \in Seq(S) /\ Len(Tail(f)) = Len(f) - 1 /\ Len(f) \in Nat \ {0}
         /\ DOMAIN f = 1 .. Len(f) /\ DOMAIN Tail(f) = 1 .. Len(f) - 1
         /\ Head(f) = f[1] /\ f[1] \in S
         /\ \A i \in 1 .. Len(f) - 1 : Tail(f)[i] = f[i + 1]
OBVIOUS

LEMMA LastOfConcat ==
  ASSUME NEW S, NEW f \in Seq(S), NEW g \in Seq(S), NEW l \in 1 .. Len(g)
  PROVE  (f \o g)[Len(f) + l] = g[l]
<1>1. Len(f) \in Nat /\ Len(g) \in Nat
  OBVIOUS
<1>2. PICK i : i = Len(f) + l
  OBVIOUS
<1>3. i \in 1 .. Len(f) + Len(g) /\ i > Len(f) /\ i - Len(f) = l
  BY <1>1, <1>2
<1>4. (f \o g)[i] = g[i - Len(f)]
  BY <1>3, ConcatProperties
<1> QED BY <1>2, <1>3, <1>4

LEMMA RemoveTells ==
  ASSUME NEW S, NEW f \in Seq(S), NEW i \in DOMAIN f
  PROVE  /\ RemoveAt(f, i) \in Seq(S) /\ Len(f) \in Nat /\ DOMAIN f = 1 .. Len(f)
         /\ Len(RemoveAt(f, i)) = Len(f) - 1
         /\ DOMAIN RemoveAt(f, i) = 1 .. Len(f) - 1
         /\ \A j \in 1 .. Len(f) - 1 : RemoveAt(f, i)[j] = IF j < i THEN f[j] ELSE f[j + 1]
<1>1. i \in 1 .. Len(f) /\ Len(f) \in Nat
  OBVIOUS
<1>2. PICK u : u = SubSeq(f, 1, i - 1)
  OBVIOUS
<1>3. PICK v : v = SubSeq(f, i + 1, Len(f))
  OBVIOUS
<1>4. u \in Seq(S) /\ Len(u) = i - 1 /\ \A j \in 1 .. i - 1 : u[j] = f[j]
  BY <1>1, <1>2
<1>5. /\ v \in Seq(S) /\ Len(v) = Len(f) - i
      /\ \A j \in 1 .. Len(f) - i : v[j] = f[j + i]
  BY <1>1, <1>3
<1>6. RemoveAt(f, i) = u \o v
  BY <1>2, <1>3 DEF RemoveAt
<1>7. u \o v \in Seq(S) /\ Len(u \o v) = Len(f) - 1
  BY <1>1, <1>4, <1>5
<1>8. ASSUME NEW j \in 1 .. Len(f) - 1
      PROVE  (u \o v)[j] = IF j < i THEN f[j] ELSE f[j + 1]
  <2>1. CASE j < i
    BY <1>1, <1>4, <1>5, <2>1
  <2>2. CASE ~(j < i)
    <3>1. PICK l : l = j - (i - 1)
      OBVIOUS
    <3>2. l \in 1 .. Len(f) - i /\ j = (i - 1) + l /\ l + i = j + 1
      BY <1>1, <2>2, <3>1
    <3>3. (u \o v)[j] = v[l]
      <4>1. u \in Seq(S) /\ v \in Seq(S) /\ l \in 1 .. Len(v)
        BY <1>4, <1>5, <3>2
      <4>2. (u \o v)[Len(u) + l] = v[l]
        BY <4>1, LastOfConcat
      <4> QED BY <1>4, <3>2, <4>2
    <3>4. v[l] = f[j + 1]
      BY <1>5, <3>2
    <3> QED BY <2>2, <3>3, <3>4
  <2> QED BY <2>1, <2>2
<1> QED BY <1>1, <1>6, <1>7, <1>8

\* SetToSeq lists a finite set, each element once.
LEMMA SetToSeqTells ==
  ASSUME NEW S, IsFiniteSet(S)
  PROVE  /\ SetToSeq(S) \in Seq(S)
         /\ \A x \in S : \E k \in DOMAIN SetToSeq(S) : SetToSeq(S)[k] = x
         /\ \A k, l \in DOMAIN SetToSeq(S) : SetToSeq(S)[k] = SetToSeq(S)[l] => k = l
<1>1. Cardinality(S) \in Nat /\ ExistsBijection(1 .. Cardinality(S), S)
  BY FS_CardinalityType
<1>2. PICK b : b \in Bijection(1 .. Cardinality(S), S)
  BY <1>1 DEF ExistsBijection
<1>3. b \in [1 .. Cardinality(S) -> S] /\ IsInjective(b)
  BY <1>2 DEF Bijection, Injection, IsInjective
<1>4. SetToSeq(S) \in [1 .. Cardinality(S) -> S] /\ IsInjective(SetToSeq(S))
  BY <1>3 DEF SetToSeq
<1>5. PICK f : f = SetToSeq(S)
  OBVIOUS
<1>6. f \in Seq(S) /\ DOMAIN f = 1 .. Cardinality(S)
  BY <1>1, <1>4, <1>5
<1>7. \A k, l \in DOMAIN f : f[k] = f[l] => k = l
  BY <1>4, <1>5 DEF IsInjective
<1>8. f \in Injection(1 .. Cardinality(S), S)
  BY <1>4, <1>5, <1>6, <1>7 DEF Injection
<1>9. f \in Surjection(1 .. Cardinality(S), S)
  <2>1. PICK T : T = {f[k] : k \in DOMAIN f}
    OBVIOUS
  <2>2. f \in [DOMAIN f -> T] /\ T \subseteq S
    BY <1>6, <1>8, <2>1 DEF Injection
  <2>3. f \in Injection(DOMAIN f, T) /\ f \in Surjection(DOMAIN f, T)
    BY <1>7, <2>1, <2>2 DEF Injection, IsInjective, Surjection
  <2>4. IsFiniteSet(DOMAIN f) /\ Cardinality(DOMAIN f) = Cardinality(S)
    BY <1>1, <1>6, FS_Interval
  <2>5. Cardinality(T) = Cardinality(S)
    BY <2>3, <2>4, FS_Surjection
  <2>6. T = S
    BY <2>2, <2>5, FS_Subset
  <2> QED BY <1>6, <2>3, <2>6
<1>10. \A x \in S : \E k \in DOMAIN f : f[k] = x
  BY <1>6, <1>9 DEF Surjection
<1> QED BY <1>5, <1>6, <1>7, <1>10

LEMMA StatusTells ==
  ASSUME NEW c \in Control, NEW v \in {"none", "passed", "failed"}
  PROVE  /\ ControlStatus(c, v) \in ControlStates
         /\ Declared[c].requires /\ Declared[c].intended = "DISABLED"
              /\ ControlStatus(c, v) \in {"DISABLED", "NOT_APPLICABLE", "UNREACHABLE"} => v = "passed"
<1>1. Declared[c].intended \in Intended
  BY LedgerAssumption
<1> QED BY <1>1 DEF ControlStatus, ControlStates, Intended

\* The ids that a handler draws are new, and not the same.
LEMMA FreeTells ==
  /\ \A ids \in Free(1) : ids[1] \in Ids \ minted /\ Range(ids) = {ids[1]}
  /\ \A ids \in Free(2) : /\ ids[1] \in Ids \ minted /\ ids[2] \in Ids \ minted
                          /\ ids[1] # ids[2] /\ Range(ids) = {ids[1], ids[2]}
<1>1. \A i : Range(<<i>>) = {i}
  BY DEF Range
<1>2. \A i, j : Range(<<i, j>>) = {i, j}
  BY DEF Range
<1>3. \A I : Ends(I) \subseteq I
  BY DEF Ends
<1>4. Free(1) = {<<i>> : i \in Ends(Ids \ minted)}
  BY DEF Free
<1>5. Free(2) = UNION {{<<i, j>> : j \in Ends(Ids \ (minted \cup {i}))} : i \in Ends(Ids \ minted)}
  BY DEF Free
<1>6. ASSUME NEW ids \in Free(1)
      PROVE  ids[1] \in Ids \ minted /\ Range(ids) = {ids[1]}
  <2>1. PICK i \in Ends(Ids \ minted) : ids = <<i>>
    BY <1>4
  <2> QED BY <1>1, <1>3, <2>1
<1>7. ASSUME NEW ids \in Free(2)
      PROVE  /\ ids[1] \in Ids \ minted /\ ids[2] \in Ids \ minted
             /\ ids[1] # ids[2] /\ Range(ids) = {ids[1], ids[2]}
  <2>1. PICK i \in Ends(Ids \ minted) : ids \in {<<i, j>> : j \in Ends(Ids \ (minted \cup {i}))}
    BY <1>5
  <2>2. PICK j \in Ends(Ids \ (minted \cup {i})) : ids = <<i, j>>
    BY <2>1
  <2> QED BY <1>2, <1>3, <2>1, <2>2
<1> QED BY <1>6, <1>7

-----------------------------------------------------------------------------
(* Types.                                                                  *)

\* What the handlers put into todo are work events, and what they index is theirs.
LEMMA EventsAreEvents ==
  /\ Junk \notin WorkEvent
  /\ \A s \in WSession, p, i \in Ids \cup {NoId}, m \in Control \cup Memory :
       \A kind \in {"candidate", "decision", "persisted", "declared", "verified", "failed"} :
         \A st \in ControlStates \cup {"none"} : NewEvent(kind, i, s, p, m, st) \in WorkEvent
  /\ \A e \in WorkEvent : /\ e # Junk /\ e.id \in Ids \cup {NoId} /\ e.session \in WSession
                          /\ e.about \in Control \cup Memory /\ e.parent \in Ids \cup {NoId}
BY DEF Junk, WorkEvent, NewEvent

LEMMA IndexTells ==
  ASSUME LedgerTypeOK, NEW e \in WorkEvent
  PROVE  /\ IndexAfter(e) \in SUBSET [session : WSession, memory : Control \cup Memory,
                                      id : Ids \cup {NoId}]
         /\ \A x \in IndexAfter(e) : x \in index \/ (x.id = e.id /\ x.session = e.session)
<1>1. e.session \in WSession /\ e.about \in Control \cup Memory /\ e.id \in Ids \cup {NoId}
  BY EventsAreEvents
<1>2. PICK n : n = [session |-> e.session, memory |-> e.about, id |-> e.id]
  OBVIOUS
<1>3. /\ n \in [session : WSession, memory : Control \cup Memory, id : Ids \cup {NoId}]
      /\ n.id = e.id /\ n.session = e.session
  BY <1>1, <1>2
<1>4. IndexAfter(e) \subseteq index \cup {n}
  BY <1>2 DEF IndexAfter
<1>5. index \in SUBSET [session : WSession, memory : Control \cup Memory, id : Ids \cup {NoId}]
  BY DEF LedgerTypeOK
<1>6. PICK J : J = IndexAfter(e)
  OBVIOUS
<1>7. J \in SUBSET [session : WSession, memory : Control \cup Memory, id : Ids \cup {NoId}]
  BY <1>3, <1>4, <1>5, <1>6
<1>8. ASSUME NEW x \in J PROVE x \in index \/ (x.id = e.id /\ x.session = e.session)
  <2>1. x \in index \/ x = n
    BY <1>4, <1>6
  <2>2. n.id = e.id /\ n.session = e.session
    BY <1>3
  <2>3. CASE x = n
    BY <2>2, <2>3, Zenon
  <2> QED BY <2>1, <2>3
<1> QED BY <1>6, <1>7, <1>8

LEMMA IndexedTells ==
  ASSUME LedgerTypeOK, NEW s \in WSession, NEW m \in Memory
  PROVE  /\ Indexed(s, m) \in Ids \cup {NoId}
         /\ Indexed(s, m) # NoId => \E x \in index : x.session = s /\ x.id = Indexed(s, m)
<1>1. CASE \E x \in index : x.session = s /\ x.memory = m
  <2>1. PICK x \in index : x = CHOOSE y \in index : y.session = s /\ y.memory = m
    BY <1>1
  <2>2. x.session = s /\ Indexed(s, m) = x.id
    BY <1>1, <2>1 DEF Indexed
  <2> QED BY <2>1, <2>2 DEF LedgerTypeOK
<1>2. CASE ~\E x \in index : x.session = s /\ x.memory = m
  BY <1>2 DEF Indexed
<1> QED BY <1>1, <1>2

\* The declarations that startSession records.
Declarations(s) ==
  SetToSeq({NewEvent("declared", NoId, s, NoId, c, ControlStatus(c, "none")) : c \in Control})

LEMMA DeclaredTells ==
  ASSUME NEW s \in WSession, NEW D, D = Declarations(s)
  PROVE  /\ D \in Seq(WorkEvent)
         /\ \A k \in DOMAIN D : /\ D[k].id = NoId /\ D[k].parent = NoId
                                /\ D[k].kind = "declared" /\ D[k].session = s
                                /\ D[k].about \in Control
                                /\ D[k].state = ControlStatus(D[k].about, "none")
         /\ \A c \in Control : \E k \in DOMAIN D : D[k].about = c
         /\ \A k, l \in DOMAIN D : D[k].about = D[l].about => k = l
<1>1. PICK E : E = {NewEvent("declared", NoId, s, NoId, c, ControlStatus(c, "none")) : c \in Control}
  OBVIOUS
<1>2. \A c \in Control : ControlStatus(c, "none") \in ControlStates
  BY StatusTells
<1>3. \A c \in Control : NewEvent("declared", NoId, s, NoId, c, ControlStatus(c, "none")) \in WorkEvent
  BY <1>2, EventsAreEvents
<1>4. E \subseteq WorkEvent
  BY <1>1, <1>3
<1>5. /\ \A e \in E : /\ e.id = NoId /\ e.parent = NoId
                      /\ e.kind = "declared" /\ e.session = s
                      /\ e.about \in Control
                      /\ e.state = ControlStatus(e.about, "none")
  BY <1>1 DEF NewEvent
<1>51. \A c \in Control : \E e \in E : e.about = c
  <2> SUFFICES ASSUME NEW c \in Control PROVE \E e \in E : e.about = c
    OBVIOUS
  <2>1. PICK d : d = NewEvent("declared", NoId, s, NoId, c, ControlStatus(c, "none"))
    OBVIOUS
  <2>2. d \in E
    BY <1>1, <2>1
  <2>3. d.about = c
    BY <2>1 DEF NewEvent
  <2> QED BY <2>2, <2>3
<1>6. \A d, e \in E : d.about = e.about => d = e
  BY <1>1 DEF NewEvent
<1>7. IsFiniteSet(E)
  <2>1. IsFiniteSet(Control)
    BY LedgerAssumption
  <2>2. PICK f : f = [c \in Control |-> NewEvent("declared", NoId, s, NoId, c, ControlStatus(c, "none"))]
    OBVIOUS
  <2>3. f \in Surjection(Control, E)
    BY <1>1, <2>2 DEF Surjection
  <2> QED BY <2>1, <2>3, FS_Surjection
<1>8. /\ D \in Seq(E)
      /\ \A x \in E : \E k \in DOMAIN D : D[k] = x
      /\ \A k, l \in DOMAIN D : D[k] = D[l] => k = l
  BY <1>1, <1>7, SetToSeqTells DEF Declarations
<1>9. \A k \in DOMAIN D : D[k] \in E
  BY <1>8
<1> HIDE DEF NewEvent
<1>10. D \in Seq(WorkEvent)
  BY <1>4, <1>8
<1>11. \A k \in DOMAIN D : /\ D[k].id = NoId /\ D[k].parent = NoId
                           /\ D[k].kind = "declared" /\ D[k].session = s
                           /\ D[k].about \in Control
                           /\ D[k].state = ControlStatus(D[k].about, "none")
  BY <1>5, <1>9
<1>12. ASSUME NEW c \in Control PROVE \E k \in DOMAIN D : D[k].about = c
  <2>1. PICK d \in E : d.about = c
    BY <1>51
  <2>2. PICK k \in DOMAIN D : D[k] = d
    BY <1>8
  <2> QED BY <2>1, <2>2
<1>13. \A k, l \in DOMAIN D : D[k].about = D[l].about => k = l
  BY <1>6, <1>8, <1>9
<1> QED BY <1>10, <1>11, <1>12, <1>13

LEMMA TypesStay ==
  ASSUME LedgerTypeOK, [LedgerNext]_ledgerVars
  PROVE  LedgerTypeOK'
<1> USE DEF LedgerTypeOK, fileVars, runtimeVars, observers, history
<1>1. CASE Append1
  <2>1. /\ Head(todo) \in WorkEvent /\ Tail(todo) \in Seq(WorkEvent)
    BY <1>1, TailTells DEF Append1
  <2>2. Append(lines, Head(todo)) \in Seq(WorkEvent \cup {Junk})
    BY <2>1, AppendTells
  <2>3. IndexAfter(Head(todo)) \in SUBSET [session : WSession, memory : Control \cup Memory,
                                           id : Ids \cup {NoId}]
    BY <2>1, IndexTells
  <2> HIDE DEF LedgerTypeOK
  <2>4. lines' \in Seq(WorkEvent \cup {Junk}) /\ todo' \in Seq(WorkEvent) /\ torn' \in BOOLEAN
    BY <1>1, <2>1, <2>2 DEF Append1, LedgerTypeOK
  <2>5. index' \in SUBSET [session : WSession, memory : Control \cup Memory, id : Ids \cup {NoId}]
    BY <1>1, <2>3 DEF Append1
  <2>6. acked' \in SUBSET WorkEvent /\ UNCHANGED <<live, verification, blocked, minted, crashes, cuts>>
    BY <1>1, <2>1 DEF Append1, LedgerTypeOK
  <2> QED BY <2>4, <2>5, <2>6 DEF LedgerTypeOK
<1>2. CASE AppendThrows
  <2>1. Head(todo) \in WorkEvent
    BY <1>2, TailTells DEF AppendThrows
  <2>2. index' \in SUBSET [session : WSession, memory : Control \cup Memory, id : Ids \cup {NoId}]
    BY <1>2, <2>1, IndexTells DEF AppendThrows
  <2>3. todo' = <<>> /\ cuts' = cuts \cup {"append"}
    BY <1>2 DEF AppendThrows
  <2>4. UNCHANGED <<lines, torn, live, verification, blocked, acked, minted, crashes>>
    BY <1>2 DEF AppendThrows
  <2> QED BY <2>2, <2>3, <2>4
<1>3. CASE CrashInAppend
  <2>1. Append(lines, Junk) \in Seq(WorkEvent \cup {Junk})
    BY AppendTells
  <2>2. lines' \in Seq(WorkEvent \cup {Junk})
    BY <1>3, <2>1 DEF CrashInAppend
  <2>3. /\ live' \in [WSession -> {"new", "active", "finished"}]
        /\ verification' \in [WSession \X Control -> {"none", "passed", "failed"}]
    BY <1>3 DEF CrashInAppend
  <2> QED BY <1>3, <2>2, <2>3 DEF CrashInAppend
<1>4. ASSUME NEW s \in WSession, LedgerStartSession(s)
      PROVE  LedgerTypeOK'
  <2>1. todo' \in Seq(WorkEvent)
    BY <1>4, DeclaredTells DEF LedgerStartSession, Declarations
  <2> QED BY <1>4, <2>1 DEF LedgerStartSession
<1>5. ASSUME NEW s \in WSession, NEW c \in Control, NEW passed \in BOOLEAN,
             ReportVerification(s, c, passed)
      PROVE  LedgerTypeOK'
  <2>1. PICK v \in {"passed", "failed"} : v = IF passed THEN "passed" ELSE "failed"
    OBVIOUS
  <2>2. PICK kind \in {"verified", "failed"} : kind = IF passed THEN "verified" ELSE "failed"
    OBVIOUS
  <2>3. NewEvent(kind, NoId, s, NoId, c, ControlStatus(c, v)) \in WorkEvent
    BY StatusTells, EventsAreEvents
  <2>4. todo' = <<NewEvent(kind, NoId, s, NoId, c, ControlStatus(c, v))>>
    BY <1>5, <2>1, <2>2 DEF ReportVerification
  <2>5. todo' \in Seq(WorkEvent)
    BY <2>3, <2>4
  <2>6. verification' \in [WSession \X Control -> {"none", "passed", "failed"}]
    BY <1>5, <2>1 DEF ReportVerification
  <2>7. blocked' \in SUBSET WSession
    BY <1>5 DEF ReportVerification
  <2>8. UNCHANGED <<lines, torn, index, live, minted, acked, crashes, cuts>>
    BY <1>5 DEF ReportVerification
  <2> QED BY <2>5, <2>6, <2>7, <2>8
<1>6. ASSUME NEW s \in WSession, NEW m \in Memory, LedgerProposeMemory(s, m)
      PROVE  LedgerTypeOK'
  <2>1. PICK ids \in Free(2) :
          /\ minted' = minted \cup Range(ids)
          /\ todo' = <<NewEvent("candidate", ids[1], s, Indexed(s, m), m, "none"),
                       NewEvent("decision", ids[2], s, ids[1], m, "none")>>
    BY <1>6 DEF LedgerProposeMemory
  <2>2. ids[1] \in Ids /\ ids[2] \in Ids /\ Range(ids) \subseteq Ids
    BY FreeTells
  <2>3. /\ NewEvent("candidate", ids[1], s, Indexed(s, m), m, "none") \in WorkEvent
        /\ NewEvent("decision", ids[2], s, ids[1], m, "none") \in WorkEvent
    BY <2>2, IndexedTells, EventsAreEvents
  <2>4. todo' \in Seq(WorkEvent)
    BY <2>1, <2>3
  <2> QED BY <1>6, <2>1, <2>2, <2>4 DEF LedgerProposeMemory
<1>7. ASSUME NEW s \in WSession, NEW m \in Memory, RecordPersisted(s, m)
      PROVE  LedgerTypeOK'
  <2>1. PICK ids \in Free(1) :
          /\ minted' = minted \cup Range(ids)
          /\ todo' = <<NewEvent("persisted", ids[1], s, Indexed(s, m), m, "none")>>
    BY <1>7 DEF RecordPersisted
  <2>2. ids[1] \in Ids /\ Range(ids) \subseteq Ids
    BY FreeTells
  <2>3. NewEvent("persisted", ids[1], s, Indexed(s, m), m, "none") \in WorkEvent
    BY <2>2, IndexedTells, EventsAreEvents
  <2>4. todo' \in Seq(WorkEvent)
    BY <2>1, <2>3
  <2> QED BY <1>7, <2>1, <2>2, <2>4 DEF RecordPersisted
<1>8. CASE EditFile
  <2>1. lines' \in Seq(WorkEvent \cup {Junk})
    BY <1>8, RemoveTells DEF EditFile
  <2> QED BY <1>8, <2>1 DEF EditFile
<1>9. CASE SealLedger \/ ReadPage \/ \E s \in WSession : ReadFirst(s)
  BY <1>9 DEF SealLedger, ReadPage, ReadFirst
<1>10. CASE UNCHANGED ledgerVars
  BY <1>10 DEF ledgerVars
<1> HIDE DEF LedgerTypeOK, fileVars, runtimeVars, observers, history
<1> QED
  BY <1>1, <1>2, <1>3, <1>4, <1>5, <1>6, <1>7, <1>8, <1>9, <1>10 DEF LedgerNext

-----------------------------------------------------------------------------
(* The readers of the file.                                                *)

\* A reader's, and a sealer's, step changes nothing that the invariant is about.
Reads ==
  UNCHANGED <<lines, torn, index, todo, live, verification, blocked, minted, acked, crashes, cuts>>

LEMMA ReadersRead ==
  ASSUME \/ SealLedger \/ ReadPage \/ \E s \in WSession : ReadFirst(s)
         \/ UNCHANGED ledgerVars
  PROVE  Reads
BY DEF SealLedger, ReadPage, ReadFirst, Reads, ledgerVars, fileVars, runtimeVars, observers, history

-----------------------------------------------------------------------------
(* What the steps do to the file and to what is still to be appended.      *)

\* The numbers of the lines that parse are positions.
LEMMA ParsedTells ==
  ASSUME LedgerTypeOK
  PROVE  /\ Len(lines) \in Nat /\ DOMAIN lines = 1 .. Len(lines)
         /\ Parsed(lines) \subseteq 1 .. Len(lines)
         /\ \A i \in Parsed(lines) : lines[i] \in WorkEvent
         /\ Len(todo) \in Nat /\ DOMAIN todo = 1 .. Len(todo)
         /\ \A k \in DOMAIN todo : todo[k] \in WorkEvent
BY DEF LedgerTypeOK, Parsed

LEMMA AppendedTells ==
  ASSUME LedgerTypeOK, Append1
  PROVE  /\ 1 \in DOMAIN todo /\ todo[1] \in WorkEvent /\ Head(todo) = todo[1]
         /\ DOMAIN todo' = 1 .. Len(todo) - 1
         /\ \A k \in DOMAIN todo' : k + 1 \in DOMAIN todo /\ todo'[k] = todo[k + 1]
         /\ torn => lines' = lines
         /\ ~torn => /\ Len(lines') = Len(lines) + 1
                     /\ Parsed(lines') = Parsed(lines) \cup {Len(lines) + 1}
                     /\ lines'[Len(lines) + 1] = todo[1]
                     /\ \A i \in Parsed(lines) : lines'[i] = lines[i]
<1>1. todo \in Seq(WorkEvent) /\ todo # <<>> /\ todo' = Tail(todo)
  BY DEF LedgerTypeOK, Append1
<1>2. /\ Len(todo) \in Nat \ {0}
      /\ DOMAIN todo = 1 .. Len(todo) /\ DOMAIN todo' = 1 .. Len(todo) - 1
      /\ Head(todo) = todo[1] /\ todo[1] \in WorkEvent
      /\ \A k \in 1 .. Len(todo) - 1 : todo'[k] = todo[k + 1]
  BY <1>1, TailTells
<1>3. torn => lines' = lines
  BY DEF Append1
<1>4. ASSUME ~torn
      PROVE  /\ Len(lines') = Len(lines) + 1
             /\ Parsed(lines') = Parsed(lines) \cup {Len(lines) + 1}
             /\ lines'[Len(lines) + 1] = todo[1]
             /\ \A i \in Parsed(lines) : lines'[i] = lines[i]
  <2>1. lines' = Append(lines, todo[1]) /\ todo[1] \in WorkEvent /\ todo[1] # Junk
    BY <1>2, <1>4, EventsAreEvents DEF Append1
  <2>2. lines \in Seq(WorkEvent \cup {Junk})
    BY DEF LedgerTypeOK
  <2>3. /\ Len(lines') = Len(lines) + 1 /\ Len(lines) \in Nat
        /\ DOMAIN lines = 1 .. Len(lines) /\ DOMAIN lines' = 1 .. Len(lines) + 1
        /\ \A i \in 1 .. Len(lines) : lines'[i] = lines[i]
        /\ lines'[Len(lines) + 1] = todo[1]
    BY <2>1, <2>2, AppendTells
  <2> QED BY <2>1, <2>3 DEF Parsed
<1> QED BY <1>2, <1>3, <1>4

LEMMA CrashTells ==
  ASSUME LedgerTypeOK, CrashInAppend
  PROVE  /\ Parsed(lines') = Parsed(lines) /\ Len(lines') \in Nat /\ Len(lines) <= Len(lines')
         /\ \A i \in Parsed(lines) : lines'[i] = lines[i]
         /\ DOMAIN todo' = {}
<1>1. lines \in Seq(WorkEvent \cup {Junk})
  BY DEF LedgerTypeOK
<1>2. CASE torn
  BY <1>1, <1>2 DEF CrashInAppend
<1>3. CASE ~torn
  <2>1. lines' = Append(lines, Junk)
    BY <1>3 DEF CrashInAppend
  <2>2. /\ Len(lines') = Len(lines) + 1 /\ Len(lines) \in Nat
        /\ DOMAIN lines = 1 .. Len(lines) /\ DOMAIN lines' = 1 .. Len(lines) + 1
        /\ \A i \in 1 .. Len(lines) : lines'[i] = lines[i]
        /\ lines'[Len(lines) + 1] = Junk
    BY <1>1, <2>1, AppendTells
  <2> QED BY <2>2 DEF Parsed, CrashInAppend
<1> QED BY <1>2, <1>3

\* The new number of a line, when the line n is removed.
Moved(i, n) == IF i < n THEN i ELSE i - 1

LEMMA EditTells ==
  ASSUME LedgerTypeOK, EditFile
  PROVE  \E n \in Parsed(lines) :
           /\ \A j \in Parsed(lines') : \E i \in Parsed(lines) :
                i # n /\ j = Moved(i, n) /\ lines'[j] = lines[i]
           /\ \A i \in Parsed(lines) : i # n =>
                Moved(i, n) \in Parsed(lines') /\ lines'[Moved(i, n)] = lines[i]
           /\ Len(lines') = Len(lines) - 1
<1>1. PICK n \in DOMAIN lines : lines[n] # Junk /\ lines' = RemoveAt(lines, n)
  BY DEF EditFile
<1>2. lines \in Seq(WorkEvent \cup {Junk})
  BY DEF LedgerTypeOK
<1>3. /\ Len(lines) \in Nat /\ DOMAIN lines = 1 .. Len(lines)
      /\ Len(lines') = Len(lines) - 1 /\ DOMAIN lines' = 1 .. Len(lines) - 1
      /\ \A j \in 1 .. Len(lines) - 1 : lines'[j] = IF j < n THEN lines[j] ELSE lines[j + 1]
  BY <1>1, <1>2, RemoveTells
<1>4. n \in Parsed(lines) /\ n \in 1 .. Len(lines)
  BY <1>1, <1>3 DEF Parsed
<1>5. ASSUME NEW j \in Parsed(lines')
      PROVE  \E i \in Parsed(lines) : i # n /\ j = Moved(i, n) /\ lines'[j] = lines[i]
  <2>1. j \in 1 .. Len(lines) - 1 /\ lines'[j] # Junk
    BY <1>3 DEF Parsed
  <2>2. CASE j < n
    <3>1. j \in Parsed(lines) /\ lines'[j] = lines[j]
      BY <1>3, <2>1, <2>2 DEF Parsed
    <3> QED BY <2>1, <2>2, <3>1 DEF Moved
  <2>3. CASE ~(j < n)
    <3>1. j + 1 \in Parsed(lines) /\ lines'[j] = lines[j + 1]
      BY <1>3, <2>1, <2>3 DEF Parsed
    <3>2. j + 1 # n /\ j = Moved(j + 1, n)
      BY <1>4, <2>1, <2>3 DEF Moved
    <3> QED BY <3>1, <3>2
  <2> QED BY <2>2, <2>3
<1>6. ASSUME NEW i \in Parsed(lines), i # n
      PROVE  Moved(i, n) \in Parsed(lines') /\ lines'[Moved(i, n)] = lines[i]
  <2>1. i \in 1 .. Len(lines) /\ lines[i] # Junk
    BY <1>3 DEF Parsed
  <2>2. Moved(i, n) \in 1 .. Len(lines) - 1
    BY <1>3, <1>4, <1>6, <2>1 DEF Moved
  <2>3. lines'[Moved(i, n)] = lines[i]
    BY <1>3, <1>4, <1>6, <2>1, <2>2 DEF Moved
  <2> QED BY <1>3, <2>1, <2>2, <2>3 DEF Parsed
<1> QED BY <1>3, <1>4, <1>5, <1>6

\* A handler that records, records nothing before it has appended all it had to, and
\* draws its ids from those that were never drawn.
HandlerRecords(s) ==
  \/ LedgerStartSession(s)
  \/ \E c \in Control, passed \in BOOLEAN : ReportVerification(s, c, passed)
  \/ \E m \in Memory : LedgerProposeMemory(s, m) \/ RecordPersisted(s, m)

LEMMA HandlersTell ==
  ASSUME LedgerTypeOK, NEW s \in WSession, HandlerRecords(s)
  PROVE  /\ UNCHANGED <<lines, torn, index, acked, crashes, cuts>> /\ todo = <<>>
         /\ minted \subseteq minted'
         /\ \A k \in DOMAIN todo' :
              /\ todo'[k].session = s
              /\ todo'[k].id # NoId => todo'[k].id \in minted' \ minted
              /\ todo'[k].parent # NoId =>
                   \/ \E x \in index : x.session = s /\ x.id = todo'[k].parent
                   \/ \E l \in DOMAIN todo' : l < k /\ todo'[l].id = todo'[k].parent
         /\ \A k, l \in DOMAIN todo' : todo'[k].id # NoId /\ todo'[k].id = todo'[l].id => k = l
<1> USE DEF fileVars, runtimeVars, observers, history
<1>1. CASE LedgerStartSession(s)
  <2>1. \A k \in DOMAIN todo' : /\ todo'[k].id = NoId /\ todo'[k].parent = NoId
                                /\ todo'[k].session = s
    BY <1>1, DeclaredTells DEF LedgerStartSession, Declarations
  <2> QED BY <1>1, <2>1 DEF LedgerStartSession
<1>2. ASSUME NEW c \in Control, NEW passed \in BOOLEAN, ReportVerification(s, c, passed)
      PROVE  /\ UNCHANGED <<lines, torn, index, acked, minted, crashes, cuts>> /\ todo = <<>>
             /\ DOMAIN todo' = {1}
             /\ todo'[1].session = s /\ todo'[1].id = NoId /\ todo'[1].parent = NoId
  <2>1. PICK kind, st : todo' = <<NewEvent(kind, NoId, s, NoId, c, st)>>
    BY <1>2 DEF ReportVerification
  <2>2. DOMAIN todo' = {1} /\ todo'[1] = NewEvent(kind, NoId, s, NoId, c, st)
    BY <2>1
  <2> QED BY <1>2, <2>2 DEF ReportVerification, NewEvent
<1>3. ASSUME NEW m \in Memory, LedgerProposeMemory(s, m)
      PROVE  /\ UNCHANGED <<lines, torn, index, acked, crashes, cuts>> /\ todo = <<>>
             /\ minted \subseteq minted' /\ DOMAIN todo' = {1, 2}
             /\ todo'[1].session = s /\ todo'[2].session = s
             /\ todo'[1].id \in minted' \ minted /\ todo'[2].id \in minted' \ minted
             /\ todo'[1].id # todo'[2].id
             /\ todo'[1].parent = Indexed(s, m) /\ todo'[2].parent = todo'[1].id
  <2>1. PICK ids \in Free(2) :
          /\ minted' = minted \cup Range(ids)
          /\ todo' = <<NewEvent("candidate", ids[1], s, Indexed(s, m), m, "none"),
                       NewEvent("decision", ids[2], s, ids[1], m, "none")>>
    BY <1>3 DEF LedgerProposeMemory
  <2>2. /\ ids[1] \in minted' \ minted /\ ids[2] \in minted' \ minted
        /\ ids[1] # ids[2] /\ minted \subseteq minted'
    BY <2>1, FreeTells
  <2>3. /\ DOMAIN todo' = {1, 2}
        /\ todo'[1] = NewEvent("candidate", ids[1], s, Indexed(s, m), m, "none")
        /\ todo'[2] = NewEvent("decision", ids[2], s, ids[1], m, "none")
    BY <2>1
  <2>4. /\ todo'[1].session = s /\ todo'[2].session = s
        /\ todo'[1].id = ids[1] /\ todo'[2].id = ids[2]
        /\ todo'[1].parent = Indexed(s, m) /\ todo'[2].parent = ids[1]
    BY <2>3 DEF NewEvent
  <2>5. UNCHANGED <<lines, torn, index, acked, crashes, cuts>> /\ todo = <<>>
    BY <1>3 DEF LedgerProposeMemory
  <2> QED BY <2>2, <2>3, <2>4, <2>5
<1>4. ASSUME NEW m \in Memory, RecordPersisted(s, m)
      PROVE  /\ UNCHANGED <<lines, torn, index, acked, crashes, cuts>> /\ todo = <<>>
             /\ minted \subseteq minted' /\ DOMAIN todo' = {1}
             /\ todo'[1].session = s /\ todo'[1].id \in minted' \ minted
             /\ todo'[1].parent = Indexed(s, m)
  <2>1. PICK ids \in Free(1) :
          /\ minted' = minted \cup Range(ids)
          /\ todo' = <<NewEvent("persisted", ids[1], s, Indexed(s, m), m, "none")>>
    BY <1>4 DEF RecordPersisted
  <2>2. ids[1] \in minted' \ minted /\ minted \subseteq minted'
    BY <2>1, FreeTells
  <2>3. DOMAIN todo' = {1} /\ todo'[1] = NewEvent("persisted", ids[1], s, Indexed(s, m), m, "none")
    BY <2>1
  <2>4. todo'[1].session = s /\ todo'[1].id = ids[1] /\ todo'[1].parent = Indexed(s, m)
    BY <2>3 DEF NewEvent
  <2>5. UNCHANGED <<lines, torn, index, acked, crashes, cuts>> /\ todo = <<>>
    BY <1>4 DEF RecordPersisted
  <2> QED BY <2>2, <2>3, <2>4, <2>5
<1>5. CASE \E c \in Control, passed \in BOOLEAN : ReportVerification(s, c, passed)
  BY <1>2, <1>5
<1>6. CASE \E m \in Memory : LedgerProposeMemory(s, m)
  <2>1. PICK m \in Memory : LedgerProposeMemory(s, m)
    BY <1>6
  <2>2. todo'[1].parent # NoId => \E x \in index : x.session = s /\ x.id = todo'[1].parent
    BY <1>3, <2>1, IndexedTells
  <2> QED BY <1>3, <2>1, <2>2
<1>7. CASE \E m \in Memory : RecordPersisted(s, m)
  <2>1. PICK m \in Memory : RecordPersisted(s, m)
    BY <1>7
  <2>2. todo'[1].parent # NoId => \E x \in index : x.session = s /\ x.id = todo'[1].parent
    BY <1>4, <2>1, IndexedTells
  <2> QED BY <1>4, <2>1, <2>2
<1> QED BY <1>1, <1>5, <1>6, <1>7 DEF HandlerRecords

-----------------------------------------------------------------------------
(* A crash costs one event.                                                *)

\* One element more makes a set at most one larger.
LEMMA OneMore ==
  ASSUME NEW S, IsFiniteSet(S), NEW x, NEW T, T \subseteq S \cup {x}
  PROVE  /\ IsFiniteSet(T) /\ Cardinality(S) \in Nat /\ Cardinality(T) \in Nat
         /\ Cardinality(T) <= Cardinality(S) + 1
         /\ T \subseteq S => Cardinality(T) <= Cardinality(S)
<1>1. /\ IsFiniteSet(S \cup {x}) /\ Cardinality(S \cup {x}) \in Nat /\ Cardinality(S) \in Nat
      /\ Cardinality(S \cup {x}) <= Cardinality(S) + 1
  BY FS_AddElement, FS_CardinalityType
<1>2. IsFiniteSet(T) /\ Cardinality(T) <= Cardinality(S \cup {x}) /\ Cardinality(T) \in Nat
  BY <1>1, FS_Subset, FS_CardinalityType
<1>3. T \subseteq S => Cardinality(T) <= Cardinality(S)
  BY FS_Subset
<1> QED BY <1>1, <1>2, <1>3

LEMMA FragmentStays ==
  ASSUME LedgerTypeOK, FragmentFits, [LedgerNext]_ledgerVars
  PROVE  FragmentFits'
<1> USE DEF fileVars, runtimeVars, observers, history
<1>1. torn \in BOOLEAN /\ crashes \in Nat
  BY DEF LedgerTypeOK
<1>2. CASE Append1
  <2>1. UNCHANGED <<crashes, cuts>> /\ torn' = FALSE /\ acked' = acked \cup {todo[1]}
    BY <1>2, AppendedTells DEF Append1
  <2>2. CASE "edit" \in cuts
    BY <2>1, <2>2 DEF FragmentFits
  <2>3. CASE "edit" \notin cuts
    <3>1. PICK S : S = acked \ WorkEvents
      OBVIOUS
    <3>2. PICK T : T = acked' \ WorkEvents'
      OBVIOUS
    <3>3. IsFiniteSet(acked) /\ IsFiniteSet(S)
      BY <2>3, <3>1, FS_Subset DEF FragmentFits
    <3>4. IsFiniteSet(acked')
      BY <2>1, <3>3, FS_AddElement
    <3>5. Cardinality(S) + (IF torn THEN 1 ELSE 0) <= crashes
      BY <2>3, <3>1 DEF FragmentFits
    <3>6. CASE torn
      <4>1. WorkEvents' = WorkEvents
        BY <1>2, <3>6, AppendedTells DEF WorkEvents
      <4>2. T \subseteq S \cup {todo[1]}
        BY <2>1, <3>1, <3>2, <4>1
      <4>3. Cardinality(T) <= Cardinality(S) + 1 /\ Cardinality(T) \in Nat /\ Cardinality(S) \in Nat
        BY <3>3, <4>2, OneMore
      <4>4. Cardinality(T) + 0 <= crashes
        BY <1>1, <3>5, <3>6, <4>3
      <4> QED BY <1>1, <2>1, <3>2, <3>4, <4>3, <4>4 DEF FragmentFits
    <3>7. CASE ~torn
      <4>1. \A e \in WorkEvents : e \in WorkEvents'
        BY <1>2, <3>7, AppendedTells DEF WorkEvents
      <4>2. todo[1] \in WorkEvents'
        BY <1>2, <3>7, AppendedTells DEF WorkEvents
      <4>3. T \subseteq S /\ T \subseteq S \cup {todo[1]}
        BY <2>1, <3>1, <3>2, <4>1, <4>2
      <4>4. Cardinality(T) <= Cardinality(S) /\ Cardinality(T) \in Nat /\ Cardinality(S) \in Nat
        BY <3>3, <4>3, OneMore
      <4>5. Cardinality(T) + 0 <= crashes
        BY <1>1, <3>5, <3>7, <4>4
      <4> QED BY <1>1, <2>1, <3>2, <3>4, <4>4, <4>5 DEF FragmentFits
    <3> QED BY <1>1, <3>6, <3>7
  <2> QED BY <2>2, <2>3
<1>3. CASE CrashInAppend
  <2>1. WorkEvents' = WorkEvents
    BY <1>3, CrashTells DEF WorkEvents
  <2>2. UNCHANGED <<acked, cuts>> /\ torn' = TRUE /\ crashes' = crashes + 1
    BY <1>3 DEF CrashInAppend
  <2>3. CASE "edit" \in cuts
    BY <1>1, <2>2, <2>3 DEF FragmentFits
  <2>4. CASE "edit" \notin cuts
    <3>1. PICK S : S = acked \ WorkEvents
      OBVIOUS
    <3>2. IsFiniteSet(acked) /\ IsFiniteSet(S) /\ Cardinality(S) \in Nat
      BY <2>4, <3>1, FS_Subset, FS_CardinalityType DEF FragmentFits
    <3>3. Cardinality(S) + (IF torn THEN 1 ELSE 0) <= crashes
      BY <2>4, <3>1 DEF FragmentFits
    <3>4. Cardinality(S) + 1 <= crashes + 1 /\ crashes + 1 > 0
      BY <1>1, <3>2, <3>3
    <3>5. acked' \ WorkEvents' = S /\ IsFiniteSet(acked')
      BY <2>1, <2>2, <3>1, <3>2
    <3> QED BY <2>2, <3>4, <3>5 DEF FragmentFits
  <2> QED BY <2>3, <2>4
<1>4. CASE EditFile
  BY <1>1, <1>4 DEF EditFile, FragmentFits
<1>5. ASSUME UNCHANGED <<lines, torn, acked, crashes>>, "edit" \notin cuts' => "edit" \notin cuts
      PROVE  FragmentFits'
  <2>1. WorkEvents' = WorkEvents
    BY <1>5 DEF WorkEvents, Parsed
  <2> QED BY <1>5, <2>1 DEF FragmentFits
<1>6. CASE AppendThrows
  BY <1>5, <1>6 DEF AppendThrows
<1>7. CASE \E s \in WSession : HandlerRecords(s)
  BY <1>5, <1>7, HandlersTell
<1>8. CASE SealLedger \/ ReadPage \/ (\E s \in WSession : ReadFirst(s)) \/ UNCHANGED ledgerVars
  BY <1>5, <1>8, ReadersRead DEF Reads
<1> QED BY <1>2, <1>3, <1>4, <1>6, <1>7, <1>8 DEF LedgerNext, HandlerRecords

-----------------------------------------------------------------------------
(* No id is used twice.                                                    *)

LEMMA IdsStay ==
  ASSUME LedgerTypeOK, IdsFit, [LedgerNext]_ledgerVars
  PROVE  IdsFit'
<1>1. CASE Append1
  <2>1. minted' = minted
    BY <1>1 DEF Append1
  <2>2. /\ 1 \in DOMAIN todo
        /\ \A k \in DOMAIN todo' : k + 1 \in DOMAIN todo /\ todo'[k] = todo[k + 1] /\ k + 1 # 1
        /\ DOMAIN todo \subseteq Nat /\ DOMAIN todo' \subseteq Nat
    BY <1>1, AppendedTells, ParsedTells
  <2>3. CASE torn
    <3>1. Parsed(lines') = Parsed(lines) /\ lines' = lines
      BY <1>1, <2>3, AppendedTells
    <3> QED BY <2>1, <2>2, <3>1 DEF IdsFit
  <2>4. CASE ~torn
    <3>1. PICK n \in Nat : n = Len(lines) + 1 /\ n \notin Parsed(lines)
      BY ParsedTells
    <3>2. /\ Parsed(lines') = Parsed(lines) \cup {n}
          /\ lines'[n] = todo[1]
          /\ \A i \in Parsed(lines) : lines'[i] = lines[i]
      BY <1>1, <2>4, <3>1, AppendedTells
    <3>3. \A i \in Parsed(lines') : lines'[i].id # NoId => lines'[i].id \in minted'
      BY <2>1, <2>2, <3>2 DEF IdsFit
    <3>4. \A k \in DOMAIN todo' : todo'[k].id # NoId => todo'[k].id \in minted'
      BY <2>1, <2>2 DEF IdsFit
    <3>5. \A i, j \in Parsed(lines') : lines'[i].id # NoId /\ lines'[i].id = lines'[j].id => i = j
      <4>1. \A i \in Parsed(lines) : lines[i].id # NoId => lines[i].id # todo[1].id
        BY <2>2 DEF IdsFit
      <4>2. \A i, j \in Parsed(lines) : lines[i].id # NoId /\ lines[i].id = lines[j].id => i = j
        BY DEF IdsFit
      <4> QED BY <3>2, <4>1, <4>2
    <3>6. \A k, l \in DOMAIN todo' : todo'[k].id # NoId /\ todo'[k].id = todo'[l].id => k = l
      BY <2>2 DEF IdsFit
    <3>7. \A i \in Parsed(lines'), k \in DOMAIN todo' : lines'[i].id # NoId => lines'[i].id # todo'[k].id
      <4>1. \A i \in Parsed(lines), k \in DOMAIN todo' : lines[i].id # NoId => lines[i].id # todo'[k].id
        BY <2>2 DEF IdsFit
      <4>2. \A k \in DOMAIN todo' : todo[1].id # NoId => todo[1].id # todo'[k].id
        BY <2>2 DEF IdsFit
      <4> QED BY <3>2, <4>1, <4>2
    <3> QED BY <3>3, <3>4, <3>5, <3>6, <3>7 DEF IdsFit
  <2> QED BY <2>3, <2>4
<1>2. CASE CrashInAppend
  <2>1. minted' = minted
    BY <1>2 DEF CrashInAppend
  <2> QED BY <1>2, <2>1, CrashTells DEF IdsFit
<1>3. CASE EditFile
  <2>1. UNCHANGED <<minted, todo>>
    BY <1>3 DEF EditFile
  <2>2. PICK n \in Parsed(lines) :
           \A j \in Parsed(lines') : \E i \in Parsed(lines) :
                i # n /\ j = Moved(i, n) /\ lines'[j] = lines[i]
    BY <1>3, EditTells
  <2>3. \A i \in Parsed(lines') : lines'[i].id # NoId => lines'[i].id \in minted'
    BY <2>1, <2>2 DEF IdsFit
  <2>4. \A i, j \in Parsed(lines') : lines'[i].id # NoId /\ lines'[i].id = lines'[j].id => i = j
    BY <2>2 DEF IdsFit
  <2>5. \A i \in Parsed(lines'), k \in DOMAIN todo' : lines'[i].id # NoId => lines'[i].id # todo'[k].id
    BY <2>1, <2>2 DEF IdsFit
  <2> QED BY <2>1, <2>3, <2>4, <2>5 DEF IdsFit
<1>4. CASE AppendThrows
  <2>1. UNCHANGED <<lines, minted>> /\ DOMAIN todo' = {}
    BY <1>4 DEF AppendThrows, fileVars
  <2> QED BY <2>1 DEF IdsFit
<1>5. CASE \E s \in WSession : HandlerRecords(s)
  <2>1. PICK s \in WSession : HandlerRecords(s)
    BY <1>5
  <2>2. /\ lines' = lines /\ minted \subseteq minted'
        /\ \A k \in DOMAIN todo' : todo'[k].id # NoId => todo'[k].id \in minted' \ minted
        /\ \A k, l \in DOMAIN todo' : todo'[k].id # NoId /\ todo'[k].id = todo'[l].id => k = l
    BY <2>1, HandlersTell
  <2> QED BY <2>2 DEF IdsFit
<1>6. CASE SealLedger \/ ReadPage \/ (\E s \in WSession : ReadFirst(s)) \/ UNCHANGED ledgerVars
  <2>1. UNCHANGED <<lines, minted, todo>>
    BY <1>6, ReadersRead DEF Reads
  <2> QED BY <2>1 DEF IdsFit
<1> QED BY <1>1, <1>2, <1>3, <1>4, <1>5, <1>6 DEF LedgerNext, HandlerRecords

-----------------------------------------------------------------------------
(* Parents.                                                                *)

\* What was lost, or recorded, stays so, as long as no line is removed.
LEMMA AppendKeepsParents ==
  ASSUME LedgerTypeOK, FragmentFits, IdsFit, ParentsFit, Append1
  PROVE  ParentsFit'
<1>1. /\ 1 \in DOMAIN todo /\ todo[1] \in WorkEvent
      /\ \A k \in DOMAIN todo' : k + 1 \in DOMAIN todo /\ todo'[k] = todo[k + 1]
      /\ DOMAIN todo' = 1 .. Len(todo) - 1 /\ DOMAIN todo = 1 .. Len(todo) /\ Len(todo) \in Nat
      /\ Len(lines) \in Nat /\ Parsed(lines) \subseteq 1 .. Len(lines)
  BY AppendedTells, ParsedTells
<1>2. UNCHANGED <<minted, crashes, cuts>>
  BY DEF Append1
<1>3. index' = IndexAfter(todo[1])
  BY AppendedTells DEF Append1
<1>4. /\ Parsed(lines) \subseteq Parsed(lines') /\ \A i \in Parsed(lines) : lines'[i] = lines[i]
      /\ Len(lines) <= Len(lines') /\ Len(lines') \in Nat
  BY <1>1, AppendedTells
<1>5. \A p, s, n : Recorded(lines, p, s, n) => Recorded(lines', p, s, n)
  BY <1>4 DEF Recorded
<1>6. \A p, s : Recorded(lines, p, s, Len(lines) + 1) => Recorded(lines', p, s, Len(lines') + 1)
  BY <1>1, <1>4 DEF Recorded
<1>7. \A p : p \in LostIds => p \in LostIds'
  <2> SUFFICES ASSUME NEW p, p \in LostIds PROVE p \in LostIds'
    OBVIOUS
  <2>1. \A i \in Parsed(lines') : lines'[i].id # p
    BY <1>1, AppendedTells DEF LostIds
  <2>2. \A k \in DOMAIN todo' : todo'[k].id # p
    BY <1>1 DEF LostIds
  <2> QED BY <1>2, <2>1, <2>2 DEF LostIds
\* The event that was next is recorded now, or its line was glued to a fragment.
<1>8. ASSUME todo[1].id # NoId
      PROVE  Recorded(lines', todo[1].id, todo[1].session, Len(lines') + 1) \/ todo[1].id \in LostIds'
  <2>1. CASE ~torn
    <3>1. Len(lines) + 1 \in Parsed(lines') /\ lines'[Len(lines) + 1] = todo[1]
          /\ Len(lines') = Len(lines) + 1
      BY <2>1, AppendedTells
    <3> QED BY <1>1, <3>1 DEF Recorded
  <2>2. CASE torn
    <3>1. crashes' > 0 /\ todo[1].id \in minted'
      BY <1>1, <1>2, <1>8, <2>2 DEF FragmentFits, IdsFit
    <3>2. \A i \in Parsed(lines') : lines'[i].id # todo[1].id
      BY <1>1, <1>8, <2>2, AppendedTells DEF IdsFit
    <3>3. ASSUME NEW k \in DOMAIN todo' PROVE todo'[k].id # todo[1].id
      <4>1. k + 1 \in DOMAIN todo /\ k + 1 # 1 /\ todo'[k] = todo[k + 1]
        BY <1>1
      <4> QED BY <1>1, <1>8, <4>1 DEF IdsFit
    <3> QED BY <3>1, <3>2, <3>3 DEF LostIds
  <2> QED BY <2>1, <2>2 DEF LedgerTypeOK
<1>9. ASSUME NEW x \in index', x.id # NoId
      PROVE  Recorded(lines', x.id, x.session, Len(lines') + 1) \/ x.id \in LostIds'
  <2>1. x \in index \/ (x.id = todo[1].id /\ x.session = todo[1].session)
    BY <1>1, <1>3, IndexTells
  <2>2. CASE x \in index
    BY <1>6, <1>7, <1>9, <2>2 DEF ParentsFit
  <2>3. CASE x.id = todo[1].id /\ x.session = todo[1].session
    BY <1>8, <1>9, <2>3
  <2> QED BY <2>1, <2>2, <2>3
<1>10. ASSUME NEW j \in Parsed(lines'), lines'[j].parent # NoId
       PROVE  Recorded(lines', lines'[j].parent, lines'[j].session, j) \/ lines'[j].parent \in LostIds'
  <2>1. CASE j \in Parsed(lines)
    BY <1>4, <1>5, <1>7, <1>10, <2>1 DEF ParentsFit
  <2>2. CASE j \notin Parsed(lines)
    <3>1. j = Len(lines) + 1 /\ lines'[j] = todo[1]
      BY <2>2, AppendedTells DEF LedgerTypeOK
    <3>2. \/ Recorded(lines, todo[1].parent, todo[1].session, Len(lines) + 1)
          \/ \E l \in DOMAIN todo : l < 1
          \/ todo[1].parent \in LostIds
      BY <1>1, <1>10, <3>1 DEF ParentsFit
    <3>3. Recorded(lines, todo[1].parent, todo[1].session, Len(lines) + 1) \/ todo[1].parent \in LostIds
      BY <1>1, <3>2
    <3> QED BY <1>5, <1>7, <3>1, <3>3
  <2> QED BY <2>1, <2>2
<1>11. ASSUME NEW k \in DOMAIN todo', todo'[k].parent # NoId
       PROVE  \/ Recorded(lines', todo'[k].parent, todo'[k].session, Len(lines') + 1)
              \/ \E l \in DOMAIN todo' : /\ l < k /\ todo'[l].id = todo'[k].parent
                                         /\ todo'[l].session = todo'[k].session
              \/ todo'[k].parent \in LostIds'
  <2>1. PICK e : e = todo'[k] /\ e = todo[k + 1] /\ k + 1 \in DOMAIN todo
    BY <1>1
  <2>2. \/ Recorded(lines, e.parent, e.session, Len(lines) + 1)
        \/ \E l \in DOMAIN todo : l < k + 1 /\ todo[l].id = e.parent /\ todo[l].session = e.session
        \/ e.parent \in LostIds
    BY <1>11, <2>1 DEF ParentsFit
  <2>3. ASSUME NEW l \in DOMAIN todo, l < k + 1, todo[l].id = e.parent, todo[l].session = e.session
        PROVE  \/ Recorded(lines', e.parent, e.session, Len(lines') + 1)
               \/ \E h \in DOMAIN todo' : h < k /\ todo'[h].id = e.parent /\ todo'[h].session = e.session
               \/ e.parent \in LostIds'
    <3>1. CASE l = 1
      <4>1. todo[1].id = e.parent /\ todo[1].session = e.session /\ todo[1].id # NoId
        BY <1>11, <2>1, <2>3, <3>1
      <4> QED BY <1>8, <4>1
    <3>2. CASE l # 1
      <4>1. l - 1 \in DOMAIN todo' /\ l - 1 < k /\ todo'[l - 1] = todo[l]
        BY <1>1, <2>3, <3>2
      <4> QED BY <2>3, <4>1
    <3> QED BY <3>1, <3>2
  <2>4. \/ Recorded(lines', e.parent, e.session, Len(lines') + 1)
        \/ \E h \in DOMAIN todo' : h < k /\ todo'[h].id = e.parent /\ todo'[h].session = e.session
        \/ e.parent \in LostIds'
    BY <1>6, <1>7, <2>2, <2>3
  <2> QED BY <2>1, <2>4
<1> QED BY <1>9, <1>10, <1>11 DEF ParentsFit

LEMMA ThrowKeepsParents ==
  ASSUME LedgerTypeOK, IdsFit, ParentsFit, AppendThrows
  PROVE  ParentsFit'
<1>1. /\ UNCHANGED <<lines, minted, crashes>> /\ DOMAIN todo' = {} /\ cuts' # {}
      /\ index' = IndexAfter(Head(todo)) /\ todo # <<>>
  BY DEF AppendThrows, fileVars
<1>2. todo[1] \in WorkEvent /\ 1 \in DOMAIN todo /\ Head(todo) = todo[1]
  BY <1>1, TailTells DEF LedgerTypeOK
<1>3. \A p, s, n : Recorded(lines, p, s, n) => Recorded(lines', p, s, n)
  BY <1>1 DEF Recorded
<1>4. \A p : p \in LostIds => p \in LostIds'
  BY <1>1 DEF LostIds
<1>5. todo[1].id # NoId => todo[1].id \in LostIds'
  BY <1>1, <1>2 DEF IdsFit, LostIds
<1>6. ASSUME NEW x \in index', x.id # NoId
      PROVE  Recorded(lines', x.id, x.session, Len(lines') + 1) \/ x.id \in LostIds'
  <2>1. x \in index \/ (x.id = todo[1].id /\ x.session = todo[1].session)
    BY <1>1, <1>2, IndexTells
  <2> QED BY <1>1, <1>3, <1>4, <1>5, <1>6, <2>1 DEF ParentsFit
<1>7. ASSUME NEW j \in Parsed(lines'), lines'[j].parent # NoId
      PROVE  Recorded(lines', lines'[j].parent, lines'[j].session, j) \/ lines'[j].parent \in LostIds'
  BY <1>1, <1>3, <1>4, <1>7 DEF ParentsFit
<1> QED BY <1>1, <1>6, <1>7 DEF ParentsFit

LEMMA CrashKeepsParents ==
  ASSUME LedgerTypeOK, ParentsFit, CrashInAppend
  PROVE  ParentsFit'
<1>1. /\ Parsed(lines') = Parsed(lines) /\ \A i \in Parsed(lines) : lines'[i] = lines[i]
      /\ DOMAIN todo' = {}
  BY CrashTells
<1>2. UNCHANGED <<minted, cuts>> /\ crashes' > 0 /\ index' = {}
  BY DEF CrashInAppend, LedgerTypeOK
<1>3. \A p, s, n : Recorded(lines, p, s, n) => Recorded(lines', p, s, n)
  BY <1>1 DEF Recorded
<1>4. \A p : p \in LostIds => p \in LostIds'
  BY <1>1, <1>2 DEF LostIds
<1>5. ASSUME NEW j \in Parsed(lines'), lines'[j].parent # NoId
      PROVE  Recorded(lines', lines'[j].parent, lines'[j].session, j) \/ lines'[j].parent \in LostIds'
  BY <1>1, <1>3, <1>4, <1>5 DEF ParentsFit
<1> QED BY <1>1, <1>2, <1>5 DEF ParentsFit

LEMMA HandlersKeepParents ==
  ASSUME LedgerTypeOK, IdsFit, ParentsFit, NEW s \in WSession, HandlerRecords(s)
  PROVE  ParentsFit'
<1>1. /\ UNCHANGED <<lines, index, crashes, cuts>> /\ DOMAIN todo = {} /\ minted \subseteq minted'
      /\ \A k \in DOMAIN todo' :
           /\ todo'[k].session = s
           /\ todo'[k].id # NoId => todo'[k].id \in minted' \ minted
           /\ todo'[k].parent # NoId =>
                \/ \E x \in index : x.session = s /\ x.id = todo'[k].parent
                \/ \E l \in DOMAIN todo' : l < k /\ todo'[l].id = todo'[k].parent
  BY HandlersTell
<1>2. \A p, t, n : Recorded(lines, p, t, n) => Recorded(lines', p, t, n)
  BY <1>1 DEF Recorded
<1>3. \A p : p \in LostIds /\ p # NoId => p \in LostIds'
  <2> SUFFICES ASSUME NEW p, p \in LostIds, p # NoId PROVE p \in LostIds'
    OBVIOUS
  <2>1. \A k \in DOMAIN todo' : todo'[k].id # p
    BY <1>1 DEF LostIds
  <2> QED BY <1>1, <2>1 DEF LostIds
<1>4. ASSUME NEW x \in index', x.id # NoId
      PROVE  Recorded(lines', x.id, x.session, Len(lines') + 1) \/ x.id \in LostIds'
  BY <1>1, <1>2, <1>3, <1>4 DEF ParentsFit
<1>5. ASSUME NEW j \in Parsed(lines'), lines'[j].parent # NoId
      PROVE  Recorded(lines', lines'[j].parent, lines'[j].session, j) \/ lines'[j].parent \in LostIds'
  BY <1>1, <1>2, <1>3, <1>5 DEF ParentsFit
<1>6. ASSUME NEW k \in DOMAIN todo', todo'[k].parent # NoId
      PROVE  \/ Recorded(lines', todo'[k].parent, todo'[k].session, Len(lines') + 1)
             \/ \E l \in DOMAIN todo' : /\ l < k /\ todo'[l].id = todo'[k].parent
                                        /\ todo'[l].session = todo'[k].session
             \/ todo'[k].parent \in LostIds'
  <2>1. CASE \E x \in index : x.session = s /\ x.id = todo'[k].parent
    <3>1. PICK x \in index' : x.session = todo'[k].session /\ x.id = todo'[k].parent
      BY <1>1, <2>1
    <3> QED BY <1>4, <1>6, <3>1
  <2>2. CASE \E l \in DOMAIN todo' : l < k /\ todo'[l].id = todo'[k].parent
    BY <1>1, <2>2
  <2> QED BY <1>1, <1>6, <2>1, <2>2
<1> QED BY <1>4, <1>5, <1>6 DEF ParentsFit

LEMMA EditKeepsParents ==
  ASSUME LedgerTypeOK, IdsFit, ParentsFit, EditFile
  PROVE  ParentsFit'
<1>1. UNCHANGED <<index, minted, todo, crashes>> /\ cuts' # {}
  BY DEF EditFile
<1>2. PICK n \in Parsed(lines) :
        /\ \A j \in Parsed(lines') : \E i \in Parsed(lines) :
             i # n /\ j = Moved(i, n) /\ lines'[j] = lines[i]
        /\ \A i \in Parsed(lines) : i # n =>
             Moved(i, n) \in Parsed(lines') /\ lines'[Moved(i, n)] = lines[i]
        /\ Len(lines') = Len(lines) - 1
  BY EditTells
<1>3. /\ Parsed(lines) \subseteq 1 .. Len(lines) /\ Len(lines) \in Nat
      /\ \A i \in Parsed(lines) : i # n => (i < n \/ i > n) /\ Moved(i, n) \in Nat
  BY ParsedTells DEF Moved
<1>4. \A p : p \in LostIds => p \in LostIds'
  <2> SUFFICES ASSUME NEW p, p \in LostIds PROVE p \in LostIds'
    OBVIOUS
  <2>1. \A i \in Parsed(lines') : lines'[i].id # p
    BY <1>2 DEF LostIds
  <2> QED BY <1>1, <2>1 DEF LostIds
\* The removed event is lost, since no other has its id.
<1>5. lines[n].id # NoId => lines[n].id \in LostIds'
  <2> SUFFICES ASSUME lines[n].id # NoId PROVE lines[n].id \in LostIds'
    OBVIOUS
  <2>1. lines[n].id \in minted
    BY DEF IdsFit
  <2>2. \A i \in Parsed(lines) : i # n => lines[i].id # lines[n].id
    BY DEF IdsFit
  <2>3. \A k \in DOMAIN todo : todo[k].id # lines[n].id
    BY DEF IdsFit
  <2>4. \A j \in Parsed(lines') : lines'[j].id # lines[n].id
    BY <1>2, <2>2
  <2> QED BY <1>1, <2>1, <2>3, <2>4 DEF LostIds
<1>6. ASSUME NEW p, NEW s, NEW m \in Nat, NEW h \in Nat, p # NoId, Recorded(lines, p, s, m),
             \A i \in Parsed(lines) : i # n /\ i < m => Moved(i, n) < h
      PROVE  Recorded(lines', p, s, h) \/ p \in LostIds'
  <2>1. PICK i \in Parsed(lines) : i < m /\ lines[i].id = p /\ lines[i].session = s
    BY <1>6 DEF Recorded
  <2>2. CASE i = n
    BY <1>5, <1>6, <2>1, <2>2
  <2>3. CASE i # n
    BY <1>2, <1>6, <2>1, <2>3 DEF Recorded
  <2> QED BY <2>2, <2>3
<1>7. ASSUME NEW p, NEW s, p # NoId, Recorded(lines, p, s, Len(lines) + 1)
      PROVE  Recorded(lines', p, s, Len(lines') + 1) \/ p \in LostIds'
  <2>1. \A i \in Parsed(lines) : i # n /\ i < Len(lines) + 1 => Moved(i, n) < Len(lines)
    BY <1>3 DEF Moved
  <2>2. Recorded(lines', p, s, Len(lines)) \/ p \in LostIds'
    BY <1>3, <1>6, <1>7, <2>1
  <2>3. Len(lines') + 1 = Len(lines)
    BY <1>2, <1>3
  <2>4. \A i \in Parsed(lines') : i < Len(lines) => i < Len(lines') + 1
    BY <2>3
  <2> QED BY <2>2, <2>4 DEF Recorded
<1>8. ASSUME NEW x \in index', x.id # NoId
      PROVE  Recorded(lines', x.id, x.session, Len(lines') + 1) \/ x.id \in LostIds'
  BY <1>1, <1>4, <1>7, <1>8 DEF ParentsFit
<1>9. ASSUME NEW j \in Parsed(lines'), lines'[j].parent # NoId
      PROVE  Recorded(lines', lines'[j].parent, lines'[j].session, j) \/ lines'[j].parent \in LostIds'
  <2>1. PICK i \in Parsed(lines) : i # n /\ j = Moved(i, n) /\ lines'[j] = lines[i]
    BY <1>2
  <2>2. Recorded(lines, lines[i].parent, lines[i].session, i) \/ lines[i].parent \in LostIds
    BY <1>9, <2>1 DEF ParentsFit
  <2>3. \A h \in Parsed(lines) : h # n /\ h < i => Moved(h, n) < j
    BY <1>3, <2>1 DEF Moved
  <2>4. i \in Nat /\ j \in Nat
    BY <1>3, <2>1
  <2> QED BY <1>4, <1>6, <1>9, <2>1, <2>2, <2>3, <2>4
<1>10. ASSUME NEW k \in DOMAIN todo', todo'[k].parent # NoId
       PROVE  \/ Recorded(lines', todo'[k].parent, todo'[k].session, Len(lines') + 1)
              \/ \E l \in DOMAIN todo' : /\ l < k /\ todo'[l].id = todo'[k].parent
                                         /\ todo'[l].session = todo'[k].session
              \/ todo'[k].parent \in LostIds'
  BY <1>1, <1>4, <1>7, <1>10 DEF ParentsFit
<1> QED BY <1>8, <1>9, <1>10 DEF ParentsFit

LEMMA ParentsStay ==
  ASSUME LedgerTypeOK, FragmentFits, IdsFit, ParentsFit, [LedgerNext]_ledgerVars
  PROVE  ParentsFit'
<1>1. CASE SealLedger \/ ReadPage \/ (\E s \in WSession : ReadFirst(s)) \/ UNCHANGED ledgerVars
  <2>1. UNCHANGED <<lines, index, todo, minted, crashes, cuts>>
    BY <1>1, ReadersRead DEF Reads
  <2> QED BY <2>1 DEF ParentsFit, Recorded, LostIds
<1>2. CASE \E s \in WSession : HandlerRecords(s)
  BY <1>2, HandlersKeepParents
<1> QED BY <1>1, <1>2, AppendKeepsParents, ThrowKeepsParents, CrashKeepsParents, EditKeepsParents
        DEF LedgerNext, HandlerRecords

-----------------------------------------------------------------------------
(* Controls.                                                               *)

\* A step that changes neither the file nor what is known of the control c of s, when
\* all was appended, only has to be looked at for what it will append.
LEMMA QuietKeepsTold ==
  ASSUME NEW s \in WSession, NEW c \in Control, ToldLast(s, c), DOMAIN todo = {}, lines' = lines,
         verification'[<<s, c>>] = verification[<<s, c>>],
         \A k \in DOMAIN todo' : ~TellsOf(todo'[k], s, c)
  PROVE  ToldLast(s, c)'
BY DEF ToldLast, Told, TellsOf, ControlLines, Parsed

LEMMA AppendKeepsTold ==
  ASSUME LedgerTypeOK, Append1, ~torn, NEW s \in WSession, NEW c \in Control, ToldLast(s, c)
  PROVE  ToldLast(s, c)'
<1>1. /\ 1 \in DOMAIN todo
      /\ \A k \in DOMAIN todo' : k + 1 \in DOMAIN todo /\ todo'[k] = todo[k + 1]
      /\ DOMAIN todo' = 1 .. Len(todo) - 1 /\ DOMAIN todo = 1 .. Len(todo) /\ Len(todo) \in Nat
      /\ Len(lines) \in Nat /\ Parsed(lines) \subseteq 1 .. Len(lines)
      /\ Parsed(lines') = Parsed(lines) \cup {Len(lines) + 1}
      /\ lines'[Len(lines) + 1] = todo[1]
      /\ \A i \in Parsed(lines) : lines'[i] = lines[i]
  BY AppendedTells, ParsedTells
<1>2. verification' = verification
  BY DEF Append1, runtimeVars
<1>3. ControlLines(lines', s, c) =
        ControlLines(lines, s, c) \cup (IF TellsOf(todo[1], s, c) THEN {Len(lines) + 1} ELSE {})
  BY <1>1 DEF ControlLines, TellsOf
<1>4. \A i \in ControlLines(lines, s, c) : i \in Parsed(lines) /\ i <= Len(lines) /\ i \in Nat
  BY <1>1 DEF ControlLines
<1>5. ASSUME NEW k \in DOMAIN todo, TellsOf(todo[k], s, c), Told(todo[k], s, c),
             \A l \in DOMAIN todo : TellsOf(todo[l], s, c) => l <= k
      PROVE  ToldLast(s, c)'
  <2>1. CASE k = 1
    <3>1. \A l \in DOMAIN todo' : ~TellsOf(todo'[l], s, c)
      BY <1>1, <1>5, <2>1
    <3>2. Len(lines) + 1 \in ControlLines(lines', s, c)
      BY <1>3, <1>5, <2>1
    <3>3. \A j \in ControlLines(lines', s, c) : j <= Len(lines) + 1
      BY <1>1, <1>3, <1>4
    <3>4. lines'[Len(lines) + 1].state = ControlStatus(c, verification'[<<s, c>>])
      BY <1>1, <1>2, <1>5, <2>1 DEF Told
    <3> QED BY <3>1, <3>2, <3>3, <3>4 DEF ToldLast, Told, TellsOf
  <2>2. CASE k # 1
    <3>1. k - 1 \in DOMAIN todo' /\ todo'[k - 1] = todo[k]
      BY <1>1, <2>2
    <3>2. \A l \in DOMAIN todo' : TellsOf(todo'[l], s, c) => l <= k - 1
      BY <1>1, <1>5
    <3>3. todo'[k - 1].state = ControlStatus(c, verification'[<<s, c>>])
      BY <1>2, <1>5, <3>1 DEF Told
    <3> QED BY <1>5, <3>1, <3>2, <3>3 DEF ToldLast, Told, TellsOf
  <2> QED BY <2>1, <2>2
<1>6. ASSUME \A l \in DOMAIN todo : ~TellsOf(todo[l], s, c),
             NEW i \in ControlLines(lines, s, c), Told(lines[i], s, c),
             \A j \in ControlLines(lines, s, c) : j <= i
      PROVE  ToldLast(s, c)'
  <2>1. ControlLines(lines', s, c) = ControlLines(lines, s, c)
    BY <1>1, <1>3, <1>6
  <2>2. \A l \in DOMAIN todo' : ~TellsOf(todo'[l], s, c)
    BY <1>1, <1>6
  <2>3. lines'[i].state = ControlStatus(c, verification'[<<s, c>>])
    BY <1>1, <1>2, <1>4, <1>6 DEF Told
  <2> QED BY <1>6, <2>1, <2>2, <2>3 DEF ToldLast, Told, TellsOf
<1> QED BY <1>5, <1>6 DEF ToldLast

LEMMA StartKeepsControls ==
  ASSUME LedgerTypeOK, ControlsFit, NEW s \in WSession, LedgerStartSession(s)
  PROVE  ControlsFit'
<1>1. /\ UNCHANGED <<lines, verification, cuts, crashes>> /\ DOMAIN todo = {}
      /\ live[s] = "new" /\ live' = [live EXCEPT ![s] = "active"]
  BY DEF LedgerStartSession, fileVars, history
<1>2. live \in [WSession -> {"new", "active", "finished"}]
  BY DEF LedgerTypeOK
<1>3. \A t \in WSession : live'[t] = "new" => live[t] = "new"
  BY <1>1, <1>2
<1>4. \A t \in WSession : t # s => live'[t] = live[t]
  BY <1>1, <1>2
<1>5. /\ \A k \in DOMAIN todo' : /\ todo'[k].kind = "declared" /\ todo'[k].session = s
                                 /\ todo'[k].about \in Control
                                 /\ todo'[k].state = ControlStatus(todo'[k].about, "none")
      /\ \A c \in Control : \E k \in DOMAIN todo' : todo'[k].about = c
      /\ \A k, l \in DOMAIN todo' : todo'[k].about = todo'[l].about => k = l
      /\ todo' \in Seq(WorkEvent)
  <2>1. PICK D : D = Declarations(s)
    OBVIOUS
  <2>2. todo' = D
    BY <2>1 DEF LedgerStartSession, Declarations
  <2>3. /\ \A k \in DOMAIN D : /\ D[k].kind = "declared" /\ D[k].session = s
                               /\ D[k].about \in Control
                               /\ D[k].state = ControlStatus(D[k].about, "none")
        /\ \A c \in Control : \E k \in DOMAIN D : D[k].about = c
        /\ \A k, l \in DOMAIN D : D[k].about = D[l].about => k = l
        /\ D \in Seq(WorkEvent)
    BY <2>1, DeclaredTells
  <2> QED BY <2>2, <2>3
<1>6. ASSUME NEW c \in Control PROVE ToldLast(s, c)'
  <2>1. PICK k \in DOMAIN todo' : todo'[k].about = c
    BY <1>5
  <2>2. TellsOf(todo'[k], s, c)
    BY <1>5, <2>1 DEF TellsOf, ControlKinds
  <2>3. \A l \in DOMAIN todo' : TellsOf(todo'[l], s, c) => l <= k
    <3>1. k \in Nat
      BY <1>5
    <3> QED BY <1>5, <2>1, <3>1 DEF TellsOf
  <2>4. todo'[k].state = ControlStatus(c, verification'[<<s, c>>])
    BY <1>1, <1>5, <2>1 DEF ControlsFit
  <2> QED BY <2>2, <2>3, <2>4 DEF ToldLast, Told, TellsOf
<1>7. ASSUME NEW t \in WSession, t # s, NEW c \in Control, ToldLast(t, c)
      PROVE  ToldLast(t, c)'
  <2>1. \A k \in DOMAIN todo' : ~TellsOf(todo'[k], t, c)
    BY <1>5, <1>7 DEF TellsOf
  <2> QED BY <1>1, <1>7, <2>1, QuietKeepsTold
<1> QED BY <1>1, <1>3, <1>4, <1>6, <1>7 DEF ControlsFit

LEMMA ReportKeepsControls ==
  ASSUME LedgerTypeOK, ControlsFit, NEW s \in WSession, NEW c \in Control, NEW passed \in BOOLEAN,
         ReportVerification(s, c, passed)
  PROVE  ControlsFit'
<1>1. PICK v \in {"passed", "failed"} : v = IF passed THEN "passed" ELSE "failed"
  OBVIOUS
<1>2. PICK kind \in {"verified", "failed"} : kind = IF passed THEN "verified" ELSE "failed"
  OBVIOUS
<1>3. /\ UNCHANGED <<lines, live, cuts, crashes>> /\ DOMAIN todo = {}
      /\ live[s] = "active" /\ verification' = [verification EXCEPT ![<<s, c>>] = v]
      /\ todo' = <<NewEvent(kind, NoId, s, NoId, c, ControlStatus(c, v))>>
  BY <1>1, <1>2 DEF ReportVerification, fileVars, history
<1>4. /\ verification'[<<s, c>>] = v
      /\ \A t \in WSession, d \in Control : t # s \/ d # c =>
           verification'[<<t, d>>] = verification[<<t, d>>]
  BY <1>3 DEF LedgerTypeOK
<1>5. /\ DOMAIN todo' = {1} /\ todo'[1].kind = kind /\ todo'[1].session = s
      /\ todo'[1].about = c /\ todo'[1].state = ControlStatus(c, v)
  BY <1>3 DEF NewEvent
<1>6. ToldLast(s, c)'
  <2>1. TellsOf(todo'[1], s, c)
    BY <1>5 DEF TellsOf, ControlKinds
  <2>2. todo'[1].state = ControlStatus(c, verification'[<<s, c>>])
    BY <1>4, <1>5
  <2>3. \A l \in DOMAIN todo' : l <= 1
    BY <1>5
  <2> QED BY <1>5, <2>1, <2>2, <2>3 DEF ToldLast, Told, TellsOf
<1>7. ASSUME NEW t \in WSession, NEW d \in Control, t # s \/ d # c, ToldLast(t, d)
      PROVE  ToldLast(t, d)'
  <2>1. \A k \in DOMAIN todo' : ~TellsOf(todo'[k], t, d)
    BY <1>5, <1>7 DEF TellsOf
  <2> QED BY <1>3, <1>4, <1>7, <2>1, QuietKeepsTold
<1>8. \A t \in WSession, d \in Control : live'[t] = "new" => verification'[<<t, d>>] = "none"
  BY <1>3, <1>4 DEF ControlsFit
<1>9. ASSUME cuts' = {}, crashes' = 0, NEW t \in WSession, NEW d \in Control, live'[t] = "active"
      PROVE  ToldLast(t, d)'
  <2>1. ToldLast(t, d)
    BY <1>3, <1>9 DEF ControlsFit
  <2> QED BY <1>6, <1>7, <2>1
<1> QED BY <1>8, <1>9 DEF ControlsFit

LEMMA ControlsStay ==
  ASSUME LedgerTypeOK, FragmentFits, ControlsFit, [LedgerNext]_ledgerVars
  PROVE  ControlsFit'
<1> USE DEF fileVars, runtimeVars, observers, history
<1>1. CASE Append1
  <2>1. UNCHANGED <<live, verification, cuts, crashes>>
    BY <1>1 DEF Append1
  <2>2. crashes = 0 => ~torn
    BY DEF FragmentFits
  <2> QED BY <1>1, <2>1, <2>2, AppendKeepsTold DEF ControlsFit
<1>2. CASE AppendThrows
  BY <1>2 DEF AppendThrows, ControlsFit
<1>3. CASE CrashInAppend
  <2>1. \A s \in WSession, c \in Control : verification'[<<s, c>>] = "none"
    BY <1>3 DEF CrashInAppend
  <2>2. crashes' # 0
    BY <1>3 DEF CrashInAppend, LedgerTypeOK
  <2> QED BY <2>1, <2>2 DEF ControlsFit
<1>4. CASE EditFile
  BY <1>4 DEF EditFile, ControlsFit
<1>5. ASSUME NEW s \in WSession, NEW m \in Memory, LedgerProposeMemory(s, m) \/ RecordPersisted(s, m)
      PROVE  ControlsFit'
  <2>1. UNCHANGED <<lines, live, verification, cuts, crashes>> /\ DOMAIN todo = {}
    BY <1>5 DEF LedgerProposeMemory, RecordPersisted
  <2>2. \A k \in DOMAIN todo' : todo'[k].kind \notin ControlKinds
    <3>1. CASE LedgerProposeMemory(s, m)
      <4>1. PICK d, e : /\ todo' = <<d, e>>
                        /\ d.kind = "candidate" /\ e.kind = "decision"
        BY <3>1 DEF LedgerProposeMemory, NewEvent
      <4> QED BY <4>1 DEF ControlKinds
    <3>2. CASE RecordPersisted(s, m)
      <4>1. PICK d : todo' = <<d>> /\ d.kind = "persisted"
        BY <3>2 DEF RecordPersisted, NewEvent
      <4> QED BY <4>1 DEF ControlKinds
    <3> QED BY <1>5, <3>1, <3>2
  <2>3. ASSUME NEW t \in WSession, NEW c \in Control, ToldLast(t, c)
        PROVE  ToldLast(t, c)'
    <3>1. \A k \in DOMAIN todo' : ~TellsOf(todo'[k], t, c)
      BY <2>2 DEF TellsOf
    <3> QED BY <2>1, <2>3, <3>1, QuietKeepsTold
  <2> QED BY <2>1, <2>3 DEF ControlsFit
<1>6. CASE SealLedger \/ ReadPage \/ (\E s \in WSession : ReadFirst(s)) \/ UNCHANGED ledgerVars
  <2>1. UNCHANGED <<lines, todo, live, verification, cuts, crashes>>
    BY <1>6, ReadersRead DEF Reads
  <2> QED BY <2>1 DEF ControlsFit, ToldLast, Told
<1> QED BY <1>1, <1>2, <1>3, <1>4, <1>5, <1>6, StartKeepsControls, ReportKeepsControls DEF LedgerNext

-----------------------------------------------------------------------------
(* What the readers get.                                                   *)

Line == WorkEvent \cup {Junk}

\* The recursion that ReadEvents is.
Reading(r, f) ==
  /\ r[0] = <<>>
  /\ \A i \in 1 .. Len(f) : r[i] = IF f[i] = Junk THEN r[i - 1] ELSE Append(r[i - 1], f[i])

LEMMA ReadEventsReads ==
  ASSUME NEW f \in Seq(Line)
  PROVE  \E r : /\ Reading(r, f) /\ ReadEvents(f) = r[Len(f)]
                /\ \A i \in 0 .. Len(f) : r[i] \in Seq(WorkEvent)
<1>1. PICK n \in Nat : n = Len(f)
  OBVIOUS
<1>2. \A i \in 1 .. n : f[i] # Junk => f[i] \in WorkEvent
  BY <1>1 DEF Line
<1>3. PICK V : V = Seq(WorkEvent)
  OBVIOUS
<1>4. <<>> \in V /\ \A v \in V, e \in WorkEvent : Append(v, e) \in V
  BY <1>3
<1>5. PICK g : g = [p \in (1 .. n) \X V |-> IF f[p[1]] = Junk THEN p[2] ELSE Append(p[2], f[p[1]])]
  OBVIOUS
<1>6. g \in [(1 .. n) \X V -> V]
  BY <1>2, <1>4, <1>5
<1>7. PICK r : r \in [0 .. n -> V] /\ Recursion(r, n, <<>>, g)
  BY <1>4, <1>6, RecursionExists
<1>8. ASSUME NEW h \in [0 .. n -> V], NEW i \in 1 .. n
      PROVE  g[<<i, h[i - 1]>>] = IF f[i] = Junk THEN h[i - 1] ELSE Append(h[i - 1], f[i])
  <2>1. i - 1 \in 0 .. n
    OBVIOUS
  <2>2. <<i, h[i - 1]>> \in (1 .. n) \X V
    BY <2>1
  <2> QED BY <1>5, <2>2
<1>9. r[0] = <<>> /\ \A i \in 1 .. n : r[i] = IF f[i] = Junk THEN r[i - 1] ELSE Append(r[i - 1], f[i])
  BY <1>7, <1>8 DEF Recursion
<1>10. PICK h : h = CHOOSE q : q = [i \in 0 .. n |->
          IF i = 0 THEN <<>> ELSE IF f[i] = Junk THEN q[i - 1] ELSE Append(q[i - 1], f[i])]
  OBVIOUS
<1>11. r = [i \in 0 .. n |->
          IF i = 0 THEN <<>> ELSE IF f[i] = Junk THEN r[i - 1] ELSE Append(r[i - 1], f[i])]
  <2>1. PICK q : q = [i \in 0 .. n |->
          IF i = 0 THEN <<>> ELSE IF f[i] = Junk THEN r[i - 1] ELSE Append(r[i - 1], f[i])]
    OBVIOUS
  <2>2. ASSUME NEW i \in 0 .. n PROVE r[i] = q[i]
    <3>1. CASE i = 0
      BY <1>9, <2>1, <3>1
    <3>2. CASE i # 0
      <4>1. i \in 1 .. n
        BY <3>2
      <4>2. q[i] = IF f[i] = Junk THEN r[i - 1] ELSE Append(r[i - 1], f[i])
        BY <2>1, <3>2
      <4> QED BY <1>9, <4>1, <4>2
    <3> QED BY <3>1, <3>2
  <2>3. q = [i \in 0 .. n |-> q[i]] /\ r = [i \in 0 .. n |-> r[i]]
    BY <1>7, <2>1
  <2>4. r = q
    <3>1. PICK D : D = 0 .. n
      OBVIOUS
    <3>2. q = [i \in D |-> q[i]] /\ r = [i \in D |-> r[i]]
      BY <2>3, <3>1
    <3>3. ASSUME NEW i \in D PROVE r[i] = q[i]
      BY <2>2, <3>1
    <3>4. \A i \in D : r[i] = q[i]
      BY <3>3
    <3> QED BY <3>2, <3>4, SameFunctions
  <2> QED BY <2>1, <2>4
<1>12. h = [i \in 0 .. n |->
          IF i = 0 THEN <<>> ELSE IF f[i] = Junk THEN h[i - 1] ELSE Append(h[i - 1], f[i])]
  BY <1>10, <1>11
<1>13. h[0] = <<>> /\ \A i \in 1 .. n : h[i] = IF f[i] = Junk THEN h[i - 1] ELSE Append(h[i - 1], f[i])
  <2>1. \A i \in 0 .. n : h[i] = IF i = 0 THEN <<>> ELSE IF f[i] = Junk THEN h[i - 1] ELSE Append(h[i - 1], f[i])
    BY <1>12
  <2>2. 0 \in 0 .. n /\ \A i \in 1 .. n : i \in 0 .. n /\ i # 0
    OBVIOUS
  <2> QED BY <2>1, <2>2
<1>14. \A i \in 0 .. n : h[i] = r[i]
  <2>1. h[0] = r[0]
    BY <1>9, <1>13
  <2>2. \A i \in 1 .. n : h[i - 1] = r[i - 1] => h[i] = r[i]
    BY <1>9, <1>13
  <2>3. StepAlike(h, r, n)
    BY <2>1, <2>2 DEF StepAlike
  <2> QED BY <2>3, RecursionsAgree
<1>15. ReadEvents(f) = h[n]
  BY <1>1, <1>10 DEF ReadEvents
<1>16. Reading(r, f) /\ ReadEvents(f) = r[n] /\ \A i \in 0 .. n : r[i] \in Seq(WorkEvent)
  <2>1. Reading(r, f)
    BY <1>1, <1>9 DEF Reading
  <2>2. n \in 0 .. n
    OBVIOUS
  <2>3. ReadEvents(f) = r[n]
    BY <1>14, <1>15, <2>2
  <2>4. \A i \in 0 .. n : r[i] \in Seq(WorkEvent)
    BY <1>3, <1>7
  <2> QED BY <2>1, <2>3, <2>4
<1> QED BY <1>1, <1>16

\* A line more is one event more, unless it does not parse.
LEMMA ReadOfMore ==
  ASSUME NEW f \in Seq(Line), NEW e \in Line
  PROVE  /\ ReadEvents(f) \in Seq(WorkEvent)
         /\ ReadEvents(Append(f, e)) = IF e = Junk THEN ReadEvents(f) ELSE Append(ReadEvents(f), e)
<1>1. PICK n \in Nat : n = Len(f)
  OBVIOUS
<1>2. PICK m : m = Append(f, e)
  OBVIOUS
<1>3. m \in Seq(Line) /\ Len(m) = n + 1 /\ m[n + 1] = e /\ \A i \in 1 .. n : m[i] = f[i]
  BY <1>1, <1>2
<1>4. PICK r : Reading(r, f) /\ ReadEvents(f) = r[n] /\ \A i \in 0 .. n : r[i] \in Seq(WorkEvent)
  BY <1>1, ReadEventsReads
<1>5. PICK q : Reading(q, m) /\ ReadEvents(m) = q[n + 1]
  BY <1>3, ReadEventsReads
<1>6. \A i \in 0 .. n : r[i] = q[i]
  <2>1. r[0] = q[0]
    BY <1>4, <1>5 DEF Reading
  <2>2. ASSUME NEW i \in 1 .. n, r[i - 1] = q[i - 1] PROVE r[i] = q[i]
    <3>1. r[i] = IF f[i] = Junk THEN r[i - 1] ELSE Append(r[i - 1], f[i])
      BY <1>1, <1>4 DEF Reading
    <3>2. i \in 1 .. Len(m)
      BY <1>3
    <3>3. q[i] = IF m[i] = Junk THEN q[i - 1] ELSE Append(q[i - 1], m[i])
      BY <1>5, <3>2 DEF Reading
    <3> QED BY <1>3, <2>2, <3>1, <3>3
  <2>3. \A i \in 1 .. n : r[i - 1] = q[i - 1] => r[i] = q[i]
    BY <2>2
  <2>4. StepAlike(r, q, n)
    BY <2>1, <2>3 DEF StepAlike
  <2> QED BY <2>4, RecursionsAgree
<1>7. q[n + 1] = IF e = Junk THEN q[n] ELSE Append(q[n], e)
  <2>1. n + 1 \in 1 .. Len(m) /\ (n + 1) - 1 = n
    BY <1>3
  <2>2. q[n + 1] = IF m[n + 1] = Junk THEN q[(n + 1) - 1] ELSE Append(q[(n + 1) - 1], m[n + 1])
    BY <1>5, <2>1 DEF Reading
  <2> QED BY <1>3, <2>1, <2>2
<1>8. r[n] = q[n] /\ r[n] \in Seq(WorkEvent)
  BY <1>4, <1>6
<1> QED BY <1>2, <1>4, <1>5, <1>7, <1>8

LEMMA NoSealIsNotRead ==
  ASSUME NEW f \in Seq(Line)
  PROVE  ReadEvents(f) \in Seq(WorkEvent) /\ ReadEvents(f) # NoSeal
<1>1. ReadEvents(f) \in Seq(WorkEvent)
  BY ReadEventsReads
<1>2. PICK v : v = ReadEvents(f)
  OBVIOUS
<1>3. v \in Seq(WorkEvent)
  BY <1>1, <1>2
<1>4. v = <<Junk>> => v[1] \in WorkEvent /\ v[1] = Junk
  BY <1>3
<1> QED BY <1>2, <1>3, <1>4, EventsAreEvents DEF NoSeal

LEMMA PrefixTells ==
  ASSUME NEW u \in Seq(WorkEvent), NEW v \in Seq(WorkEvent)
  PROVE  /\ IsPrefix(u, u)
         /\ \A e \in WorkEvent : IsPrefix(u, v) => IsPrefix(u, Append(v, e))
<1>1. IsPrefix(u, u)
  BY DEF IsPrefix
<1>2. ASSUME NEW e \in WorkEvent, IsPrefix(u, v) PROVE IsPrefix(u, Append(v, e))
  <2>1. Len(u) <= Len(v) /\ SubSeq(u, 1, Len(u)) = SubSeq(v, 1, Len(u)) /\ Len(u) \in Nat /\ Len(v) \in Nat
    BY <1>2 DEF IsPrefix
  <2>2. PICK w : w = Append(v, e)
    OBVIOUS
  <2>3. w \in Seq(WorkEvent) /\ Len(w) = Len(v) + 1 /\ \A i \in 1 .. Len(v) : w[i] = v[i]
    BY <2>2
  <2>4. SubSeq(w, 1, Len(u)) = SubSeq(v, 1, Len(u))
    BY <2>1, <2>3
  <2>5. Len(u) <= Len(w)
    BY <2>1, <2>3
  <2> QED BY <2>1, <2>2, <2>4, <2>5 DEF IsPrefix
<1> QED BY <1>1, <1>2

-----------------------------------------------------------------------------
(* The seal.                                                               *)

\* What was sealed is what was read then, and is still read first.
SealFits ==
  seal # NoSeal => /\ seal \in Seq(WorkEvent)
                   /\ "edit" \notin cuts => IsPrefix(seal, ReadEvents(lines))

\* What a step that does not edit the file makes of what is read.
LEMMA ReadGrows ==
  ASSUME LedgerTypeOK, [LedgerNext]_ledgerVars, ~EditFile
  PROVE  /\ "edit" \in cuts' <=> "edit" \in cuts
         /\ \/ ReadEvents(lines') = ReadEvents(lines)
            \/ \E e \in WorkEvent : ReadEvents(lines') = Append(ReadEvents(lines), e)
<1>1. lines \in Seq(Line)
  BY DEF LedgerTypeOK, Line
<1>2. CASE Append1
  <2>1. cuts' = cuts
    BY <1>2 DEF Append1
  <2>2. Head(todo) \in WorkEvent /\ Head(todo) \in Line /\ Head(todo) # Junk
    <3>1. Head(todo) \in WorkEvent
      BY <1>2, AppendedTells
    <3> QED BY <3>1, EventsAreEvents DEF Line
  <2>3. lines' = lines \/ lines' = Append(lines, Head(todo))
    BY <1>2 DEF Append1
  <2>4. ReadEvents(Append(lines, Head(todo))) = Append(ReadEvents(lines), Head(todo))
    BY <1>1, <2>2, ReadOfMore
  <2> QED BY <2>1, <2>2, <2>3, <2>4
<1>3. CASE CrashInAppend
  <2>1. cuts' = cuts /\ (lines' = lines \/ lines' = Append(lines, Junk))
    BY <1>3 DEF CrashInAppend
  <2>2. ReadEvents(Append(lines, Junk)) = ReadEvents(lines)
    BY <1>1, ReadOfMore DEF Line
  <2> QED BY <2>1, <2>2
<1>4. CASE AppendThrows
  <2>1. lines' = lines /\ cuts' = cuts \cup {"append"}
    BY <1>4 DEF AppendThrows, fileVars
  <2> QED BY <2>1
<1>5. CASE \E s \in WSession : HandlerRecords(s)
  <2>1. lines' = lines /\ cuts' = cuts
    BY <1>5, HandlersTell
  <2> QED BY <2>1
<1>6. CASE SealLedger \/ ReadPage \/ (\E s \in WSession : ReadFirst(s)) \/ UNCHANGED ledgerVars
  <2>1. lines' = lines /\ cuts' = cuts
    BY <1>6, ReadersRead DEF Reads
  <2> QED BY <2>1
<1> QED BY <1>2, <1>3, <1>4, <1>5, <1>6 DEF LedgerNext, HandlerRecords

LEMMA SealsMove ==
  ASSUME [LedgerNext]_ledgerVars
  PROVE  /\ seal' = seal \/ SealLedger
         /\ EditFile => "edit" \in cuts'
<1>1. EditFile => "edit" \in cuts' /\ seal' = seal
  BY DEF EditFile, observers
<1>2. \A s \in WSession : HandlerRecords(s) => seal' = seal
  BY DEF HandlerRecords, LedgerStartSession, ReportVerification, LedgerProposeMemory, RecordPersisted,
         observers
<1>3. \A s \in WSession : ReadFirst(s) => seal' = seal
  BY DEF ReadFirst
<1>4. Append1 \/ AppendThrows \/ CrashInAppend \/ ReadPage \/ UNCHANGED ledgerVars => seal' = seal
  BY DEF Append1, AppendThrows, CrashInAppend, ReadPage, ledgerVars, observers
<1> QED BY <1>1, <1>2, <1>3, <1>4 DEF LedgerNext, HandlerRecords

LEMMA SealStays ==
  ASSUME LedgerTypeOK, SealFits, [LedgerNext]_ledgerVars
  PROVE  SealFits'
<1> SUFFICES ASSUME seal' # NoSeal
             PROVE  /\ seal' \in Seq(WorkEvent)
                    /\ "edit" \notin cuts' => IsPrefix(seal', ReadEvents(lines'))
  BY DEF SealFits
<1>1. lines \in Seq(Line)
  BY DEF LedgerTypeOK, Line
<1>2. ReadEvents(lines) \in Seq(WorkEvent)
  BY <1>1, NoSealIsNotRead
<1>3. CASE SealLedger
  <2>1. seal' = ReadEvents(lines) /\ lines' = lines
    <3>1. lines' = lines
      BY <1>3, ReadersRead DEF Reads
    <3> QED BY <1>3, <3>1 DEF SealLedger
  <2> QED BY <1>2, <2>1, PrefixTells
<1>4. CASE ~SealLedger
  <2>1. seal' = seal /\ seal \in Seq(WorkEvent)
    BY <1>4, SealsMove DEF SealFits
  <2>2. ASSUME "edit" \notin cuts' PROVE IsPrefix(seal, ReadEvents(lines'))
    <3>1. ~EditFile
      BY <2>2, SealsMove
    <3>2. "edit" \notin cuts
      BY <2>2, <3>1, ReadGrows
    <3>3. IsPrefix(seal, ReadEvents(lines))
      BY <2>1, <3>2 DEF SealFits
    <3>4. \/ ReadEvents(lines') = ReadEvents(lines)
          \/ \E e \in WorkEvent : ReadEvents(lines') = Append(ReadEvents(lines), e)
      BY <3>1, ReadGrows
    <3> QED BY <1>2, <2>1, <3>3, <3>4, PrefixTells
  <2> QED BY <2>1, <2>2
<1> QED BY <1>3, <1>4

-----------------------------------------------------------------------------
(* Pages.                                                                  *)

Has(t, e) == \E i \in DOMAIN t : t[i] = e

LEMMA HasTells ==
  ASSUME NEW S, NEW t \in Seq(S), NEW e, Has(t, e)
  PROVE  \E n \in 1 .. Len(t) : t[n] = e
BY DEF Has

LEMMA SortedTells ==
  ASSUME NEW S, NEW t \in Seq(S), Sorted(t)
  PROVE  \A i, j \in 1 .. Len(t) : i < j => t[i].id < t[j].id
BY DEF Sorted

\* A page goes on where what was got ends: k of T were got, or come before.
LEMMA PageTells ==
  ASSUME NEW S, \A e \in S : e.id \in Nat,
         NEW T \in Seq(S), Sorted(T), \A e \in S : Has(T, e),
         NEW got \in Seq(S), Sorted(got),
         NEW k \in 0 .. Len(T), got = <<>> => k = 0,
         got # <<>> => k > 0 /\ T[k] = got[Len(got)],
         NEW was \in SUBSET S,
         got # <<>> => \A e \in was : e.id <= got[Len(got)].id => Has(got, e),
         NEW m \in k .. Len(T)
  PROVE  LET u == got \o SubSeq(T, k + 1, m) IN
         /\ u \in Seq(S) /\ Sorted(u)
         /\ u # <<>> => \A e \in was : e.id <= u[Len(u)].id => Has(u, e)
         /\ m = Len(T) => \A e \in was : Has(u, e)
<1>1. PICK p : p = SubSeq(T, k + 1, m)
  OBVIOUS
<1>2. PICK u : u = got \o p
  OBVIOUS
<1>3. PICK g \in Nat : g = Len(got)
  OBVIOUS
<1>4. k \in Nat /\ m \in Nat /\ Len(T) \in Nat /\ k <= m /\ m <= Len(T) /\ m - k \in Nat
  OBVIOUS
<1>5. p \in Seq(S) /\ Len(p) = m - k /\ \A i \in 1 .. m - k : p[i] = T[k + i]
  BY <1>1, <1>4
<1>6. /\ u \in Seq(S) /\ Len(u) = g + (m - k)
      /\ \A i \in 1 .. g : u[i] = got[i]
      /\ \A i \in g + 1 .. g + (m - k) : u[i] = p[i - g] /\ i - g \in 1 .. m - k
  <2>1. PICK l \in Nat : l = m - k
    BY <1>4
  <2>2. Len(p) = l /\ Len(got) = g /\ p \in Seq(S)
    BY <1>3, <1>5, <2>1
  <2>3. u \in Seq(S) /\ Len(u) = g + l
    BY <1>2, <2>2, ConcatProperties
  <2>4. \A i \in 1 .. g : u[i] = got[i]
    BY <1>2, <2>2, ConcatProperties
  <2>5. ASSUME NEW i \in g + 1 .. g + l PROVE u[i] = p[i - g] /\ i - g \in 1 .. l
    <3>1. PICK j : j = i - g
      OBVIOUS
    <3>2. j \in 1 .. l /\ i = g + j
      BY <3>1
    <3>3. u[i] = p[j]
      <4>1. (got \o p)[Len(got) + j] = p[j]
        BY <2>2, <3>2, LastOfConcat
      <4> QED BY <1>2, <2>2, <3>2, <4>1
    <3> QED BY <3>1, <3>2, <3>3
  <2> QED BY <2>1, <2>3, <2>4, <2>5
<1>7. ASSUME NEW i \in g + 1 .. g + (m - k)
      PROVE  u[i] = T[k + (i - g)] /\ k + (i - g) \in k + 1 .. m
  BY <1>3, <1>4, <1>5, <1>6
<1>8. \A i, j \in 1 .. Len(T) : i < j => T[i].id < T[j].id
  BY SortedTells
<1>9. \A i, j \in 1 .. g : i < j => got[i].id < got[j].id
  BY <1>3, SortedTells
<1>10. \A i \in 1 .. Len(T) : T[i].id \in Nat
  OBVIOUS
<1>11. \A i \in 1 .. g : got[i].id \in Nat
  BY <1>3
<1>12. ASSUME g > 0 PROVE k \in 1 .. Len(T) /\ T[k] = got[g] /\ g \in 1 .. g
  BY <1>3, <1>12
<1>13. ASSUME NEW i \in 1 .. g, NEW j \in k + 1 .. m PROVE got[i].id < T[j].id
  <2>1. k \in 1 .. Len(T) /\ T[k] = got[g] /\ g \in 1 .. g
    BY <1>12
  <2>2. got[i].id <= got[g].id
    <3>1. i = g \/ i < g
      OBVIOUS
    <3> QED BY <1>9, <1>11, <2>1, <3>1
  <2>3. j \in 1 .. Len(T) /\ k < j
    BY <1>4
  <2>4. T[k].id < T[j].id
    BY <1>8, <2>1, <2>3
  <2>5. got[i].id \in Nat /\ T[k].id \in Nat /\ T[j].id \in Nat
    BY <1>10, <1>11, <2>1, <2>3
  <2> QED BY <2>1, <2>2, <2>4, <2>5
<1>14. ASSUME NEW i \in 1 .. g + (m - k), NEW j \in 1 .. g + (m - k), i < j
       PROVE  u[i].id < u[j].id
  <2>1. CASE j <= g
    <3>1. i \in 1 .. g /\ j \in 1 .. g
      BY <1>14, <2>1
    <3> QED BY <1>6, <1>9, <1>14, <3>1
  <2>2. CASE i <= g /\ ~(j <= g)
    <3>1. i \in 1 .. g /\ j \in g + 1 .. g + (m - k)
      BY <2>2
    <3>2. u[i] = got[i]
      BY <1>6, <3>1
    <3>3. PICK q : q = k + (j - g)
      OBVIOUS
    <3>4. u[j] = T[q] /\ q \in k + 1 .. m
      BY <1>7, <3>1, <3>3
    <3> QED BY <1>13, <3>1, <3>2, <3>4
  <2>3. CASE ~(i <= g)
    <3>1. i \in g + 1 .. g + (m - k) /\ j \in g + 1 .. g + (m - k)
      BY <1>14, <2>3
    <3>2. PICK q, r : q = k + (i - g) /\ r = k + (j - g)
      OBVIOUS
    <3>3. u[i] = T[q] /\ q \in k + 1 .. m
      BY <1>7, <3>1, <3>2
    <3>4. u[j] = T[r] /\ r \in k + 1 .. m
      BY <1>7, <3>1, <3>2
    <3>5. q < r /\ q \in 1 .. Len(T) /\ r \in 1 .. Len(T)
      BY <1>4, <1>14, <3>1, <3>2
    <3> QED BY <1>8, <3>3, <3>4, <3>5
  <2> QED BY <2>1, <2>2, <2>3
<1>15. Sorted(u)
  <2>1. DOMAIN u = 1 .. g + (m - k)
    BY <1>6
  <2> QED BY <1>14, <2>1 DEF Sorted
\* Of those that were there, all up to T[m] were got.
<1>16. ASSUME NEW e \in was, NEW n \in 1 .. m, T[n] = e PROVE Has(u, e)
  <2>1. CASE n <= k
    <3>1. g > 0
      <4>1. k # 0
        BY <1>4, <2>1
      <4> QED BY <1>3, <4>1
    <3>2. k \in 1 .. Len(T) /\ T[k] = got[g] /\ n \in 1 .. Len(T)
      BY <1>4, <1>12, <3>1
    <3>3. T[n].id <= T[k].id
      <4>1. n = k \/ n < k
        BY <1>4, <2>1
      <4>2. n = k => T[n].id <= T[k].id
        BY <1>10, <3>2
      <4>3. n < k => T[n].id < T[k].id
        BY <1>8, <3>2
      <4>4. T[n].id \in Nat /\ T[k].id \in Nat
        BY <1>10, <3>2
      <4> QED BY <4>1, <4>2, <4>3, <4>4
    <3>4. got # <<>> /\ Len(got) = g
      BY <1>3, <3>1
    <3>5. e.id <= got[Len(got)].id
      BY <1>16, <3>2, <3>3, <3>4
    <3>6. PICK i \in DOMAIN got : got[i] = e
      BY <3>4, <3>5 DEF Has
    <3>7. i \in 1 .. g /\ i \in DOMAIN u
      BY <1>3, <1>4, <1>6
    <3> QED BY <1>6, <3>6, <3>7 DEF Has
  <2>2. CASE ~(n <= k)
    <3>1. PICK i : i = g + (n - k)
      OBVIOUS
    <3>2. i \in g + 1 .. g + (m - k) /\ k + (i - g) = n /\ i \in 1 .. g + (m - k)
      BY <1>3, <1>4, <2>2, <3>1
    <3>3. u[i] = T[n]
      BY <1>7, <3>2
    <3>4. i \in DOMAIN u
      BY <1>6, <3>2
    <3> QED BY <1>16, <3>3, <3>4 DEF Has
  <2> QED BY <2>1, <2>2
<1>17. ASSUME u # <<>>, NEW e \in was, e.id <= u[Len(u)].id PROVE Has(u, e)
  <2>1. PICK n \in 1 .. Len(T) : T[n] = e
    BY HasTells
  <2>2. CASE n <= m
    <3>1. n \in 1 .. m
      BY <1>4, <2>2
    <3> QED BY <1>16, <2>1, <3>1
  <2>3. CASE ~(n <= m)
    <3>1. Len(u) \in 1 .. g + (m - k) /\ Len(u) = g + (m - k)
      BY <1>4, <1>6, <1>17
    <3>2. CASE m = k
      <4>1. g > 0 /\ Len(u) = g
        BY <1>4, <3>1, <3>2
      <4>2. u[Len(u)] = T[k] /\ k \in 1 .. Len(T) /\ k < n
        BY <1>4, <1>6, <1>12, <2>3, <3>2, <4>1
      <4>3. T[k].id < T[n].id /\ T[k].id \in Nat /\ T[n].id \in Nat
        BY <1>8, <1>10, <4>2
      <4> QED BY <1>17, <2>1, <4>2, <4>3
    <3>3. CASE m # k
      <4>1. Len(u) \in g + 1 .. g + (m - k) /\ k + (Len(u) - g) = m
        BY <1>4, <3>1, <3>3
      <4>2. u[Len(u)] = T[m] /\ m \in 1 .. Len(T) /\ m < n
        BY <1>4, <1>7, <2>3, <3>3, <4>1
      <4>3. T[m].id < T[n].id /\ T[m].id \in Nat /\ T[n].id \in Nat
        BY <1>8, <1>10, <4>2
      <4> QED BY <1>17, <2>1, <4>2, <4>3
    <3> QED BY <3>2, <3>3
  <2> QED BY <2>2, <2>3
<1>18. ASSUME m = Len(T), NEW e \in was PROVE Has(u, e)
  <2>1. PICK n \in 1 .. Len(T) : T[n] = e
    BY HasTells
  <2> QED BY <1>16, <1>18, <2>1
<1> QED BY <1>1, <1>2, <1>6, <1>15, <1>17, <1>18

-----------------------------------------------------------------------------
(* Readers.                                                                *)

\* A work event, unlike one about a control, has an id.
WorkIds ==
  /\ \A i \in Parsed(lines) : lines[i].kind \notin ControlKinds => lines[i].id \in Ids
  /\ \A k \in DOMAIN todo : todo[k].kind \notin ControlKinds => todo[k].id \in Ids

LEMMA WorkIdsStay ==
  ASSUME LedgerTypeOK, WorkIds, [LedgerNext]_ledgerVars
  PROVE  WorkIds'
<1>1. CASE Append1
  <2>1. /\ 1 \in DOMAIN todo
        /\ \A k \in DOMAIN todo' : k + 1 \in DOMAIN todo /\ todo'[k] = todo[k + 1]
        /\ torn => lines' = lines
        /\ ~torn => /\ Parsed(lines') = Parsed(lines) \cup {Len(lines) + 1}
                    /\ lines'[Len(lines) + 1] = todo[1]
                    /\ \A i \in Parsed(lines) : lines'[i] = lines[i]
    BY <1>1, AppendedTells
  <2> QED BY <2>1 DEF WorkIds
<1>2. CASE CrashInAppend
  BY <1>2, CrashTells DEF WorkIds
<1>3. CASE EditFile
  <2>1. todo' = todo /\ \A j \in Parsed(lines') : \E i \in Parsed(lines) : lines'[j] = lines[i]
    BY <1>3, EditTells DEF EditFile
  <2> QED BY <2>1 DEF WorkIds
<1>4. CASE AppendThrows
  <2>1. lines' = lines /\ DOMAIN todo' = {}
    BY <1>4 DEF AppendThrows, fileVars
  <2> QED BY <2>1 DEF WorkIds
<1>5. ASSUME NEW s \in WSession, HandlerRecords(s)
      PROVE  lines' = lines /\ \A k \in DOMAIN todo' :
                                 todo'[k].kind \notin ControlKinds => todo'[k].id \in Ids
  <2>1. lines' = lines
    BY <1>5, HandlersTell
  <2>2. ASSUME LedgerStartSession(s)
        PROVE  \A k \in DOMAIN todo' : todo'[k].kind \in ControlKinds
    <3>1. todo' = Declarations(s)
      BY <2>2 DEF LedgerStartSession, Declarations
    <3> QED BY <3>1, DeclaredTells DEF ControlKinds
  <2>3. ASSUME NEW c \in Control, NEW passed \in BOOLEAN, ReportVerification(s, c, passed)
        PROVE  \A k \in DOMAIN todo' : todo'[k].kind \in ControlKinds
    <3>1. PICK kind \in {"verified", "failed"} : kind = IF passed THEN "verified" ELSE "failed"
      OBVIOUS
    <3>2. PICK st : todo' = <<NewEvent(kind, NoId, s, NoId, c, st)>>
      BY <2>3, <3>1 DEF ReportVerification
    <3>3. DOMAIN todo' = {1} /\ todo'[1] = NewEvent(kind, NoId, s, NoId, c, st)
      BY <3>2
    <3> QED BY <3>3 DEF NewEvent, ControlKinds
  <2>4. ASSUME NEW m \in Memory, LedgerProposeMemory(s, m)
        PROVE  \A k \in DOMAIN todo' : todo'[k].id \in Ids
    <3>1. PICK ids \in Free(2) :
            todo' = <<NewEvent("candidate", ids[1], s, Indexed(s, m), m, "none"),
                      NewEvent("decision", ids[2], s, ids[1], m, "none")>>
      BY <2>4 DEF LedgerProposeMemory
    <3>2. ids[1] \in Ids /\ ids[2] \in Ids
      BY <3>1, FreeTells
    <3>3. /\ DOMAIN todo' = {1, 2}
          /\ todo'[1] = NewEvent("candidate", ids[1], s, Indexed(s, m), m, "none")
          /\ todo'[2] = NewEvent("decision", ids[2], s, ids[1], m, "none")
      BY <3>1
    <3> QED BY <3>2, <3>3 DEF NewEvent
  <2>5. ASSUME NEW m \in Memory, RecordPersisted(s, m)
        PROVE  \A k \in DOMAIN todo' : todo'[k].id \in Ids
    <3>1. PICK ids \in Free(1) :
            todo' = <<NewEvent("persisted", ids[1], s, Indexed(s, m), m, "none")>>
      BY <2>5 DEF RecordPersisted
    <3>2. ids[1] \in Ids
      BY <3>1, FreeTells
    <3>3. DOMAIN todo' = {1} /\ todo'[1] = NewEvent("persisted", ids[1], s, Indexed(s, m), m, "none")
      BY <3>1
    <3> QED BY <3>2, <3>3 DEF NewEvent
  <2> QED BY <1>5, <2>1, <2>2, <2>3, <2>4, <2>5 DEF HandlerRecords
<1>6. CASE SealLedger \/ ReadPage \/ (\E s \in WSession : ReadFirst(s)) \/ UNCHANGED ledgerVars
  <2>1. UNCHANGED <<lines, todo>>
    BY <1>6, ReadersRead DEF Reads
  <2> QED BY <2>1 DEF WorkIds
<1>7. ASSUME NEW s \in WSession, HandlerRecords(s) PROVE WorkIds'
  BY <1>5, <1>7 DEF WorkIds
<1> QED BY <1>1, <1>2, <1>3, <1>4, <1>6, <1>7 DEF LedgerNext, HandlerRecords

\* The timeline of a session has all its work events, in the order of their ids.
LEMMA TimelineTells ==
  ASSUME LedgerTypeOK, IdsFit, WorkIds, NEW s \in WSession,
         NEW S, S = SessionEvents(s), NEW T, T = Timeline(s)
  PROVE  /\ \A e \in S : e.id \in Nat /\ e \in WorkEvent
         /\ T \in Seq(S) /\ Sorted(T)
         /\ \A e \in S : Has(T, e)
<1>1. PICK P : P = Parsed(lines)
  OBVIOUS
<1>2. P \subseteq 1 .. Len(lines) /\ Len(lines) \in Nat /\ \A i \in P : lines[i] \in WorkEvent
  BY <1>1, ParsedTells
<1>3. IsFiniteSet(S)
  <2>1. IsFiniteSet(P)
    <3>1. PICK n \in Nat : n = Len(lines)
      BY <1>2
    <3>2. IsFiniteSet(1 .. n)
      BY FS_Interval
    <3> QED BY <1>2, <3>1, <3>2, FS_Subset
  <2>2. PICK W : W = {lines[i] : i \in P}
    OBVIOUS
  <2>3. PICK f : f = [i \in P |-> lines[i]]
    OBVIOUS
  <2>4. f \in Surjection(P, W)
    BY <2>2, <2>3 DEF Surjection
  <2>5. IsFiniteSet(W)
    BY <2>1, <2>4, FS_Surjection
  <2>6. S \subseteq W
    BY <1>1, <2>2 DEF SessionEvents, WorkEvents
  <2> QED BY <2>5, <2>6, FS_Subset
<1>4. \A e \in S : \E i \in P : lines[i] = e /\ e.id \in Ids
  BY <1>1 DEF SessionEvents, WorkEvents, WorkIds
<1>5. \A e \in S : e.id \in 0 .. MaxEvents /\ e.id \in Nat /\ e \in WorkEvent
  <2>1. \A i \in Ids : i \in 0 .. MaxEvents /\ i \in Nat
    BY LedgerAssumption DEF Ids
  <2> QED BY <1>2, <1>4, <2>1
<1>6. ASSUME NEW d \in S, NEW e \in S, d.id = e.id PROVE d = e
  <2>1. PICK i \in P : lines[i] = d /\ d.id \in Ids
    BY <1>4
  <2>2. PICK j \in P : lines[j] = e
    BY <1>4
  <2>3. d.id # NoId
    BY <2>1 DEF Ids, NoId
  <2>4. i = j
    BY <1>1, <1>6, <2>1, <2>2, <2>3 DEF IdsFit
  <2> QED BY <2>1, <2>2, <2>4
<1>7. PICK rank : rank = [e \in S |-> e.id]
  OBVIOUS
<1>8. rank \in [S -> 0 .. MaxEvents] /\ \A d, e \in S : rank[d] = rank[e] => d = e
  BY <1>5, <1>6, <1>7
<1>9. PICK c \in Nat : c = Cardinality(S)
  BY <1>3, FS_CardinalityType
<1>10. MaxEvents \in Nat
  BY LedgerAssumption
<1>11. \E t \in [1 .. c -> S] : ByRank(t, rank)
  BY <1>3, <1>8, <1>9, <1>10, ListByRankExists
<1>12. ASSUME NEW t \in [1 .. c -> S] PROVE ByRank(t, rank) <=> Sorted(t)
  <2>1. \A i \in DOMAIN t : rank[t[i]] = t[i].id
    BY <1>7
  <2> QED BY <2>1 DEF ByRank, Sorted
<1>13. \E t \in [1 .. c -> S] : Sorted(t)
  BY <1>11, <1>12
<1>14. T = CHOOSE t \in [1 .. c -> S] : Sorted(t)
  BY <1>9 DEF Timeline
<1>15. T \in [1 .. c -> S] /\ Sorted(T)
  BY <1>13, <1>14
<1>16. ByRank(T, rank)
  BY <1>12, <1>15
<1>17. \A e \in S : \E i \in 1 .. c : T[i] = e
  BY <1>3, <1>8, <1>9, <1>10, <1>15, <1>16, ListByRankIsFull
<1>18. T \in Seq(S) /\ DOMAIN T = 1 .. c
  BY <1>15
<1> QED BY <1>5, <1>15, <1>17, <1>18 DEF Has

\* What a reader was given, in order, is all of what there was up to its cursor.
ReaderFits ==
  reader # Idle =>
    /\ seal = NoSeal
    /\ reader \in [stage : {"reading", "done"}, session : WSession,
                   there : SUBSET WorkEvent, got : Seq(WorkEvent)]
    /\ reader.got \in Seq(SessionEvents(reader.session)) /\ Sorted(reader.got)
    /\ reader.there \in SUBSET SessionEvents(reader.session)
    /\ reader.got # <<>> =>
         \A e \in reader.there : e.id <= reader.got[Len(reader.got)].id => Has(reader.got, e)
    /\ reader.stage = "done" => \A e \in reader.there : Has(reader.got, e)

LEMMA PageStartTells ==
  ASSUME NEW s, NEW S, NEW T \in Seq(S), T = Timeline(s), Sorted(T), \A e \in S : Has(T, e) /\ e.id \in Nat,
         NEW got \in Seq(S), got = reader.got
  PROVE  \E k \in 0 .. Len(T) :
           /\ PageStart(s) = k + 1
           /\ got = <<>> => k = 0
           /\ got # <<>> => k > 0 /\ T[k] = got[Len(got)]
<1>1. CASE got = <<>>
  BY <1>1 DEF PageStart
<1>2. CASE got # <<>>
  <2>1. PICK e \in S : e = got[Len(got)]
    BY <1>2
  <2>2. PICK I : I = {i \in 1 .. Len(T) : T[i] = e}
    OBVIOUS
  <2>3. PICK k \in 1 .. Len(T) : T[k] = e
    BY DEF Has
  <2>4. \A i \in I : i = k
    <3>1. ASSUME NEW i \in I PROVE i = k
      <4>1. i \in 1 .. Len(T) /\ T[i] = T[k] /\ T[k].id \in Nat
        BY <2>2, <2>3
      <4>2. ~(i < k) /\ ~(k < i)
        BY <4>1 DEF Sorted
      <4> QED BY <4>1, <4>2
    <3> QED BY <3>1
  <2>5. I = {k}
    BY <2>2, <2>3, <2>4
  <2>6. Min({k}) = k
    BY DEF Min
  <2>7. SelectInSeq(T, LAMBDA d : d = e) = k
    <3>1. I # {}
      BY <2>5
    <3> QED BY <2>2, <2>5, <2>6, <3>1 DEF SelectInSeq
  <2>8. PageStart(s) = 1 + k
    BY <1>2, <2>1, <2>7 DEF PageStart
  <2> QED BY <1>2, <2>1, <2>3, <2>8
<1> QED BY <1>1, <1>2

LEMMA SessionEventsGrow ==
  ASSUME LedgerTypeOK, [LedgerNext]_ledgerVars, ~EditFile, NEW s \in WSession
  PROVE  /\ SessionEvents(s) \subseteq SessionEvents(s)'
         /\ lines' = lines => SessionEvents(s)' = SessionEvents(s)
<1>1. WorkEvents \subseteq WorkEvents'
  <2>1. CASE Append1
    <3>1. \A i \in Parsed(lines) : i \in Parsed(lines') /\ lines'[i] = lines[i]
      BY <2>1, AppendedTells
    <3> QED BY <3>1 DEF WorkEvents
  <2>2. CASE CrashInAppend
    BY <2>2, CrashTells DEF WorkEvents
  <2>3. CASE lines' = lines
    BY <2>3 DEF WorkEvents
  <2>4. CASE AppendThrows
    BY <2>3, <2>4 DEF AppendThrows, fileVars
  <2>5. CASE \E t \in WSession : HandlerRecords(t)
    BY <2>3, <2>5, HandlersTell
  <2>6. CASE SealLedger \/ ReadPage \/ (\E t \in WSession : ReadFirst(t)) \/ UNCHANGED ledgerVars
    BY <2>3, <2>6, ReadersRead DEF Reads
  <2> QED BY <2>1, <2>2, <2>4, <2>5, <2>6 DEF LedgerNext, HandlerRecords
<1>2. lines' = lines => WorkEvents' = WorkEvents
  BY DEF WorkEvents
<1> QED BY <1>1, <1>2 DEF SessionEvents

LEMMA ReadersMove ==
  ASSUME [LedgerNext]_ledgerVars
  PROVE  \/ reader' = reader /\ seal' = seal
         \/ reader = Idle /\ reader' = reader
         \/ ReadPage \/ \E s \in WSession : ReadFirst(s)
<1>1. SealLedger => reader = Idle /\ reader' = reader
  BY DEF SealLedger
<1>2. \A s \in WSession : HandlerRecords(s) => reader' = reader /\ seal' = seal
  BY DEF HandlerRecords, LedgerStartSession, ReportVerification, LedgerProposeMemory, RecordPersisted,
         observers
<1>3. Append1 \/ AppendThrows \/ CrashInAppend \/ EditFile \/ UNCHANGED ledgerVars
        => reader' = reader /\ seal' = seal
  BY DEF Append1, AppendThrows, CrashInAppend, EditFile, ledgerVars, observers
<1> QED BY <1>1, <1>2, <1>3 DEF LedgerNext, HandlerRecords

LEMMA FirstPageFits ==
  ASSUME LedgerTypeOK, NEW s \in WSession, ReadFirst(s)
  PROVE  ReaderFits'
<1>1. lines' = lines
  BY ReadersRead DEF Reads
<1>2. SessionEvents(s)' = SessionEvents(s) /\ SessionEvents(s) \in SUBSET WorkEvent
  <2>1. WorkEvents' = WorkEvents /\ WorkEvents \subseteq WorkEvent
    BY <1>1, ParsedTells DEF WorkEvents
  <2> QED BY <2>1 DEF SessionEvents
<1>3. PICK S : S = SessionEvents(s)
  OBVIOUS
<1>4. PICK e : e = <<>>
  OBVIOUS
<1>5. e \in Seq(S) /\ e \in Seq(WorkEvent) /\ Sorted(e)
  BY <1>4 DEF Sorted
<1>6. /\ seal' = NoSeal
      /\ reader' = [stage |-> "reading", session |-> s, there |-> S, got |-> e]
  BY <1>3, <1>4 DEF ReadFirst
<1>7. /\ reader'.stage = "reading" /\ reader'.session = s /\ reader'.there = S /\ reader'.got = e
      /\ reader' \in [stage : {"reading", "done"}, session : WSession,
                      there : SUBSET WorkEvent, got : Seq(WorkEvent)]
  BY <1>2, <1>3, <1>5, <1>6
<1>8. SessionEvents(reader.session)' = S
  BY <1>2, <1>3, <1>7 DEF SessionEvents
<1> QED BY <1>4, <1>5, <1>6, <1>7, <1>8 DEF ReaderFits

\* Where a page starts, in the terms of PageTells.
StartsAfter(S, T, got, was, k) ==
  /\ \A e \in S : e.id \in Nat
  /\ T \in Seq(S) /\ Sorted(T) /\ \A e \in S : Has(T, e)
  /\ got \in Seq(S) /\ Sorted(got)
  /\ k \in 0 .. Len(T) /\ (got = <<>> => k = 0)
  /\ got # <<>> => k > 0 /\ T[k] = got[Len(got)]
  /\ was \in SUBSET S
  /\ got # <<>> => \A e \in was : e.id <= got[Len(got)].id => Has(got, e)

LEMMA PageFollows ==
  ASSUME NEW S, NEW T, NEW got, NEW was, NEW k, StartsAfter(S, T, got, was, k),
         NEW m \in k .. Len(T), NEW u, u = got \o SubSeq(T, k + 1, m)
  PROVE  /\ u \in Seq(S) /\ Sorted(u)
         /\ u # <<>> => \A e \in was : e.id <= u[Len(u)].id => Has(u, e)
         /\ m = Len(T) => \A e \in was : Has(u, e)
BY PageTells DEF StartsAfter

LEMMA NextPageFits ==
  ASSUME LedgerTypeOK, IdsFit, WorkIds, ReaderFits, ReadPage
  PROVE  ReaderFits'
<1>1. reader # Idle /\ reader.stage = "reading" /\ seal' = seal
  BY DEF ReadPage, Idle
<1>2. PICK s : s = reader.session
  OBVIOUS
<1>3. PICK S, T : S = SessionEvents(s) /\ T = Timeline(s)
  OBVIOUS
<1>4. PICK got, was : got = reader.got /\ was = reader.there
  OBVIOUS
<1>5. /\ seal = NoSeal /\ s \in WSession
      /\ reader \in [stage : {"reading", "done"}, session : WSession,
                     there : SUBSET WorkEvent, got : Seq(WorkEvent)]
      /\ got \in Seq(S) /\ Sorted(got) /\ was \in SUBSET S
      /\ got # <<>> => \A e \in was : e.id <= got[Len(got)].id => Has(got, e)
  BY <1>1, <1>2, <1>3, <1>4 DEF ReaderFits
<1>6. /\ \A e \in S : e.id \in Nat /\ e \in WorkEvent
      /\ T \in Seq(S) /\ Sorted(T)
      /\ \A e \in S : Has(T, e)
  BY <1>3, <1>5, TimelineTells
<1>7. PICK k \in 0 .. Len(T) :
         /\ PageStart(s) = k + 1
         /\ got = <<>> => k = 0
         /\ got # <<>> => k > 0 /\ T[k] = got[Len(got)]
  BY <1>3, <1>4, <1>5, <1>6, PageStartTells
<1>8. PICK from : from = PageStart(s)
  OBVIOUS
<1>9. PICK m : m = IF from + PageLimit - 1 < Len(T) THEN from + PageLimit - 1 ELSE Len(T)
  OBVIOUS
<1>10. PICK page : page = SubSeq(T, from, m)
  OBVIOUS
<1>11. PICK st : st = CASE got # <<>> /\ from = 1 -> "invalid_cursor"
                        [] from + Len(page) - 1 < Len(T) /\ page # <<>> -> "reading"
                        [] OTHER -> "done"
  OBVIOUS
<1>12. reader' = [reader EXCEPT !.stage = st, !.got = got \o page]
  BY <1>2, <1>3, <1>4, <1>8, <1>9, <1>10, <1>11 DEF ReadPage
<1>13. PageLimit \in Nat /\ PageLimit >= 1 /\ Len(T) \in Nat /\ k \in Nat /\ k <= Len(T)
  BY <1>6, LedgerAssumption
<1>14. from = k + 1 /\ m \in k .. Len(T) /\ (m = k => m = Len(T))
  BY <1>7, <1>8, <1>9, <1>13
<1>15. page = SubSeq(T, k + 1, m) /\ Len(page) = m - k
  BY <1>6, <1>10, <1>13, <1>14
<1>16. st \in {"reading", "done"} /\ (st = "done" => m = Len(T))
  <2>1. ~(got # <<>> /\ from = 1)
    BY <1>7, <1>13, <1>14
  <2>2. CASE from + Len(page) - 1 < Len(T) /\ page # <<>>
    BY <1>11, <2>1, <2>2
  <2>3. CASE ~(from + Len(page) - 1 < Len(T)) \/ page = <<>>
    <3>1. st = "done"
      BY <1>11, <2>1, <2>3
    <3>2. page = <<>> => m - k = 0
      BY <1>15
    <3>3. m = Len(T)
      BY <1>13, <1>14, <1>15, <2>3, <3>2
    <3> QED BY <3>1, <3>3
  <2> QED BY <2>2, <2>3
<1>17. PICK u : u = got \o page
  OBVIOUS
<1>18. /\ u \in Seq(S) /\ Sorted(u)
       /\ u # <<>> => \A e \in was : e.id <= u[Len(u)].id => Has(u, e)
       /\ m = Len(T) => \A e \in was : Has(u, e)
  <2>1. StartsAfter(S, T, got, was, k)
    BY <1>5, <1>6, <1>7 DEF StartsAfter
  <2>2. u = got \o SubSeq(T, k + 1, m)
    BY <1>15, <1>17
  <2> QED BY <1>14, <2>1, <2>2, PageFollows
<1>19. u \in Seq(WorkEvent)
  <2>1. S \subseteq WorkEvent
    BY <1>6
  <2> QED BY <1>18, <2>1
<1>20. /\ reader'.stage = st /\ reader'.session = s /\ reader'.there = was /\ reader'.got = u
       /\ reader' \in [stage : {"reading", "done"}, session : WSession,
                       there : SUBSET WorkEvent, got : Seq(WorkEvent)]
  BY <1>2, <1>4, <1>5, <1>12, <1>16, <1>17, <1>19
<1>21. SessionEvents(reader.session)' = S
  <2>1. lines' = lines
    BY ReadersRead DEF Reads
  <2>2. WorkEvents' = WorkEvents
    BY <2>1 DEF WorkEvents
  <2> QED BY <1>3, <1>20, <2>2 DEF SessionEvents
<1> QED BY <1>1, <1>5, <1>16, <1>18, <1>20, <1>21 DEF ReaderFits

LEMMA ReaderStays ==
  ASSUME LedgerTypeOK, IdsFit, WorkIds, ReaderFits, [LedgerNext]_ledgerVars
  PROVE  ReaderFits'
<1>1. CASE ReadPage
  BY <1>1, NextPageFits
<1>2. CASE \E s \in WSession : ReadFirst(s)
  BY <1>2, FirstPageFits
<1>3. CASE reader' = reader /\ reader = Idle
  BY <1>3 DEF ReaderFits
<1>4. CASE reader' = reader /\ seal' = seal /\ reader # Idle
  <2>1. PICK s : s = reader.session
    OBVIOUS
  <2>2. /\ seal = NoSeal /\ s \in WSession
        /\ reader.got \in Seq(SessionEvents(s)) /\ reader.there \in SUBSET SessionEvents(s)
    BY <1>4, <2>1 DEF ReaderFits
  <2>3. ~EditFile
    BY <2>2 DEF EditFile
  <2>4. PICK S, U : S = SessionEvents(s) /\ U = SessionEvents(s)'
    OBVIOUS
  <2>5. S \subseteq U
    BY <2>2, <2>3, <2>4, SessionEventsGrow
  <2>6. PICK got : got = reader.got
    OBVIOUS
  <2>7. got \in Seq(S)
    BY <2>2, <2>4, <2>6
  <2>8. got \in Seq(U) /\ reader.there \in SUBSET U
    BY <2>2, <2>4, <2>5, <2>7
  <2>9. SessionEvents(reader.session)' = U
    BY <1>4, <2>1, <2>4 DEF SessionEvents
  <2>10. reader'.got \in Seq(SessionEvents(reader.session)')
         /\ reader'.there \in SUBSET SessionEvents(reader.session)'
    BY <1>4, <2>6, <2>8, <2>9
  <2> QED BY <1>4, <2>10 DEF ReaderFits
<1> QED BY <1>1, <1>2, <1>3, <1>4, ReadersMove

-----------------------------------------------------------------------------
(* The theorems.                                                           *)

LEMMA LedgerInductive == LedgerSpec => []LedgerInvariant
<1>1. LedgerInit => LedgerInvariant
  <2> SUFFICES ASSUME LedgerInit PROVE LedgerInvariant
    OBVIOUS
  <2>1. LedgerTypeOK
    <3>1. <<>> \in Seq(WorkEvent \cup {Junk}) /\ <<>> \in Seq(WorkEvent)
      OBVIOUS
    <3>2. /\ live \in [WSession -> {"new", "active", "finished"}]
          /\ verification \in [WSession \X Control -> {"none", "passed", "failed"}]
      BY DEF LedgerInit
    <3> QED BY <3>1, <3>2 DEF LedgerInit, LedgerTypeOK
  <2>2. Parsed(lines) = {} /\ WorkEvents = {} /\ DOMAIN todo = {} /\ index = {}
    BY DEF LedgerInit, Parsed, WorkEvents
  <2>3. FragmentFits
    <3>1. acked = {} /\ acked \ WorkEvents = {} /\ torn = FALSE /\ crashes = 0
      BY DEF LedgerInit
    <3> QED BY <3>1, FS_EmptySet DEF FragmentFits
  <2>4. IdsFit /\ ParentsFit
    BY <2>2 DEF IdsFit, ParentsFit
  <2>5. ControlsFit
    BY DEF LedgerInit, ControlsFit
  <2> QED BY <2>1, <2>3, <2>4, <2>5 DEF LedgerInvariant
<1>2. LedgerInvariant /\ [LedgerNext]_ledgerVars => LedgerInvariant'
  BY TypesStay, FragmentStays, IdsStay, ParentsStay, ControlsStay DEF LedgerInvariant
<1> QED BY <1>1, <1>2, PTL DEF LedgerSpec

ObserversInvariant == SealFits /\ WorkIds /\ ReaderFits

LEMMA ObserversInductive == LedgerSpec => []ObserversInvariant
<1>1. LedgerInit => ObserversInvariant
  <2> SUFFICES ASSUME LedgerInit PROVE ObserversInvariant
    OBVIOUS
  <2>1. Parsed(lines) = {} /\ DOMAIN todo = {} /\ seal = NoSeal /\ reader = Idle
    BY DEF LedgerInit, Parsed
  <2> QED BY <2>1 DEF ObserversInvariant, SealFits, WorkIds, ReaderFits
<1>2. LedgerInvariant /\ ObserversInvariant /\ [LedgerNext]_ledgerVars => ObserversInvariant'
  BY SealStays, WorkIdsStay, ReaderStays DEF LedgerInvariant, ObserversInvariant
<1> QED BY <1>1, <1>2, LedgerInductive, PTL DEF LedgerSpec

(* The records of the ledger, and what is still to be appended, keep their *)
(* shape: the events of recorder.ts and the states of runtimeControls.ts.  *)
THEOREM LedgerTypes == LedgerSpec => []LedgerTypeOK
<1>1. LedgerInvariant => LedgerTypeOK
  BY DEF LedgerInvariant
<1> QED BY <1>1, LedgerInductive, PTL

(* However many fragments crashes leave in events.jsonl, the reader of     *)
(* eventStream.ts returns every event whose append returned, but for one   *)
(* per crash: the one that was glued to the fragment.                      *)
THEOREM CrashesCostOneEach == LedgerSpec => []CrashesCostOneEvent
<1>1. LedgerInvariant => CrashesCostOneEvent
  <2> SUFFICES ASSUME LedgerInvariant, "edit" \notin cuts
               PROVE  Cardinality(acked \ WorkEvents) <= crashes
    BY DEF CrashesCostOneEvent
  <2>1. IsFiniteSet(acked) /\ Cardinality(acked \ WorkEvents) + (IF torn THEN 1 ELSE 0) <= crashes
    BY DEF LedgerInvariant, FragmentFits
  <2>2. Cardinality(acked \ WorkEvents) \in Nat
    BY <2>1, FS_Subset, FS_CardinalityType
  <2> QED BY <2>1, <2>2 DEF LedgerInvariant, LedgerTypeOK
<1> QED BY <1>1, LedgerInductive, PTL

(* The parent of a work event, which the recorder takes from its index, is *)
(* an earlier event of the same session; where it is in nobody's file, an  *)
(* append had thrown, a crash had cut one or somebody had edited the file. *)
THEOREM ParentsKeepToTheirSession == LedgerSpec => []ParentsStayInTheirSession
<1>1. ASSUME LedgerInvariant
      PROVE  ParentsStayInTheirSession
  <2> SUFFICES ASSUME NEW s \in WSession, NEW edge \in ParentEdges(s)
               PROVE  \/ \E i, j \in DOMAIN lines :
                           /\ i < j /\ lines[i] # Junk /\ lines[j] # Junk
                           /\ lines[i].id = edge[1] /\ lines[j].id = edge[2]
                           /\ lines[i].session = s /\ lines[j].session = s
                      \/ /\ cuts # {} \/ crashes > 0
                         /\ \A e \in WorkEvents : e.id # edge[1]
    BY DEF ParentsStayInTheirSession
  <2>1. PICK x \in SessionEvents(s) : x.parent # NoId /\ edge = <<x.parent, x.id>>
    BY DEF ParentEdges
  <2>2. PICK j \in Parsed(lines) : lines[j] = x /\ x.session = s
    BY <2>1 DEF SessionEvents, WorkEvents
  <2>3. edge[1] = lines[j].parent /\ edge[2] = lines[j].id
    BY <2>1, <2>2
  <2>4. Recorded(lines, lines[j].parent, s, j) \/ lines[j].parent \in LostIds
    BY <1>1, <2>1, <2>2 DEF LedgerInvariant, ParentsFit
  <2>5. CASE Recorded(lines, lines[j].parent, s, j)
    BY <2>2, <2>3, <2>5 DEF Recorded, Parsed
  <2>6. CASE lines[j].parent \in LostIds
    BY <2>3, <2>6 DEF LostIds, WorkEvents
  <2> QED BY <2>4, <2>5, <2>6
<1>2. LedgerInvariant => ParentsStayInTheirSession
  BY <1>1
<1> QED BY <1>2, LedgerInductive, PTL

(* The dashboard derives from the file alone, for each control of a live   *)
(* session, the state that computeControlStatus gives it in the runtime,   *)
(* and calls no session compliant in which a control that had to be        *)
(* verified was not: between any two operations, if no event was lost.     *)
THEOREM DashboardsAgree == LedgerSpec => []DashboardAgrees
<1>1. ASSUME LedgerInvariant
      PROVE  DashboardAgrees
  <2> SUFFICES ASSUME cuts = {}, crashes = 0, todo = <<>>, NEW s \in WSession, live[s] = "active"
               PROVE  /\ \A c \in Control :
                           ControlEvent(lines, s, c).state = ControlStatus(c, verification[<<s, c>>])
                      /\ Compliant(lines, s) =>
                           \A c \in Control :
                             Declared[c].requires /\ Declared[c].intended = "DISABLED"
                               => verification[<<s, c>>] = "passed"
    BY DEF DashboardAgrees
  <2>1. ASSUME NEW c \in Control
        PROVE  /\ ControlEvent(lines, s, c).state = ControlStatus(c, verification[<<s, c>>])
               /\ ControlEvent(lines, s, c) # Junk
    <3>1. ToldLast(s, c)
      BY <1>1 DEF LedgerInvariant, ControlsFit
    <3>2. PICK i \in ControlLines(lines, s, c) :
            Told(lines[i], s, c) /\ \A j \in ControlLines(lines, s, c) : j <= i
      BY <3>1 DEF ToldLast
    <3>3. /\ \A j \in ControlLines(lines, s, c) : j \in Nat
          /\ lines[i] # Junk
      BY <1>1, <3>2 DEF LedgerInvariant, LedgerTypeOK, ControlLines, Parsed
    <3>4. Max(ControlLines(lines, s, c)) = i
      BY <3>2, <3>3 DEF Max
    <3>5. ControlEvent(lines, s, c) = lines[i]
      BY <3>2, <3>4 DEF ControlEvent
    <3> QED BY <3>2, <3>3, <3>5 DEF Told
  <2>2. ASSUME Compliant(lines, s), NEW c \in Control,
               Declared[c].requires, Declared[c].intended = "DISABLED"
        PROVE  verification[<<s, c>>] = "passed"
    <3>1. verification[<<s, c>>] \in {"none", "passed", "failed"}
      BY <1>1 DEF LedgerInvariant, LedgerTypeOK
    <3>2. ControlStatus(c, verification[<<s, c>>]) \in {"DISABLED", "NOT_APPLICABLE", "UNREACHABLE"}
      BY <2>1, <2>2 DEF Compliant
    <3> QED BY <2>2, <3>1, <3>2, StatusTells
  <2> QED BY <2>1, <2>2
<1>2. LedgerInvariant => DashboardAgrees
  BY <1>1
<1> QED BY <1>2, LedgerInductive, PTL

(* A ledger that verifies (ledgerIntegrity.ts, verifyLedger) holds exactly *)
(* the events that were sealed, whatever was appended, cut by crashes or   *)
(* removed since; and until somebody removes a line, what is read of the   *)
(* file begins with what was sealed.                                       *)
THEOREM SealsTellTheTruth == LedgerSpec => []VerifiedIsAsSealed
<1>1. ObserversInvariant => VerifiedIsAsSealed
  BY DEF ObserversInvariant, SealFits, VerifiedIsAsSealed, Verifies
<1> QED BY <1>1, ObserversInductive, PTL

(* A client that pages through a session's timeline while it grows, each   *)
(* page after the cursor of the last (sessionWorkGraph.ts,                 *)
(* buildSessionTimelinePage), gets no event twice, loses no cursor, and    *)
(* at the end has every event that was there when it began.                *)
THEOREM PagesMissNothing == LedgerSpec => []PagesAreComplete
<1>1. ASSUME ReaderFits, reader # Idle
      PROVE  /\ \A i, j \in DOMAIN reader.got : i # j => reader.got[i] # reader.got[j]
             /\ reader.stage = "done" => reader.there \subseteq Range(reader.got)
             /\ reader.stage # "invalid_cursor"
  <2>1. PICK got : got = reader.got
    OBVIOUS
  <2>2. got \in Seq(SessionEvents(reader.session)) /\ got \in Seq(WorkEvent) /\ Sorted(got)
    BY <1>1, <2>1 DEF ReaderFits
  <2>3. \A i \in DOMAIN got : i \in Nat /\ got[i] \in WorkEvent
    BY <2>2
  <2>4. ASSUME NEW i \in DOMAIN got, NEW j \in DOMAIN got, i # j PROVE got[i] # got[j]
    <3>1. i < j \/ j < i
      BY <2>3, <2>4
    <3>2. got[i].id < got[j].id \/ got[j].id < got[i].id
      BY <2>2, <3>1 DEF Sorted
    <3>3. got[i].id \in Nat /\ got[j].id \in Nat
      <4>1. \A e \in WorkEvent : e.id \in Nat
        BY EventsAreEvents DEF Ids, NoId
      <4> QED BY <2>3, <4>1
    <3> QED BY <3>2, <3>3
  <2>5. reader.stage \in {"reading", "done"}
    BY <1>1 DEF ReaderFits
  <2>6. ASSUME reader.stage = "done", NEW e \in reader.there PROVE e \in Range(got)
    <3>1. PICK i \in DOMAIN got : got[i] = e
      BY <1>1, <2>1, <2>6 DEF ReaderFits, Has
    <3> QED BY <3>1 DEF Range
  <2> QED BY <2>1, <2>4, <2>5, <2>6
<1>2. ObserversInvariant => PagesAreComplete
  BY <1>1 DEF ObserversInvariant, PagesAreComplete
<1> QED BY <1>2, ObserversInductive, PTL
=============================================================================
