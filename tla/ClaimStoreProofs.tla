-------------------------- MODULE ClaimStoreProofs --------------------------
(***************************************************************************)
(* Single use of the claim store, for any number of calls and ids, any     *)
(* lifetimes and either interleaving discipline.                           *)
(***************************************************************************)
EXTENDS ClaimStore, TLAPS

\* Nobody removes a file on the strength of a record that had not expired.
UnlinksExpired == \A c \in Call : pc[c] = "unlink" => TokenExpired(target[c])

\* While the token lives, the file is there and belongs to the call that made it.
HoldsFile ==
  \A c \in alive : ~TokenExpired(target[c])
                     => /\ file[target[c]] # Nobody
                        /\ file[target[c]].owner = c

\* No id has two calls that created its file while it lived.
OneCreator == \A c, d \in alive : target[c] = target[d] => c = d

IInv == TypeOK /\ UnlinksExpired /\ HoldsFile /\ OneCreator

(* The variables of the store stay in their domains.                       *)
LEMMA TypeStep == TypeOK /\ [Next]_vars => TypeOK'
<1> SUFFICES ASSUME TypeOK, [Next]_vars PROVE TypeOK'
  OBVIOUS
<1> USE StoreAssumption DEF TypeOK, Files, FileStates, Phases, Outcomes, Goto
<1>1. ASSUME NEW c \in Call, Begin(c) PROVE TypeOK'
  BY <1>1 DEF Begin
<1>2. ASSUME NEW c \in Call, Step(c) PROVE TypeOK'
  <2>1. CASE VerifyPermit(c) BY <2>1 DEF VerifyPermit
  <2>2. CASE VerifyApproval(c) BY <2>2 DEF VerifyApproval
  <2>3. CASE Check(c) BY <2>3 DEF Check
  <2>4. CASE OpenExclusive(c) BY <2>4 DEF OpenExclusive
  <2>5. CASE FileExists(c) BY <2>5 DEF FileExists
  <2>6. CASE Reread(c) BY <2>6 DEF Reread
  <2>7. CASE Scan(c) BY <2>7 DEF Scan
  <2>8. CASE Unlink(c) BY <2>8 DEF Unlink
  <2>9. CASE WriteRecord(c) BY <2>9 DEF WriteRecord
  <2> QED BY <1>2, <2>1, <2>2, <2>3, <2>4, <2>5, <2>6, <2>7, <2>8, <2>9 DEF Step
<1>3. ASSUME NEW c \in Call, IoError(c) PROVE TypeOK'
  BY <1>3 DEF IoError
<1>4. ASSUME NEW c \in Call, Crash(c) PROVE TypeOK'
  BY <1>4 DEF Crash
<1>5. CASE Tick BY <1>5 DEF Tick
<1>6. CASE UNCHANGED vars BY <1>6 DEF vars
<1> QED BY <1>1, <1>2, <1>3, <1>4, <1>5, <1>6 DEF Next, Quiescent

\* A step that changes no file, no target and no clock, adds nobody to alive
\* and sends nobody to "unlink" keeps the invariant.
LEMMA QuietStep ==
  ASSUME IInv, TypeOK', now' = now, UNCHANGED <<file, target, alive>>,
         \A c \in Call : pc'[c] = "unlink" => pc[c] = "unlink" \/ TokenExpired(target[c])
  PROVE  IInv'
BY DEF IInv, UnlinksExpired, HoldsFile, OneCreator, TokenExpired

(* The inductive invariant is kept by every system call of every process.  *)
LEMMA InvStep == IInv /\ [Next]_vars => IInv'
<1> SUFFICES ASSUME IInv, [Next]_vars PROVE IInv'
  OBVIOUS
<1>0. TypeOK /\ TypeOK' BY TypeStep DEF IInv
<1>a. now \in Int /\ now' \in Int /\ \A c \in Call : target[c] \in Id /\ Expiry[target[c]] \in Int
  BY <1>0, StoreAssumption DEF TypeOK
<1>1. ASSUME NEW c \in Call, Begin(c) PROVE IInv'
  <2>1. \A d \in Call : pc'[d] = "unlink" => pc[d] = "unlink"
    BY <1>0, <1>1, StoreAssumption DEF Begin, Goto, TypeOK
  <2> QED BY <1>0, <1>1, <2>1, QuietStep DEF Begin
<1>2. ASSUME NEW c \in Call, Step(c) PROVE IInv'
  <2>1. CASE VerifyPermit(c)
    BY <1>0, <2>1, QuietStep DEF VerifyPermit, Goto, TypeOK
  <2>2. CASE VerifyApproval(c)
    BY <1>0, <2>2, QuietStep DEF VerifyApproval, Goto, TypeOK
  <2>3. CASE Check(c)
    BY <1>0, <2>3, QuietStep DEF Check, Goto, TypeOK
  <2>4. CASE OpenExclusive(c)
    <3>1. UnlinksExpired'
      BY <1>0, <2>4 DEF OpenExclusive, Goto, TypeOK, IInv, UnlinksExpired, TokenExpired
    <3>2. HoldsFile'
      BY <1>0, <2>4, StoreAssumption
         DEF OpenExclusive, TypeOK, IInv, HoldsFile, TokenExpired, FileStates
    <3>3. OneCreator'
      BY <1>0, <2>4 DEF OpenExclusive, TypeOK, IInv, HoldsFile, OneCreator, TokenExpired
    <3> QED BY <1>0, <3>1, <3>2, <3>3 DEF IInv
  <2>5. CASE FileExists(c)
    BY <1>0, <2>5, QuietStep DEF FileExists, Goto, TypeOK
  <2>6. CASE Reread(c)
    BY <1>0, <2>6, QuietStep DEF Reread, Goto, TypeOK, Expired, TokenExpired
  <2>7. CASE Scan(c)
    BY <1>0, <2>7, QuietStep DEF Scan, Goto, TypeOK, Expired, TokenExpired
  <2>8. CASE Unlink(c)
    <3>1. UnlinksExpired'
      BY <1>0, <2>8 DEF Unlink, Goto, TypeOK, IInv, UnlinksExpired, TokenExpired
    <3>2. HoldsFile'
      BY <1>0, <2>8 DEF Unlink, TypeOK, IInv, HoldsFile, UnlinksExpired, TokenExpired
    <3>3. OneCreator'
      BY <2>8 DEF Unlink, IInv, OneCreator
    <3> QED BY <1>0, <3>1, <3>2, <3>3 DEF IInv
  <2>9. CASE WriteRecord(c)
    <3>1. UnlinksExpired'
      BY <1>0, <2>9 DEF WriteRecord, Goto, TypeOK, IInv, UnlinksExpired, TokenExpired
    <3>2. HoldsFile'
      BY <1>0, <2>9, StoreAssumption
         DEF WriteRecord, TypeOK, IInv, HoldsFile, TokenExpired, FileStates
    <3>3. OneCreator'
      BY <2>9 DEF WriteRecord, IInv, OneCreator
    <3> QED BY <1>0, <3>1, <3>2, <3>3 DEF IInv
  <2> QED BY <1>2, <2>1, <2>2, <2>3, <2>4, <2>5, <2>6, <2>7, <2>8, <2>9 DEF Step
<1>3. ASSUME NEW c \in Call, IoError(c) PROVE IInv'
  BY <1>0, <1>3, QuietStep DEF IoError, Goto, TypeOK
<1>4. ASSUME NEW c \in Call, Crash(c) PROVE IInv'
  BY <1>0, <1>4, QuietStep DEF Crash, Goto, TypeOK
<1>5. CASE Tick
  BY <1>0, <1>5, <1>a DEF Tick, TypeOK, IInv, UnlinksExpired, HoldsFile, OneCreator, TokenExpired
<1>6. CASE UNCHANGED vars
  BY <1>0, <1>6, QuietStep DEF vars
<1> QED BY <1>1, <1>2, <1>3, <1>4, <1>5, <1>6 DEF Next, Quiescent

(* The inductive invariant holds in every reachable state.                 *)
LEMMA StoreInvariant == Spec => []IInv
<1>1. Init => IInv
  BY StoreAssumption DEF Init, IInv, TypeOK, Files, UnlinksExpired, HoldsFile, OneCreator
<1> QED BY <1>1, InvStep, PTL DEF Spec

(* Type correctness of the claim store.                                    *)
THEOREM StoreTypeOK == Spec => []TypeOK
<1>1. IInv => TypeOK BY DEF IInv
<1> QED BY <1>1, StoreInvariant, PTL

(* At most one call wins an id while its token is alive                    *)
(* (atomicStateStore.ts write(), the exclusive create).                    *)
THEOREM SingleUseWhileAlive == Spec => []OneWinnerWhileAlive
<1>1. IInv => OneWinnerWhileAlive
  BY DEF IInv, OneCreator, OneWinnerWhileAlive, Winners
<1> QED BY <1>1, StoreInvariant, PTL

(* No claim file made by a live claim leaves before its token expired.     *)
THEOREM LiveFilesStay == Spec => NeverReclaimedWhileAlive
<1> DEFINE Stays == \A i \in Id : file[i] # Nobody /\ ~TokenExpired(i)
                      => file'[i] # Nobody /\ file'[i].owner = file[i].owner
<1>1. ASSUME IInv, [Next]_vars PROVE [Stays]_vars
  <2>0. TypeOK BY <1>1 DEF IInv
  <2>1. ASSUME NEW c \in Call, Step(c) PROVE Stays
    <3>1. CASE OpenExclusive(c) BY <2>0, <3>1 DEF OpenExclusive, TypeOK
    <3>2. CASE Unlink(c)
      BY <1>1, <2>0, <3>2 DEF Unlink, TypeOK, IInv, UnlinksExpired
    <3>3. CASE WriteRecord(c)
      BY <2>0, <3>3, StoreAssumption DEF WriteRecord, TypeOK
    <3>4. CASE UNCHANGED file BY <3>4
    <3> QED BY <2>1, <3>1, <3>2, <3>3, <3>4
            DEF Step, VerifyPermit, VerifyApproval, Check, FileExists, Reread, Scan
  <2>2. CASE UNCHANGED file BY <2>2
  <2> QED BY <1>1, <2>1, <2>2 DEF Next, Begin, IoError, Crash, Tick, Quiescent, vars
<1> QED BY <1>1, StoreInvariant, PTL DEF Spec, NeverReclaimedWhileAlive

-----------------------------------------------------------------------------
(* The abstract state that ImplementsSingleUse reads off the store.        *)
HolderOf(i) == IF \E c \in alive : target[c] = i
               THEN CHOOSE c \in alive : target[c] = i ELSE Nobody
Told == {c \in alive : pc[c] = "granted"}
Lapsed == {i \in Id : TokenExpired(i)}

\* A step that leaves clock, targets, creators and grants alone is a stutter.
LEMMA AbstractStutter ==
  ASSUME UNCHANGED <<now, target, alive>>, Told' = Told
  PROVE  UNCHANGED Promise!vars
BY DEF Promise!vars, Told, TokenExpired

\* Nothing but a write grants.
LEMMA ToldByWrite ==
  ASSUME TypeOK, NEW c \in Call, NEW phase, phase # "granted",
         pc[c] # "granted", Goto(c, phase), UNCHANGED alive
  PROVE  Told' = Told
<1>1. \A d \in Call : pc'[d] = "granted" <=> pc[d] = "granted"
  BY DEF TypeOK, Goto
<1> QED BY <1>1 DEF Told, TypeOK

\* The first call to create a file of a living id takes the id.
LEMMA OpenTakes ==
  ASSUME IInv, NEW c \in Call, OpenExclusive(c)
  PROVE  [Promise!Next]_(Promise!vars)
<1>0. TypeOK BY DEF IInv
<1>1. UNCHANGED <<now, target>> /\ pc[c] = "open" BY DEF OpenExclusive
<1>2. CASE TokenExpired(target[c])
  <2>1. UNCHANGED alive BY <1>2 DEF OpenExclusive
  <2>2. Goto(c, "write") BY DEF OpenExclusive
  <2>3. Told' = Told BY <1>0, <1>1, <2>1, <2>2, ToldByWrite
  <2> QED BY <1>1, <2>1, <2>3, AbstractStutter
<1>3. CASE ~TokenExpired(target[c])
  <2> DEFINE i == target[c]
  <2>1. alive' = alive \cup {c} BY <1>3 DEF OpenExclusive
  <2>2. i \in Id BY <1>0 DEF TypeOK
  <2>3. \A d \in alive : target[d] # i
    BY <1>3 DEF IInv, HoldsFile, OpenExclusive
  <2>4. HolderOf(i) = Nobody BY <2>3 DEF HolderOf
  <2>5. HolderOf(i)' = c
    <3>1. c \in alive' /\ target'[c] = i BY <1>1, <2>1
    <3>2. \A d \in alive' : target'[d] = i => d = c BY <1>1, <2>1, <2>3
    <3> QED BY <3>1, <3>2, <1>1 DEF HolderOf
  <2>6. \A j \in Id : j # i => HolderOf(j)' = HolderOf(j)
    <3> SUFFICES ASSUME NEW j \in Id, j # i PROVE HolderOf(j)' = HolderOf(j)
      OBVIOUS
    <3>1. \A d : d \in alive' /\ target'[d] = j <=> d \in alive /\ target[d] = j
      BY <1>1, <2>1
    <3> QED BY <3>1 DEF HolderOf
  <2>7. [k \in Id |-> HolderOf(k)'] = [[k \in Id |-> HolderOf(k)] EXCEPT ![i] = c]
    <3>1. \A k \in Id : HolderOf(k)' = IF k = i THEN c ELSE HolderOf(k)
      <4> SUFFICES ASSUME NEW k \in Id
                   PROVE  HolderOf(k)' = IF k = i THEN c ELSE HolderOf(k)
        OBVIOUS
      <4>1. CASE k = i BY <1>1, <2>5, <4>1 DEF HolderOf
      <4>2. CASE k # i BY <2>6, <4>2
      <4> QED BY <4>1, <4>2
    <3> QED BY <2>2, <3>1 DEF HolderOf
  <2>8. Told' = Told
    <3>1. \A d \in Call : pc'[d] = "granted" <=> pc[d] = "granted"
      BY <1>0, <1>1 DEF OpenExclusive, Goto, TypeOK
    <3>2. pc'[c] # "granted" BY <1>0 DEF OpenExclusive, Goto, TypeOK
    <3> QED BY <1>0, <2>1, <3>1, <3>2 DEF Told, TypeOK
  <2>9. i \notin Lapsed /\ Lapsed' = Lapsed
    BY <1>1, <1>3 DEF Lapsed, TokenExpired
  <2>10. Promise!Take(c, i)
    BY <2>2, <2>4, <2>7, <2>8, <2>9 DEF Promise!Take, HolderOf, Told, Lapsed
  <2>11. \E d \in Call, j \in Id : Promise!Take(d, j) \/ Promise!Report(d, j)
    BY <2>2, <2>10 DEF Promise!Take
  <2> QED BY <2>11 DEF Promise!Next
<1> QED BY <1>2, <1>3

\* A write by the holder reports its grant; any other write reports nothing.
LEMMA WriteReports ==
  ASSUME IInv, NEW c \in Call, WriteRecord(c)
  PROVE  [Promise!Next]_(Promise!vars)
<1>0. TypeOK BY DEF IInv
<1>1. UNCHANGED <<now, target, alive>> /\ Goto(c, "granted") BY DEF WriteRecord
<1>2. \A d \in Call : pc'[d] = "granted" <=> d = c \/ pc[d] = "granted"
  BY <1>0, <1>1 DEF Goto, TypeOK
<1>3. CASE c \in alive
  <2>1. Told' = Told \cup {c} BY <1>0, <1>1, <1>2, <1>3 DEF Told, TypeOK
  <2>2. HolderOf(target[c]) = c BY <1>3 DEF HolderOf, IInv, OneCreator
  <2>3. [k \in Id |-> HolderOf(k)'] = [k \in Id |-> HolderOf(k)]
    BY <1>1 DEF HolderOf
  <2>4. Lapsed' = Lapsed BY <1>1 DEF Lapsed, TokenExpired
  <2>5. target[c] \in Id BY <1>0 DEF TypeOK
  <2>6. Promise!Report(c, target[c])
    BY <2>1, <2>2, <2>3, <2>4, <2>5 DEF Promise!Report, HolderOf, Told, Lapsed
  <2>7. \E d \in Call, j \in Id : Promise!Take(d, j) \/ Promise!Report(d, j)
    BY <2>5, <2>6 DEF Promise!Report
  <2> QED BY <2>7 DEF Promise!Next
<1>4. CASE c \notin alive
  <2>1. Told' = Told BY <1>0, <1>1, <1>2, <1>4 DEF Told, TypeOK
  <2> QED BY <1>1, <2>1, AbstractStutter
<1> QED BY <1>3, <1>4

\* A tick ends lifetimes and nothing else.
LEMMA TickLapses ==
  ASSUME IInv, Tick
  PROVE  [Promise!Next]_(Promise!vars)
<1>0. TypeOK BY DEF IInv
<1>1. UNCHANGED <<target, alive, pc>> BY DEF Tick
<1>2. Lapsed' = Lapsed \cup Lapsed'
  BY <1>0, StoreAssumption DEF Tick, Lapsed, TokenExpired, TypeOK
<1>3. Lapsed' \in SUBSET Id BY DEF Lapsed
<1>4. Promise!Lapse(Lapsed')
  BY <1>1, <1>2 DEF Promise!Lapse, Lapsed
<1> QED BY <1>3, <1>4 DEF Promise!Next

(* The file-level store implements SingleUse: every step of it is a step   *)
(* of the promise or a stutter (atomicStateStore.ts as a whole).           *)
THEOREM StoreImplementsSingleUse == Spec => ImplementsSingleUse
<1>1. Init => Promise!Init
  BY StoreAssumption DEF Init, Promise!Init, TokenExpired
<1>2. ASSUME IInv, [Next]_vars PROVE [Promise!Next]_(Promise!vars)
  <2>0. TypeOK BY <1>2 DEF IInv
  <2>1. ASSUME NEW c \in Call, NEW phase, phase # "granted", pc[c] # "granted",
               Goto(c, phase), UNCHANGED <<now, target, alive>>
        PROVE  UNCHANGED Promise!vars
    BY <2>0, <2>1, ToldByWrite, AbstractStutter
  <2>2. ASSUME NEW c \in Call, Begin(c) PROVE UNCHANGED Promise!vars
    <3>1. op[c] \in Ops BY <2>0 DEF TypeOK
    <3> QED BY <2>1, <2>2, <3>1, StoreAssumption DEF Begin
  <2>3. ASSUME NEW c \in Call, Step(c) PROVE [Promise!Next]_(Promise!vars)
    <3>1. CASE OpenExclusive(c) BY <1>2, <3>1, OpenTakes
    <3>2. CASE WriteRecord(c) BY <1>2, <3>2, WriteReports
    <3>3. CASE VerifyPermit(c) BY <2>1, <3>3 DEF VerifyPermit
    <3>4. CASE VerifyApproval(c) BY <2>1, <3>4 DEF VerifyApproval
    <3>5. CASE Check(c) BY <2>1, <3>5 DEF Check
    <3>6. CASE FileExists(c) BY <2>1, <3>6 DEF FileExists
    <3>7. CASE Reread(c) BY <2>1, <3>7 DEF Reread
    <3>8. CASE Scan(c) BY <2>1, <3>8 DEF Scan
    <3>9. CASE Unlink(c) BY <2>1, <3>9 DEF Unlink
    <3> QED BY <2>3, <3>1, <3>2, <3>3, <3>4, <3>5, <3>6, <3>7, <3>8, <3>9 DEF Step
  <2>4. ASSUME NEW c \in Call, IoError(c) PROVE UNCHANGED Promise!vars
    BY <2>1, <2>4 DEF IoError
  <2>5. ASSUME NEW c \in Call, Crash(c) PROVE UNCHANGED Promise!vars
    BY <2>1, <2>5 DEF Crash, InProgress, Phases
  <2>6. CASE Tick BY <1>2, <2>6, TickLapses
  <2>7. CASE UNCHANGED vars
    <3>1. UNCHANGED <<now, target, alive>> /\ Told' = Told BY <2>7 DEF vars, Told
    <3> QED BY <3>1, AbstractStutter
  <2> QED BY <1>2, <2>2, <2>3, <2>4, <2>5, <2>6, <2>7 DEF Next, Quiescent
<1> QED BY <1>1, <1>2, StoreInvariant, PTL DEF Spec, ImplementsSingleUse, Promise!Spec
=============================================================================
