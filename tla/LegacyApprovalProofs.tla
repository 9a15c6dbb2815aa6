------------------------ MODULE LegacyApprovalProofs ------------------------
(***************************************************************************)
(* Proofs about the approval tokens, for any number of calls, ids,         *)
(* contexts and any lifetime.  Two processes at once, or a crash between   *)
(* truncation and write, break the promises of the gate, as the runs       *)
(* show; the theorems say that nothing else does.                          *)
(***************************************************************************)
EXTENDS LegacyApproval, TLAPS

\* The calls of one process do not interleave.
OneAtATime == \A k, l \in Call : InProgress(k) /\ InProgress(l) => k = l

\* What a call works on, at the step where it is.
CallsAreFormed ==
  \A k \in Call :
    /\ pc[k] \in {"check", "verify"} => args[k] \in Redemptions
    /\ pc[k] \in {"consume", "truncate", "fill"} =>
         args[k] \in Redemptions \cup Revocations /\ args[k].op \in {"redeem", "revoke"}
    /\ pc[k] = "redeemed" => args[k] \in Redemptions /\ args[k].op = "redeem"
    /\ pc[k] = "revoked" => args[k] \in Revocations
    /\ pc[k] # "new" /\ args[k] \in Redemptions => args[k].id = args[k].token.id
    /\ pc[k] \in {"consume", "truncate", "fill", "redeemed"} /\ args[k].op = "redeem" =>
         args[k].token \in issued

IdsAreUnique == \A t, u \in issued : t.id = u.id => t = u

\* A file that does not parse is not written over: a call that writes found none, and
\* the file it has truncated stays empty until it fills it.
WritersFoundAFile ==
  \A k \in Call : /\ pc[k] = "truncate" => file # Garbled
                  /\ pc[k] = "fill" => file = {} /\ truncated

SerialInv == TypeOK /\ OneAtATime /\ CallsAreFormed /\ IdsAreUnique /\ WritersFoundAFile
-----------------------------------------------------------------------------
LEMMA GarbledIsRecorded ==
  ASSUME file = Garbled, NEW id
  PROVE  Recorded(id)
BY DEF Garbled, Recorded, ReadState, ActiveRecord

LEMMA InitiallySerial == Init => SerialInv
<1> SUFFICES ASSUME Init PROVE SerialInv
  OBVIOUS
<1>1. TypeOK
  <2>1. now \in 0 .. MaxTime
    BY LegacyAssumption DEF Init
  <2>2. /\ pc \in [Call -> Phases \cup Outcomes \cup {"new"}]
        /\ args \in [Call -> Redemptions \cup Revocations \cup {None}]
        /\ draft \in [Call -> SUBSET Records]
    BY DEF Init
  <2> QED BY <2>1, <2>2 DEF Init, TypeOK
<1>2. OneAtATime /\ CallsAreFormed /\ IdsAreUnique /\ WritersFoundAFile
  BY DEF Init, OneAtATime, CallsAreFormed, IdsAreUnique, WritersFoundAFile, InProgress, Phases
<1> QED BY <1>1, <1>2 DEF SerialInv

LEMMA IssueSerial ==
  ASSUME SerialInv, NEW id \in TokenId, NEW c \in Context, Issue(id, c)
  PROVE  SerialInv'
<1>1. TypeOK'
  BY LegacyAssumption DEF SerialInv, TypeOK, Issue, Tokens
<1>2. OneAtATime' /\ WritersFoundAFile'
  BY DEF SerialInv, OneAtATime, WritersFoundAFile, Issue, InProgress
<1>3. CallsAreFormed'
  BY DEF SerialInv, CallsAreFormed, Issue
<1>4. IdsAreUnique'
  BY DEF SerialInv, IdsAreUnique, Issue
<1> QED BY <1>1, <1>2, <1>3, <1>4 DEF SerialInv

LEMMA BeginSerial ==
  ASSUME SingleProcess, SerialInv, NEW k \in Call, BeginRedeem(k) \/ BeginRevoke(k)
  PROVE  SerialInv'
<1>1. PICK phase \in {"check", "consume"}, a \in Redemptions \cup Revocations :
        /\ Begin(k, phase, a)
        /\ phase = "check" => a \in Redemptions /\ a.id = a.token.id
        /\ phase = "consume" => a \in Revocations /\ a.op = "revoke"
  <2>1. CASE BeginRedeem(k)
    <3>1. PICK t \in Altered, c \in Context, op \in {"redeem", "validate"} :
            Begin(k, "check", [op |-> op, id |-> t.id, token |-> t, context |-> c,
                               settled |-> Settled])
      BY <2>1 DEF BeginRedeem
    <3>2. t \in Tokens
      BY DEF Altered, SerialInv, TypeOK, Tokens
    <3>3. Settled \in SUBSET TokenId
      <4>1. ASSUME NEW l \in Call, pc[l] \in {"redeemed", "revoked"}
            PROVE  args[l].id \in TokenId
        BY <4>1 DEF SerialInv, CallsAreFormed, Redemptions, Revocations
      <4> QED BY <4>1 DEF Settled
    <3>4. [op |-> op, id |-> t.id, token |-> t, context |-> c, settled |-> Settled] \in Redemptions
      BY <3>2, <3>3 DEF Redemptions, Tokens
    <3> QED BY <3>1, <3>4
  <2>2. CASE BeginRevoke(k)
    BY <2>2 DEF BeginRevoke, Revocations
  <2> QED BY <2>1, <2>2
<1>2. \A l \in Call : ~InProgress(l)
  BY <1>1 DEF Begin
<1>3. TypeOK'
  BY <1>1 DEF SerialInv, TypeOK, Begin, Goto, Phases
<1>4. OneAtATime'
  BY <1>1, <1>2 DEF SerialInv, TypeOK, OneAtATime, Begin, Goto, InProgress
<1>5. CallsAreFormed'
  BY <1>1 DEF SerialInv, TypeOK, CallsAreFormed, Begin, Goto, Redemptions, Revocations
<1>6. IdsAreUnique' /\ WritersFoundAFile'
  BY <1>1 DEF SerialInv, TypeOK, IdsAreUnique, WritersFoundAFile, Begin, Goto
<1> QED BY <1>3, <1>4, <1>5, <1>6 DEF SerialInv

LEMMA GateSerial ==
  ASSUME SerialInv, NEW k \in Call, CheckConsumed(k) \/ Verify(k) \/ WriteNothing(k)
  PROVE  SerialInv'
<1>1. PICK phase \in {"refused", "verify", "valid", "consume", "redeemed"} : Goto(k, phase)
  BY DEF CheckConsumed, Verify, WriteNothing, SerialInv, CallsAreFormed, Redemptions
<1>2. InProgress(k) /\ UNCHANGED <<now, issued, file, truncated, args, draft>>
  BY DEF InProgress, Phases, CheckConsumed, Verify, WriteNothing
<1>3. /\ pc[k] = "check" => phase \in {"refused", "verify"}
      /\ pc[k] = "verify" => /\ phase \in {"refused", "valid", "consume"}
                             /\ phase = "consume" => args[k].op = "redeem" /\ args[k].token \in issued
      /\ pc[k] = "consume" => /\ phase \in {"refused", "redeemed"}
                              /\ phase = "redeemed" => args[k].op = "redeem"
      /\ pc[k] \in {"check", "verify", "consume"}
  <2>1. CASE CheckConsumed(k)
    BY <1>1, <2>1 DEF CheckConsumed, Goto, SerialInv, TypeOK
  <2>2. CASE Verify(k)
    BY <1>1, <2>2 DEF Verify, Goto, SerialInv, TypeOK, CallsAreFormed, Redemptions, Genuine
  <2>3. CASE WriteNothing(k)
    BY <1>1, <2>3 DEF WriteNothing, Goto, SerialInv, TypeOK
  <2> QED BY <2>1, <2>2, <2>3
<1>4. TypeOK'
  BY <1>1, <1>2 DEF SerialInv, TypeOK, Goto, Phases, Outcomes
<1>5. OneAtATime'
  BY <1>1, <1>2 DEF SerialInv, TypeOK, OneAtATime, Goto, InProgress
<1>6. CallsAreFormed'
  BY <1>1, <1>2, <1>3 DEF SerialInv, TypeOK, CallsAreFormed, Goto, Redemptions, Revocations
<1>7. IdsAreUnique' /\ WritersFoundAFile'
  BY <1>1, <1>2 DEF SerialInv, TypeOK, IdsAreUnique, WritersFoundAFile, Goto
<1> QED BY <1>4, <1>5, <1>6, <1>7 DEF SerialInv

LEMMA WriteSerial ==
  ASSUME SerialInv, NEW k \in Call, WriteRecord(k)
  PROVE  SerialInv'
<1>1. /\ pc[k] = "consume" /\ Goto(k, "truncate") /\ file # Garbled
      /\ UNCHANGED <<now, issued, file, truncated, args>>
  BY GarbledIsRecorded DEF WriteRecord
<1>2. RecordOf(args[k]) \in Records
  BY <1>1 DEF SerialInv, CallsAreFormed, Redemptions, Revocations, Tokens, Records, RecordOf
<1>3. TypeOK'
  <2>1. draft' \in [Call -> SUBSET Records]
    BY <1>2 DEF WriteRecord, SerialInv, TypeOK, ReadState
  <2> QED BY <1>1, <2>1 DEF SerialInv, TypeOK, Goto, Phases
<1>4. OneAtATime'
  BY <1>1 DEF SerialInv, TypeOK, OneAtATime, Goto, InProgress, Phases
<1>5. CallsAreFormed'
  BY <1>1 DEF SerialInv, TypeOK, CallsAreFormed, Goto
<1>6. IdsAreUnique' /\ WritersFoundAFile'
  BY <1>1 DEF SerialInv, TypeOK, IdsAreUnique, WritersFoundAFile, Goto
<1> QED BY <1>3, <1>4, <1>5, <1>6 DEF SerialInv

LEMMA FileSerial ==
  ASSUME SerialInv, NEW k \in Call, FileStep(k)
  PROVE  SerialInv'
<1>1. PICK phase \in {"fill", "redeemed", "revoked", "dead"} : Goto(k, phase)
  BY DEF FileStep, TruncateFile, FillFile, FillHalf, Crash
<1>2. InProgress(k) /\ UNCHANGED <<now, issued, args>>
  BY DEF InProgress, Phases, FileStep, TruncateFile, FillFile, FillHalf, Crash
<1>3. /\ phase = "fill" => pc[k] = "truncate" /\ file' = {} /\ truncated'
      /\ phase = "redeemed" => pc[k] = "fill" /\ args[k].op = "redeem"
      /\ phase = "revoked" => pc[k] = "fill" /\ args[k].op # "redeem"
  BY <1>1 DEF FileStep, TruncateFile, FillFile, FillHalf, Crash, Goto, SerialInv, TypeOK
<1>4. \A l \in Call \ {k} : pc[l] \notin Phases
  BY <1>2 DEF SerialInv, OneAtATime, InProgress
<1>5. TypeOK'
  <2>1. Garbled \in SUBSET Records
    BY LegacyAssumption DEF Garbled, Records
  <2>2. file' \in SUBSET Records /\ draft' \in [Call -> SUBSET Records] /\ truncated' \in BOOLEAN
    BY <2>1 DEF FileStep, TruncateFile, FillFile, FillHalf, Crash, SerialInv, TypeOK
  <2> QED BY <1>1, <1>2, <2>2 DEF SerialInv, TypeOK, Goto, Phases, Outcomes
<1>6. OneAtATime'
  BY <1>1, <1>4 DEF SerialInv, TypeOK, OneAtATime, Goto, InProgress
<1>7. CallsAreFormed'
  <2>1. pc[k] \in {"check", "verify", "consume", "truncate", "fill"}
    BY <1>2 DEF InProgress, Phases
  <2>2. /\ phase = "redeemed" => args[k] \in Redemptions
        /\ phase = "revoked" => args[k] \in Revocations
    BY <1>3 DEF SerialInv, CallsAreFormed, Redemptions, Revocations
  <2>3. phase \in {"fill", "redeemed"} /\ args[k].op = "redeem" => args[k].token \in issued
    BY <1>3 DEF SerialInv, CallsAreFormed
  <2> QED BY <1>1, <1>2, <1>3, <2>1, <2>2, <2>3 DEF SerialInv, TypeOK, CallsAreFormed, Goto
<1>8. IdsAreUnique'
  BY <1>2 DEF SerialInv, IdsAreUnique
<1>9. WritersFoundAFile'
  BY <1>1, <1>3, <1>4 DEF SerialInv, TypeOK, WritersFoundAFile, Goto, Phases
<1> QED BY <1>5, <1>6, <1>7, <1>8, <1>9 DEF SerialInv

LEMMA NextSerial ==
  ASSUME SingleProcess, SerialInv, [Next]_vars
  PROVE  SerialInv'
<1>1. ASSUME NEW k \in Call, CallStep(k) PROVE SerialInv'
  BY <1>1, BeginSerial, GateSerial, WriteSerial DEF CallStep
<1>2. CASE Tick
  BY <1>2, LegacyAssumption DEF Tick, SerialInv, TypeOK, OneAtATime, CallsAreFormed, IdsAreUnique,
    WritersFoundAFile, InProgress
<1>3. CASE Quiescent \/ UNCHANGED vars
  BY <1>3 DEF Quiescent, vars, SerialInv, TypeOK, OneAtATime, CallsAreFormed, IdsAreUnique,
    WritersFoundAFile, InProgress
<1> QED BY <1>1, <1>2, <1>3, IssueSerial, FileSerial DEF Next
-----------------------------------------------------------------------------
(* What has been settled.                                                  *)

Settles(k) == pc[k] \in {"redeemed", "revoked"}
Expired(a) == a.op = "redeem" /\ a.token.expires < now

\* The records say of a what lasts as long as it matters.
Keeps(records, a) ==
  \E r \in records : /\ r.id \in {a.id, "*"}
                     /\ r.expires = None \/ (a.op = "redeem" /\ r.expires = a.token.expires)

\* What was settled is in the file, or in the draft that is about to replace it, until its
\* token has expired.
SettledIsKept ==
  \A k \in Call : Settles(k) =>
    \/ Expired(args[k])
    \/ /\ (\A l \in Call : pc[l] # "fill") => Keeps(file, args[k])
       /\ \A l \in Call : pc[l] \in {"truncate", "fill"} => Keeps(draft[l], args[k])

WrittenIsKept ==
  \A l \in Call : pc[l] \in {"truncate", "fill"} => Expired(args[l]) \/ Keeps(draft[l], args[l])

\* A token that passed the check of the file has no record, and one that passed the check of
\* its signature and expiry was settled by nobody.
AcceptedIsUnrecorded ==
  \A l \in Call : pc[l] \in {"verify", "consume"} /\ args[l].op \in {"redeem", "validate"} =>
                    ~Recorded(args[l].id)
AcceptedIsNew ==
  \A l \in Call : pc[l] \in {"consume", "truncate", "fill"} /\ args[l].op = "redeem" =>
                    \A k \in Call : Settles(k) => args[k].id # args[l].id

EarlierIsSettled ==
  \A l \in Call : pc[l] # "new" /\ args[l] \in Redemptions => args[l].settled \subseteq Settled

SettledInv == /\ SerialInv /\ SettledIsKept /\ WrittenIsKept /\ AcceptedIsUnrecorded /\ AcceptedIsNew
              /\ EarlierIsSettled /\ RedeemedOnce /\ SettledStaysSettled

\* A record that keeps what was settled answers for its id.
LEMMA KeptIsRecorded ==
  ASSUME SerialInv, NEW k \in Call, Settles(k), ~Expired(args[k]), Keeps(file, args[k])
  PROVE  Recorded(args[k].id)
<1>1. PICK r \in file : /\ r.id \in {args[k].id, "*"}
                        /\ r.expires = None \/ (args[k].op = "redeem" /\ r.expires = args[k].token.expires)
  BY DEF Keeps
<1>2. args[k].op = "redeem" => args[k] \in Redemptions /\ args[k].token.expires \in Nat
  BY DEF SerialInv, CallsAreFormed, Settles, Redemptions, Revocations, Tokens
<1>3. now \in Nat
  BY LegacyAssumption DEF SerialInv, TypeOK
<1>4. r.expires # None => r.expires >= now
  BY <1>1, <1>2, <1>3 DEF Expired
<1> QED BY <1>1, <1>4 DEF Recorded, ReadState, ActiveRecord

\* While the token of a settled call lives, no other call finds its id unrecorded.
LEMMA UnrecordedIsNewOrExpired ==
  ASSUME SettledInv, NEW l \in Call, pc[l] \in {"verify", "consume"}, ~Recorded(args[l].id),
         NEW k \in Call, Settles(k), args[k].id = args[l].id
  PROVE  Expired(args[k])
<1>1. \A m \in Call : pc[m] # "fill"
  BY DEF SettledInv, SerialInv, OneAtATime, InProgress, Phases
<1> QED BY <1>1, KeptIsRecorded DEF SettledInv, SettledIsKept

\* An id has one token, and a token that is settled and lives is not accepted.
LEMMA GenuineIsNew ==
  ASSUME SettledInv, NEW l \in Call, pc[l] = "verify", args[l].op = "redeem",
         Genuine(args[l].token, args[l].context), NEW k \in Call, Settles(k)
  PROVE  args[k].id # args[l].id
<1> SUFFICES ASSUME args[k].id = args[l].id PROVE FALSE
  OBVIOUS
<1>1. Expired(args[k])
  BY UnrecordedIsNewOrExpired DEF SettledInv, AcceptedIsUnrecorded
<1>2. args[k].token \in issued /\ args[k].token.id = args[k].id
  BY <1>1 DEF SettledInv, SerialInv, CallsAreFormed, Settles, Expired, Revocations
<1>3. args[l].token \in issued /\ args[l].token.id = args[l].id
  BY DEF SettledInv, SerialInv, CallsAreFormed, Genuine
<1>4. args[k].token = args[l].token
  BY <1>2, <1>3 DEF SettledInv, SerialInv, IdsAreUnique
<1>5. args[l].token.expires \in Nat /\ now \in Nat
  BY <1>3, LegacyAssumption DEF SettledInv, SerialInv, TypeOK, Tokens
<1> QED BY <1>1, <1>4, <1>5 DEF Expired, Genuine

LEMMA InitiallySettled == Init => SettledInv
BY InitiallySerial DEF Init, SettledInv, SettledIsKept, WrittenIsKept, AcceptedIsUnrecorded, AcceptedIsNew,
  EarlierIsSettled, RedeemedOnce, SettledStaysSettled, Settles

LEMMA IssueSettled ==
  ASSUME SettledInv, SerialInv', NEW id \in TokenId, NEW c \in Context, Issue(id, c)
  PROVE  SettledInv'
BY DEF SettledInv, Issue, SettledIsKept, WrittenIsKept, AcceptedIsUnrecorded, AcceptedIsNew,
  EarlierIsSettled, RedeemedOnce, SettledStaysSettled, Settles, Settled, Expired, Recorded, ReadState, ActiveRecord

LEMMA BeginSettled ==
  ASSUME SingleProcess, SettledInv, SerialInv', NEW k \in Call, BeginRedeem(k) \/ BeginRevoke(k)
  PROVE  SettledInv'
<1>1. PICK phase, a :
        /\ Begin(k, phase, a) /\ phase \in {"check", "consume"}
        /\ phase = "check" => a.settled = Settled
        /\ phase = "consume" => a \in Revocations
  <2>1. CASE BeginRedeem(k)
    <3>1. PICK t \in Altered, c \in Context, op \in {"redeem", "validate"} :
            Begin(k, "check", [op |-> op, id |-> t.id, token |-> t, context |-> c,
                               settled |-> Settled])
      BY <2>1 DEF BeginRedeem
    <3>2. PICK a : a = [op |-> op, id |-> t.id, token |-> t, context |-> c, settled |-> Settled]
      OBVIOUS
    <3>3. a.settled = Settled
      BY <3>2
    <3> QED BY <3>1, <3>2, <3>3
  <2>2. CASE BeginRevoke(k)
    BY <2>2 DEF BeginRevoke, Revocations
  <2> QED BY <2>1, <2>2
<1>2. /\ pc[k] = "new" /\ UNCHANGED <<now, issued, file, truncated, draft>>
      /\ pc' = [pc EXCEPT ![k] = phase] /\ args' = [args EXCEPT ![k] = a]
  BY <1>1 DEF Begin, Goto
<1>3. \A l \in Call : pc[l] \notin Phases
  BY <1>1 DEF Begin, InProgress
<1>4. \A l \in Call : l # k => pc'[l] = pc[l] /\ args'[l] = args[l]
  BY <1>2 DEF SettledInv, SerialInv, TypeOK
<1>5. pc'[k] = phase /\ args'[k] = a
  BY <1>2 DEF SettledInv, SerialInv, TypeOK
<1>6. SettledIsKept'
  BY <1>1, <1>2, <1>4, <1>5 DEF SettledInv, SettledIsKept, Settles, Expired
<1>7. WrittenIsKept'
  BY <1>1, <1>3, <1>4, <1>5 DEF WrittenIsKept, Phases
<1>8. AcceptedIsUnrecorded' /\ AcceptedIsNew'
  BY <1>1, <1>3, <1>4, <1>5 DEF AcceptedIsUnrecorded, AcceptedIsNew, Phases, Revocations
<1>9. Settled' = Settled
  BY <1>1, <1>2, <1>4, <1>5 DEF Settled
<1>10. EarlierIsSettled'
  BY <1>1, <1>4, <1>5, <1>9 DEF SettledInv, EarlierIsSettled, Redemptions, Revocations
<1>11. RedeemedOnce' /\ SettledStaysSettled'
  BY <1>1, <1>4, <1>5 DEF SettledInv, RedeemedOnce, SettledStaysSettled
<1> QED BY <1>6, <1>7, <1>8, <1>10, <1>11 DEF SettledInv

LEMMA GateSettled ==
  ASSUME SettledInv, SerialInv', NEW k \in Call, CheckConsumed(k) \/ Verify(k) \/ WriteNothing(k)
  PROVE  SettledInv'
<1>1. PICK phase \in {"refused", "verify", "valid", "consume"} : Goto(k, phase)
  BY DEF CheckConsumed, Verify, WriteNothing, SettledInv, SerialInv, CallsAreFormed, Redemptions,
    AcceptedIsUnrecorded
<1>2. /\ UNCHANGED <<now, issued, file, truncated, args, draft>>
      /\ pc[k] \in {"check", "verify", "consume"}
  BY DEF CheckConsumed, Verify, WriteNothing
<1>3. \A l \in Call : l # k => pc'[l] = pc[l] /\ pc[l] \notin Phases
  BY <1>1, <1>2 DEF SettledInv, SerialInv, TypeOK, OneAtATime, InProgress, Goto, Phases
<1>4. pc'[k] = phase
  BY <1>1 DEF SettledInv, SerialInv, TypeOK, Goto
<1>5. \A l \in Call : Settles(l)' <=> Settles(l)
  BY <1>2, <1>3, <1>4 DEF Settles
<1>6. SettledIsKept' /\ WrittenIsKept'
  BY <1>2, <1>3, <1>4, <1>5 DEF SettledInv, SettledIsKept, WrittenIsKept, Expired, Phases
<1>7. AcceptedIsUnrecorded'
  <2>1. phase \in {"verify", "consume"} => ~Recorded(args[k].id)
    BY <1>1, <1>2, <1>4 DEF CheckConsumed, Verify, WriteNothing, Goto, SettledInv, SerialInv,
      CallsAreFormed, AcceptedIsUnrecorded, Redemptions, TypeOK
  <2> QED BY <1>2, <1>3, <1>4, <2>1 DEF AcceptedIsUnrecorded, Recorded, ReadState, ActiveRecord, Phases
<1>8. AcceptedIsNew'
  <2>1. phase = "consume" => /\ pc[k] = "verify" /\ args[k].op = "redeem"
                             /\ Genuine(args[k].token, args[k].context)
    BY <1>1, <1>2, <1>4 DEF CheckConsumed, Verify, WriteNothing, Goto, SettledInv, SerialInv,
      CallsAreFormed, Redemptions, TypeOK
  <2> QED BY <1>2, <1>3, <1>4, <1>5, <2>1, GenuineIsNew DEF AcceptedIsNew, Phases
<1>9. Settled' = Settled
  BY <1>2, <1>3, <1>4 DEF Settled
<1>10. EarlierIsSettled' /\ RedeemedOnce' /\ SettledStaysSettled'
  BY <1>2, <1>3, <1>4, <1>9 DEF SettledInv, EarlierIsSettled, RedeemedOnce, SettledStaysSettled
<1> QED BY <1>6, <1>7, <1>8, <1>10 DEF SettledInv

LEMMA WriteSettled ==
  ASSUME SettledInv, SerialInv', NEW k \in Call, WriteRecord(k)
  PROVE  SettledInv'
<1>1. /\ UNCHANGED <<now, issued, file, truncated, args>> /\ pc[k] = "consume"
      /\ Goto(k, "truncate")
  BY DEF WriteRecord
<1>2. \A l \in Call : l # k => pc'[l] = pc[l] /\ pc[l] \notin Phases
  BY <1>1 DEF SettledInv, SerialInv, TypeOK, OneAtATime, InProgress, Goto, Phases
<1>3. pc'[k] = "truncate"
  BY <1>1 DEF SettledInv, SerialInv, TypeOK, Goto
<1>4. draft'[k] = {r \in file \cup {RecordOf(args[k])} : ActiveRecord(r)}
  BY DEF WriteRecord, ReadState, SettledInv, SerialInv, TypeOK
<1>5. now \in Nat
  BY LegacyAssumption DEF SettledInv, SerialInv, TypeOK
<1>6. SettledIsKept'
  <2>1. SUFFICES ASSUME NEW l \in Call, Settles(l)', ~Expired(args[l])'
                 PROVE  Keeps(file, args[l])' /\ Keeps(draft'[k], args'[l])
    BY <1>1, <1>2, <1>3 DEF SettledIsKept, Phases
  <2>2. Settles(l) /\ ~Expired(args[l]) /\ args'[l] = args[l]
    BY <1>1, <1>2, <1>3, <2>1 DEF Settles, Expired
  <2>3. Keeps(file, args[l])
    BY <1>1, <1>2, <2>2 DEF SettledInv, SettledIsKept, Phases
  <2>4. PICK r \in file : /\ r.id \in {args[l].id, "*"}
                          /\ \/ r.expires = None
                             \/ args[l].op = "redeem" /\ r.expires = args[l].token.expires
    BY <2>3 DEF Keeps
  <2>5. args[l].op = "redeem" => args[l].token.expires \in Nat
    BY <2>2 DEF SettledInv, SerialInv, CallsAreFormed, Settles, Redemptions, Revocations, Tokens
  <2>6. ActiveRecord(r)
    BY <1>5, <2>2, <2>4, <2>5 DEF ActiveRecord, Expired
  <2>7. r \in draft'[k]
    BY <1>4, <2>6
  <2> QED BY <1>1, <2>2, <2>3, <2>4, <2>7 DEF Keeps
<1>7. WrittenIsKept'
  <2>1. SUFFICES ASSUME ~Expired(args[k]) PROVE Keeps(draft'[k], args[k])
    BY <1>1, <1>2, <1>3 DEF WrittenIsKept, Phases, Expired
  <2>2. args[k].op \in {"redeem", "revoke"} /\ (args[k].op = "redeem" => args[k].token.expires \in Nat)
    BY <1>1 DEF SettledInv, SerialInv, CallsAreFormed, Redemptions, Revocations, Tokens
  <2>3. ActiveRecord(RecordOf(args[k]))
    BY <1>5, <2>1, <2>2 DEF ActiveRecord, RecordOf, Expired
  <2>4. RecordOf(args[k]) \in draft'[k]
    BY <1>4, <2>3
  <2> QED BY <2>2, <2>4 DEF Keeps, RecordOf
<1>8. AcceptedIsUnrecorded'
  BY <1>2, <1>3 DEF AcceptedIsUnrecorded, Phases
<1>9. AcceptedIsNew'
  BY <1>1, <1>2, <1>3 DEF SettledInv, AcceptedIsNew, Phases, Settles
<1>10. Settled' = Settled
  BY <1>1, <1>2, <1>3 DEF Settled
<1>11. EarlierIsSettled' /\ RedeemedOnce' /\ SettledStaysSettled'
  BY <1>1, <1>2, <1>3, <1>10 DEF SettledInv, EarlierIsSettled, RedeemedOnce, SettledStaysSettled
<1> QED BY <1>6, <1>7, <1>8, <1>9, <1>11 DEF SettledInv

LEMMA TruncateSettled ==
  ASSUME SettledInv, SerialInv', NEW k \in Call, TruncateFile(k)
  PROVE  SettledInv'
<1>1. /\ UNCHANGED <<now, issued, args, draft>> /\ pc[k] = "truncate" /\ Goto(k, "fill")
  BY DEF TruncateFile
<1>2. \A l \in Call : l # k => pc'[l] = pc[l] /\ pc[l] \notin Phases
  BY <1>1 DEF SettledInv, SerialInv, TypeOK, OneAtATime, InProgress, Goto, Phases
<1>3. pc'[k] = "fill"
  BY <1>1 DEF SettledInv, SerialInv, TypeOK, Goto
<1>4. SettledIsKept' /\ WrittenIsKept'
  BY <1>1, <1>2, <1>3 DEF SettledInv, SettledIsKept, WrittenIsKept, Expired, Settles, Phases
<1>5. AcceptedIsUnrecorded' /\ AcceptedIsNew'
  BY <1>1, <1>2, <1>3 DEF SettledInv, AcceptedIsUnrecorded, AcceptedIsNew, Phases, Settles
<1>6. Settled' = Settled
  BY <1>1, <1>2, <1>3 DEF Settled
<1>7. EarlierIsSettled' /\ RedeemedOnce' /\ SettledStaysSettled'
  BY <1>1, <1>2, <1>3, <1>6 DEF SettledInv, EarlierIsSettled, RedeemedOnce, SettledStaysSettled
<1> QED BY <1>4, <1>5, <1>7 DEF SettledInv

\* The file is filled, whole or by halves: what settles then was settled by nobody before.
LEMMA FillSettled ==
  ASSUME SettledInv, SerialInv', NEW k \in Call, FillFile(k) \/ FillHalf(k)
  PROVE  SettledInv'
<1>1. PICK phase \in {"redeemed", "revoked", "dead"} :
        /\ Goto(k, phase)
        /\ phase = "redeemed" => args[k].op = "redeem"
  BY DEF FillFile, FillHalf
<1>2. /\ UNCHANGED <<now, issued, args>> /\ pc[k] = "fill"
      /\ \/ file' = draft[k] /\ phase # "dead"
         \/ file' = Garbled /\ phase = "dead"
  <2>1. CASE FillFile(k)
    <3>1. truncated
      BY <2>1 DEF FillFile, SettledInv, SerialInv, WritersFoundAFile
    <3>2. pc'[k] = phase
      BY <1>1 DEF Goto, SettledInv, SerialInv, TypeOK
    <3>3. PICK how \in {"redeemed", "revoked"} : Goto(k, how)
      BY <2>1 DEF FillFile
    <3>4. pc'[k] = how
      BY <3>3 DEF Goto, SettledInv, SerialInv, TypeOK
    <3>5. phase # "dead"
      BY <3>2, <3>4
    <3> QED BY <2>1, <3>1, <3>5 DEF FillFile
  <2>2. CASE FillHalf(k)
    <3>1. phase = "dead"
      BY <1>1, <2>2 DEF FillHalf, Goto, SettledInv, SerialInv, TypeOK
    <3> QED BY <2>2, <3>1 DEF FillHalf
  <2> QED BY <2>1, <2>2
<1>3. \A l \in Call : l # k => pc'[l] = pc[l] /\ pc[l] \notin Phases
  BY <1>1, <1>2 DEF SettledInv, SerialInv, TypeOK, OneAtATime, InProgress, Goto, Phases
<1>4. pc'[k] = phase
  BY <1>1 DEF SettledInv, SerialInv, TypeOK, Goto
<1>5. ASSUME NEW l \in Call, Settles(l)', ~Expired(args[l])
      PROVE  Keeps(file', args[l])
  <2>1. CASE file' = Garbled
    BY <2>1 DEF Keeps, Garbled
  <2>2. CASE file' = draft[k] /\ phase # "dead"
    <3>1. l # k => Settles(l)
      BY <1>3, <1>5 DEF Settles
    <3> QED BY <1>2, <1>5, <2>2, <3>1 DEF SettledInv, SettledIsKept, WrittenIsKept
  <2> QED BY <1>2, <2>1, <2>2
<1>6. SettledIsKept' /\ WrittenIsKept' /\ AcceptedIsUnrecorded' /\ AcceptedIsNew'
  <2>1. \A l \in Call : pc'[l] \notin Phases
    BY <1>3, <1>4 DEF Phases
  <2> QED BY <1>2, <1>5, <2>1 DEF SettledIsKept, WrittenIsKept, AcceptedIsUnrecorded, AcceptedIsNew,
             Expired, Settles, Phases
<1>7. Settled \subseteq Settled'
  BY <1>2, <1>3 DEF Settled
<1>8. EarlierIsSettled'
  BY <1>2, <1>3, <1>4, <1>7 DEF SettledInv, EarlierIsSettled
<1>9. RedeemedOnce'
  BY <1>1, <1>2, <1>3, <1>4 DEF SettledInv, RedeemedOnce, AcceptedIsNew, Settles
<1>10. SettledStaysSettled'
  <2>1. phase = "redeemed" => args[k].id \notin args[k].settled
    <3>1. SUFFICES ASSUME phase = "redeemed", args[k].id \in args[k].settled PROVE FALSE
      OBVIOUS
    <3>2. args[k] \in Redemptions
      BY <1>1, <1>2, <3>1 DEF SettledInv, SerialInv, CallsAreFormed, Revocations
    <3>3. args[k].id \in Settled
      BY <1>2, <3>1, <3>2 DEF SettledInv, EarlierIsSettled
    <3> QED BY <1>1, <1>2, <3>1, <3>3 DEF SettledInv, AcceptedIsNew, Settled, Settles
  <2> QED BY <1>2, <1>3, <1>4, <2>1 DEF SettledInv, SettledStaysSettled
<1> QED BY <1>6, <1>8, <1>9, <1>10 DEF SettledInv

LEMMA CrashSettled ==
  ASSUME ~CrashWhileEmpty, SettledInv, SerialInv', NEW k \in Call, Crash(k)
  PROVE  SettledInv'
<1>1. /\ UNCHANGED <<now, issued, file, truncated, args>> /\ pc[k] \in Phases \ {"fill"}
      /\ Goto(k, "dead")
  BY DEF Crash, InProgress
<1>2. \A l \in Call : l # k => pc'[l] = pc[l] /\ pc[l] \notin Phases
  BY <1>1 DEF SettledInv, SerialInv, TypeOK, OneAtATime, InProgress, Goto
<1>3. pc'[k] = "dead"
  BY <1>1 DEF SettledInv, SerialInv, TypeOK, Goto
<1>4. \A l \in Call : pc'[l] \notin Phases /\ (Settles(l)' => Settles(l)) /\ pc[l] # "fill"
  BY <1>1, <1>2, <1>3 DEF Settles, Phases
<1>5. SettledIsKept' /\ WrittenIsKept' /\ AcceptedIsUnrecorded' /\ AcceptedIsNew'
  BY <1>1, <1>4 DEF SettledInv, SettledIsKept, WrittenIsKept, AcceptedIsUnrecorded, AcceptedIsNew, Expired,
    Phases
<1>6. Settled' = Settled
  BY <1>1, <1>2, <1>3 DEF Settled, Phases
<1>7. EarlierIsSettled' /\ RedeemedOnce' /\ SettledStaysSettled'
  BY <1>1, <1>2, <1>3, <1>6 DEF SettledInv, EarlierIsSettled, RedeemedOnce, SettledStaysSettled, Phases
<1> QED BY <1>5, <1>7 DEF SettledInv

LEMMA TickSettled ==
  ASSUME SettledInv, SerialInv', Tick
  PROVE  SettledInv'
<1>1. now' = now + 1 /\ now \in Nat /\ UNCHANGED <<issued, file, truncated, pc, args, draft>>
  BY LegacyAssumption DEF Tick, SettledInv, SerialInv, TypeOK
<1>2. ASSUME NEW k \in Call, Settles(k) \/ pc[k] \in {"truncate", "fill"}, Expired(args[k])
      PROVE  Expired(args[k])'
  <2>1. args[k].token.expires \in Nat
    BY <1>2 DEF Expired, SettledInv, SerialInv, CallsAreFormed, Settles, Redemptions, Revocations, Tokens
  <2> QED BY <1>1, <1>2, <2>1 DEF Expired
<1>3. SettledIsKept' /\ WrittenIsKept'
  BY <1>1, <1>2 DEF SettledInv, SettledIsKept, WrittenIsKept, Settles
<1>4. \A id : Recorded(id)' => Recorded(id)
  BY <1>1 DEF Recorded, ReadState, ActiveRecord, SettledInv, SerialInv, TypeOK, Records
<1>5. AcceptedIsUnrecorded' /\ AcceptedIsNew'
  BY <1>1, <1>4 DEF SettledInv, AcceptedIsUnrecorded, AcceptedIsNew, Settles
<1>6. EarlierIsSettled' /\ RedeemedOnce' /\ SettledStaysSettled'
  BY <1>1 DEF SettledInv, EarlierIsSettled, RedeemedOnce, SettledStaysSettled, Settled
<1> QED BY <1>3, <1>5, <1>6 DEF SettledInv

LEMMA NextSettled ==
  ASSUME SingleProcess, ~CrashWhileEmpty, SettledInv, [Next]_vars
  PROVE  SettledInv'
<1>1. SerialInv'
  BY NextSerial DEF SettledInv
<1>2. ASSUME NEW k \in Call, CallStep(k) PROVE SettledInv'
  BY <1>1, <1>2, BeginSettled, GateSettled, WriteSettled DEF CallStep
<1>3. ASSUME NEW k \in Call, FileStep(k) PROVE SettledInv'
  BY <1>1, <1>3, TruncateSettled, FillSettled, CrashSettled DEF FileStep
<1>4. CASE Quiescent \/ UNCHANGED vars
  BY <1>1, <1>4 DEF Quiescent, vars, SettledInv, SettledIsKept, WrittenIsKept, AcceptedIsUnrecorded,
    AcceptedIsNew, EarlierIsSettled, RedeemedOnce, SettledStaysSettled, Settles, Settled, Expired, Recorded,
    ReadState, ActiveRecord
<1> QED BY <1>1, <1>2, <1>3, <1>4, IssueSettled, TickSettled DEF Next
-----------------------------------------------------------------------------
(* The theorems.                                                           *)

\* In one process the clock, the file and every call keep their types.
THEOREM ApprovalTypes ==
  ASSUME SingleProcess PROVE Spec => []TypeOK
<1>1. SerialInv /\ [Next]_vars => SerialInv'
  BY NextSerial
<1>2. SerialInv => TypeOK
  BY DEF SerialInv
<1> QED BY <1>1, <1>2, InitiallySerial, PTL DEF Spec

\* In one process a state file that does not parse is never written over: it goes on
\* refusing every id, so that no revocation it held is forgotten.
THEOREM GarbledFileStays ==
  ASSUME SingleProcess PROVE Spec => GarbledStaysGarbled
<1>1. SerialInv /\ [Next]_vars => SerialInv'
  BY NextSerial
<1>2. ASSUME SerialInv, [Next]_vars, file = Garbled
      PROVE  file' = Garbled
  <2>1. ASSUME NEW k \in Call, FileStep(k) PROVE file' = Garbled
    <3>1. pc[k] \notin {"truncate", "fill"}
      BY <1>2 DEF SerialInv, WritersFoundAFile, Garbled
    <3> QED BY <1>2, <2>1, <3>1 DEF FileStep, TruncateFile, FillFile, FillHalf, Crash
  <2>2. ASSUME NEW k \in Call, CallStep(k) PROVE file' = file
    BY <2>2 DEF CallStep, BeginRedeem, BeginRevoke, Begin, CheckConsumed, Verify, WriteNothing, WriteRecord
  <2> QED BY <1>2, <2>1, <2>2 DEF Next, Issue, Tick, Quiescent, vars
<1>3. SerialInv /\ [Next]_vars => [file = Garbled => file' = Garbled]_vars
  BY <1>2
<1> QED BY <1>1, <1>3, InitiallySerial, PTL DEF Spec, GarbledStaysGarbled

\* In one process, whatever its calls do to the records of other tokens and wherever it
\* crashes but between truncation and write, a token is redeemed once.
THEOREM TokensAreRedeemedOnce ==
  ASSUME SingleProcess, ~CrashWhileEmpty PROVE Spec => []RedeemedOnce
<1>1. SettledInv /\ [Next]_vars => SettledInv'
  BY NextSettled
<1>2. SettledInv => RedeemedOnce
  BY DEF SettledInv
<1> QED BY <1>1, <1>2, InitiallySettled, PTL DEF Spec

\* Under the same conditions a redemption that begins after the token was redeemed or
\* revoked is refused, although records are dropped when their token expires.
THEOREM SettledTokensStaySettled ==
  ASSUME SingleProcess, ~CrashWhileEmpty PROVE Spec => []SettledStaysSettled
<1>1. SettledInv /\ [Next]_vars => SettledInv'
  BY NextSettled
<1>2. SettledInv => SettledStaysSettled
  BY DEF SettledInv
<1> QED BY <1>1, <1>2, InitiallySettled, PTL DEF Spec
=============================================================================
