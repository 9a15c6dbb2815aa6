--------------------------- MODULE LegacyApproval ---------------------------
(***************************************************************************)
(* The approval tokens of command guards and integrations: the gate that   *)
(* issues, validates, redeems and revokes them (src/approvalToken.ts) and  *)
(* the local store of consumed and revoked ids (approvalStateStore.ts), a  *)
(* JSON file read whole and written whole, by truncation and writing.      *)
(*                                                                         *)
(* A call is one redeem, validate or revoke of a gate that has the secret. *)
(* All calls are synchronous: those of one process (SingleProcess) follow  *)
(* each other, those of several interleave at the file accesses.  A gate   *)
(* has no state but its store, so a restart is the next call.              *)
(*                                                                         *)
(* A context stands for action, target, arguments, task, session, tenant,  *)
(* agent and environment, normalised: it is its own fingerprint.           *)
(***************************************************************************)
EXTENDS Integers

CONSTANTS
  Call,            \* the invocations of the gates
  TokenId,         \* bound of the model: the ids that can be issued
  Context,
  TTL,             \* ttlMs
  MaxTime,         \* bound of the model: the clock stops here
  SingleProcess,   \* TRUE: the calls come one after another
  CrashWhileEmpty, \* TRUE: a process may end between truncation and write
  None

ASSUME LegacyAssumption ==
  /\ TTL \in Nat /\ MaxTime \in Nat
  /\ SingleProcess \in BOOLEAN /\ CrashWhileEmpty \in BOOLEAN
  /\ None \notin Nat /\ "*" \notin TokenId

VARIABLES
  now,     \* Date.now()
  issued,  \* history: every token ever signed
  file,    \* what readState() makes of approval-state.json
  truncated, \* the file was opened for writing and is empty
  pc,      \* pc[k]: the next step of k, or its outcome
  args,    \* args[k]: what k was called with
  draft    \* draft[k]: the records k is about to write

vars == <<now, issued, file, truncated, pc, args, draft>>

Tokens == [id : TokenId, context : Context, expires : Nat]
\* A revocation has no expiry.
Records == [id : TokenId \cup {"*"}, expires : Nat \cup {None}]
\* A file that does not parse reads as the revocation of every id.
Garbled == {[id |-> "*", expires |-> None]}

Phases == {"check", "verify", "consume", "truncate", "fill"}
Outcomes == {"redeemed", "valid", "revoked", "refused", "dead"}
\* settled, of history: the ids redeemed or revoked before the call began.
Redemptions == [op : {"redeem", "validate"}, id : TokenId, token : Tokens,
                context : Context, settled : SUBSET TokenId]
Revocations == [op : {"revoke"}, id : TokenId]

TypeOK ==
  /\ now \in 0 .. MaxTime
  /\ issued \in SUBSET Tokens
  /\ file \in SUBSET Records
  /\ truncated \in BOOLEAN
  /\ pc \in [Call -> Phases \cup Outcomes \cup {"new"}]
  /\ args \in [Call -> Redemptions \cup Revocations \cup {None}]
  /\ draft \in [Call -> SUBSET Records]

Init ==
  /\ now = 0
  /\ issued = {}
  /\ file = {} /\ truncated = FALSE
  /\ pc = [k \in Call |-> "new"]
  /\ args = [k \in Call |-> None]
  /\ draft = [k \in Call |-> {}]
-----------------------------------------------------------------------------
\* Mutant: a record dies with the last instant at which its token is alive.
ActiveBefore(r) == r.expires # None => r.expires > now

ActiveRecord(r) == r.expires # None => r.expires >= now

\* Mutant: a file that does not parse counts as a missing one.
GarbledIsEmpty == file \ Garbled

\* readState(): an empty file, and a missing one, have no records.
ReadState == file

\* Mutant: the record of a file that does not parse is overlooked.
RecordedItself(id) == \E r \in ReadState : r.id = id /\ ActiveRecord(r)

\* findActive(), and the two refusals of writeRecord().
Recorded(id) == \E r \in ReadState : r.id \in {id, "*"} /\ ActiveRecord(r)

\* verifySignature, expiry and fingerprint.
Genuine(token, context) ==
  /\ token \in issued
  /\ token.expires >= now
  /\ token.context = context

Issue(id, context) ==
  /\ \A t \in issued : t.id # id
  /\ issued' = issued \cup {[id |-> id, context |-> context, expires |-> now + TTL]}
  /\ UNCHANGED <<now, file, truncated, pc, args, draft>>
-----------------------------------------------------------------------------
InProgress(k) == pc[k] \in Phases
Goto(k, phase) == pc' = [pc EXCEPT ![k] = phase]

Settled == {args[k].id : k \in {l \in Call : pc[l] \in {"redeemed", "revoked"}}}

Begin(k, phase, a) ==
  /\ pc[k] = "new"
  /\ SingleProcess => \A l \in Call : ~InProgress(l)
  /\ Goto(k, phase)
  /\ args' = [args EXCEPT ![k] = a]
  /\ UNCHANGED <<now, issued, file, truncated, draft>>

\* A holder of a token can alter what it says, not sign it again.
Altered == {[t EXCEPT !.context = c] : t \in issued, c \in Context}

BeginRedeem(k) ==
  \E t \in Altered, c \in Context, op \in {"redeem", "validate"} :
    Begin(k, "check", [op |-> op, id |-> t.id, token |-> t, context |-> c,
                       settled |-> Settled])

\* revoke() takes any id.
BeginRevoke(k) ==
  \E id \in TokenId : Begin(k, "consume", [op |-> "revoke", id |-> id])

\* isConsumed()
CheckConsumed(k) ==
  /\ pc[k] = "check"
  /\ Goto(k, IF Recorded(args[k].id) THEN "refused" ELSE "verify")
  /\ UNCHANGED <<now, issued, file, truncated, args, draft>>

Verify(k) ==
  /\ pc[k] = "verify"
  /\ Goto(k, CASE ~Genuine(args[k].token, args[k].context) -> "refused"
               [] Genuine(args[k].token, args[k].context) /\ args[k].op = "validate" -> "valid"
               [] Genuine(args[k].token, args[k].context) /\ args[k].op = "redeem" -> "consume")
  /\ UNCHANGED <<now, issued, file, truncated, args, draft>>

\* writeRecord(): nothing is written over a record of the id.  A redemption
\* does not look at what it returns; a revocation does.
WriteNothing(k) ==
  /\ pc[k] = "consume"
  /\ Recorded(args[k].id)
  /\ Goto(k, IF args[k].op = "redeem" THEN "redeemed" ELSE "refused")
  /\ UNCHANGED <<now, issued, file, truncated, args, draft>>

RecordOf(a) ==
  [id |-> a.id, expires |-> IF a.op = "redeem" THEN a.token.expires ELSE None]

WriteRecord(k) ==
  /\ pc[k] = "consume"
  /\ ~Recorded(args[k].id)
  /\ draft' = [draft EXCEPT ![k] =
       {r \in ReadState \cup {RecordOf(args[k])} : ActiveRecord(r)}]
  /\ Goto(k, "truncate")
  /\ UNCHANGED <<now, issued, file, truncated, args>>

TruncateFile(k) ==
  /\ pc[k] = "truncate"
  /\ file' = {} /\ truncated' = TRUE
  /\ Goto(k, "fill")
  /\ UNCHANGED <<now, issued, args, draft>>

\* Two writers that overlap may leave a file that does not parse.
FillFile(k) ==
  /\ pc[k] = "fill"
  /\ \/ file' = draft[k]
     \/ ~truncated /\ file' = Garbled
  /\ truncated' = FALSE
  /\ Goto(k, IF args[k].op = "redeem" THEN "redeemed" ELSE "revoked")
  /\ draft' = [draft EXCEPT ![k] = {}]
  /\ UNCHANGED <<now, issued, args>>

\* The write stops halfway: what it leaves does not parse.
FillHalf(k) ==
  /\ pc[k] = "fill"
  /\ file' = Garbled /\ truncated' = FALSE
  /\ Goto(k, "dead")
  /\ draft' = [draft EXCEPT ![k] = {}]
  /\ UNCHANGED <<now, issued, args>>

\* The process ends, or the call throws, between two steps.
Crash(k) ==
  /\ InProgress(k)
  /\ pc[k] = "fill" => CrashWhileEmpty
  /\ Goto(k, "dead")
  /\ draft' = [draft EXCEPT ![k] = {}]
  /\ UNCHANGED <<now, issued, file, truncated, args>>

Tick ==
  /\ now < MaxTime
  /\ now' = now + 1
  /\ UNCHANGED <<issued, file, truncated, pc, args, draft>>

CallStep(k) ==
  \/ BeginRedeem(k) \/ BeginRevoke(k) \/ CheckConsumed(k) \/ Verify(k)
  \/ WriteNothing(k) \/ WriteRecord(k)

FileStep(k) == TruncateFile(k) \/ FillFile(k) \/ FillHalf(k) \/ Crash(k)

\* The bounded set of calls is used up.
Quiescent ==
  /\ now = MaxTime
  /\ \A k \in Call : pc[k] \in Outcomes
  /\ UNCHANGED vars

Next ==
  \/ \E id \in TokenId, c \in Context : Issue(id, c)
  \/ \E k \in Call : CallStep(k) \/ FileStep(k)
  \/ Tick
  \/ Quiescent

Spec == Init /\ [][Next]_vars
-----------------------------------------------------------------------------
(* Properties.                                                             *)

(* Two redemptions of one token never both succeed ("single-use: consumed  *)
(* on first redemption", header of approvalToken.ts).                      *)
RedeemedOnce ==
  \A k, l \in Call : pc[k] = "redeemed" /\ pc[l] = "redeemed"
                     /\ args[k].id = args[l].id => k = l

(* A token that was redeemed, or whose revocation returned true, is not    *)
(* accepted by a redemption that begins later, whatever restart lies in    *)
(* between and whatever the records of other tokens go through.            *)
SettledStaysSettled ==
  \A k \in Call : pc[k] = "redeemed" => args[k].id \notin args[k].settled

(* In one process, a file that does not parse fails safe for good: no call *)
(* ever writes over it, so that the revocations it held cannot be          *)
(* forgotten ("corrupted durable approval state fails safely",             *)
(* tests/approvalToken.test.ts).                                           *)
GarbledStaysGarbled == [][file = Garbled => file' = Garbled]_vars
=============================================================================
