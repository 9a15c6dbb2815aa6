----------------------------- MODULE ClaimStore -----------------------------
(***************************************************************************)
(* src/runtime/atomicStateStore.ts at the granularity of its file-system   *)
(* calls, with the two kinds of caller that redeem through it:             *)
(* executionPermit.ts (verify the expiry, then claim) and                  *)
(* boundApproval.ts (read the record, verify the expiry, then claim).      *)
(*                                                                         *)
(* A call is one invocation of redeem, revoke or prune.  Calls of          *)
(* different processes interleave between any two system calls; calls of   *)
(* one process do not, the store being synchronous (SingleProcess).        *)
(* existsSync followed by readFileSync is one step here: an unlink between *)
(* the two makes the read fail, which only adds refusals.                  *)
(***************************************************************************)
EXTENDS Integers

CONSTANTS
  Call,          \* the invocations made of the store
  Id,            \* permit ids or approval ids
  Ops,           \* the operations the invocations may be
  Expiry,        \* Expiry[i]: the expires_at of the token that carries i
  MaxTime,       \* bound of the model: the clock stops here
  SingleProcess, \* TRUE: the calls come from one process, one after another
  Nobody         \* no file, no call

ASSUME StoreAssumption ==
  /\ Ops \subseteq {"redeemPermit", "redeemApproval", "revoke", "prune"}
  /\ MaxTime \in Nat
  /\ Expiry \in [Id -> Nat]
  /\ SingleProcess \in BOOLEAN
  /\ Nobody \notin Call
  /\ Nobody \notin [owner : Call, state : {"empty", "consumed", "revoked"}]

VARIABLES
  now,    \* Date.now()
  file,   \* file[i]: Nobody, or which call created the claim file and what it holds
  pc,     \* pc[c]: the next system call of c, or its outcome
  op,     \* op[c]: what c was called for
  target, \* target[c]: the id c was called with
  alive   \* history: the calls that created their file before it expired

vars == <<now, file, pc, op, target, alive>>

Outcomes == {"granted", "refused", "crashed"}
Phases == {"verify", "check", "open", "reread", "unlink", "write", "scan"}

\* A file just created is empty: readRecord takes it, like every record that
\* does not parse, for a revocation without an expiry.
FileStates == {"empty", "consumed", "revoked"}
Files == [owner : Call, state : FileStates] \cup {Nobody}

TypeOK ==
  /\ now \in 0 .. MaxTime
  /\ file \in [Id -> Files]
  /\ pc \in [Call -> Phases \cup Outcomes \cup {"new"}]
  /\ op \in [Call -> Ops]
  /\ target \in [Call -> Id]
  /\ alive \in SUBSET Call

Init ==
  /\ now = 0
  /\ file = [i \in Id |-> Nobody]
  /\ pc = [c \in Call |-> "new"]
  /\ op \in [Call -> Ops]
  /\ target \in [Call -> Id]
  /\ alive = {}

Goto(c, phase) == pc' = [pc EXCEPT ![c] = phase]

\* Mutant: a record counts as expired at the very instant the token still lives.
ExpiredTooEarly(i) ==
  /\ file[i] # Nobody
  /\ file[i].state = "consumed"
  /\ Expiry[i] <= now

\* Mutant: a corrupt record is dropped like an expired one.
ExpiredOrCorrupt(i) ==
  /\ file[i] # Nobody
  /\ \/ file[i].state = "empty"
     \/ file[i].state = "consumed" /\ Expiry[i] < now

\* isExpired: only a consumed record carries an expires_at.
Expired(i) ==
  /\ file[i] # Nobody
  /\ file[i].state = "consumed"
  /\ Expiry[i] < now

\* Date.parse(expires_at) < now, as the callers test it before they claim.
TokenExpired(i) == Expiry[i] < now

InProgress(c) == pc[c] \in Phases

Begin(c) ==
  /\ pc[c] = "new"
  /\ SingleProcess => \A d \in Call : ~InProgress(d)
  /\ Goto(c, CASE op[c] \in {"redeemPermit", "redeemApproval"} -> "verify"
               [] op[c] = "revoke" -> "check"
               [] op[c] = "prune" -> "scan")
  /\ UNCHANGED <<now, file, op, target, alive>>

\* verifyExecutionPermit looks at the clock and not at the store.
VerifyPermit(c) ==
  /\ pc[c] = "verify" /\ op[c] = "redeemPermit"
  /\ Goto(c, IF TokenExpired(target[c]) THEN "refused" ELSE "check")
  /\ UNCHANGED <<now, file, op, target, alive>>

\* boundApproval's verify refuses any record, the expired ones included,
\* before it looks at the clock.
VerifyApproval(c) ==
  /\ pc[c] = "verify" /\ op[c] = "redeemApproval"
  /\ Goto(c, IF file[target[c]] # Nobody \/ TokenExpired(target[c])
             THEN "refused" ELSE "check")
  /\ UNCHANGED <<now, file, op, target, alive>>

\* write(): an existing record that has not expired refuses the call.
Check(c) ==
  /\ pc[c] = "check"
  /\ Goto(c, IF file[target[c]] = Nobody \/ Expired(target[c])
             THEN "open" ELSE "refused")
  /\ UNCHANGED <<now, file, op, target, alive>>

\* Mutant: openSync(path, 'w') truncates a file that is there.
OpenTruncating(c) ==
  /\ pc[c] = "open"
  /\ file' = [file EXCEPT ![target[c]] = [owner |-> c, state |-> "empty"]]
  /\ alive' = IF TokenExpired(target[c]) THEN alive ELSE alive \cup {c}
  /\ Goto(c, "write")
  /\ UNCHANGED <<now, op, target>>

\* openSync(path, 'wx') succeeds for exactly one of the calls that find no file.
OpenExclusive(c) ==
  /\ pc[c] = "open"
  /\ file[target[c]] = Nobody
  /\ file' = [file EXCEPT ![target[c]] = [owner |-> c, state |-> "empty"]]
  /\ alive' = IF TokenExpired(target[c]) THEN alive ELSE alive \cup {c}
  /\ Goto(c, "write")
  /\ UNCHANGED <<now, op, target>>

FileExists(c) ==
  /\ pc[c] = "open"
  /\ file[target[c]] # Nobody
  /\ Goto(c, "reread")
  /\ UNCHANGED <<now, file, op, target, alive>>

\* Mutant: an expired record is retried without being unlinked.
RereadWithoutUnlink(c) ==
  /\ pc[c] = "reread"
  /\ Goto(c, IF Expired(target[c]) THEN "check" ELSE "refused")
  /\ UNCHANGED <<now, file, op, target, alive>>

\* EEXIST: a record that is not expired, or is gone by now, was claimed
\* concurrently.
Reread(c) ==
  /\ pc[c] = "reread"
  /\ Goto(c, IF Expired(target[c]) THEN "unlink" ELSE "refused")
  /\ UNCHANGED <<now, file, op, target, alive>>

\* prune() decides on the record it read; the unlink is a call of its own.
Scan(c) ==
  /\ pc[c] = "scan"
  /\ Goto(c, IF Expired(target[c]) THEN "unlink" ELSE "refused")
  /\ UNCHANGED <<now, file, op, target, alive>>

\* unlinkSync removes whatever file has the name now; when there is none it
\* throws.  write() then starts over.
Unlink(c) ==
  /\ pc[c] = "unlink"
  /\ file' = [file EXCEPT ![target[c]] = Nobody]
  /\ Goto(c, IF file[target[c]] = Nobody \/ op[c] = "prune"
             THEN "refused" ELSE "check")
  /\ UNCHANGED <<now, op, target, alive>>

\* Mutant: the record names the operation instead of the state it leads to.
WriteOperationName(c) ==
  LET i == target[c]
      record == [owner |-> c, state |-> op[c]]
  IN  /\ pc[c] = "write"
      /\ file' = IF file[i] # Nobody /\ file[i].owner = c
                 THEN [file EXCEPT ![i] = record] ELSE file
      /\ Goto(c, "granted")
      /\ UNCHANGED <<now, op, target, alive>>

\* writeSync goes to the file the handle was opened on, whether or not that
\* file still has the name.
WriteRecord(c) ==
  LET i == target[c]
      record == [owner |-> c,
                 state |-> IF op[c] = "revoke" THEN "revoked" ELSE "consumed"]
  IN  /\ pc[c] = "write"
      /\ file' = IF file[i] # Nobody /\ file[i].owner = c
                 THEN [file EXCEPT ![i] = record] ELSE file
      /\ Goto(c, "granted")
      /\ UNCHANGED <<now, op, target, alive>>

\* mkdirSync, openSync or writeSync throws: io_error, never a grant.  After a
\* failed writeSync the empty file stays.
IoError(c) ==
  /\ pc[c] \in {"check", "open", "write"}
  /\ Goto(c, "refused")
  /\ UNCHANGED <<now, file, op, target, alive>>

\* The process dies between two system calls; its files stay.
Crash(c) ==
  /\ InProgress(c)
  /\ Goto(c, "crashed")
  /\ UNCHANGED <<now, file, op, target, alive>>

Tick ==
  /\ now < MaxTime
  /\ now' = now + 1
  /\ UNCHANGED <<file, pc, op, target, alive>>

Step(c) ==
  \/ VerifyPermit(c) \/ VerifyApproval(c) \/ Check(c)
  \/ OpenExclusive(c) \/ FileExists(c) \/ Reread(c)
  \/ Scan(c) \/ Unlink(c) \/ WriteRecord(c)

\* The bounded set of calls is used up.
Quiescent ==
  /\ now = MaxTime
  /\ \A c \in Call : pc[c] \in Outcomes
  /\ UNCHANGED vars

Next ==
  \/ \E c \in Call : Begin(c) \/ Step(c) \/ IoError(c) \/ Crash(c)
  \/ Tick
  \/ Quiescent

\* The operating system schedules every process that has begun a call.
Spec == Init /\ [][Next]_vars /\ \A c \in Call : WF_vars(Step(c))
-----------------------------------------------------------------------------
(* Properties.                                                             *)

\* The calls that were told "granted" for the id i.
Winners(i) == {c \in Call : pc[c] = "granted" /\ target[c] = i}

(* While a token is alive at most one call wins its id, whatever the other *)
(* processes do between two system calls, and whoever crashes: a claim and *)
(* a revocation exclude each other too (atomicStateStore.ts write()).      *)
OneWinnerWhileAlive ==
  \A i \in Id : \A c, d \in Winners(i) \cap alive : c = d

(* A claim file made while its token is alive stays, with its creator,     *)
(* until the token has expired: no reclaim, prune or crash frees the id    *)
(* for a second use (fail closed).                                         *)
NeverReclaimedWhileAlive ==
  [][\A i \in Id : file[i] # Nobody /\ ~TokenExpired(i)
        => file'[i] # Nobody /\ file'[i].owner = file[i].owner]_vars

(* Exactly one redemption wins an id, ever: what the comments of claim()   *)
(* and of consumeExecutionPermit say, with no regard to the clock.         *)
ExactlyOneWinner ==
  \A i \in Id : \A c, d \in Winners(i) :
    op[c] # "revoke" /\ op[d] # "revoke" => c = d

(* write() starts over after it unlinked an expired record: whoever races  *)
(* it, every call that is scheduled returns.                               *)
EveryCallReturns == \A c \in Call : InProgress(c) ~> pc[c] \in Outcomes

\* The store implements what it promises: the exclusive create is the moment
\* an id is taken, and the promise ends with the token.
Promise == INSTANCE SingleUse WITH
  holder <- [i \in Id |->
              IF \E c \in alive : target[c] = i
              THEN CHOOSE c \in alive : target[c] = i ELSE Nobody],
  lapsed <- {i \in Id : TokenExpired(i)},
  granted <- {c \in alive : pc[c] = "granted"}

(* The detailed store refines SingleUse: an id is taken by one call at     *)
(* most while it lives, and only the taker is granted.                     *)
ImplementsSingleUse == Promise!Spec
=============================================================================
