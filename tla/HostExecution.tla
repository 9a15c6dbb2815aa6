---------------------------- MODULE HostExecution ----------------------------
(***************************************************************************)
(* One permitted action on a host that others change meanwhile: how paths  *)
(* and directories are resolved (src/runtime/workspace.ts), what a permit  *)
(* is bound to and how it is looked at again (executionContext.ts), and    *)
(* the five executors (executors/*.ts) with the proof each one attaches    *)
(* (executionProof.ts).                                                    *)
(*                                                                         *)
(* The host is a tree of names with symbolic links, the HEAD of each git   *)
(* repository and a process with its output pipe.  Every system call of an *)
(* executor is a step, and the host may change between any two.            *)
(***************************************************************************)
EXTENDS Integers, Sequences, FiniteSets, SequencesExt

CONSTANTS
  Action,        \* the actions that may be permitted
  World,         \* the tree at first: World[path] is its entry
  LinkTo,        \* LinkTo[path]: where others may point the link at path
  Workspace,     \* the path the session declared
  MaxDepth,      \* MAX_SYMLINK_DEPTH
  MaxChanges     \* bound of the model: what others do to the host

Dir == [type |-> "dir"]
File == [type |-> "file"]
Link(p) == [type |-> "link", to |-> p]
Gone == <<"gone">>
Nothing == <<"nothing">>
Refused == <<"refused">>

\* Every entry is in a directory, which others leave where it is; and nothing is
\* called what Gone is.
ASSUME HostAssumption ==
  /\ <<>> \in DOMAIN World \ DOMAIN LinkTo /\ World[<<>>] = Dir
  /\ \A p \in DOMAIN World \cup DOMAIN LinkTo : p # <<>> =>
       Front(p) \in DOMAIN World \ DOMAIN LinkTo /\ World[Front(p)] = Dir
  /\ DOMAIN World \cup DOMAIN LinkTo \subseteq Seq(STRING) \ {Gone}
  /\ \A p \in DOMAIN World : World[p].type = "link" => World[p].to \in Seq(STRING)
  /\ \A p \in DOMAIN LinkTo : LinkTo[p] \subseteq Seq(STRING)
  /\ {Workspace, Gone, Nothing, Refused} \subseteq Seq(STRING)
  /\ \A a \in Action : {a.cwd, a.target, a.to} \subseteq Seq(STRING)
  /\ MaxDepth \in Nat /\ MaxChanges \in Nat

VARIABLES
  fs,            \* the tree
  nested,        \* somebody made a repository of its own inside the workspace
  head,          \* head[r]: the branch and the commit of repository r
  changes,       \* bound: changes by others so far
  ex,            \* the execution: where it is, its action and what it holds
  bound,         \* the host facts its permit was issued for
  child,         \* the spawned process: "none", "running", "exited"
  code,          \* and how it ended
  held,          \* a process it started keeps its output open
  timedOut,      \* the executor's timer fired
  outcome,       \* the ExecutorOutcome and the status of its proof
  landed,        \* history: what the execution reached
  moved          \* history: others changed the host since it was looked at

hostVars == <<fs, nested, head>>
processVars == <<child, code, held, timedOut>>
exVars == <<ex, bound, processVars, outcome, landed, moved>>
executionVars == <<hostVars, changes, exVars>>

-----------------------------------------------------------------------------
(* Names.                                                                  *)

\* The only element; binding a value in a set has TLC evaluate it once.
The(S) == CHOOSE x \in S : TRUE

\* Where the kernel arrives when it opens p; the last name may be missing.  Step
\* follows one name, and looks up where it points if it is a link.
Step(dir, q, hops, lookup) ==
  IF dir \notin DOMAIN fs \/ fs[dir].type # "dir" THEN Gone
  ELSE IF q \notin DOMAIN fs \/ fs[q].type # "link" THEN q
  ELSE IF hops = 0 THEN Gone ELSE lookup[<<fs[q].to, hops - 1>>]
At[x \in Seq(STRING) \X Nat] ==
  LET p == x[1]  hops == x[2] IN
  IF p = <<>> THEN p
  ELSE The({Step(dir, Append(dir, Last(p)), hops, At) : dir \in {At[<<Front(p), hops>>]}})

Opened(p) == At[<<p, MaxDepth + 1>>]
Exists(p) == Opened(p) \in DOMAIN fs
\* The entry p names, its last name not followed.
Entry(p) == IF p = <<>> THEN p ELSE
            IF Exists(Front(p)) THEN Append(Opened(Front(p)), Last(p)) ELSE Gone
EntryExists(p) == Entry(p) \in DOMAIN fs
IsDir(p) == Exists(p) /\ fs[Opened(p)].type = "dir"

\* resolveStrict: the deepest entry there is, followed to the end, and the
\* names that are missing after it; a dangling link is followed by hand.
Deepest(p) == The({Max({i \in 0 .. Len(p) : EntryExists(SubSeq(p, 1, i))})})
Beyond(real, missing) == The({IF r = Refused THEN r ELSE r \o missing : r \in {real}})
Resolve[x \in Seq(STRING) \X Nat] ==
  LET p == x[1]  depth == x[2]
      n == Deepest(p)
      found == SubSeq(p, 1, n)
  IN IF depth > MaxDepth THEN Refused
     ELSE Beyond(IF Exists(found) THEN Opened(found) ELSE Resolve[<<fs[Entry(found)].to, depth + 1>>],
                 SubSeq(p, n + 1, Len(p)))

Strict(p) == Resolve[<<p, 0>>]
\* resolveRealPath, for those who classify: the path itself where there is no answer.
Lenient(p) == IF Strict(p) = Refused THEN p ELSE Strict(p)

\* contains: the directory itself or what lies beneath it.
Inside(root, q) == IsPrefix(root, q)

\* containmentModeForOperation
NoFollowFinal == {"delete", "move"}

\* verifyContainment: the path to act on, and its side of the boundary.
Containment(p, follow) ==
  LET parent == Strict(Front(p))
      resolved == IF follow THEN Strict(p)
                  ELSE IF parent = Refused THEN Refused ELSE Append(parent, Last(p))
      root == Strict(Workspace)
  IN [path |-> resolved, verifiable |-> resolved # Refused /\ root # Refused,
      relation |-> IF Refused \in {resolved, root} THEN "unknown"
                   ELSE IF Inside(root, resolved) THEN "inside" ELSE "outside"]

\* classifyWorkspaceRelation, of the lenient answers.
Relation(p) == IF Inside(Lenient(Workspace), Lenient(p)) THEN "inside" ELSE "outside"

-----------------------------------------------------------------------------
(* What a permit is bound to.                                              *)

\* resolveExecutionCwd
Cwd(a) == IF a.cwd = Nothing THEN Nothing
          ELSE IF Strict(a.cwd) # Refused /\ IsDir(Strict(a.cwd)) THEN Strict(a.cwd)
          ELSE Refused

\* resolveRepositoryIdentity: what git finds upwards from a directory, if anything.
Repository(dir) == IF dir = <<>> THEN Nothing ELSE <<dir[1], Len(dir) >= 2 /\ nested>>

Absolute(p, cwd) == IF p # <<>> /\ p[1] = "." THEN cwd \o Tail(p) ELSE p

\* captureExecutionContext, and the relation and root the permit carries too.
Capture(a) ==
  LET cwd == Cwd(a)
      follow == a.op \notin NoFollowFinal
      target == Containment(Absolute(a.target, cwd), follow)
      to == Containment(Absolute(a.to, cwd), FALSE)
      known(c) == IF c.verifiable THEN c.path ELSE Nothing
      isFile == a.kind = "filesystem" /\ cwd # Refused
      repository == IF a.kind = "git" /\ cwd \notin {Refused, Nothing}
                    THEN Repository(cwd) ELSE Nothing
  IN [cwd |-> IF cwd = Refused THEN Nothing ELSE cwd,
      repository |-> repository,
      head |-> IF repository = Nothing THEN <<>> ELSE head[repository],
      target |-> IF isFile THEN known(target) ELSE Nothing,
      to |-> IF isFile /\ a.to # Nothing THEN known(to) ELSE Nothing,
      relation |-> IF isFile THEN Relation(Absolute(a.target, cwd)) ELSE "unknown",
      root |-> Lenient(Workspace)]

\* verifyExecutionCwd: the directory to run in, or Refused.
VerifiedCwd(a) ==
  IF a.cwd = Nothing THEN Nothing
  ELSE IF bound.cwd # Nothing /\ Cwd(a) = bound.cwd THEN bound.cwd ELSE Refused

\* Mutant: both ends of the boundary agree, and the place is not compared.
RelationIsEnough(path, authorized) == authorized # Nothing

\* verifyResolvedPath
SamePath(path, authorized) == authorized # Nothing /\ path = authorized

\* guardPath
Guarded(a, p, follow, authorized) ==
  LET cwd == VerifiedCwd(a)
      c == Containment(Absolute(p, cwd), follow)
  IN IF /\ cwd # Refused
        /\ Lenient(Workspace) = bound.root
        /\ c.verifiable /\ c.relation = bound.relation
        /\ SamePath(c.path, authorized)
     THEN c.path ELSE Refused

\* gitOperationDependsOnHead
HeadIndependent == {"status", "log", "fetch"}

\* verifyRepositoryIdentity
SameRepository(a, cwd) ==
  /\ cwd \notin {Refused, Nothing}
  /\ bound.repository # Nothing /\ Repository(cwd) = bound.repository
  /\ a.op \notin HeadIndependent => bound.head = head[Repository(cwd)]

-----------------------------------------------------------------------------
(* Steps of an execution.                                                  *)

Idle == [at |-> "idle"]
NoOutcome == [status |-> "none", proof |-> "none"]
ExecutionEnds(status, proof) ==
  /\ outcome' = [status |-> status, proof |-> proof]
  /\ ex' = [ex EXCEPT !.at = "done"]
Fails(proof) == ExecutionEnds("FAILED", proof)
Refuses == ExecutionEnds("REJECTED", "none") /\ UNCHANGED <<hostVars, changes, bound, processVars, landed, moved>>
Goes(at) == ex' = [ex EXCEPT !.at = at]
Holds(at, f, v) == ex' = [ex EXCEPT !.at = at, ![f] = v]
Runs(kinds, at) == ex.at = at /\ ex.action.kind \in kinds
Quiet == UNCHANGED <<hostVars, changes, bound, processVars, landed, moved>>

Issue(a) ==
  /\ ex.at = "idle"
  /\ ex' = [at |-> "permitted", action |-> a, path |-> Nothing, to |-> Nothing,
            repository |-> Nothing]
  /\ bound' = Capture(a)
  /\ UNCHANGED <<hostVars, changes, processVars, outcome, landed, moved>>

\* Filesystem: the guard, what is observed and then the switch on the operation.
FsGuard ==
  /\ Runs({"filesystem"}, "permitted")
  /\ LET a == ex.action
         path == Guarded(a, a.target, a.op \notin NoFollowFinal, bound.target)
     IN IF path = Refused THEN Refuses
        ELSE /\ Holds(IF a.op = "move" THEN "moving" ELSE "guarded", "path", path)
             /\ moved' = FALSE
             /\ UNCHANGED <<hostVars, changes, bound, processVars, outcome, landed>>

\* case 'move': the other end is guarded as well.
FsGuardDestination ==
  /\ Runs({"filesystem"}, "moving")
  /\ LET to == Guarded(ex.action, ex.action.to, FALSE, bound.to)
     IN IF to = Refused THEN Refuses
        ELSE Holds("guarded", "to", to) /\ Quiet /\ UNCHANGED outcome

NeedsPath == {"read", "list", "stat", "move", "delete"}

\* The existsSync of the operations that have one: it follows links.
FsCheck ==
  /\ Runs({"filesystem"}, "guarded")
  /\ IF \/ ex.action.op \in NeedsPath /\ ~Exists(ex.path)
        \/ ex.action.op = "create" /\ Exists(ex.path)
     THEN Fails("none") ELSE Goes("checked") /\ UNCHANGED outcome
  /\ Quiet

Reaches(objects) == landed' = landed \cup objects
Below(q) == {r \in DOMAIN fs : IsPrefix(q, r)}
\* mkdirSync(recursive) and a file: every missing name becomes a directory.
WithParents(q) == [r \in DOMAIN fs \cup {SubSeq(q, 1, i) : i \in 0 .. Len(q)} |->
                     IF r \in DOMAIN fs THEN fs[r] ELSE Dir]
CanMake(q) == \A i \in 0 .. Len(q) : LET r == SubSeq(q, 1, i) IN
                EntryExists(r) => IsDir(r)

\* write, create, overwrite, append and mkdir
FsWrites ==
  LET p == ex.path
      n == Deepest(p)
      q == Opened(SubSeq(p, 1, n)) \o SubSeq(p, n + 1, Len(p))
      made == IF ex.action.op = "mkdir" THEN q ELSE Front(q)
      tree == WithParents(made)
      parents == SubSeq(p, 1, IF ex.action.op = "mkdir" THEN Len(p) ELSE Len(p) - 1)
  IN IF q # Gone /\ CanMake(parents) /\ (ex.action.op # "mkdir" => ~IsDir(p))
     THEN /\ fs' = [r \in DOMAIN tree \cup {q} |-> IF r \in DOMAIN tree THEN tree[r] ELSE File]
          /\ Reaches({q}) /\ Goes("acted") /\ UNCHANGED outcome
     ELSE Fails("none") /\ UNCHANGED <<fs, landed>>

\* rmSync and renameSync act on the entry.
FsDeletes ==
  IF EntryExists(ex.path)
  THEN /\ fs' = [r \in DOMAIN fs \ Below(Entry(ex.path)) |-> fs[r]]
       /\ Reaches({Entry(ex.path)}) /\ Goes("acted") /\ UNCHANGED outcome
  ELSE Fails("none") /\ UNCHANGED <<fs, landed>>

FsMoves ==
  LET from == Entry(ex.path)  to == Entry(ex.to) IN
  IF EntryExists(ex.path) /\ to # Gone /\ fs[from].type # "dir" /\ (EntryExists(ex.to) => fs[to].type # "dir")
  THEN /\ fs' = [r \in (DOMAIN fs \ {from}) \cup {to} |-> IF r = to THEN fs[from] ELSE fs[r]]
       /\ Reaches({from, to}) /\ Goes("acted") /\ UNCHANGED outcome
  ELSE Fails("none") /\ UNCHANGED <<fs, landed>>

FsReads ==
  IF Exists(ex.path) THEN Reaches({Opened(ex.path)}) /\ Goes("acted") /\ UNCHANGED <<fs, outcome>>
  ELSE Fails("none") /\ UNCHANGED <<fs, landed>>

FsAct ==
  /\ Runs({"filesystem"}, "checked")
  /\ CASE ex.action.op = "delete" -> FsDeletes
       [] ex.action.op = "move" -> FsMoves
       [] ex.action.op \in {"read", "list", "stat"} -> FsReads
       [] OTHER -> FsWrites
  /\ UNCHANGED <<nested, head, changes, bound, processVars, moved>>

\* fileStateVerification, absentVerification and moveVerification, of what
\* observeFileState finds afterwards (lstat, so links are not followed).
PresentProof(p) == IF EntryExists(p) THEN "VERIFIED" ELSE "FAILED"
AbsentProof(p) == IF EntryExists(p) THEN "FAILED" ELSE "VERIFIED"
FsProof ==
  CASE ex.action.op = "delete" -> AbsentProof(ex.path)
    [] ex.action.op = "move" -> IF "FAILED" \in {AbsentProof(ex.path), PresentProof(ex.to)}
                                THEN "FAILED" ELSE "VERIFIED"
    [] ex.action.op \in {"list", "stat"} -> "VERIFIED"
    [] ex.action.op = "mkdir" -> IF EntryExists(ex.path) THEN "VERIFIED" ELSE "NOT_VERIFIABLE"
    [] OTHER -> PresentProof(ex.path)

FsObserve ==
  /\ Runs({"filesystem"}, "acted")
  /\ ExecutionEnds("EXECUTED", FsProof) /\ Quiet

\* Shell and git: the directory (and the repository) is verified, and then the
\* process is spawned in the directory that was verified.
ProcessGuard ==
  /\ Runs({"shell", "git"}, "permitted")
  /\ LET cwd == VerifiedCwd(ex.action)
     IN IF cwd = Refused \/ (ex.action.kind = "git" /\ ~SameRepository(ex.action, cwd))
        THEN Refuses
        ELSE /\ ex' = [ex EXCEPT !.at = "guarded", !.path = cwd,
                       !.repository = IF cwd = Nothing THEN Nothing ELSE Repository(cwd)]
             /\ moved' = FALSE
             /\ UNCHANGED <<hostVars, changes, bound, processVars, outcome, landed>>

\* What a process reaches: its directory, or the branch it works on.
Reached == IF ex.action.kind = "shell" THEN Opened(ex.path)
           ELSE <<Repository(ex.path), head[Repository(ex.path)]>>

Spawn ==
  /\ Runs({"shell", "git"}, "guarded")
  /\ IF ex.path = Nothing \/ IsDir(ex.path)
     THEN /\ child' = "running" /\ Goes("running") /\ UNCHANGED outcome
          /\ IF ex.path = Nothing THEN UNCHANGED landed ELSE Reaches({Reached})
          /\ IF ex.action.op = "commit"
             THEN head' = [head EXCEPT ![Repository(ex.path)] = <<@[1], @[2] + 1>>]
             ELSE UNCHANGED head
     ELSE Fails("FAILED") /\ UNCHANGED <<child, landed, head>>
  /\ UNCHANGED <<fs, nested, changes, bound, code, held, timedOut, moved>>

\* The process ends by itself; one it has started may keep the output open.
ChildExits ==
  /\ child = "running" /\ child' = "exited"
  /\ code' \in {0, 1} /\ held' \in BOOLEAN
  /\ UNCHANGED <<hostVars, changes, ex, bound, timedOut, outcome, landed, moved>>

OutputCloses == held /\ held' = FALSE
                /\ UNCHANGED <<hostVars, changes, ex, bound, child, code, timedOut, outcome, landed, moved>>

\* Mutant: a timer that remembers the timeout and lets the process run.
TimerWithoutKill ==
  /\ ex.at = "running" /\ ~timedOut
  /\ timedOut' = TRUE
  /\ UNCHANGED <<hostVars, changes, ex, bound, child, code, held, outcome, landed, moved>>

\* The timer of shell.ts and git.ts: SIGKILL for the child, not for what it started.
TimerFires ==
  /\ ex.at = "running" /\ ~timedOut
  /\ timedOut' = TRUE /\ child' = "exited"
  /\ IF child = "running" THEN code' = 137 /\ held' \in BOOLEAN ELSE UNCHANGED <<code, held>>
  /\ UNCHANGED <<hostVars, changes, ex, bound, outcome, landed, moved>>

\* Mutant: git's proof looks at the exit code and the repository alone.
ProofWithoutTimer(a) ==
  CASE a.kind = "shell" -> IF code = 0 /\ ~timedOut THEN "PARTIALLY_VERIFIED" ELSE "FAILED"
    [] a.kind = "git" -> IF code = 0 /\ Repository(ex.path) = ex.repository
                         THEN "VERIFIED" ELSE "FAILED"

\* The proof of a process: shell never claims more than what it observed.
ProcessProof(a) ==
  CASE a.kind = "shell" -> IF code = 0 /\ ~timedOut THEN "PARTIALLY_VERIFIED" ELSE "FAILED"
    [] a.kind = "git" -> IF code = 0 /\ ~timedOut /\ Repository(ex.path) = ex.repository
                         THEN "VERIFIED" ELSE "FAILED"

\* 'close', which comes when the process has ended and its output is closed.
Close ==
  /\ Runs({"shell", "git"}, "running") /\ child = "exited" /\ ~held
  /\ ExecutionEnds(IF timedOut THEN "TIMED_OUT" ELSE IF code = 0 THEN "EXECUTED" ELSE "FAILED",
          ProcessProof(ex.action))
  /\ Quiet

\* Http: a credential in a header is refused, and then one request is sent.
HttpSend ==
  /\ Runs({"http"}, "permitted")
  /\ IF ex.action.op = "raw_credential" THEN Fails("none") /\ UNCHANGED landed
     ELSE Goes("sent") /\ Reaches({ex.action.target}) /\ UNCHANGED outcome
  /\ UNCHANGED <<hostVars, changes, bound, processVars, moved>>

\* The answer; a redirect is one too, and is not followed.
HttpAnswer ==
  /\ Runs({"http"}, "sent")
  /\ \E status \in {"ok", "redirect", "refusal", "broken"} :
       IF status \in {"ok", "redirect"} THEN ExecutionEnds("EXECUTED", "VERIFIED") ELSE Fails("FAILED")
  /\ Quiet

HttpTimeout == Runs({"http"}, "sent") /\ ExecutionEnds("TIMED_OUT", "FAILED") /\ Quiet

\* Mcp: without a transport there is nothing to manage; nothing ends the wait
\* for the server's answer.
McpCall ==
  /\ Runs({"mcp"}, "permitted")
  /\ \/ Fails("NOT_VERIFIABLE") /\ UNCHANGED landed
     \/ Goes("sent") /\ Reaches({ex.action.target}) /\ UNCHANGED outcome
  /\ UNCHANGED <<hostVars, changes, bound, processVars, moved>>

McpAnswer ==
  /\ Runs({"mcp"}, "sent")
  /\ ExecutionEnds("EXECUTED", "PARTIALLY_VERIFIED") \/ Fails("FAILED")
  /\ Quiet

-----------------------------------------------------------------------------
(* The others on the host.                                                 *)

Changed ==
  /\ changes < MaxChanges /\ changes' = changes + 1
  /\ ex.at \notin {"idle", "done"} /\ moved' = TRUE
  /\ UNCHANGED <<ex, bound, processVars, outcome, landed>>

Relink == \E p \in DOMAIN LinkTo : \E to \in LinkTo[p] :
  /\ fs' = [r \in DOMAIN fs \cup {p} |-> IF r = p THEN Link(to) ELSE fs[r]]
  /\ fs' # fs /\ Changed /\ UNCHANGED <<nested, head>>
RemoveFile == \E p \in DOMAIN fs :
  /\ fs[p].type = "file" /\ fs' = [r \in DOMAIN fs \ {p} |-> fs[r]]
  /\ Changed /\ UNCHANGED <<nested, head>>
MakeRepository == ~nested /\ nested' = TRUE /\ Changed /\ UNCHANGED <<fs, head>>
MoveHead == \E r \in DOMAIN head :
  /\ \/ head' = [head EXCEPT ![r] = <<"release", @[2]>>]
     \/ head' = [head EXCEPT ![r] = <<@[1], @[2] + 1>>]
  /\ head' # head /\ Changed /\ UNCHANGED <<fs, nested>>

Host == Relink \/ RemoveFile \/ MakeRepository \/ MoveHead
Executor == \/ FsGuard \/ FsGuardDestination \/ FsCheck \/ FsAct \/ FsObserve
            \/ ProcessGuard \/ Spawn \/ Close
            \/ HttpSend \/ HttpAnswer \/ HttpTimeout \/ McpCall \/ McpAnswer
Permit == \E a \in Action : Issue(a)

ExecutionInit ==
  /\ fs = World /\ nested = FALSE
  /\ head = [r \in {p[1] : p \in DOMAIN World \ {<<>>}} \X BOOLEAN |-> <<"main", 0>>]
  /\ changes = 0 /\ ex = Idle /\ bound = <<>> /\ landed = {} /\ moved = FALSE
  /\ child = "none" /\ code = 0 /\ held = FALSE /\ timedOut = FALSE /\ outcome = NoOutcome

ExecutionNext == Permit \/ Executor \/ ChildExits \/ OutputCloses \/ TimerFires \/ Host

\* Timers fire and a closed process is heard of; what the process does by
\* itself, what keeps its output open and the MCP server need never end.
ExecutionFairness ==
  WF_executionVars(TimerFires) /\ WF_executionVars(Close) /\ WF_executionVars(HttpTimeout)

ExecutionSpec == ExecutionInit /\ [][ExecutionNext]_executionVars /\ ExecutionFairness

-----------------------------------------------------------------------------

\* What the permit allows the execution to reach.
Permitted ==
  CASE ex.action.kind = "filesystem" -> {bound.target, bound.to}
    [] ex.action.kind = "shell" -> {bound.cwd}
    [] ex.action.kind = "git" ->
         {<<bound.repository, h>> : h \in IF ex.action.op \in HeadIndependent
                                          THEN Range(head) ELSE {bound.head}}
    [] OTHER -> {ex.action.target}

\* The file, directory, branch or server an execution reaches is the one its
\* permit was issued for, whatever happened to links, directories, branches and
\* repositories since: only a change after the last look can redirect it.
LandsWherePermitted ==
  ex.at # "idle" /\ ~moved => landed \subseteq Permitted

\* A proof says VERIFIED of executions that reached what they were permitted
\* to, and never of one that timed out, failed or was refused.
VerifiedMeansDone ==
  outcome.proof = "VERIFIED" => outcome.status = "EXECUTED" /\ landed # {}

\* A process or request that was started ends, unless a process that outlived
\* the killed child keeps its output open, or an MCP server never answers:
\* neither is bounded by the timeout.
StartedEnds ==
  ex.at \in {"running", "sent"} ~> (ex.at = "done" \/ held
                                   \/ (ex.at = "sent" /\ ex.action.kind = "mcp"))
=============================================================================
