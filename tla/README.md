# SafeLoop in TLA+

SafeLoop governs the side effects of AI agents: an agent proposes an action, a
policy disposes of it, a human may have to approve it, and a managed executor
carries it out on a single-use permit. This directory holds the TLA+ models of
that program, the TLC configurations that check them on small instances, and
the TLAPS proofs about them.

    tlc -config MCClaimStore_concurrent.cfg MCClaimStore.tla
    tlapm ClaimStoreProofs.tla

## The system

### Components, state, operations

| component | source (under `src/src/`) | state | operations |
|---|---|---|---|
| claim store | `runtime/atomicStateStore.ts` | one file per claimed id | claim, revoke, isClaimed, prune |
| permit authority | `runtime/executionPermit.ts` | signed permits, claims `permits` | issue, verify, redeem, revoke |
| approval authority | `runtime/boundApproval.ts` | signed tokens, claims `approvals` | request, grant, validate, redeem, revoke |
| runtime core | `runtime/runtimeCore.ts` | sessions, tasks, pending approvals, approved contexts (in memory) | startSession, startTask, propose, grantApproval, redeemApproval, execute, memory operations, control verification, finish |
| managed executor | `runtime/managedExecutor.ts` | none of its own | execute: redeem, breaker, budget, plugin |
| executors | `runtime/executors/*`, `runtime/executionProof.ts` | a child process or request while it runs | guard, act, observe, prove |
| budgets | `runtime/budgets.ts` | counters of a session | check, record*, remaining, reset |
| circuit breaker | `runtimeGovernance.ts` | counts and state of a session | evaluate, status, reset |
| policy and host facts | `runtimeGovernance.ts`, `runtime/profiles.ts`, `failClosed.ts`, `runtime/workspace.ts`, `runtime/executionContext.ts`, `runtime/canonicalAction.ts` | none | evaluate, classify, resolve, compare |
| memory governance | `runtime/memoryGateway.ts`, `runtime/memoryStore.ts` | permits, claims `memory`, memory records | propose, authorize, persist, promote |
| daemon, clients, commands | `runtime/daemon.ts`, `client.ts`, `runtimeAuth.ts`, `cliCommands.ts`, `python/safeloop_client` | connection file, credentials, sessions | start, stop, run, approve, requests |
| ledger and recorder | `eventStream.ts`, `localStorage.ts`, `ledgerIntegrity.ts`, `runtime/recorder.ts`, `runtime/sessionWorkGraph.ts` | `events.jsonl`, the seal, an index in memory | append, read, seal, verify, page |
| legacy approvals | `approvalToken.ts`, `approvalStateStore.ts` | tokens and their JSON state file | issue, redeem, revoke |
| in-process breaker | `createBreaker` in `index.ts` | counters, kill switch | run, trip, reset |
| scenario loop, command guard, specialists | `scenarioLoop.ts`, `commandGuard.ts`, `policyConfig.ts`, `specialistGovernance.ts` | the loop's counters, its breaker | step, execute, delegate, guardEffect |
| cases, agent sessions, handoffs | `caseFile.ts`, `agentAdapter.ts`, `handoff*.ts`, `safeloopQuery.ts` | a case as a value, a session's events | the operations of a case, emit, complete, hydrate, query |
| monitor | `monitor/*`, `oversightAnalyzer.ts`, `readinessScore.ts`, `modelUsage.ts`, `costPricing.ts` | none: everything is derived from the stream | derive, evaluate, record an operator's action |
| secret, evidence, schemas, MCP, `cli.ts` | see `components` in PROJECT.json | key file, evidence file | not modelled |

### How they interact

`propose` evaluates the policy on the current host state, feeds the session's
breaker, and either issues a permit, records an approval request with the host
state it resolved, or refuses. `grantApproval` (an operator) signs a token for a
pending request, once. `redeemApproval` evaluates the policy again, verifies the
token, compares the host with what the operator was shown, claims the approval
id in the claim store and issues a permit. `execute` claims the permit id,
asks breaker and budget, counts the action and awaits the executor plugin, which
compares the host with the permit before it acts. Handlers are synchronous
JavaScript: they interleave only at that `await`, with other processes on the
same state directory, and with the host.

Everything that happens is appended to one event stream, by the runtime's recorder, the
scenario loop, the guard, agent sessions and the monitor. Its readers are other
processes: the seal, the timeline and the dashboard see whatever prefix there is. Agents
reach the runtime through a daemon, found by a connection file that commands and daemons
write and remove without a lock. The scenario loop is the older way to govern: it decides
by the same risk policy, and hands commands to the guard, which may redeem a legacy
approval before it spawns. A case travels from owner to owner by a manifest.

### What is hard about it

- claims are files, shared by processes that interleave between system calls, may
  crash in the middle, and read the clock more than once per redemption;
- consent passes through three ids (request, approval, permit), each single-use on
  its own: single use of the whole needs the links between them;
- the host changes between proposal, grant, redemption and execution, and between
  any two system calls of an executor;
- in-memory state (requests, contexts, sessions) is lost on restart while the claim
  files, signed tokens, credentials and the connection file survive;
- breakers and budgets are asked after the permit is spent, so they must stop
  permits issued long before;
- a handler changes its state and then appends; the append may throw or be torn, and
  readers derive their own view of controls, approvals and loops from what is there;
- timers race with what they bound, and the loser may still answer;
- several sections and reports answer one question, each with code of its own.

### What makes each component correct

- claim store: one winner per id while the token lives; fail closed; calls return;
- authorities: a token is redeemed once and only for what it was signed for;
- runtime core and executor: one execution per decision; effects only where they
  were authorized; a stopped session stays stopped; budgets hold down the delegation
  tree;
- executors: what was started ends, and a proof says no more than what was done;
- memory governance: what is active was authorized for that very content;
- ledger: a crash costs one event, a verified ledger is the sealed one, pages are
  complete, links stay in their session, the dashboard agrees with the runtime;
- policies: more cause for caution never makes a verdict more lenient, and a failing
  engine answers only what it has put on record;
- scenario loop and guard: what runs was allowed, once per approval, and not after a stop;
- cases: session, stream and case tell one story; a successor gets what the manifest says;
- daemon: only the operator approves, and a client acts on the daemon it connected to;
- monitor: nothing is lost or counted twice, and the sections agree;
- breaker: attempts are bounded, a trip is final, runs end;
- legacy approvals: "tokens are single-use".

## The modules

Each module names, in its header, the files it models and the atomicity it
assumes; PROJECT.json maps every definition to its lines. A definition whose
comment starts with "Mutant:" is a plausible bug of the operator it precedes: no
specification uses it, and the run that checks the property must fail when it
takes the operator's place.

### ClaimStore, SingleUse (`runtime/atomicStateStore.ts`)

A call of `redeem`, `revoke` or `prune` is a process of its own that goes through the
code's system calls one at a time (`pc`): verify, check the record, open exclusively,
read again, unlink, write. `file[i]` says who created the claim file and whether it is
still empty. The clock ticks between any two steps, so that a call may verify a
token in one millisecond and claim it in the next. `Crash` and `IoError` can strike
anywhere. Permits and approvals differ in their verification: a permit looks only at the
clock, an approval refuses any record. `SingleUse` is the promise: an id has at most
one holder until it lapses, and only its holder is granted.

### RuntimeCore (`runtime/runtimeCore.ts`, `managedExecutor.ts`, `boundApproval.ts`, `executionPermit.ts`)

One action per operation; the handlers are synchronous, so that each is one step. The
exception is `execute`: the permit is claimed, breaker and budget are asked and the
action is counted in one step (`ExecuteStarts`, `ExecuteBlocked`, `ExecuteIoError`), and the plugin
acts in a later one (`PluginActs`, `PluginRefuses`, `PluginFails`). Between verification and claim
of a permit the clock may tick once. `host[a]` stands for everything the runtime
resolves about an action on the host (path, workspace, repository, head commit); it
changes at any time. `Restart` forgets what the core keeps in memory and leaves
claims and signed tokens. The policy is a constant, a function of action and host
state. `runs`, `permits`, `tokens`, `requests` and `grantedAs` are histories too: nothing is
ever removed from them.

### GovernedMemory (`runtime/memoryGateway.ts`, `runtime/memoryStore.ts`)

A call is a persist, an external authorization or a retrieval, of any process, that reads
the whole file, computes, truncates it and writes it back. A candidate is a record
of what is bound into its fingerprint, with the flaws that `verifyCandidateMemory` can
find; `governed` in a stored record is the candidate whose decision its provenance quotes.

### LegacyApproval (`approvalToken.ts`, `approvalStateStore.ts`)

The same whole-file discipline for the older approval tokens. A gate keeps nothing in
memory, so a restart needs no action of its own. A file that does not parse
reads as a revocation of every id, an empty one as no record at all.

### TaskBreaker (`createBreaker` in `index.ts`)

`run` yields only at the `await` of its task. What happens when the task settles, up to the
start of the next attempt or the end of the run, is one step. `trip`, `reset` and a second
`run` may come in between, on the same counters. `cleared` and `shared` record which runs
were disturbed by a `reset` or by another run, and the properties say for which runs they
hold.

### HostExecution (`runtime/executors/*.ts`, `workspace.ts`, `executionContext.ts`, `executionProof.ts`)

One permitted action, from the resolution its permit binds to its outcome and proof. The
tree is a function from paths to entries, `Resolve` (a recursive function, as `At` is) follows links in it as far as `MAX_SYMLINK_DEPTH` and
through parts that do not exist yet. Each system call is a step; others relink, remove,
make repositories and move heads in between. `moved` says that the host changed after the executor's
last look: no check of a user-space program can rule out the effects of that, and
`LandsWherePermitted` excepts it. Shell and git end through `TimerFires`, `ChildExits` and
`OutputCloses`, for the executor settles when the pipe closes and not when the child dies.

### WorkLedger (`runtimeCore.ts`, `recorder.ts`, `eventStream.ts`, `ledgerIntegrity.ts`, `sessionWorkGraph.ts`, `monitor/runtimeControls.ts`)

`lines` is the file, in which `Junk` stands for what does not parse, and `torn` says that
the last line has no newline. A handler changes its state and leaves the events it will
append in `todo`; each is a step that may succeed, throw (the rest is dropped) or be cut
by a crash (what was in memory is lost). The seal, the dashboard and the reader of the timeline
read the file at any moment. `acked` is a history of the appends that returned.

### CaseWork (`caseFile.ts`, `agentAdapter.ts`, `handoffManifest.ts`, `handoffGovernance.ts`, `handoffHydration.ts`, `safeloopQuery.ts`)

A case is a record, and an operation an operator from case to case, as in the code, which clones.
`Emit` appends the event to `stream` and only then applies it, which may throw. `MakeManifest`
and `Receive` are apart, so that a case goes on while its manifest waits. The errors that
hydration swallows are modelled operation by operation (`HydratedUntilError`). Attachments are a set of records,
each with its number and the number it had in the case it was first made in: their order says nothing else.

### PolicyRules and PolicyEngine (`runtimeGovernance.ts`, `profiles.ts`, `failClosed.ts`, `policyConfig.ts`, `specialistGovernance.ts`)

PolicyRules has no state: the risk policy, the profile's rules, the stricter of both that the core
takes, the gate of a guarded run, the specialists' verdicts. What the code finds in a text
with a pattern (a word group, a clause of the scenario) is a set given with the input. PolicyEngine
asks the risk policy against a timer, with fallbacks and their records.

### ScenarioRun (`scenarioLoop.ts`, `commandGuard.ts`, `runtimeGovernance.ts`, `specialistGovernance.ts`)

`job` is the call in progress: a step of the loop judged, tripped or answered, a command guarded,
granted, spawned, written down. Beside the loop an adapter calls the guard with a token. A crash starts a new loop
with fresh counters; a write that fails throws out of the call. `trace` is the history of what ran
and of what the stream tells of it, `paid` of what the loop has spent.

### DaemonService (`daemon.ts`, `runtimeAuth.ts`, `cliCommands.ts`, `client.ts`)

Daemons, commands and agents are processes over `connection` and `operatorFile`. A daemon makes or loads its
operator credential, binds the port, writes the file; a command looks, removes a stale file, spawns,
waits, kills; a client remembers the connection it read. A request that loses its answer
is carried out all the same, and the client asks again. Process ids are not used again.

### LoopView and MonitorService (`monitor/viewModel.ts`, `dashboardData.ts`, `server.ts`, `oversightAnalyzer.ts`, `readinessScore.ts`, `modelUsage.ts`)

LoopView has no state: events and usage sorted into loops, loops into current and
historical ones, and the sections computed of those. MonitorService is the stream that grows
meanwhile, the clock, the prices, and the requests that are heard or refused.

## The runs

| run | checks | bounds |
|---|---|---|
| `store_concurrent` | type, one winner and no reclaim while a token lives, refinement of `SingleUse`, termination of calls | 3 calls, 1 id, clock 0..2, token alive until 1 |
| `store_permits` | finding: `ExactlyOneWinner` for permits | the same calls, one process |
| `core_custody` | one start per permit, one effect per decision, consent accounted for, effects match authority | 1 session, 2 actions, 2 host states, 1 request, 2 approvals, 2 permits, clock 0..2 |
| `core_limits` | type, budgets, stopped stays stopped | a session and a sub-agent, 4 actions, 2 permits, ceiling of 1 action and 1 tick |
| `memory_governed` | type, active was governed, permits authorize once, persists keep to their tenant | 2 calls, 2 permits, 3 candidates in 2 tenants, clock 0..2 |
| `memory_stale` | finding: `RetrievalsAreFresh` across processes | 3 calls, 1 permit, 2 candidates |
| `memory_provenance` | finding: `ProvenanceNamesItsCandidate` | 1 call, 2 permits |
| `legacy_race` | finding: `RedeemedOnce` across processes | 2 calls, 1 token |
| `legacy_crash` | finding: `SettledStaysSettled` after a crash in a write | 3 calls, 2 tokens |
| `breaker_limits` | budget of a success, repeated errors, attempts, trips | 2 runs, 2 errors, costs 0 and 2, 2 retries |
| `system_ends` | every run of the breaker ends, every started execution ends; effects land where permitted, proofs say what was done; only the operator approves | breaker: 2 runs, 2 errors, no cost; host: 8 paths, 2 links with 5 targets, 18 actions of 5 executors, 3 changes by others; service: 3 daemons, 3 commands, 1 agent, 2 requests, 1 fault |
| `system_parts` | the promises of the six parts below | see below |

`system_ends` and `system_parts` are composites of components that share no state: `part` is
chosen at the start and the others stay still, so that each part is checked as if it
were alone and one TLC start serves them all. No interaction is lost by it, since there is none to
lose; the interactions the code has are inside the parts. The parts of `system_parts`:

| part | properties | bounds |
|---|---|---|
| `ledger` | `CrashesCostOneEvent`, `VerifiedIsAsSealed`, `DashboardAgrees`, `ParentsStayInTheirSession`, `PagesAreComplete` | 2 sessions, 1 control, 1 memory, 3 event ids, pages of 1, 1 crash, throw or edit |
| `case` | `CaseTellsTheSession`, `StatusTellsTheTruth`, `QueriesAgree`, `SuccessorAnswersToManifest` | 2 people, 3 events or deeds of which 1 by people, 2 handovers, 4 contracts, 3 ways to hydrate |
| `engine` | `CautionOnlyTightens` | every combination of the inputs listed in MCPolicyEngine, and every harder one |
| `run` | `RunsAreGoverned` | 3 calls, 5 commands, 8 steps, 1 token, 1 crash or failed write |
| `monitor` | `DashboardIsConsistent` | 3 events of 11, clock 1..3, 4 requests |
| `approval` | `RedeemedOnce`, `SettledStaysSettled`, `GarbledStaysGarbled` | 3 calls of one process, 2 tokens, clock 0..2 |

Why these bounds are enough to be of use: every conflict the code has to decide is between
two calls, runs, sessions or permits, on one id or one file; the third call of `ClaimStore` and of
`LegacyApproval` is the one that interferes with both (a prune, a revocation, a redemption
after a crash). The clock has one tick while a token lives and one after its end, so
that all of before, at and after are met. Two host states tell "as authorized" from "moved".
Three changes by others are enough to point a link away, remove what it led to, and point it
back. One page of one event makes every boundary between pages. A
torn line needs one crash and the event after it; a second handover makes the case of a
successor the source of another. Three calls of the loop are a stop, an approval and a
repetition. Three daemons are the one that is gone, its successor and the one whose secrets
were configured to be the same. `DashboardIsConsistent` also holds with 4 events,
which takes too long to run each time.
The action ceiling of 1 in `core_limits` is met by the session itself and is zero for a
sub-agent started later; the theorems about RuntimeCore do not depend on it. All
properties have been seen to fail under the mutants listed in PROJECT.json.

Ids and calls are symmetric where a run uses SYMMETRY; the liveness runs and the composites use none.
RuntimeCore, GovernedMemory and LegacyApproval are bounded by a stuttering or environment
step, so that deadlock is checked there. The composites set CHECK_DEADLOCK FALSE: a
finished execution, a settled question and a monitor whose bounds are reached stop.

### Fairness

`ClaimStore` assumes weak fairness of the steps of a call that has begun: the
operating system schedules the process, unless it crashes. `Begin`, `IoError`, `Crash` and `Tick`
are never forced. `TaskBreaker` assumes weak fairness of `TaskSettles`: a task that is awaited
settles some time. The code has no timeout, so the property is about the loop of
`run` and not about the task. `HostExecution` assumes weak fairness of
`TimerFires`, `Close` and `HttpTimeout`: Node runs timers that are due and tells of a child whose pipe has closed. It assumes
neither that a child ends by itself, nor that a pipe closes which a grandchild holds, nor that
an MCP server answers: no timeout bounds the last two, and `StartedEnds` excepts them. The other modules state no liveness.

### What the findings show

- `store_permits` (`runtime/executionPermit.ts:231`): `redeem` verifies the expiry and then claims,
  and the claim reads the clock again. A redemption that verifies in the last millisecond of
  a permit and claims in the next finds the consumed record of the first redemption expired,
  unlinks it and wins too. Approvals are not exposed: their verification refuses any record.
- `memory_stale` (`runtime/memoryStore.ts:199`): `active` expires overdue records and then reads the
  file again, filtering by status only. A persist of another process that had read the file before
  brings the record back in between, and it is returned.
- `memory_provenance` (`runtime/memoryStore.ts:177`): the permit is bound to the candidate, the decision is
  not, and provenance is copied from the decision. A caller that mixes up two proposals
  gets an active memory whose provenance is that of the other one. What governance allowed and
  what the permit binds is still enforced (`ActiveWasGoverned`).
- `legacy_race` (`approvalToken.ts:312`): of two processes that validated one token, the one whose
  `consume` returns false reports a valid redemption too.
- `legacy_crash` (`approvalStateStore.ts:81`): a process that ends after the truncation of the state file leaves
  it empty, which reads as no record: redeemed and revoked tokens are accepted again. With a
  file that is left half-written the store is safe (part `approval` of `system_parts`).

## The proofs

The theorems hold for any number of calls, ids, sessions, permits, candidates and runs, for any clock,
and for every policy, under the named assumptions on the constants in each module.

**ClaimStoreProofs.** `OneWinnerWhileAlive` is not inductive: it says nothing about files, nor about calls
that are about to write or to unlink. The invariant adds three facts: a call about to unlink works on an
id that has expired (`UnlinksExpired`), a call that created its file while the token lived still
owns the file while it lives (`HoldsFile`), and no id has two such calls (`OneCreator`). Exclusive creation
and a clock that never goes back carry them. `LiveFilesStay` and the refinement
`StoreImplementsSingleUse` follow from the same invariant: the step that creates the file of a live token
maps to `Take`, the write of its record to `Report`, the tick past its expiry to `Lapse`, everything
else to a stutter.

**RuntimeCoreProofs.** The invariant is a chain of custody. `GrantChain`: an approval belongs to the one
request that names it in `grantedAs`, and carries its session, task, action and context.
`PermitChain`: a permit with an approval stands for a claimed approval that has no other
permit; one without was allowed by the policy in its context. `RunChain`: a run belongs to a permit that is
claimed, with the session and action of the permit and, once it has landed, its host state, and no two
runs were on time on one permit. Each link is single-use by itself; only together do they give one effect
per decision (`OneEffectPerDecision`) and the match of effect and authority. `BreakerCounts` ties an open
breaker to the counters that opened it, which only grow, so that it does not close again
(`StoppedStaysStopped`).

**GovernedMemoryProofs.** `ActiveWasGoverned` speaks of the file, but other processes write back
what they read before. The invariant extends the claim to every copy there is: the file, each
snapshot and each draft. That a call in `authorized` holds a permit that is spent
(`AuthorizedHoldPermits`) gives `PermitsAuthorizeOnce`.

**EndingProofs** has three parts, on the breaker, the daemon and the execution of one action.
The breaker has one set of counters for all its runs, and `run()` and `reset()` clear it at any time. The invariant says whose counters they are: runs that overlap know of each other
(`OverlapsAreKnown`), the attempts of a run alone are counted or there is no controller to go on with
(`AttemptsAreCounted`), its tokens are the counted ones until a reset (`TokensAreCounted`), and its latest
equal errors are the end of the breaker's list (`ErrorsAreKept`, which rests on lemmas about the part
of a sequence that `Latest` keeps). The action property `TrippedRunsStartNothing` follows from what a trip
leaves a run with, an aborted controller or none (`TripsReachTheirRuns`).

In the daemon part of EndingProofs, for any configuration of the secrets, the same secret in several places included: a daemon listens
only where its two secrets differ (`SecretsFit`); a request is held by one daemon, and what was redeemed there
was granted there (`RequestsFit`); a client that waits holds the credential of the daemon that holds its request
(`ClientsFit`); and a command acts on the connection it has read (`CommandsFit`).
Its last part is about proofs of executions (`VerifiedIsDone`), for any tree of files and links and any changes by others. What
was executed is not what the proof looks at, so the invariant follows the execution: an executor that has acted or sent has
reached something, a process that runs without a directory is of no kind whose success is verified, and every git command has one
to start in.
Where an execution lands (`ExecutionsLand`) rests on what path resolution is. The lookup of the kernel (`At`) recurs over the names of a path and
over the links on its way, `resolveStrict()` (`Resolve`) over dangling links; TLAPS knows neither as a recursion, so both are shown to
exist as functions and to satisfy their equations (`WalksExist`, `LookupsWalk`, `ResolvesExist`, `ResolutionResolves`), and an
induction over names and links together (`LookupInduction`) does the rest. What a lookup finds is reached through directories
alone (`FoundStands`) and found again with more hops (`FoundLasts`) and where it is (`StandingFound`); so an answer of `resolveStrict()` is
a path without links, whose names are all there or missing from some point on (`Settled`, `StrictSettles`). The invariant
(`LandingInvariant`) says that the path an execution holds is the one its permit was issued for and is still settled, as long as
nobody has changed the host since (`FilesFit`, `ProcessesFit`), and what others leave of the tree (`TreeFits`). A settled path is
opened, made and removed where it is (`SettledOpens`, `SettledEntry`).
The theorem has a hypothesis, `OpensWhatItCan`: what can be opened following one link more than the kernel does, the kernel opens. Without it
the claim fails: where the kernel gives up on a chain of links that does end in a directory, `resolveStrict()` takes it for dangling
and goes on by hand, and the names that follow are put after its end without being looked up, although one of them may be a
link (TLC shows it of three links and `MaxDepth = 1`). `ExecutionsLandAmongFewLinks` replaces the hypothesis by one on the constants, that there are no
more links, with those others may make, than `MaxDepth + 1`: a path that takes h links one behind the other has a link on its way that
takes h - 1, and so on down, all of them different (`LinksAllTheWay`, `TakesOnce`, `FewLinksOpen`). The run `system_ends` has two
links and `MaxDepth = 2`. `HostAssumption` is what both need of the tree: every entry is in a directory, and others do not turn
the directories that hold something into links.

RuntimeCoreProofs also proves the ceilings (`CeilingsHold`): the runs of a session form a finite set whose
cardinality is what the tracker recorded, and no two of them share a permit and a time (`StartsAreCounted`).
GovernedMemoryProofs also proves that a persist leaves the records of other tenants as it read them
(`PersistsStayInTheirTenant`).

**LegacyApprovalProofs.** All four theorems assume one process, and `TokensAreRedeemedOnce` and
`SettledTokensStaySettled` also that no crash leaves the truncated file empty; the runs `legacy_race` and `legacy_crash`
show that the claims fail otherwise. In one process calls do not interleave (`OneAtATime`) and a writer has found a file that
parses (`WritersFoundAFile`), so a garbled file stays (`GarbledFileStays`). What was settled is in the
file, or in the draft that is about to replace it, until its token expires (`SettledIsKept`), since records of expired
tokens are dropped; and a token accepted by a call in progress has been settled by nobody
(`AcceptedIsNew`).

**WorkLedgerProofs.** A crash leaves a fragment, which the next append joins: one line is lost, so the events that were
acknowledged and cannot be read, and the fragment there may be, are at most the crashes (`FragmentFits`). No id is used twice
(`IdsFit`), and a parent is before its child in the file, still to be appended before it, or lost for
good (`ParentsFit`, `LostIds`). The last event of a control, in the file or still to come, tells the state the runtime
computes (`ControlsFit`, `DashboardsAgree`).
What reads the file is a recursion over its lines. A line more is at most an event more at the end of what is read
(`ReadOfMore`, `ReadGrows`), so that what was sealed stays the beginning of it until somebody edits the file (`SealFits`), and a
count and digests that fit leave nothing else (`SealsTellTheTruth`). The timeline of a session is a finite set listed by an id that
no two of its events share (`TimelineTells`), for which each page starts after the last event that was shown. The reader
holds an ordered part of it that is complete up to its cursor (`ReaderFits`), and events only come after all others or
in between with new ids; so at the last page nothing is missing that was there when the reading began (`PagesMissNothing`).

**AgentProofs** has three parts. For guarded runs, `JobFits` says what a call may do by how far it has come, and `TraceFits`
what the stream must have told before each command that ran. `CountsFit` says how far the stream lags behind while
a command is being run, and how much a crash or a failed write kept from it; `BudgetFits` that what was paid is
counted. The budget rests on a lemma about the policy: a step that would go over it is never simply allowed
(`OverCostIsHeld`), whatever else the assessment finds.
For cases, each operation has a lemma on what it adds (`Grown`). The summary of a session counts the same
(`TallyOfMore`), so that the case is at any time its first case and what was counted (`StoryFits`). `SuccessorsCase` follows a
manifest through the steps of a hydration; nobody is lost when the owner changes, because an owner is among the people
too (`Staffed`). `QueriesStayInAgreement` rests on `CaseAssumption`: a text contains itself.

The third part is about verdicts (`CautionTightens`), for any question whose parts are of the types of the code
(`QuestionAssumption`: known words, policies that give one of the verdicts), with any number of policies. Policies are applied in turn,
and the opinion after each grows with the risks it starts from (`ApplyTells`, `AssessTells`). Of the risks of one name only the highest counts,
but whether there is one of 70 or more can be seen from all of them (`HighestTells`), and 90 is reached only where the scenario
forbids the action anyway (`ScoresTell`): so the verdict is as strict as three questions that more cause for caution
never answers the other way (`VerdictTells`, `MoreIsStricter`). One policy more that denies is stricter than anything (`DenialIsStrictest`). The
stricter of two verdicts inherits this (`EffectiveTells`), the gate has an argument of its own (`FirmerIsFirmer`), and the engine an invariant that ties
its verdict to what is recorded (`EngineFits`).

**Inductions** holds what the proofs about ledgers, policies and paths need of induction over data. The induction theorems of the library take
a predicate as a parameter, which the provers cannot instantiate. Here a predicate is a set, the set of the numbers that satisfy
it (`NaturalInduction`), and a step of a recursion a function, so that a recursion of any length exists and is determined by its
step (`RecursionExists`, `RecursionsAgree`; `RecursionGoesOn` for one over all naturals) and a finite set can be listed by rank (`ListByRankExists`, `ListByRankIsFull`).

Only model-checked:

- all liveness: TLAPS does not reason about fairness and ENABLED;
- `DashboardIsConsistent`: each of its sections is a fold of its own over events of a dozen kinds, and how they agree would have to be proved
  for every pair.

## What the models show besides

None of this contradicts a promise of the repository, so that it is no finding, but a reader
of a property will ask why it is not stronger:

- a case may be completed or handed over while an approval is pending (`StatusTellsTheTruth` goes one
  way only), and the release readiness of a case looks at the latest approval alone (`QueriesAgree`
  excepts a manifest with pending ones);
- a started MCP call has no timeout, and neither has a shell action whose grandchild holds the pipe (`StartedEnds`);
- a policy fallback whose record cannot be written reaches the caller as an error, not as a denial;
- a monitor of several loops gives an event without names to the first of them, and a resolution without a
  request to the latest pending approval (`SectionsAgree` compares the lists of approvals where each resolution names its request).

## What is not modelled

Signatures are modelled by what they give: a token verifies if and only if it was issued as it is.
In RuntimeCore the host check of an executor and its system call are one step; HostExecution has them
apart. What a pattern finds in a text is given with the input. The token, cost and retry budgets of the
runtime are left out because nothing under `src/` records any. Between the two checks of a claim
file (`existsSync` and `readFileSync`) nothing happens in the model: an unlink there only adds refusals.
Bodies of requests, sockets and their permissions, formatting, the browser code, exports and schemas are left out; the
components table of PROJECT.json gives the reason for each part.

Hazards of the code that no property covers, besides those that PROJECT.json lists with a note:

- the budget of a sub-agent is a copy of what its parent has left, so that several together exceed it
  (`runtime/runtimeCore.ts:504`; the code promises no joint ceiling);
- a breaker whose token threshold has opened it becomes WARNING on a repeated call, which is looked at first
  (`runtimeGovernance.ts:693`; the core configures no such threshold);
- `blocked_reason` stays after a later verification of the control has passed (`runtime/runtimeCore.ts:1223`);
- a persist that is retried after it succeeded is refused and quarantines the active record, and of two writers at the same
  time the later drops what the earlier wrote (`runtime/memoryStore.ts:149`, `:128`; both are in GovernedMemory, where nothing promises
  otherwise);
- two processes that record an artifact write the index each as it read it (`runtime/recorder.ts:88`);
- the process id in the connection file may belong to another process by now (`runtime/cliCommands.ts:55`);
- two usage records of one millisecond get one event id (`modelUsage.ts:80`);
- the card of a loop does not know `run.completed` and `run.failed`, which the list of active loops does (`monitor/viewModel.ts:673`,
  `monitor/dashboardData.ts:75`), and readiness counts only resolved approvals (`monitor/viewModel.ts:984`);
- completed loops of more than a day ago count as active ones (`oversightAnalyzer.ts:122`).

## What is left

Done: the claim store, the runtime core, memory governance, both older gates, the executors on their host, the ledger with
its readers, cases and handovers, the policy rules and engine, the scenario run, the daemon with its clients, and the
monitor.

1. Proofs: the agreement of the monitor's sections, pair by pair.
2. The recorder inside the execution: one module for claim, plugin and appends, with the artifact index.
3. First use and rotation of the runtime secret, and process ids that are used again.
4. Composition: the scenario loop and the monitor over the one stream that WorkLedger tears.
