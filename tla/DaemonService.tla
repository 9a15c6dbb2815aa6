----------------------------- MODULE DaemonService -----------------------------
(***************************************************************************)
(* The runtime as a local service: the daemon (src/runtime/daemon.ts) with *)
(* its credentials and connection file (src/runtime/runtimeAuth.ts), the   *)
(* commands that start and stop it, approve, and launch an agent           *)
(* (src/runtime/cliCommands.ts), and the clients agents hold               *)
(* (src/runtime/client.ts, python/safeloop_client/runtime.py).             *)
(*                                                                         *)
(* All of them are processes over one state directory, which holds the     *)
(* connection file and the operator's credential; nothing locks it.  Of    *)
(* the runtime behind the routes only what tells one daemon's requests     *)
(* from another's is kept: its sessions, what is held for approval, what   *)
(* was granted.  RuntimeCore models the rest.                              *)
(***************************************************************************)
EXTENDS Integers, Sequences

CONSTANTS
  Pid,      \* daemon processes there can be, each with its configuration
  Agent,    \* agents that hold a client
  Cli,  \* command-line processes, and
  Does,     \* what each may be: "start", "stop", "run" or "approve"
  Config,   \* per process: [port, cred, op], where "" leaves a secret to be made up
  MaxFaults, MaxRequests \* bounds: crashes, lost answers and waits given up; sessions and proposals

ASSUME ServiceAssumption ==
  /\ Config \in [Pid -> [port : Nat, cred : STRING, op : STRING]]
  /\ Does \in [Cli -> SUBSET {"start", "stop", "run", "approve"}]
  /\ MaxFaults \in Nat /\ MaxRequests \in Nat

VARIABLES
  connection,   \* the connection file, <<>> or <<[pid, port, cred]>>
  operatorFile, \* the operator's credential file, <<>> or <<secret>>
  daemon,       \* Pid -> [phase, cred, op, sessions, held, granted, redeemed]
  cli,      \* Cli -> [does, at, read, secret, client, session]
  agent,        \* Agent -> [conn, session, request, at]: a client and what it is doing
  acted,        \* what the last step carried out, {} or {[pid, by, conn, route, ...]}
  granted,      \* history: grants answered, [pid, by, request]
  requests, faults \* counters of the bounds
serviceVars ==
  <<connection, operatorFile, daemon, cli, agent, acted, granted, requests, faults>>

Secret(p, kind) == <<kind, p>>
NoSession == [id |-> 0, agent |-> "", pid |-> 0]
Unborn == [phase |-> "none", cred |-> <<>>, op |-> <<>>, sessions |-> {}, held |-> {},
           granted |-> {}, redeemed |-> {}]
Unconnected == [conn |-> <<>>, session |-> NoSession, request |-> 0, at |-> "out"]

ServiceInit ==
  /\ connection = <<>> /\ operatorFile = <<>>
  /\ daemon = [p \in Pid |-> Unborn]
  /\ cli = [c \in Cli |-> [does |-> "", at |-> "begin", read |-> <<>>, secret |-> <<>>, client |-> <<>>,
                              session |-> NoSession]]
  /\ agent = [a \in Agent |-> Unconnected]
  /\ acted = {} /\ granted = {} /\ requests = 0 /\ faults = 0

Others == acted' = {} /\ UNCHANGED <<agent, granted, requests>>
Alive(p) == daemon[p].phase \notin {"none", "gone"}
Listening(p) == daemon[p].phase \in {"bound", "serving"}
ListenersAt(port) == {p \in Pid : Listening(p) /\ Config[p].port = port}
Becomes(p, phase) == daemon' = [daemon EXCEPT ![p].phase = phase]

-----------------------------------------------------------------------------
(* The daemon: startDaemon and stop.                                       *)

\* generateRuntimeCredential, and what the operator's file holds.
LoadOperator(p) ==
  LET cred == IF Config[p].cred = "" THEN Secret(p, "runtime") ELSE <<Config[p].cred>>
      op == IF Config[p].op # "" THEN <<Config[p].op>>
            ELSE IF operatorFile # <<>> THEN operatorFile[1] ELSE <<>>
  IN /\ daemon[p].phase = "spawned"
     /\ daemon' = [daemon EXCEPT ![p].cred = cred, ![p].op = op,
                                 ![p].phase = IF op = <<>> THEN "minting" ELSE "loaded"]
     /\ UNCHANGED <<connection, operatorFile, cli, faults>> /\ Others

\* loadOperatorCredential found no file: it makes a credential up and writes it.
MintOperator(p) ==
  /\ daemon[p].phase = "minting"
  /\ operatorFile' = <<Secret(p, "operator")>>
  /\ daemon' = [daemon EXCEPT ![p].op = Secret(p, "operator"), ![p].phase = "loaded"]
  /\ UNCHANGED <<connection, cli, faults>> /\ Others

\* Mutant: a daemon that starts with one secret for both.
AnySecrets(p) == TRUE

\* The daemon refuses to start when agent and approver would hold one secret.
SecretsDiffer(p) == daemon[p].cred # daemon[p].op

\* listen() fails where another daemon has the port.
Bind(p) ==
  /\ daemon[p].phase = "loaded"
  /\ Becomes(p, IF SecretsDiffer(p) /\ ListenersAt(Config[p].port) = {} THEN "bound" ELSE "gone")
  /\ UNCHANGED <<connection, operatorFile, cli, faults>> /\ Others

\* writeConnectionFile, over whatever is there.  Requests were answered before it.
Announce(p) ==
  /\ daemon[p].phase = "bound" /\ Becomes(p, "serving")
  /\ connection' = <<[pid |-> p, port |-> Config[p].port, cred |-> daemon[p].cred]>>
  /\ UNCHANGED <<operatorFile, cli, faults>> /\ Others

\* stop(): the servers have closed; the file goes, whosever it is, and the process.
CloseDaemon(p) ==
  /\ daemon[p].phase = "closing" /\ Becomes(p, "gone") /\ connection' = <<>>
  /\ UNCHANGED <<operatorFile, cli, faults>> /\ Others

\* A signal handled: a daemon that serves closes; before that it just dies.
Signalled(p) ==
  [daemon EXCEPT ![p].phase = IF @ = "serving" THEN "closing"
                              ELSE IF @ \in {"none", "closing"} THEN @ ELSE "gone"]

\* Whatever the daemon held in memory is lost; what it wrote stays.
Die(p) ==
  /\ Alive(p) /\ faults < MaxFaults /\ faults' = faults + 1 /\ Becomes(p, "gone")
  /\ UNCHANGED <<connection, operatorFile, cli>> /\ Others

-----------------------------------------------------------------------------
(* Commands.                                                               *)

Go(c, at) == cli' = [cli EXCEPT ![c].at = at]

\* safeloop daemon start, and the first step of safeloop run: read the file.
Look(c) ==
  /\ cli[c].at = "begin"
  /\ \E does \in Does[c] :
       cli' = [cli EXCEPT ![c].does = does, ![c].read = connection,
         ![c].at = CASE does = "stop" -> IF connection = <<>> THEN "done" ELSE "kill"
                     [] does = "approve" -> IF connection = <<>> THEN "done" ELSE "readSecret"
                     [] OTHER -> IF connection = <<>> THEN "spawn"
                                 ELSE IF Alive(connection[1].pid) THEN "started" ELSE "clean"]
  /\ UNCHANGED <<connection, operatorFile, daemon, faults>> /\ Others

\* The file of a daemon that is gone is removed, then a daemon is spawned.
Clean(c) ==
  /\ cli[c].at = "clean" /\ Go(c, "spawn") /\ connection' = <<>>
  /\ UNCHANGED <<operatorFile, daemon, faults>> /\ Others
SpawnDaemon(c) ==
  /\ cli[c].at = "spawn" /\ Go(c, "wait")
  /\ \E p \in Pid : daemon[p].phase = "none" /\ Becomes(p, "spawned")
  /\ UNCHANGED <<connection, operatorFile, faults>> /\ Others

\* waitFor: until the file names a living process, or ten seconds.
Waited(c) ==
  /\ cli[c].at = "wait"
  /\ \/ /\ connection # <<>> /\ Alive(connection[1].pid)
        /\ Go(c, IF cli[c].does = "run" THEN "reread" ELSE "started") /\ UNCHANGED faults
     \/ /\ faults < MaxFaults /\ faults' = faults + 1
        /\ Go(c, IF cli[c].does = "run" THEN "reread" ELSE "done")
  /\ UNCHANGED <<connection, operatorFile, daemon>> /\ Others

\* safeloop daemon stop: the signal goes to the process that was read, and after
\* five seconds or its end the file is removed, whosever it is by then.
Kill(c) ==
  /\ cli[c].at = "kill" /\ Go(c, "remove") /\ daemon' = Signalled(cli[c].read[1].pid)
  /\ UNCHANGED <<connection, operatorFile, faults>> /\ Others
RemoveConnection(c) ==
  /\ cli[c].at = "remove" /\ Go(c, "done") /\ connection' = <<>>
  /\ UNCHANGED <<operatorFile, daemon, faults>> /\ Others

\* safeloop approve: the operator's credential, then one request.
ReadSecret(c) ==
  /\ cli[c].at = "readSecret"
  /\ cli' = [cli EXCEPT ![c].secret = operatorFile,
                                ![c].at = IF operatorFile = <<>> THEN "done" ELSE "approve"]
  /\ UNCHANGED <<connection, operatorFile, daemon, faults>> /\ Others

-----------------------------------------------------------------------------
(* Requests.  A route checks the secret it names, then the session's.      *)

SessionRoutes ==
  {"timeline", "finish", "startTask", "finishTask", "propose", "redeem", "execute", "verify",
   "proposeMemory", "authorizeMemory", "persistMemory", "activeMemories"}
RouteAuth ==
  [r \in {"health", "grant", "status", "start"} \cup SessionRoutes |->
     CASE r = "health" -> "none" [] r = "grant" -> "operator" [] OTHER -> "runtime"]

\* Mutant: the credential every agent holds opens every route.
OneSecretForAll(p, route, bearer) == bearer \in {daemon[p].cred, daemon[p].op}

\* Each level checks exactly one secret.
Admitted(p, route, bearer) ==
  CASE RouteAuth[route] = "none" -> TRUE
    [] RouteAuth[route] = "runtime" -> bearer = daemon[p].cred
    [] OTHER -> bearer = daemon[p].op

\* What the daemon answers, as an HTTP status.
Status(p, q) ==
  IF ~Admitted(p, q.route, q.bearer) THEN 401
  ELSE IF q.route \in SessionRoutes
          /\ q.session \notin daemon[p].sessions THEN 401
  ELSE IF q.route = "grant" /\ q.request \notin daemon[p].held THEN 404
  ELSE IF q.route = "grant" /\ q.request \in daemon[p].granted THEN 409
  ELSE IF q.route = "redeem"
          /\ q.request \notin daemon[p].granted \ daemon[p].redeemed THEN 400
  ELSE 200

\* The handler: what it changes of the daemon.
Handled(p, q) ==
  CASE q.route = "start" -> [daemon EXCEPT ![p].sessions = @ \cup {q.session}]
    [] q.route = "finish" -> [daemon EXCEPT ![p].sessions = @ \ {q.session}]
    [] q.route = "propose" /\ q.holds -> [daemon EXCEPT ![p].held = @ \cup {q.request}]
    [] q.route = "grant" -> [daemon EXCEPT ![p].granted = @ \cup {q.request}]
    [] q.route = "redeem" -> [daemon EXCEPT ![p].redeemed = @ \cup {q.request}]
    [] OTHER -> daemon

Approve(c) ==
  LET conn == cli[c].read[1]
      bearer == cli[c].secret[1]
  IN /\ cli[c].at = "approve" /\ Go(c, "done")
     /\ \/ \E p \in ListenersAt(conn.port) : \E r \in daemon[p].held :
             LET q == [route |-> "grant", bearer |-> bearer, session |-> NoSession, request |-> r]
             IN IF Status(p, q) = 200
                THEN /\ daemon' = Handled(p, q)
                     /\ granted' = granted \cup {[pid |-> p, by |-> "operator", request |-> r]}
                ELSE UNCHANGED <<daemon, granted>>
        \/ UNCHANGED <<daemon, granted>>
     /\ acted' = {} /\ UNCHANGED <<connection, operatorFile, agent, requests, faults>>

\* safeloop run: the file is read again once a daemon was started; the command's own
\* client reads it a third time and starts the session; and the agent gets the
\* connection of the second reading with the session of the third.
Reread(c) ==
  /\ cli[c].at = "reread"
  /\ cli' = [cli EXCEPT ![c].read = connection,
                                ![c].at = IF connection = <<>> THEN "done" ELSE "started"]
  /\ UNCHANGED <<connection, operatorFile, daemon, faults>> /\ Others
Launch(c, a) ==
  LET at == IF connection = <<>> THEN {} ELSE ListenersAt(connection[1].port)
      q(p) == [route |-> "start", bearer |-> connection[1].cred, request |-> 0,
               session |-> [id |-> requests + 1, agent |-> a, pid |-> p]]
  IN /\ cli[c].does = "run" /\ cli[c].at = "started" /\ requests < MaxRequests
     /\ \/ \E p \in at :
             /\ Status(p, q(p)) = 200 /\ agent[a].at = "out"
             /\ daemon' = Handled(p, q(p)) /\ requests' = requests + 1
             /\ cli' = [cli EXCEPT ![c].at = "launched", ![c].client = connection,
                                           ![c].session = q(p).session]
             /\ agent' = [agent EXCEPT ![a].conn = cli[c].read, ![a].at = "ready",
                                       ![a].session = q(p).session]
        \/ /\ \A p \in at : Status(p, q(p)) # 200
           /\ Go(c, "done") /\ UNCHANGED <<daemon, agent, requests>>
     /\ acted' = {} /\ UNCHANGED <<connection, operatorFile, granted, faults>>

\* The agent has exited: its session is finished, or the error is ignored.
Leave(c) ==
  LET port == cli[c].client[1].port
      q == [route |-> "finish", bearer |-> cli[c].client[1].cred, request |-> 0,
            session |-> cli[c].session]
  IN /\ cli[c].at = "launched" /\ Go(c, "done")
     /\ agent' = [agent EXCEPT ![cli[c].session.agent].at = "gone"]
     /\ daemon' = IF \E p \in ListenersAt(port) : Status(p, q) = 200
                  THEN Handled(CHOOSE p \in ListenersAt(port) : Status(p, q) = 200, q) ELSE daemon
     /\ acted' = {} /\ UNCHANGED <<connection, operatorFile, granted, requests, faults>>

\* resolveConnection: any other client keeps what the file says now.
Connect(a) ==
  /\ agent[a].at = "out" /\ connection # <<>>
  /\ agent' = [agent EXCEPT ![a].conn = connection, ![a].at = "start"]
  /\ acted' = {}
  /\ UNCHANGED <<connection, operatorFile, daemon, cli, granted, requests, faults>>

\* The request of a client and what comes back: "" where nobody listens, the answer
\* was lost or the call timed out.
Reply(a, p, q, next) ==
  LET status == Status(p, q)
      kept == [agent EXCEPT ![a].at = IF status = 200 THEN next ELSE "ready",
                            ![a].session = IF q.route = "start" /\ status = 200 THEN q.session ELSE @,
                            ![a].request = IF q.route = "propose" THEN q.request ELSE @]
      lost == [agent EXCEPT ![a].at = "ready"]
  IN /\ daemon' = IF status = 200 THEN Handled(p, q) ELSE daemon
     /\ acted' = IF status = 200 /\ q.route \notin {"health", "grant"}
                 THEN {[pid |-> p, by |-> a, conn |-> agent[a].conn[1], route |-> q.route,
                        session |-> q.session, holds |-> q.holds, request |-> q.request]}
                 ELSE {}
     /\ granted' = IF status = 200 /\ q.route = "grant"
                   THEN granted \cup {[pid |-> p, by |-> a, request |-> q.request]} ELSE granted
     /\ \/ agent' = kept /\ UNCHANGED faults
        \/ agent' = lost /\ faults < MaxFaults /\ faults' = faults + 1

Send(a, route, holds, next) ==
  LET conn == agent[a].conn[1]
      q == [route |-> route, bearer |-> conn.cred, holds |-> holds,
            session |-> IF route = "start" THEN [id |-> requests + 1, agent |-> a, pid |-> 0]
                        ELSE agent[a].session,
            request |-> IF route = "propose" THEN requests + 1 ELSE agent[a].request]
  IN /\ IF route \in {"start", "propose"}
        THEN requests < MaxRequests /\ requests' = requests + 1 ELSE UNCHANGED requests
     /\ \/ \E p \in ListenersAt(conn.port) : 
             Reply(a, p, [q EXCEPT !.session.pid = IF route = "start" THEN p ELSE @], next)
        \/ /\ ListenersAt(conn.port) = {} /\ agent' = [agent EXCEPT ![a].at = "ready"]
           /\ acted' = {} /\ UNCHANGED <<daemon, granted, faults>>
     /\ UNCHANGED <<connection, operatorFile, cli>>

\* startSession, execute (propose, then execute where a permit came back), a hold,
\* executeApproved (redeem, then execute) and finish.
StartSession(a) == agent[a].at \in {"start", "ready"} /\ Send(a, "start", FALSE, "ready")
Propose(a, holds) ==
  /\ agent[a].at = "ready" /\ agent[a].session # NoSession
  /\ Send(a, "propose", holds, IF holds THEN "held" ELSE "permitted")
Execute(a) == agent[a].at = "permitted" /\ Send(a, "execute", FALSE, "ready")
Resume(a) == agent[a].at = "held" /\ Send(a, "redeem", TRUE, "redeemed")
ExecuteApproved(a) == agent[a].at = "redeemed" /\ Send(a, "execute", TRUE, "ready")
Finish(a) == agent[a].at = "ready" /\ agent[a].session # NoSession /\ Send(a, "finish", FALSE, "ready")
\* An agent that asks for the grant itself, with the credential every request of its
\* client has.  grantApproval() of a client that may read the operator's file does what
\* the approve command does.
GrantItself(a) == agent[a].at = "held" /\ Send(a, "grant", TRUE, "held")

ServiceNext ==
  \/ \E p \in Pid : \/ LoadOperator(p) \/ MintOperator(p) \/ Bind(p) \/ Announce(p)
                    \/ CloseDaemon(p) \/ Die(p)
  \/ \E c \in Cli : \/ Look(c) \/ Clean(c) \/ SpawnDaemon(c) \/ Waited(c) \/ Kill(c)
                        \/ RemoveConnection(c) \/ ReadSecret(c) \/ Approve(c) \/ Reread(c)
                        \/ \E a \in Agent : Launch(c, a)
                        \/ Leave(c)
  \/ \E a \in Agent : \/ Connect(a) \/ StartSession(a) \/ \E h \in BOOLEAN : Propose(a, h)
                      \/ Execute(a) \/ Resume(a) \/ ExecuteApproved(a) \/ Finish(a)
                      \/ GrantItself(a)
ServiceSpec == ServiceInit /\ [][ServiceNext]_serviceVars
-----------------------------------------------------------------------------
\* However daemons start, stop and die over one directory: what a daemon carries out
\* for an agent comes from the client that connected to this very daemon, in a
\* session the daemon opened for this agent, unless their credential was configured
\* and not made up; and what was held for approval runs only where the operator, and
\* no agent, granted it, even when the two secrets were configured to be the same.
ApprovalsAreTheOperators ==
  /\ \A g \in granted : g.by = "operator"
  /\ \A x \in acted :
       /\ x.session.agent = x.by
       /\ Config[x.pid].cred = "" => x.conn.pid = x.pid
       /\ x.session.pid = x.pid
       /\ x.route = "execute" /\ x.holds =>
            \E g \in granted : g.pid = x.pid /\ g.request = x.request
=============================================================================
