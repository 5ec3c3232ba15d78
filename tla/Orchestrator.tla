---------------------------- MODULE Orchestrator ----------------------------
(***************************************************************************)
(* orchestrator/main.py: the daemon starts its services one after the      *)
(* other, runs until a signal, and stops them in another order.  It        *)
(* composes the WebSocket server, whose connections are served meanwhile,  *)
(* the calls of the gRPC server, and the key files, which `--gen-keys`     *)
(* may write at the same time.  The daemon may end at any point and be     *)
(* started again.                                                          *)
(***************************************************************************)
EXTENDS WebsocketServer

CONSTANTS
  Calls,      \* calls and streams of the gRPC server
  Schedules,  \* values of self_update.schedule
  Daemon,
  KeyMaker,   \* a process run with --gen-keys
  Absent, Empty, MaxPairs,
  FollowKeys  \* bound of a run: whether --gen-keys goes on while the daemon serves

ASSUME OrchestratorParameters ==
  /\ FollowKeys \in BOOLEAN
  /\ None \notin Calls
  /\ Daemon # KeyMaker
  /\ MaxPairs \in Nat
  /\ Absent \notin Nat /\ Empty \notin Nat /\ Absent # Empty

VARIABLES
  phase,    \* how far run() is
  updater,  \* SelfUpdatePipeline._scheduler: "off", "running" or "idle"
  audit,    \* the connection of the audit trail: "open" or not
  calls,    \* gRPC calls whose handlers are running
  owner,    \* the stream that keeps the pool's lock for good, or None
  file, held, turn, making, pairs, raced, cut

Keys == INSTANCE KeyFiles WITH Processes <- {Daemon, KeyMaker}

keyVars == <<file, held, turn, making, pairs, raced, cut>>
services == <<phase, updater, audit, calls, owner>>
all == <<vars, services, keyVars>>

Starting == {"keys", "audit", "grpc", "websocket", "update"}
Stopping == {"stop update", "stop websocket", "stop grpc", "close audit"}

\* While the gRPC server takes calls, while the WebSocket server takes connections.
Serving == {"websocket", "update", "ready", "stop update", "stop websocket"}
Listening == {"update", "ready", "stop update", "stop websocket"}

OrchestratorInit ==
  /\ Init
  /\ Keys!KeysInit
  /\ phase = "off"
  /\ updater = "off"
  /\ audit = "closed"
  /\ calls = {}
  /\ owner = None

Proceeds(from, to) ==
  /\ phase = from
  /\ phase' = to

\* What a process loses when it ends, except for its connections' places.
WebsocketEnds ==
  /\ at' = [c \in Connections |-> IF at[c] = "new" THEN "new" ELSE "over"]
  /\ open' = {}
  /\ asked' = [c \in Connections |-> NoId]
  /\ session' = [i \in Ids |-> None]
  /\ pool' = {}
  /\ handlers' = [i \in Ids |-> None]
  /\ counter' = [c \in Connections |-> 0]
  /\ served' = {}
  /\ stopped' = FALSE

DaemonEnds ==
  /\ WebsocketEnds
  /\ Keys!Ends(Daemon)
  /\ phase' = "off"
  /\ updater' = "off"
  /\ audit' = "closed"
  /\ calls' = {}
  /\ owner' = None

-----------------------------------------------------------------------------
(* Start *)

Start ==
  /\ Proceeds("off", "keys")
  /\ Keys!Begins(Daemon)
  /\ UNCHANGED <<vars, updater, audit, calls, owner>>

IssuerStep ==
  /\ phase = "keys"
  /\ Keys!KeyStep(Daemon)
  /\ UNCHANGED <<vars, services>>

\* Nothing that is started from here on looks at the keys again.  A run may
\* follow key files and services one after the other: --gen-keys then works only
\* while the daemon is down or loading its own keys, and a daemon whose keys were
\* raced for is not followed into its service.
Followed == FollowKeys \/ (~raced /\ turn[KeyMaker] = "none")

\* The logger's table and the detectors' models, once the issuer has its keys.
Assemble ==
  /\ Proceeds("keys", "audit")
  /\ turn[Daemon] = "ready"
  /\ Followed
  /\ UNCHANGED <<vars, keyVars, updater, audit, calls, owner>>

OpenAudit ==
  /\ Proceeds("audit", "grpc")
  /\ audit' = "open"
  /\ UNCHANGED <<vars, keyVars, updater, calls, owner>>

\* The LLM chain is put together, then the server starts.
StartGrpc ==
  /\ Proceeds("grpc", "websocket")
  /\ UNCHANGED <<vars, keyVars, updater, audit, calls, owner>>

StartWebsocket ==
  /\ Proceeds("websocket", "update")
  /\ UNCHANGED <<vars, keyVars, updater, audit, calls, owner>>

\* Jobs and their scheduler are started for the two schedules that start knows.
SchedulerFor(s) == IF s \in {"weekly", "daily"} THEN "running" ELSE "idle"

\* self_update may be disabled.
StartUpdate ==
  /\ Proceeds("update", "ready")
  /\ \/ \E s \in Schedules : updater' = SchedulerFor(s)
     \/ UNCHANGED updater
  /\ UNCHANGED <<vars, keyVars, audit, calls, owner>>

\* A step of the start raises, a signal comes before the handlers for it are
\* installed, or the process is killed.
Dies ==
  /\ phase # "off"
  /\ DaemonEnds

-----------------------------------------------------------------------------
(* Service *)

CallBegins(k) ==
  /\ phase \in Serving
  /\ k \notin calls
  /\ calls' = calls \cup {k}
  /\ UNCHANGED <<vars, keyVars, phase, updater, audit, owner>>

\* A stream waits for the lock it holds (TaskScheduler!AwaitQuarantine).
TakesLock(k) ==
  /\ k \in calls
  /\ owner = None
  /\ owner' = k
  /\ UNCHANGED <<vars, keyVars, phase, updater, audit, calls>>

\* A handler returns or is cancelled, which releases the lock it holds.
CallEnds(k) ==
  /\ k \in calls
  /\ calls' = calls \ {k}
  /\ owner' = IF owner = k THEN None ELSE owner
  /\ UNCHANGED <<vars, keyVars, phase, updater, audit>>

\* A registration waits for the pool's lock.
Enters(c) ==
  /\ owner = None
  /\ EnterTable(c)
  /\ UNCHANGED <<services, keyVars>>

Served(c) == (Leave(c) \/ GiveUp(c)) /\ UNCHANGED <<services, keyVars>>

Connection(c) ==
  /\ \/ phase \in Listening /\ Accept(c)
     \/ BadRegistration(c)
     \/ \E i \in Agents \cup {NoId} : Register(c, i)
     \/ Respond(c)
     \/ Close(c)
     \/ HandleFrame(c)
  /\ UNCHANGED <<services, keyVars>>

Dispatches(i) == Dispatch(i) /\ UNCHANGED <<services, keyVars>>

-----------------------------------------------------------------------------
(* Stop *)

Signal ==
  /\ Proceeds("ready", "stop update")
  /\ UNCHANGED <<vars, keyVars, updater, audit, calls, owner>>

StopUpdate ==
  /\ Proceeds("stop update", "stop websocket")
  /\ updater # "idle"
  /\ updater' = "off"
  /\ UNCHANGED <<vars, keyVars, audit, calls, owner>>

\* Stopping a scheduler that was never started raises: run() ends here.
StopUpdateFails ==
  /\ phase = "stop update"
  /\ updater = "idle"
  /\ DaemonEnds

StopWebsocket ==
  /\ phase = "stop websocket"
  /\ Stop
  /\ UNCHANGED <<services, keyVars>>

\* stop returns when the last connection's coroutine has.
WebsocketStopped ==
  /\ Proceeds("stop websocket", "stop grpc")
  /\ stopped
  /\ \A c \in Connections : at[c] \in {"new", "over"}
  /\ UNCHANGED <<vars, keyVars, updater, audit, calls, owner>>

\* mutant: the server is told to stop and not waited for
StopGrpcInBackground ==
  /\ Proceeds("stop grpc", "close audit")
  /\ UNCHANGED <<vars, keyVars, updater, audit, calls, owner>>

\* Calls may end by themselves for five seconds; then they are cancelled.
StopGrpc ==
  /\ Proceeds("stop grpc", "close audit")
  /\ calls' = {}
  /\ owner' = None
  /\ UNCHANGED <<vars, keyVars, updater, audit>>

CloseAudit ==
  /\ Proceeds("close audit", "over")
  /\ audit' = "closed"
  /\ UNCHANGED <<vars, keyVars, updater, calls, owner>>

-----------------------------------------------------------------------------

\* A process run with --gen-keys, which ends when it has its keys, or before.
GenKeys ==
  /\ FollowKeys \/ phase \in {"off", "keys"}
  /\ Keys!Begins(KeyMaker) \/ Keys!KeyStep(KeyMaker) \/ Keys!Ends(KeyMaker)
  /\ UNCHANGED <<vars, services>>

OrchestratorNext ==
  \/ Start \/ IssuerStep \/ Assemble \/ OpenAudit \/ StartGrpc \/ StartWebsocket \/ StartUpdate
  \/ Signal \/ StopUpdate \/ StopUpdateFails \/ StopWebsocket \/ WebsocketStopped
  \/ StopGrpc \/ CloseAudit \/ Dies \/ GenKeys
  \/ \E k \in Calls : CallBegins(k) \/ TakesLock(k) \/ CallEnds(k)
  \/ \E c \in Connections : Enters(c) \/ Served(c) \/ Connection(c)
  \/ \E i \in Ids : Dispatches(i)

OrchestratorSpec == OrchestratorInit /\ [][OrchestratorNext]_all

\* The shutdown sequence is one coroutine whose awaits are the guards above; the
\* library ends the coroutines of closed connections; and the lock goes to those
\* who wait for it in their order, whenever it is free.
OrchestratorFairSpec ==
  /\ OrchestratorSpec
  /\ WF_all(StopUpdate) /\ WF_all(StopUpdateFails) /\ WF_all(StopWebsocket)
  /\ WF_all(WebsocketStopped) /\ WF_all(StopGrpc) /\ WF_all(CloseAudit)
  /\ \A c \in Connections : WF_all(Served(c)) /\ SF_all(Enters(c))

-----------------------------------------------------------------------------
(* Properties *)

\* No handler of the gRPC server runs without the audit trail it records to,
\* from the first call to the last one that shutdown cuts off.
AuditOutlivesCalls == calls # {} => audit = "open"

KeysAgree == Keys!KeysAgree

\* A shutdown comes to its end with connections in every state and calls still
\* running, unless a stream keeps the pool's lock: then a registration that
\* waits for it keeps the WebSocket server, and with it everything that is
\* stopped later, from stopping.
ShutdownCompletes ==
  <>[](owner # None) \/ (phase = "stop update" ~> phase \in {"over", "off"})
=============================================================================
