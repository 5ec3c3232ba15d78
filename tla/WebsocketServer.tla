-------------------------- MODULE WebsocketServer --------------------------
(***************************************************************************)
(* orchestrator/websocket_fallback.py: connections of agents, each served  *)
(* by one coroutine, and the table of handlers through which tasks are     *)
(* dispatched.  Several connections of one agent may be alive at once.     *)
(*                                                                         *)
(* The pool is only a set of registered ids here; waiting for its lock     *)
(* (TaskScheduler.tla) is the point "register".                            *)
(***************************************************************************)
EXTENDS Naturals

CONSTANTS
  Connections,  \* sockets the server accepts, one after the other or together
  Agents,       \* ids that agents register with
  NoId,         \* a registration without an id
  None,         \* no handler, no session
  MaxFrames     \* bound of a run: tasks sent on one connection

ASSUME WebsocketParameters ==
  /\ MaxFrames \in Nat
  /\ NoId \notin Agents
  /\ None \notin Connections
  /\ Connections \cap (Agents \cup {NoId}) = {}

\* A registration without an id is given a new one, called here by the
\* connection it came on.
Ids == Agents \cup Connections

VARIABLES
  at,        \* where _handle_connection is on each connection
  open,      \* the connections that neither side has closed
  asked,     \* the id in each connection's registration
  session,   \* token_issuer._session_keys: the connection whose keys are stored
  pool,      \* ids in the agent pool
  handlers,  \* _handlers: the connection of each id's handler
  counter,   \* sequence_counter of each connection's session
  served,    \* history: connections that have been in the table
  stopped    \* stop() was called

vars == <<at, open, asked, session, pool, handlers, counter, served, stopped>>

Points == {"new", "recv", "send", "register", "run", "over"}

Init ==
  /\ at = [c \in Connections |-> "new"]
  /\ open = {}
  /\ asked = [c \in Connections |-> NoId]
  /\ session = [i \in Ids |-> None]
  /\ pool = {}
  /\ handlers = [i \in Ids |-> None]
  /\ counter = [c \in Connections |-> 0]
  /\ served = {}
  /\ stopped = FALSE

\* registration.agent_id or str(uuid.uuid4())
IdOf(c) == IF asked[c] = NoId THEN c ELSE asked[c]

Goes(c, from, to) ==
  /\ at[c] = from
  /\ at' = [at EXCEPT ![c] = to]

-----------------------------------------------------------------------------
(* _handle_connection *)

Accept(c) ==
  /\ ~stopped
  /\ Goes(c, "new", "recv")
  /\ open' = open \cup {c}
  /\ UNCHANGED <<asked, session, pool, handlers, counter, served, stopped>>

\* The first message does not parse, or its public key is refused.
BadRegistration(c) ==
  /\ c \in open
  /\ Goes(c, "recv", "over")
  /\ open' = open \ {c}
  /\ UNCHANGED <<asked, session, pool, handlers, counter, served, stopped>>

\* The keys are stored before the response is sent.
Register(c, i) ==
  /\ c \in open
  /\ Goes(c, "recv", "send")
  /\ asked' = [asked EXCEPT ![c] = i]
  /\ session' = [session EXCEPT ![IF i = NoId THEN c ELSE i] = c]
  /\ UNCHANGED <<open, pool, handlers, counter, served, stopped>>

Respond(c) ==
  /\ c \in open
  /\ Goes(c, "send", "register")
  /\ UNCHANGED <<open, asked, session, pool, handlers, counter, served, stopped>>

\* mutant: the connection enters the table without waiting for the pool
EnterTableFirst(c) ==
  /\ Goes(c, "register", "run")
  /\ handlers' = [handlers EXCEPT ![IdOf(c)] = c]
  /\ served' = served \cup {c}
  /\ UNCHANGED <<open, asked, session, pool, counter, stopped>>

\* The pool gets the registration as it was sent, with or without an id; then
\* the connection's handler takes its id's place in the table.
EnterTable(c) ==
  /\ Goes(c, "register", "run")
  /\ pool' = pool \cup {asked[c]}
  /\ handlers' = [handlers EXCEPT ![IdOf(c)] = c]
  /\ served' = served \cup {c}
  /\ UNCHANGED <<open, asked, session, counter, stopped>>

\* recv or send fails on a closed connection.
GiveUp(c) ==
  /\ c \notin open
  /\ Goes(c, "recv", "over") \/ Goes(c, "send", "over")
  /\ UNCHANGED <<open, asked, session, pool, handlers, counter, served, stopped>>

\* mutant: a closed connection leaves its handler in the table
LeaveNothing(c) ==
  /\ c \notin open
  /\ Goes(c, "run", "over")
  /\ UNCHANGED <<open, asked, session, pool, handlers, counter, served, stopped>>

\* run returns: whatever is in the table under the id goes.
Leave(c) ==
  /\ c \notin open
  /\ Goes(c, "run", "over")
  /\ handlers' = [handlers EXCEPT ![IdOf(c)] = None]
  /\ UNCHANGED <<open, asked, session, pool, counter, served, stopped>>

\* The peer closes, or a ping goes unanswered.
Close(c) ==
  /\ c \in open
  /\ open' = open \ {c}
  /\ UNCHANGED <<at, asked, session, pool, handlers, counter, served, stopped>>

\* mutant: the connections there are stay
StopListening ==
  /\ ~stopped
  /\ stopped' = TRUE
  /\ UNCHANGED <<at, open, asked, session, pool, handlers, counter, served>>

\* stop: no new connections, and the ones there are get closed.
Stop ==
  /\ ~stopped
  /\ stopped' = TRUE
  /\ open' = {}
  /\ UNCHANGED <<at, asked, session, pool, handlers, counter, served>>

-----------------------------------------------------------------------------
(* Frames *)

\* decrypt is called without its sequence number, and the TypeError is taken for
\* a failed decryption: a frame from the agent, whatever it holds, is dropped
\* before anything else happens.
HandleFrame(c) ==
  /\ c \in open
  /\ at[c] = "run"
  /\ UNCHANGED vars

\* mutant: a send that fails takes the handler out of the table
DispatchPops(i) ==
  LET c == handlers[i] IN
  /\ c # None
  /\ counter[c] < MaxFrames
  /\ counter' = [counter EXCEPT ![c] = @ + 1]
  /\ handlers' = IF c \in open THEN handlers ELSE [handlers EXCEPT ![i] = None]
  /\ UNCHANGED <<at, open, asked, session, pool, served, stopped>>

\* dispatch: the handler signs the task, which advances its counter, and sends
\* it, which fails (returns False) on a closed connection.  Without a handler
\* nothing happens.
Dispatch(i) ==
  LET c == handlers[i] IN
  /\ c # None
  /\ counter[c] < MaxFrames
  /\ counter' = [counter EXCEPT ![c] = @ + 1]
  /\ UNCHANGED <<at, open, asked, session, pool, handlers, served, stopped>>

Next ==
  \/ \E c \in Connections :
       \/ Accept(c) \/ BadRegistration(c) \/ Respond(c) \/ EnterTable(c)
       \/ GiveUp(c) \/ Leave(c) \/ Close(c) \/ HandleFrame(c)
  \/ \E c \in Connections, i \in Agents \cup {NoId} : Register(c, i)
  \/ \E i \in Ids : Dispatch(i)
  \/ Stop

Spec == Init /\ [][Next]_vars

\* A coroutine that waits on a connection learns that it was closed.
FairSpec == Spec /\ \A c \in Connections : WF_vars(Leave(c)) /\ WF_vars(GiveUp(c))

-----------------------------------------------------------------------------
(* Properties *)

\* Every variable keeps its type.
TypeOK ==
  /\ at \in [Connections -> Points]
  /\ open \subseteq Connections
  /\ asked \in [Connections -> Agents \cup {NoId}]
  /\ session \in [Ids -> Connections \cup {None}]
  /\ pool \subseteq Agents \cup {NoId}
  /\ handlers \in [Ids -> Connections \cup {None}]
  /\ counter \in [Connections -> 0..MaxFrames]
  /\ served \subseteq Connections
  /\ stopped \in BOOLEAN

\* What dispatch finds in the table is ready for tasks: its coroutine is still
\* reading, its agent has keys and, if it gave an id, a record in the pool,
\* although the three are set at three different awaits that other connections
\* of the agent interleave with.
TableEntriesAreReady ==
  \A i \in Ids : handlers[i] # None =>
    LET c == handlers[i] IN
    /\ at[c] = "run"
    /\ IdOf(c) = i
    /\ session[i] # None
    /\ asked[c] \in pool

\* As long as no second connection of its agent has been served, an agent stays
\* in the table for as long as its connection is being served: failed sends,
\* refused registrations and connections that close before they are served do
\* not remove it.
AloneMeansReachable ==
  \A c \in Connections :
    /\ at[c] = "run"
    /\ \A d \in served : IdOf(d) = IdOf(c) => d = c
    => handlers[IdOf(c)] = c

InTable == {handlers[i] : i \in Ids}

\* A closed connection does not stay in the table, whether the peer closed it
\* or the server was stopped.
ClosedConnectionsLeave ==
  \A c \in Connections :
    (c \in InTable /\ c \notin open) ~> c \notin InTable
=============================================================================
