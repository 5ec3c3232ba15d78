------------------------------ MODULE Adapter ------------------------------
(***************************************************************************)
(* orchestrator/crewai_adapter.py and langgraph_adapter.py, which are one  *)
(* machine under two names: calls that put a request on the queue of a     *)
(* MeshAgent and wait, each with its deadline, for a future; and the       *)
(* consumers that empty the same queue.                                    *)
(*                                                                         *)
(* The adapter connects its agent but never runs it (client.py, run), so   *)
(* what is on the queue is what the calls put there.                       *)
(***************************************************************************)
EXTENDS Sequences, SequencesExt, AgentQueue

CONSTANTS
  Calls,        \* calls of execute_task, of wrapped tools and of wrapped graphs
  KindOf,       \* how each of them was made
  App,          \* the application's own call of connect
  MaxConnects   \* bound of a run: successful connections

Kinds == {"execute_task", "wrap_tool", "ainvoke", "astream"}

ASSUME AdapterParameters ==
  /\ KindOf \in [Calls -> Kinds]
  /\ App \notin Calls
  /\ MaxConnects \in Nat

VARIABLES
  connected,  \* _connected
  crypto,     \* which connection's keys the agent holds, 0 for none
  consumers,  \* consumer tasks that run, by the connection that started them
  tracked,    \* _task_consumer_task, the one disconnect will cancel
  at,         \* where each call is
  futures,    \* _pending_tasks
  signed,     \* the keys each call's request was signed with
  requests,   \* the agent's _pending_results
  log,        \* _invocation_log of the graph adapter
  released    \* history: disconnect was called after the last connection

adapterVars == <<connected, crypto, consumers, tracked, at, futures, signed, requests, log,
          released>>

AdapterInit ==
  /\ connected = FALSE
  /\ crypto = 0
  /\ consumers = {}
  /\ tracked = 0
  /\ at = [c \in Calls \cup {App} |-> "new"]
  /\ futures = {}
  /\ signed = [c \in Calls |-> 0]
  /\ requests = <<>>
  /\ log = <<>>
  /\ released = FALSE

-----------------------------------------------------------------------------
(* execute_task *)

\* put waits while the queue is full, and has no deadline.
Enqueue(c) ==
  IF Len(requests) < QueueMax
  THEN /\ requests' = Append(requests, c)
       /\ at' = [at EXCEPT ![c] = "waiting"]
  ELSE /\ at' = [at EXCEPT ![c] = "putting"]
       /\ UNCHANGED requests

\* What follows the connection attempt: a future, then the signed request.  An
\* agent that never connected has no keys to sign with: the call raises, and
\* its future stays behind.
Submit(c, key) ==
  /\ futures' = futures \cup {c}
  /\ IF key = 0
     THEN /\ at' = [at EXCEPT ![c] = "raised"]
          /\ UNCHANGED <<requests, signed>>
     ELSE /\ signed' = [signed EXCEPT ![c] = key]
          /\ Enqueue(c)

Logged(c) == IF KindOf[c] \in {"ainvoke", "astream"} THEN Append(log, c) ELSE log

Begin(c) ==
  /\ at[c] = "new"
  /\ log' = Logged(c)
  /\ IF connected
     THEN Submit(c, crypto)
     ELSE /\ at' = [at EXCEPT ![c] = "connecting"]
          /\ UNCHANGED <<futures, signed, requests>>
  /\ UNCHANGED <<connected, crypto, consumers, tracked, released>>

PutLater(c) ==
  /\ at[c] = "putting"
  /\ Len(requests) < QueueMax
  /\ Enqueue(c)
  /\ UNCHANGED <<connected, crypto, consumers, tracked, futures, signed, log, released>>

\* mutant: a call that has given up leaves its future behind
DeadlineKeepsFuture(c) ==
  /\ at[c] = "waiting"
  /\ at' = [at EXCEPT ![c] = "timed out"]
  /\ UNCHANGED <<connected, crypto, consumers, tracked, futures, signed, requests, log,
                 released>>

\* mutant: the deadline counts from when the request leaves the queue
DeadlineOnceTaken(c) ==
  /\ at[c] = "waiting"
  /\ c \notin ToSet(requests)
  /\ at' = [at EXCEPT ![c] = "timed out"]
  /\ futures' = futures \ {c}
  /\ UNCHANGED <<connected, crypto, consumers, tracked, signed, requests, log, released>>

\* The caller is cancelled at one of its awaits.  CancelledError is no Exception:
\* no handler of execute_task sees it, and a future that is in the table stays.
\* (Of the application's own connect it is a ConnectionFails.)
Cancel(c) ==
  /\ at[c] \in {"connecting", "putting", "waiting"}
  /\ at' = [at EXCEPT ![c] = "cancelled"]
  /\ UNCHANGED <<connected, crypto, consumers, tracked, futures, signed, requests, log,
                 released>>

\* wait_for gives up.  A wrapped tool, ainvoke and astream turn the TIMEOUT into
\* an exception or an error chunk, which changes nothing here.
Deadline(c) ==
  /\ at[c] = "waiting"
  /\ at' = [at EXCEPT ![c] = "timed out"]
  /\ futures' = futures \ {c}
  /\ UNCHANGED <<connected, crypto, consumers, tracked, signed, requests, log, released>>

-----------------------------------------------------------------------------
(* connect and disconnect *)

AppConnects ==
  /\ at[App] = "new"
  /\ at' = [at EXCEPT ![App] = "connecting"]
  /\ UNCHANGED <<connected, crypto, consumers, tracked, futures, signed, requests, log,
                 released>>

\* Whoever asked goes on: a call submits its request, the application returns
\* and may connect again.
GoesOn(c, key) ==
  IF c = App
  THEN /\ at' = [at EXCEPT ![App] = "new"]
       /\ UNCHANGED <<futures, signed, requests>>
  ELSE Submit(c, key)

\* Nothing keeps two calls from connecting at once: each success replaces the
\* keys, starts one more consumer, and keeps track of that one only.
ConnectSucceeds(c) ==
  /\ at[c] = "connecting"
  /\ crypto < MaxConnects
  /\ crypto' = crypto + 1
  /\ connected' = TRUE
  /\ consumers' = consumers \cup {crypto + 1}
  /\ tracked' = crypto + 1
  /\ released' = FALSE
  /\ GoesOn(c, crypto + 1)
  /\ UNCHANGED log

ConnectionFails(c) ==
  /\ at[c] = "connecting"
  /\ GoesOn(c, crypto)
  /\ UNCHANGED <<connected, crypto, consumers, tracked, log, released>>

\* _connected stays as it is.
Disconnect ==
  /\ tracked # 0
  /\ consumers' = consumers \ {tracked}
  /\ released' = TRUE
  /\ UNCHANGED <<connected, crypto, tracked, at, futures, signed, requests, log>>

-----------------------------------------------------------------------------
(* _consume_task_responses and _handle_response *)

\* A request signed with earlier keys does not decrypt.  One that does is parsed
\* as a TaskResult: the first field of a TaskRequest is its access token, so the
\* token is taken for the task id, and no future has that name.
Answered(c) == {}

\* mutant: a packet that does not decrypt ends the consumer
ConsumeOrDie(k) ==
  /\ k \in consumers
  /\ requests # <<>>
  /\ requests' = Tail(requests)
  /\ futures' = futures \ Answered(Head(requests))
  /\ consumers' = IF signed[Head(requests)] = crypto THEN consumers ELSE consumers \ {k}
  /\ UNCHANGED <<connected, crypto, tracked, at, signed, log, released>>

Consume(k) ==
  /\ k \in consumers
  /\ requests # <<>>
  /\ requests' = Tail(requests)
  /\ futures' = futures \ Answered(Head(requests))
  /\ UNCHANGED <<connected, crypto, consumers, tracked, at, signed, log, released>>

Consumption == \E k \in 1..MaxConnects : Consume(k)

AdapterNext ==
  \/ \E c \in Calls : Begin(c) \/ PutLater(c) \/ Cancel(c) \/ Deadline(c)
  \/ AppConnects
  \/ \E c \in Calls \cup {App} : ConnectSucceeds(c) \/ ConnectionFails(c)
  \/ Disconnect
  \/ Consumption

AdapterSpec == AdapterInit /\ [][AdapterNext]_adapterVars

\* Time passes, so deadlines come and a connection attempt ends within its 30
\* seconds; consumers and calls that wait for room are resumed.  Nobody need be
\* cancelled.
AdapterFairness ==
  /\ WF_adapterVars(Consumption)
  /\ \A c \in Calls :
       /\ WF_adapterVars(PutLater(c))
       /\ WF_adapterVars(Deadline(c))
       /\ WF_adapterVars(ConnectionFails(c))

-----------------------------------------------------------------------------
(* Properties *)

CallPoints ==
  {"new", "connecting", "putting", "waiting", "timed out", "raised", "cancelled"}

\* Every variable keeps its type, and the queue its bound.
AdapterTypeOK ==
  /\ connected \in BOOLEAN
  /\ crypto \in 0..MaxConnects
  /\ consumers \subseteq 1..MaxConnects
  /\ tracked \in 0..MaxConnects
  /\ at \in [Calls \cup {App} -> CallPoints]
  /\ futures \subseteq Calls
  /\ signed \in [Calls -> 0..MaxConnects]
  /\ requests \in Seq(Calls)
  /\ Len(requests) <= QueueMax
  /\ log \in Seq(Calls)
  /\ released \in BOOLEAN

\* The calls that have put a future in the table and did not live to take it out:
\* no keys to sign with, or cancelled after the request was signed.
LeftBehind(c) == at[c] = "raised" \/ (at[c] = "cancelled" /\ signed[c] # 0)

\* The table holds the futures of the calls under way and those left behind by
\* calls that raised or were cancelled, which nothing ever removes; no other
\* way a call ends, and nothing a consumer does, adds to it or takes from it.
FuturesMatchCalls ==
  futures = {c \in Calls : at[c] \in {"putting", "waiting"} \/ LeftBehind(c)}

\* A consumer survives whatever it finds on the queue, its own requests and
\* those of earlier connections included: an adapter that has connected has one
\* until it is disconnected.
ConsumerSurvives ==
  connected => tracked \in consumers \/ released

\* Every call ends, by its deadline, with an exception or cancelled, through
\* reconnections and disconnections in any order; unless it waits for room in a
\* full queue that no consumer empties any more, where no deadline applies.
CallsReturn ==
  \A c \in Calls :
    at[c] = "connecting" \/ at[c] = "putting" \/ at[c] = "waiting" ~>
      \/ at[c] \in {"timed out", "raised", "cancelled"}
      \/ at[c] = "putting" /\ Len(requests) = QueueMax /\ consumers = {}
=============================================================================
