---------------------------- MODULE AgentClient ----------------------------
(***************************************************************************)
(* agent_sdk/client.py, executor.py and main.py: one worker agent.  Four   *)
(* coroutines share it: run, which reads the task stream and executes what *)
(* it reads; the request iterator, through which grpc takes results from   *)
(* the queue and writes them; the heartbeat loop; and run_agent, which     *)
(* waits for a signal and shuts everything down.                           *)
(*                                                                         *)
(* Which packets verify is up to the peer (Handshake.tla has the keys).    *)
(***************************************************************************)
EXTENDS Integers, Sequences, AgentQueue

CONSTANTS
  Tasks,       \* what the orchestrator may ask for
  MaxResults,  \* bound of a run: results of one agent
  None         \* nothing at hand

\* What decides how a task ends: the action is in the granted scope, there is a
\* handler for it, the handler raises, its result or its run time is over the limit.
TaskType ==
  [allowed : BOOLEAN, handled : BOOLEAN, raises : BOOLEAN, oversize : BOOLEAN,
   overtime : BOOLEAN]

ASSUME ClientParameters ==
  /\ Tasks \subseteq TaskType
  /\ MaxResults \in Nat
  /\ None \notin TaskType

VARIABLES
  main,      \* run_agent: "waiting" for a signal, "stopping", "stopped"
  run,       \* the task of MeshAgent.run
  running,   \* _running
  channel,   \* _channel
  stream,    \* the TaskStream call
  beat,      \* _heartbeat_task
  reader,    \* where run is within _handle_inbound_packet
  task,      \* the task being executed
  work,      \* the result that waits to be put
  counter,   \* crypto.sequence_counter
  queue,     \* _pending_results
  sender,    \* request_iterator
  hand,      \* the packet it has yielded and grpc has not written
  sent,      \* the packets on the wire
  done       \* history: how each executed task ended

life == <<main, run, running, channel, beat>>
inbound == <<reader, task, work, counter, done>>
outbound == <<queue, sender, hand, sent>>
vars == <<life, stream, inbound, outbound>>

Init ==
  /\ main = "waiting" /\ run = "new" /\ running = FALSE
  /\ channel = "none" /\ stream = "none" /\ beat = "none"
  /\ reader = "off" /\ task = None /\ work = <<>> /\ counter = 0 /\ done = <<>>
  /\ queue = <<>> /\ sender = "off" /\ hand = <<>> /\ sent = <<>>

-----------------------------------------------------------------------------
(* run: connect, then the heartbeat task and the stream                     *)

Connect ==
  /\ run = "new"
  /\ run' = "connecting"
  /\ running' = TRUE
  /\ channel' = "open"
  /\ UNCHANGED <<main, beat, stream, inbound, outbound>>

\* Registration fails or takes 30 seconds: run returns, and is not tried again.
ConnectFails ==
  /\ run = "connecting"
  /\ run' = "over"
  /\ UNCHANGED <<main, running, channel, beat, stream, inbound, outbound>>

Serve ==
  /\ run = "connecting"
  /\ channel = "open"
  /\ run' = "serving"
  /\ beat' = "ready"
  /\ stream' = "open"
  /\ reader' = "reading"
  /\ sender' = "get"
  /\ UNCHANGED <<main, running, channel, task, work, counter, done, queue, hand, sent>>

\* _heartbeat_loop makes its call and iterates over it, but a stream-unary call
\* is no async iterator: the TypeError, which is no RpcError, ends the task.
HeartbeatOnce ==
  /\ beat = "ready"
  /\ beat' = "dead"
  /\ UNCHANGED <<main, run, running, channel, stream, inbound, outbound>>

\* mutant: run does not cancel the heartbeat task
FinallyKeepsBeat ==
  /\ run' = "over"
  /\ running' = FALSE
  /\ channel' = "closed"
  /\ stream' = "closed"
  /\ reader' = "off"
  /\ UNCHANGED beat

\* The finally of run; what was at hand goes down with it.
Finally ==
  /\ run' = "over"
  /\ running' = FALSE
  /\ beat' = IF beat = "ready" THEN "cancelled" ELSE beat
  /\ channel' = "closed"
  /\ stream' = "closed"
  /\ reader' = "off"

\* mutant: a failed stream is waited on again
StreamEndsIfClosed ==
  /\ run = "serving"
  /\ reader = "reading"
  /\ stream = "closed"
  /\ Finally
  /\ UNCHANGED <<main, task, work, counter, done, outbound>>

\* The stream ends, or fails, where run waits for the next packet.
StreamEnds ==
  /\ run = "serving"
  /\ reader = "reading"
  /\ stream # "open"
  /\ Finally
  /\ UNCHANGED <<main, task, work, counter, done, outbound>>

-----------------------------------------------------------------------------
(* run_agent                                                                *)

\* A signal: run_task.cancel(), and disconnect begins.
Signal ==
  /\ main = "waiting"
  /\ main' = "stopping"
  /\ running' = FALSE
  /\ run' = CASE run \in {"connecting", "serving"} -> "cancelled"
              [] run = "new" -> "over"
              [] OTHER -> run
  /\ UNCHANGED <<channel, beat, stream, inbound, outbound>>

Disconnected ==
  /\ main = "stopping"
  /\ main' = "stopped"
  /\ channel' = IF channel = "none" THEN "none" ELSE "closed"
  /\ stream' = IF stream = "none" THEN "none" ELSE "closed"
  /\ UNCHANGED <<run, running, beat, inbound, outbound>>

\* CancelledError arrives in run: within connect there is no finally yet.
Cancelled ==
  /\ run = "cancelled"
  /\ IF stream = "none"
     THEN run' = "over" /\ UNCHANGED <<running, beat, channel, stream, reader>>
     ELSE Finally
  /\ UNCHANGED <<main, task, work, counter, done, outbound>>

-----------------------------------------------------------------------------
(* _handle_inbound_packet and TaskExecutor.execute                          *)

\* The checks of execute in their order; anything the handler raises, and any
\* limit found broken after it has run, makes the task a failed one.
Execute(t) ==
  IF t.allowed /\ t.handled /\ ~t.raises /\ ~t.oversize /\ ~t.overtime
  THEN "COMPLETED" ELSE "FAILED"

\* A packet that does not verify, decrypt or parse changes nothing.
Receive ==
  /\ run = "serving"
  /\ reader = "reading"
  /\ stream = "open"
  /\ Len(done) < MaxResults
  /\ task' \in Tasks
  /\ reader' = "executing"
  /\ UNCHANGED <<life, stream, work, counter, done, outbound>>

\* _sign_and_encrypt advances the counter, and encrypt advances it again.
Numbered == counter + 2

\* The handler returns (or is not asked, or raises): the result is signed.
Executed ==
  /\ run = "serving"
  /\ reader = "executing"
  /\ done' = Append(done, Execute(task))
  /\ counter' = counter + 2
  /\ work' = <<[seq |-> Numbered, state |-> Execute(task)]>>
  /\ task' = None
  /\ reader' = "putting"
  /\ UNCHANGED <<life, stream, outbound>>

\* put waits while the queue is full.
Put ==
  /\ run = "serving"
  /\ reader = "putting"
  /\ Len(queue) < QueueMax
  /\ queue' = queue \o work
  /\ work' = <<>>
  /\ reader' = "reading"
  /\ UNCHANGED <<life, stream, task, counter, done, sender, hand, sent>>

-----------------------------------------------------------------------------
(* request_iterator, and grpc writing what it yields                        *)

\* mutant: the newest result is taken first
TakeNewest ==
  /\ sender = "get"
  /\ queue # <<>>
  /\ hand' = <<queue[Len(queue)]>>
  /\ queue' = SubSeq(queue, 1, Len(queue) - 1)
  /\ sender' = "write"
  /\ UNCHANGED <<life, stream, inbound, sent>>

Take ==
  /\ sender = "get"
  /\ queue # <<>>
  /\ hand' = <<Head(queue)>>
  /\ queue' = Tail(queue)
  /\ sender' = "write"
  /\ UNCHANGED <<life, stream, inbound, sent>>

\* mutant: the iterator ends as soon as it finds the queue empty
TimeoutEnds ==
  /\ sender = "get"
  /\ queue = <<>>
  /\ sender' = "ended"
  /\ UNCHANGED <<life, stream, inbound, queue, hand, sent>>

\* Half a second without a result: the loop ends if _running has become false.
Timeout ==
  /\ sender = "get"
  /\ queue = <<>>
  /\ ~running
  /\ sender' = "ended"
  /\ UNCHANGED <<life, stream, inbound, queue, hand, sent>>

Write ==
  /\ sender = "write"
  /\ stream = "open"
  /\ sent' = sent \o hand
  /\ hand' = <<>>
  /\ sender' = IF running THEN "get" ELSE "ended"
  /\ UNCHANGED <<life, stream, inbound, queue>>

\* The call is over: grpc stops asking, and what it holds is not written.
SenderEnds ==
  /\ sender \in {"get", "write"}
  /\ stream # "open"
  /\ sender' = "ended"
  /\ UNCHANGED <<life, stream, inbound, queue, hand, sent>>

\* The server ends the stream, or the connection is lost.
Break ==
  /\ stream = "open"
  /\ stream' = "broken"
  /\ UNCHANGED <<life, inbound, outbound>>

-----------------------------------------------------------------------------
Shutdown == Disconnected \/ Cancelled \/ StreamEnds

Sending == Take \/ Timeout \/ Write \/ SenderEnds

Next ==
  \/ Connect \/ ConnectFails \/ Serve
  \/ HeartbeatOnce
  \/ StreamEnds
  \/ Signal \/ Disconnected \/ Cancelled
  \/ Receive \/ Executed \/ Put
  \/ Take \/ Timeout \/ Write \/ SenderEnds
  \/ Break

Spec == Init /\ [][Next]_vars

\* The event loop runs what is ready, task handlers return, and grpc writes what
\* it has taken or finds the call over.  Nothing obliges the peer or the operator.
Fairness ==
  WF_vars(Shutdown) /\ WF_vars(Executed) /\ WF_vars(Put) /\ WF_vars(Sending)

-----------------------------------------------------------------------------
(* Properties *)

Packet == [seq : Nat, state : {"COMPLETED", "FAILED"}]

\* Every variable keeps its type, and the queue its bound.
TypeOK ==
  /\ main \in {"waiting", "stopping", "stopped"}
  /\ run \in {"new", "connecting", "serving", "cancelled", "over"}
  /\ running \in BOOLEAN
  /\ channel \in {"none", "open", "closed"}
  /\ stream \in {"none", "open", "broken", "closed"}
  /\ beat \in {"none", "ready", "dead", "cancelled"}
  /\ reader \in {"off", "reading", "executing", "putting"}
  /\ task \in Tasks \cup {None}
  /\ {work, queue, hand, sent} \subseteq Seq(Packet)
  /\ Len(queue) <= QueueMax
  /\ counter \in Nat
  /\ sender \in {"off", "get", "write", "ended"}
  /\ done \in Seq({"COMPLETED", "FAILED"})

\* Every executed task has exactly one result, and from the reader through the
\* queue to the wire the results keep the order of execution and carry the
\* numbers their ciphertexts were made with: none is lost, repeated or overtaken
\* short of the end of the stream.
ResultsInOrder ==
  sent \o hand \o queue \o work
    = [i \in 1..Len(done) |-> [seq |-> 2 * i, state |-> done[i]]]

\* However run ends, by the peer, a signal or a failed registration, it leaves
\* no heartbeat behind and no reader, and an agent that served has closed its
\* channel and is not marked as running.
NothingOutlivesRun ==
  run = "over" =>
    /\ beat # "ready"
    /\ reader = "off"
    /\ stream # "none" => ~running /\ channel = "closed"

\* A computed result gets to the wire unless the stream ends first: the iterator
\* that polls every half second never leaves the queue behind.
ResultsAreSent ==
  \A n \in 1..MaxResults :
    Len(done) = n ~> (Len(sent) >= n \/ stream # "open" \/ main # "waiting")

\* An agent whose stream has failed notices and ends run, unless it is stuck on a
\* full queue that nobody empties any more.
FailureIsNoticed ==
  stream = "broken" ~>
    (run = "over" \/ (reader = "putting" /\ Len(queue) = QueueMax /\ sender = "ended"))
=============================================================================
