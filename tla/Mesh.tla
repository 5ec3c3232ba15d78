-------------------------------- MODULE Mesh --------------------------------
(***************************************************************************)
(* orchestrator/server.py: the handlers of the gRPC service, step by step  *)
(* between their awaits, over the agent pool of TaskScheduler, with the    *)
(* sessions of token_issuer.py and the score history of                    *)
(* anomaly/combined_engine.py.                                             *)
(*                                                                         *)
(* A coroutine gives up the event loop only where it really waits: for the *)
(* next packet, for SQLite, or for a lock it does not get at once.  A      *)
(* handler whose scheduler call has returned is therefore the one that     *)
(* runs, and everybody else stands still until it waits again (Quiet).     *)
(*                                                                         *)
(* The guardrail and the detectors are injected into the service; here     *)
(* they may decide and score in any way that Guardrail.tla and Scores      *)
(* allow.  The stale-agent loop and the clock stay in TaskScheduler: no    *)
(* handler tells IDLE from OFFLINE.                                        *)
(***************************************************************************)
EXTENDS TaskScheduler

CONSTANTS
  Arrivals,      \* names the arrivals of packets from one agent, first or repeated
  Suspicious,    \* suspicious_threshold of the engine, in hundredths
  Successes,     \* whether results are TASK_STATE_COMPLETED
  MaxSessions    \* bound of a run: sessions made for each agent

ASSUME MeshParameters ==
  /\ Arrivals \subseteq Nat
  /\ Suspicious \in Nat
  /\ Successes \subseteq BOOLEAN
  /\ MaxSessions \in Nat
  /\ None \notin Agents
  /\ On("complete_task") \subseteq On("update_anomaly_score") \cap On("quarantine")

\* A packet here is one arrival at the guardrail, not a sequence number: of a number
\* that arrives twice and passes twice, which Guardrail.tla shows it may, each
\* arrival is a packet of its own.
Packets == [agent : Agents, nth : Arrivals]

VARIABLES
  job,       \* what each handler is doing, and its local variables
  session,   \* _session_keys: number of each agent's session, 0 for none
  sessions,  \* how many sessions each agent has had
  badKey,    \* history: the agent's last registration was refused for its key
  taken,     \* packets that have been handed to the guardrail
  buffer,    \* _metrics_buffer
  logged,    \* packets whose metric is in behavioral_metrics
  lost,      \* history: packets whose metric went down with its handler
  audited,   \* packets with a TASK_COMPLETED or TASK_FAILED entry
  unaudited, \* history: packets whose entry could not be written
  windows,   \* _agent_histories: the last two scores of each agent
  alarm      \* history: two suspicious windows, and nobody has acted on them yet

keys == <<session, sessions, badKey>>
trail == <<audited, unaudited>>
metricFlow == <<buffer, logged, lost>>
engine == <<windows, alarm>>
service == <<job, keys, taken, trail, metricFlow, engine>>
meshVars == <<vars, service>>

\* Where a handler can be: "free" serves no call, "receive" waits for a packet,
\* "metric" and "event" wait for SQLite, "scoring" and "decide" are running.
SchedulerAwaits == {"register", "heartbeat", "issue", "complete", "score", "quarantine"}
Points == SchedulerAwaits \cup {"free", "receive", "metric", "event", "scoring", "decide"}

\* A handler at some point of a call about agent a, with nothing else in hand.
Job(point, a) == [at |-> point, agent |-> a, nth |-> 0, score |-> 0, batch |-> {}]

Free == Job("free", None)

MeshInit ==
  /\ Init
  /\ job = [h \in Handlers |-> Free]
  /\ session  = [a \in Agents |-> 0]
  /\ sessions = [a \in Agents |-> 0]
  /\ badKey   = [a \in Agents |-> FALSE]
  /\ taken = {} /\ buffer = {} /\ logged = {} /\ lost = {}
  /\ audited = {} /\ unaudited = {}
  /\ windows = [a \in Agents |-> <<>>]
  /\ alarm   = [a \in Agents |-> FALSE]

-----------------------------------------------------------------------------
(* Handlers on the event loop *)

At(h, points) == job[h].at \in points

\* h has what it awaited and runs on without giving up the event loop.
Running(h) == At(h, SchedulerAwaits \cup {"scoring", "decide"}) /\ pending[h] = None

Quiet == \A h \in Handlers : ~Running(h)

Goes(h, point) == job' = [job EXCEPT ![h].at = point]

Ends(h) == job' = [job EXCEPT ![h] = Free]

\* A handler that has answered a packet waits for the next one.
NextPacket(h) == job' = [job EXCEPT ![h] = Job("receive", job[h].agent)]

\* A client opens a call about agent a.
Opens(h, a, point) ==
  /\ Quiet
  /\ At(h, {"free"})
  /\ job' = [job EXCEPT ![h] = Job(point, a)]

-----------------------------------------------------------------------------
(* Register *)

Registering(a) ==
  Cardinality({h \in Handlers : At(h, {"register"}) /\ job[h].agent = a})

\* mutant: the session carries the number of the one before
NewSessionLate(a) ==
  /\ session'  = [session EXCEPT ![a] = sessions[a] - 1]
  /\ sessions' = [sessions EXCEPT ![a] = @ + 1]

NewSession(a) ==
  /\ session'  = [session EXCEPT ![a] = sessions[a] + 1]
  /\ sessions' = [sessions EXCEPT ![a] = @ + 1]

RegisterCall(h, a) ==
  /\ sessions[a] + Registering(a) < MaxSessions
  /\ Opens(h, a, "register")
  /\ Register(h, a)
  /\ UNCHANGED <<keys, taken, trail, metricFlow, engine>>

\* mutant: an agent that has keys keeps them
RegisteredKeepsKeys(h) ==
  LET a == job[h].agent IN
  /\ Running(h) /\ At(h, {"register"})
  /\ Ends(h)
  /\ badKey' = [badKey EXCEPT ![a] = FALSE]
  /\ IF session[a] = 0 THEN NewSession(a)
     ELSE UNCHANGED session /\ sessions' = [sessions EXCEPT ![a] = @ + 1]
  /\ UNCHANGED <<vars, taken, trail, metricFlow, engine>>

\* The pool has the agent; now its keys, unless its public key is refused.  A
\* failure of the audit record, which comes last, only loses the response.
Registered(h) ==
  LET a == job[h].agent IN
  /\ Running(h) /\ At(h, {"register"})
  /\ Ends(h)
  /\ \/ NewSession(a) /\ badKey' = [badKey EXCEPT ![a] = FALSE]
     \/ UNCHANGED <<session, sessions>> /\ badKey' = [badKey EXCEPT ![a] = TRUE]
  /\ UNCHANGED <<vars, taken, trail, metricFlow, engine>>

-----------------------------------------------------------------------------
(* HeartBeatStream, which answers the first heartbeat and returns, and      *)
(* IssueQuarantine, which audits the quarantine once it is done            *)

HeartBeatStream(h, a, status) ==
  /\ Opens(h, a, "heartbeat")
  /\ Heartbeat(h, a, status)
  /\ UNCHANGED <<keys, taken, trail, metricFlow, engine>>

IssueQuarantine(h, a) ==
  /\ Opens(h, a, "issue")
  /\ Quarantine(h, a)
  /\ UNCHANGED <<keys, taken, trail, metricFlow, engine>>

Returned(h) ==
  /\ Running(h) /\ At(h, {"heartbeat", "issue"})
  /\ Ends(h)
  /\ UNCHANGED <<vars, keys, taken, trail, metricFlow, engine>>

-----------------------------------------------------------------------------
(* TaskStream *)

OpenStream(h, a) ==
  /\ Opens(h, a, "receive")
  /\ UNCHANGED <<vars, keys, taken, trail, metricFlow, engine>>

\* mutant: the stream looks only for an agent that is unknown
ServedIfKnown(a) == Known(a)

\* Anyone else gets a quarantine notice instead of an answer.
Served(a) == Known(a) /\ agents[a].state # "QUARANTINED"

\* What validate_inbound refuses is answered and leaves nothing behind here.
Refuse(p) ==
  /\ taken' = taken \cup {p}
  /\ UNCHANGED <<vars, job, buffer>>

Pass(h, p) ==
  /\ taken' = taken \cup {p}
  /\ buffer' = buffer \cup {p}
  /\ job' = [job EXCEPT ![h].at = "complete", ![h].nth = p.nth]
  /\ \E success \in Successes : CompleteTask(h, p.agent, success)

Receive(h) ==
  LET a == job[h].agent IN
  /\ Quiet
  /\ At(h, {"receive"})
  /\ Served(a)
  /\ session[a] # 0
  /\ \E p \in [agent : {a}, nth : Arrivals] \ taken : Refuse(p) \/ Pass(h, p)
  /\ UNCHANGED <<keys, trail, logged, lost, engine>>

Packet(h) == [agent |-> job[h].agent, nth |-> job[h].nth]

\* mutant: the buffer is copied and not emptied
DrainCopy(h) ==
  /\ job' = [job EXCEPT ![h].batch = buffer,
                        ![h].at = IF buffer = {} THEN "scoring" ELSE "metric"]
  /\ buffer' = buffer

Drain(h) ==
  /\ job' = [job EXCEPT ![h].batch = buffer,
                        ![h].at = IF buffer = {} THEN "scoring" ELSE "metric"]
  /\ buffer' = {}

\* mutant: the audit entry is left to the end of the iteration
CompletedUnrecorded(h) ==
  /\ Running(h) /\ At(h, {"complete"})
  /\ Drain(h)
  /\ UNCHANGED <<vars, keys, taken, trail, logged, lost, engine>>

\* The result is counted: the audit entry, which may fail and end the stream,
\* then the metrics of everybody's packets since the last drain.
Completed(h) ==
  /\ Running(h) /\ At(h, {"complete"})
  /\ \/ /\ audited' = audited \cup {Packet(h)}
        /\ Drain(h)
        /\ UNCHANGED unaudited
     \/ /\ unaudited' = unaudited \cup {Packet(h)}
        /\ Ends(h)
        /\ UNCHANGED <<audited, buffer>>
  /\ UNCHANGED <<vars, keys, taken, logged, lost, engine>>

\* One log_metric of the drained list has been written.
LogMetric(h) ==
  /\ Quiet
  /\ At(h, {"metric"})
  /\ \E m \in job[h].batch :
       /\ logged' = logged \cup {m}
       /\ job' = [job EXCEPT ![h].batch = @ \ {m},
                             ![h].at = IF job[h].batch = {m} THEN "scoring" ELSE @]
  /\ UNCHANGED <<vars, keys, taken, trail, buffer, lost, engine>>

-----------------------------------------------------------------------------
(* combined_engine.py: the last consecutive_for_quarantine scores decide    *)

Consecutive == 2

\* _update_history: should_quarantine never looks further back.
Pushed(history, s) ==
  LET all == Append(history, s)
  IN  IF Len(all) > Consecutive THEN Tail(all) ELSE all

ShouldQuarantine(history) ==
  Len(history) = Consecutive /\ \A i \in 1..Consecutive : history[i] >= Suspicious

\* score, and the request to the pool to take the score into account
Scoring(h) ==
  LET a == job[h].agent IN
  /\ Running(h) /\ At(h, {"scoring"})
  /\ \E s \in Scores :
       /\ windows' = [windows EXCEPT ![a] = Pushed(@, s)]
       /\ alarm' = [alarm EXCEPT ![a] = ShouldQuarantine(Pushed(windows[a], s))]
       /\ job' = [job EXCEPT ![h].at = "score", ![h].score = s]
       /\ UpdateAnomalyScore(h, a, s)
  /\ UNCHANGED <<keys, taken, trail, metricFlow>>

\* A level other than NORMAL is written to the event log first.
AfterScore(h) ==
  /\ Running(h) /\ At(h, {"score"})
  /\ Goes(h, IF job[h].score >= Suspicious THEN "event" ELSE "decide")
  /\ UNCHANGED <<vars, keys, taken, trail, metricFlow, engine>>

LogEvent(h) ==
  /\ Quiet
  /\ At(h, {"event"})
  /\ Goes(h, "decide")
  /\ UNCHANGED <<vars, keys, taken, trail, metricFlow, engine>>

\* mutant: an agent with any normal window on record is spared
DecideOnFirst(h) ==
  LET a == job[h].agent IN
  /\ Running(h) /\ At(h, {"decide"})
  /\ IF ShouldQuarantine(windows[a]) /\ job[h].score > Cutoff
     THEN /\ Goes(h, "quarantine")
          /\ Quarantine(h, a)
     ELSE /\ NextPacket(h)
          /\ UNCHANGED vars
  /\ UNCHANGED <<keys, taken, trail, metricFlow, engine>>

Decide(h) ==
  LET a == job[h].agent IN
  /\ Running(h) /\ At(h, {"decide"})
  /\ IF ShouldQuarantine(windows[a])
     THEN /\ Goes(h, "quarantine")
          /\ Quarantine(h, a)
     ELSE /\ NextPacket(h)
          /\ UNCHANGED vars
  /\ UNCHANGED <<keys, taken, trail, metricFlow, engine>>

\* The audit entry may fail and end the stream; otherwise the packet is
\* acknowledged, and IncidentReports.tla has what the report task does.
AfterQuarantine(h) ==
  /\ Running(h) /\ At(h, {"quarantine"})
  /\ NextPacket(h) \/ Ends(h)
  /\ alarm' = [alarm EXCEPT ![job[h].agent] = FALSE]
  /\ UNCHANGED <<vars, keys, taken, trail, metricFlow, windows>>

-----------------------------------------------------------------------------
(* A handler that ends early: its client went away, or SQLite failed.       *)

\* What h was about to do about its agent's score is not done any more.
Abandon(h) ==
  /\ Ends(h)
  /\ lost' = lost \cup job[h].batch
  /\ alarm' = IF At(h, {"score", "event", "quarantine"})
              THEN [alarm EXCEPT ![job[h].agent] = FALSE] ELSE alarm
  /\ UNCHANGED <<keys, taken, trail, buffer, logged, windows>>

\* mutant: a stream that ends early releases the lock, whoever holds it
BreakReleases(h) ==
  /\ Quiet
  /\ At(h, {"receive", "metric", "event"})
  /\ Abandon(h)
  /\ lock' = None
  /\ UNCHANGED <<agents, waiters, pending, clock, streak, abandoned>>

Break(h) ==
  /\ Quiet
  /\ At(h, {"receive", "metric", "event"})
  /\ Abandon(h)
  /\ UNCHANGED vars

Disconnect(h) ==
  /\ Quiet
  /\ Cancel(h)
  /\ Abandon(h)

-----------------------------------------------------------------------------
\* The lock is free and its first waiter runs on.
Resume ==
  /\ Quiet
  /\ Acquire
  /\ UNCHANGED service

\* h does what it can do without its client.
Proceed(h) ==
  \/ Registered(h)
  \/ Returned(h)
  \/ Completed(h)
  \/ LogMetric(h)
  \/ Scoring(h)
  \/ AfterScore(h)
  \/ LogEvent(h)
  \/ Decide(h)
  \/ AfterQuarantine(h)

MeshNext ==
  \/ \E h \in On("register"), a \in Agents : RegisterCall(h, a)
  \/ \E h \in On("heartbeat"), a \in Agents, status \in Statuses :
       HeartBeatStream(h, a, status)
  \/ \E h \in On("quarantine"), a \in Agents : IssueQuarantine(h, a)
  \/ \E h \in On("complete_task"), a \in Agents : OpenStream(h, a)
  \/ \E h \in Handlers : Receive(h)
  \/ \E h \in Handlers : Proceed(h)
  \/ \E h \in Handlers : Break(h)
  \/ \E h \in Cancellable : Disconnect(h)
  \/ Resume

MeshSpec == MeshInit /\ [][MeshNext]_meshVars

-----------------------------------------------------------------------------
(* Properties *)

Jobs ==
  [at : Points, agent : Agents \cup {None}, nth : Arrivals \cup {0},
   score : Scores \cup {0}, batch : SUBSET Packets]

\* Every variable keeps its type, and at most one handler runs at a time.
MeshTypeOK ==
  /\ TypeOK
  /\ job \in [Handlers -> Jobs]
  /\ \A h, i \in Handlers : Running(h) /\ Running(i) => h = i
  /\ session \in [Agents -> Nat]
  /\ sessions \in [Agents -> Nat]
  /\ badKey \in [Agents -> BOOLEAN]
  /\ taken \subseteq Packets
  /\ buffer \subseteq Packets
  /\ logged \subseteq Packets
  /\ lost \subseteq Packets
  /\ audited \subseteq Packets
  /\ unaudited \subseteq Packets
  /\ windows \in [Agents -> Seq(Scores)]
  /\ alarm \in [Agents -> BOOLEAN]

\* Keys and pool agree whenever nobody is in the middle of a step: a session
\* belongs to a known agent, and a known agent has the newest of its sessions
\* unless its key was refused, through registrations that wait for the lock,
\* overtake one another and are cancelled.
SessionsMatchPool ==
  Quiet => \A a \in Agents :
    /\ session[a] # 0 => Known(a)
    /\ Known(a) /\ session[a] = 0 => badKey[a]
    /\ session[a] = sessions[a]

\* The metric of every packet that passed is in exactly one place, the buffer, the hands of
\* one stream, the table, or gone down with a handler, although any stream
\* drains the metrics of all.
MetricsKept ==
  /\ \A h \in Handlers : job[h].batch \cap (buffer \cup logged \cup lost) = {}
  /\ \A h, i \in Handlers : h # i => job[h].batch \cap job[i].batch = {}
  /\ buffer \cap (logged \cup lost) = {}
  /\ audited \subseteq buffer \cup logged \cup lost \cup UNION {job[h].batch : h \in Handlers}

Counted(a) == agents[a].tasks_completed + agents[a].tasks_failed

\* Each result in the pool's counters has its own audit entry, except those
\* whose entry could not be written: no arrival is counted twice, or counted and
\* then forgotten by a stream that is cut, broken or overtaken.
CountedIsAudited ==
  Quiet => \A a \in Agents : Known(a) =>
    Counted(a) <= Cardinality({p \in audited \cup unaudited : p.agent = a})

\* README.md:151 "automatic quarantine on 2 consecutive anomalous windows", as
\* far as TaskStream keeps it: when the engine's last two windows of an agent
\* are suspicious, either some handler has since quarantined it, or one is on
\* its way to decide, or the one that was is gone.
AlarmIsAnswered ==
  \A a \in Agents : alarm[a] =>
    \E h \in Handlers :
      job[h].agent = a /\ At(h, {"score", "event", "decide", "quarantine"})

\* A quarantined agent's results are held back: a result is only counted on a
\* quarantined agent if its packet came before the quarantine and its stream
\* has been waiting for the lock since.
QuarantineHoldsBack ==
  [][\A a \in Agents :
       /\ Known(a) /\ agents[a].state = "QUARANTINED"
       /\ agents'[a] # None /\ agents'[a].tasks_completed + agents'[a].tasks_failed > Counted(a)
       => \E h \in Handlers :
            /\ pending[h] # None
            /\ pending[h].op = "complete_task"
            /\ pending[h].agent = a
            /\ pending'[h] = None]_meshVars

\* The handlers use the pool only as TaskScheduler says it is used.
UsesPool == Spec
=============================================================================
