----------------------------- MODULE MeshProofs -----------------------------
(***************************************************************************)
(* What the handlers of the gRPC service guarantee for every number of     *)
(* agents, handlers and packets: that they use the pool as TaskScheduler   *)
(* says, that sessions and pool agree, that no metric is lost or doubled,  *)
(* that no result is counted without its audit entry, and that no alarm is *)
(* forgotten.                                                              *)
(***************************************************************************)
EXTENDS Mesh, TaskSchedulerProofs, FiniteSetTheorems

-----------------------------------------------------------------------------
(* The inductive invariant, part by part.                                   *)

Agent(h) == job[h].agent

\* Where only a task stream gets.
StreamPoints == Points \ {"free", "register", "heartbeat", "issue"}

\* The local variables j of handler h fit the place it is at.
JobFits(h, j) ==
  /\ j.at # "free" => j.agent \in Agents
  /\ j.at = "complete" => j.nth \in Arrivals
  /\ j.at \in StreamPoints => h \in On("complete_task")
  /\ j.at # "metric" => j.batch = {}

\* The operation a handler awaits at each place.
Operation ==
  {<<"register", "register">>, <<"heartbeat", "heartbeat">>, <<"issue", "quarantine">>,
   <<"complete", "complete_task">>, <<"score", "update_anomaly_score">>,
   <<"quarantine", "quarantine">>}

\* A handler with local variables j is suspended in a call of its place, about
\* its agent, if it is suspended in a call q at all.
CallFits(j, q) == q # None => <<j.at, q.op>> \in Operation /\ q.agent = j.agent

OneRuns == \A h, i \in Handlers : Running(h) /\ Running(i) => h = i

Coroutines ==
  /\ job \in [Handlers -> Jobs]
  /\ \A h \in Handlers : JobFits(h, job[h]) /\ CallFits(job[h], pending[h])
  /\ pending[Sweeper] = None
  /\ OneRuns

ServiceTypes ==
  /\ session \in [Agents -> Nat]
  /\ sessions \in [Agents -> Nat]
  /\ badKey \in [Agents -> BOOLEAN]
  /\ taken \subseteq Packets
  /\ buffer \subseteq Packets
  /\ logged \subseteq Packets
  /\ lost \subseteq Packets
  /\ audited \subseteq Packets
  /\ unaudited \subseteq Packets
  /\ windows \in [Agents -> Seq(Scores)]
  /\ alarm \in [Agents -> BOOLEAN]

\* A registration whose pool record exists and whose keys do not, yet.
Enters(h, a) == Running(h) /\ At(h, {"register"}) /\ Agent(h) = a

SessionInv ==
  /\ session = sessions
  /\ \A h \in Handlers, a \in Agents : Enters(h, a) => Known(a)
  /\ \A a \in Agents :
       /\ session[a] # 0 => Known(a)
       /\ Known(a) /\ session[a] = 0 => badKey[a] \/ \E h \in Handlers : Enters(h, a)

\* The packets whose metric is somewhere.
Located == buffer \cup logged \cup lost \cup UNION {job[h].batch : h \in Handlers}

FlowInv ==
  /\ MetricsKept
  /\ Located \cup audited \cup unaudited \subseteq taken
  /\ \A h \in Handlers : At(h, {"complete"}) => Packet(h) \in Located

Trail(a) == {p \in audited \cup unaudited : p.agent = a}

\* A result of a that the pool has counted and the trail does not have, yet.
Unrecorded(h, a) == Running(h) /\ At(h, {"complete"}) /\ Agent(h) = a

CountedInv ==
  /\ IsFiniteSet(audited \cup unaudited)
  /\ \A h \in Handlers : At(h, {"complete"}) =>
       /\ Packet(h) \notin audited \cup unaudited
       /\ \A i \in Handlers : At(i, {"complete"}) /\ Packet(i) = Packet(h) => i = h
  /\ \A a \in Agents : Known(a) =>
       \/ Counted(a) <= Cardinality(Trail(a))
       \/ /\ Counted(a) <= Cardinality(Trail(a)) + 1
          /\ \E h \in Handlers : Unrecorded(h, a)

\* h is on its way to act on the last windows of a.
Answers(h, a) == At(h, {"score", "event", "decide", "quarantine"}) /\ Agent(h) = a

AlarmInv ==
  \A a \in Agents : alarm[a] =>
    /\ ShouldQuarantine(windows[a])
    /\ \E h \in Handlers : Answers(h, a)

-----------------------------------------------------------------------------
(* What the pool's operations do, as far as the service is concerned.       *)

\* The requests of the service.
ServiceRequests == {r \in AgentRequests : r.op # "unregister"}

\* r has been run: it makes one agent known, counts one result, or does neither.
Ran(r) ==
  /\ r.agent \in Agents
  /\ \A a \in Agents \ {r.agent} : agents'[a] = agents[a]
  /\ IF r.op = "register"
     THEN Known(r.agent)' /\ Counted(r.agent)' = 0
     ELSE /\ Known(r.agent)' <=> Known(r.agent)
          /\ Known(r.agent) =>
               Counted(r.agent)' = Counted(r.agent) + (IF r.op = "complete_task" THEN 1 ELSE 0)

\* Nobody is entered, and no result counted.
PoolKept ==
  \A a \in Agents : /\ Known(a)' <=> Known(a)
                    /\ Known(a) => Counted(a)' = Counted(a)

\* Request r of h is served, or h is suspended in it.
PoolStep(h, r) ==
  \/ pending' = [pending EXCEPT ![h] = None] /\ Ran(r)
  \/ pending' = [pending EXCEPT ![h] = r] /\ PoolKept

\* No operation but complete_task and register touches the counters of results.
LEMMA RecordCounts ==
  ASSUME NEW rec \in AgentRecord, NEW now \in Nat
  PROVE  /\ rec.tasks_completed \in Nat /\ rec.tasks_failed \in Nat
         /\ NewRecord(now).tasks_completed = 0 /\ NewRecord(now).tasks_failed = 0
         /\ \A status \in AgentStatus :
              /\ Heard(rec, status, now).tasks_completed = rec.tasks_completed
              /\ Heard(rec, status, now).tasks_failed = rec.tasks_failed
         /\ Quarantined(rec).tasks_completed = rec.tasks_completed
         /\ Quarantined(rec).tasks_failed = rec.tasks_failed
         /\ \A score \in Nat :
              /\ Scored(rec, score).tasks_completed = rec.tasks_completed
              /\ Scored(rec, score).tasks_failed = rec.tasks_failed
         /\ \A success \in BOOLEAN :
              Finished(rec, success).tasks_completed + Finished(rec, success).tasks_failed
                = rec.tasks_completed + rec.tasks_failed + 1
<1>1. rec.tasks_completed \in Nat /\ rec.tasks_failed \in Nat
  BY DEF AgentRecord
<1>2. ASSUME NEW success \in BOOLEAN
      PROVE  Finished(rec, success).tasks_completed + Finished(rec, success).tasks_failed
               = rec.tasks_completed + rec.tasks_failed + 1
  <2>1. CASE success
    BY <1>1, <2>1 DEF Finished, AgentRecord
  <2>2. CASE ~success
    BY <1>1, <2>2 DEF Finished, AgentRecord
  <2> QED
    BY <2>1, <2>2
<1> QED
  BY <1>1, <1>2 DEF AgentRecord, NewRecord, Heard, Quarantined, Scored

\* A score is bookkeeping only.
LEMMA ScoreKeepsPool ==
  ASSUME TypeOK, NEW r \in ServiceRequests, r.op = "update_anomaly_score",
         Known(r.agent), Score(r)
  PROVE  Ran(r) /\ PoolKept
<1>1. /\ r.agent \in Agents
      /\ r.score \in Nat
      /\ agents \in [Agents -> AgentRecord \cup {None}]
      /\ clock \in Nat
      /\ None \notin AgentRecord
  BY ParameterTypes DEF ServiceRequests, AgentRequests, TypeOK
<1>2. agents[r.agent] \in AgentRecord
  BY <1>1 DEF Known
<1>3. agents' = [agents EXCEPT ![r.agent] = Scored(agents[r.agent], r.score)]
  BY DEF Score
<1>4. /\ Scored(agents[r.agent], r.score) \in AgentRecord
      /\ Scored(agents[r.agent], r.score).tasks_completed = agents[r.agent].tasks_completed
      /\ Scored(agents[r.agent], r.score).tasks_failed = agents[r.agent].tasks_failed
  BY <1>1, <1>2, RecordsAreRecords, RecordCounts
<1>5. /\ \A a \in Agents \ {r.agent} : agents'[a] = agents[a]
      /\ Known(r.agent)'
      /\ Counted(r.agent)' = Counted(r.agent)
  BY <1>1, <1>3, <1>4 DEF Known, Counted
<1>6. Counted(r.agent) \in Nat
  BY <1>1, <1>2, RecordCounts DEF Counted
<1> QED
  BY <1>1, <1>5, <1>6 DEF Ran, PoolKept, Known, Counted

LEMMA ServeRuns ==
  ASSUME TypeOK, NEW r \in ServiceRequests, Serve(r)
  PROVE  Ran(r)
<1>1. /\ r.agent \in Agents
      /\ agents \in [Agents -> AgentRecord \cup {None}]
      /\ clock \in Nat
      /\ None \notin AgentRecord
  BY ParameterTypes DEF ServiceRequests, AgentRequests, TypeOK
<1>2. CASE RegisterBody(r)
  <2>1. agents' = [agents EXCEPT ![r.agent] = NewRecord(clock)] /\ r.op = "register"
    BY <1>2 DEF RegisterBody
  <2>2. /\ NewRecord(clock) \in AgentRecord
        /\ NewRecord(clock).tasks_completed = 0 /\ NewRecord(clock).tasks_failed = 0
    BY <1>1, RecordsAreRecords DEF NewRecord
  <2> QED
    BY <1>1, <2>1, <2>2 DEF Ran, Known, Counted
<1>3. ASSUME NEW rec \in AgentRecord, r.op # "register",
             agents' = [agents EXCEPT ![r.agent] = IF @ = None THEN None ELSE rec],
             agents[r.agent] \in AgentRecord =>
               rec.tasks_completed + rec.tasks_failed
                 = agents[r.agent].tasks_completed + agents[r.agent].tasks_failed
                     + (IF r.op = "complete_task" THEN 1 ELSE 0)
      PROVE  Ran(r)
  BY <1>1, <1>3 DEF Ran, Known, Counted
<1>4. ASSUME agents[r.agent] = None, r.op # "register",
             agents' = [agents EXCEPT ![r.agent] = None]
      PROVE  Ran(r)
  BY <1>1, <1>4 DEF Ran, Known, Counted
<1>5. ASSUME agents[r.agent] # None
      PROVE  /\ agents[r.agent] \in AgentRecord
             /\ agents[r.agent].tasks_completed \in Nat
             /\ agents[r.agent].tasks_failed \in Nat
  BY <1>1, <1>5 DEF AgentRecord
<1>6. CASE HeartbeatBody(r)
  <2>1. r.op = "heartbeat" /\ r.status \in AgentStatus
    BY <1>6, ParameterTypes DEF HeartbeatBody, ServiceRequests, AgentRequests
  <2>2. CASE agents[r.agent] = None
    BY <1>1, <1>4, <1>6, <2>1, <2>2 DEF HeartbeatBody
  <2>3. CASE agents[r.agent] # None
    <3> DEFINE rec == Heard(agents[r.agent], r.status, clock)
    <3>1. rec \in AgentRecord
      BY <1>1, <1>5, <2>1, <2>3, RecordsAreRecords
    <3>2. rec.tasks_completed = agents[r.agent].tasks_completed
          /\ rec.tasks_failed = agents[r.agent].tasks_failed
      BY <1>1, <1>5, <2>1, <2>3, RecordCounts
    <3>3. agents' = [agents EXCEPT ![r.agent] = IF @ = None THEN None ELSE rec]
      BY <1>6, <2>3 DEF HeartbeatBody
    <3> HIDE DEF rec
    <3>4. rec.tasks_completed + rec.tasks_failed
            = agents[r.agent].tasks_completed + agents[r.agent].tasks_failed + 0
      BY <1>5, <2>3, <3>2
    <3> QED
      BY <1>3, <2>1, <3>1, <3>3, <3>4
  <2> QED
    BY <2>2, <2>3
<1>7. CASE CompleteTaskBody(r)
  <2>1. r.op = "complete_task" /\ r.success \in BOOLEAN
    BY <1>7 DEF CompleteTaskBody, ServiceRequests, AgentRequests
  <2>2. CASE agents[r.agent] = None
    BY <1>1, <1>4, <1>7, <2>1, <2>2 DEF CompleteTaskBody
  <2>3. CASE agents[r.agent] # None
    <3> DEFINE rec == Finished(agents[r.agent], r.success)
    <3>1. rec \in AgentRecord
      BY <1>1, <1>5, <2>1, <2>3, RecordsAreRecords
    <3>2. rec.tasks_completed + rec.tasks_failed
            = agents[r.agent].tasks_completed + agents[r.agent].tasks_failed + 1
      BY <1>1, <1>5, <2>1, <2>3, RecordCounts
    <3>3. agents' = [agents EXCEPT ![r.agent] = IF @ = None THEN None ELSE rec]
      BY <1>7, <2>3 DEF CompleteTaskBody
    <3> HIDE DEF rec
    <3> QED
      BY <1>3, <2>1, <3>1, <3>2, <3>3
  <2> QED
    BY <2>2, <2>3
<1>8. CASE QuarantineBody(r)
  <2>1. r.op = "quarantine"
    BY <1>8 DEF QuarantineBody
  <2>2. CASE agents[r.agent] = None
    BY <1>1, <1>4, <1>8, <2>1, <2>2 DEF QuarantineBody
  <2>3. CASE agents[r.agent] # None
    <3> DEFINE rec == Quarantined(agents[r.agent])
    <3>1. rec \in AgentRecord
      BY <1>1, <1>5, <2>3, RecordsAreRecords
    <3>2. rec.tasks_completed = agents[r.agent].tasks_completed
          /\ rec.tasks_failed = agents[r.agent].tasks_failed
      BY <1>1, <1>5, <2>3, RecordCounts
    <3>3. agents' = [agents EXCEPT ![r.agent] = IF @ = None THEN None ELSE rec]
      BY <1>8, <2>3 DEF QuarantineBody
    <3> HIDE DEF rec
    <3>4. rec.tasks_completed + rec.tasks_failed
            = agents[r.agent].tasks_completed + agents[r.agent].tasks_failed + 0
      BY <1>5, <2>3, <3>2
    <3> QED
      BY <1>3, <2>1, <3>1, <3>3, <3>4
  <2> QED
    BY <2>2, <2>3
<1>9. CASE UpdateAnomalyScoreBody(r)
  <2>1. CASE ~Known(r.agent) /\ UNCHANGED agents
    BY <1>1, <1>9, <2>1 DEF UpdateAnomalyScoreBody, Ran, Known, Counted
  <2>2. CASE Known(r.agent) /\ Score(r)
    BY <1>9, <2>2, ScoreKeepsPool DEF UpdateAnomalyScoreBody
  <2> QED
    BY <1>9, <2>1, <2>2 DEF UpdateAnomalyScoreBody
<1>10. ~UnregisterBody(r) /\ ~MarkOfflineStaleBody(r) /\ ~DispatchBody(r)
  BY DEF UnregisterBody, MarkOfflineStaleBody, DispatchBody, ServiceRequests, AgentRequests
<1> QED
  BY <1>2, <1>6, <1>7, <1>8, <1>9, <1>10 DEF Serve

\* Entering the critical section serves the request, or suspends its caller again.
LEMMA EnterRuns ==
  ASSUME TypeOK, NEW h \in Handlers, NEW r \in ServiceRequests, NEW q, Enter(h, r, q)
  PROVE  PoolStep(h, r)
<1>1. CASE AwaitQuarantine(h, r) /\ pending' = [pending EXCEPT ![h] = r]
  BY <1>1, ScoreKeepsPool DEF AwaitQuarantine, PoolStep
<1>2. CASE Serve(r) /\ pending' = [pending EXCEPT ![h] = None]
  BY <1>2, ServeRuns DEF PoolStep
<1> QED
  BY <1>1, <1>2 DEF Enter

LEMMA CallRuns ==
  ASSUME TypeOK, NEW h \in Handlers, NEW r \in ServiceRequests, Call(h, r)
  PROVE  pending[h] = None /\ PoolStep(h, r)
<1>1. CASE Enter(h, r, waiters)
  BY <1>1, EnterRuns DEF Call
<1>2. CASE Waits(h, r)
  BY <1>2 DEF Call, Waits, PoolStep, PoolKept, Known, Counted
<1> QED
  BY <1>1, <1>2 DEF Call

\* When the lock is free it is a handler that runs on: the sweeping loop is not
\* part of the service.
LEMMA AcquireRuns ==
  ASSUME QueueInv, Coroutines, Acquire
  PROVE  \E h \in Handlers : pending[h] \in ServiceRequests /\ PoolStep(h, pending[h])
<1> DEFINE h == Head(waiters)
<1>1. /\ h \in Callers
      /\ pending[h] \in Requests
      /\ Enter(h, pending[h], Tail(waiters))
  BY FirstWaiter DEF Acquire
<1> HIDE DEF h
<1>2. h \in Handlers
  BY <1>1, ParameterTypes DEF Callers, Coroutines
<1>3. pending[h] \in ServiceRequests
  <2>1. pending[h] # None /\ CallFits(job[h], pending[h])
    BY <1>1, <1>2, ParameterTypes DEF Coroutines
  <2>2. pending[h].op \in {"register", "heartbeat", "quarantine", "complete_task",
                           "update_anomaly_score"}
    BY <2>1 DEF CallFits, Operation
  <2> QED
    BY <1>1, <2>2 DEF Requests, AgentRequests, ServiceRequests
<1> QED
  BY <1>1, <1>2, <1>3, EnterRuns DEF QueueInv

-----------------------------------------------------------------------------
(* The handlers use the pool as TaskScheduler says.                         *)

LEMMA ReceiveUsesPool ==
  ASSUME Coroutines, NEW h \in Handlers, Receive(h)
  PROVE  [Next]_vars
<1>1. PICK p \in [agent : {Agent(h)}, nth : Arrivals] : Refuse(p) \/ Pass(h, p)
  BY DEF Receive, Agent
<1>2. CASE Refuse(p)
  BY <1>2 DEF Refuse
<1>3. CASE Pass(h, p)
  <2>1. h \in On("complete_task") /\ p.agent \in Agents
    BY <1>1 DEF Receive, At, Agent, Coroutines, JobFits, StreamPoints, Points, SchedulerAwaits
  <2>2. PICK success \in BOOLEAN : CompleteTask(h, p.agent, success)
    BY <1>3, MeshParameters DEF Pass
  <2> QED
    BY <2>1, <2>2 DEF Next
<1> QED
  BY <1>1, <1>2, <1>3

LEMMA ProceedUsesPool ==
  ASSUME Coroutines, NEW h \in Handlers, Proceed(h)
  PROVE  [Next]_vars
<1>1. CASE Scoring(h)
  <2>1. h \in On("update_anomaly_score") /\ Agent(h) \in Agents
    BY <1>1, MeshParameters
       DEF Scoring, At, Agent, Coroutines, JobFits, StreamPoints, Points, SchedulerAwaits
  <2> QED
    BY <1>1, <2>1 DEF Scoring, Agent, Next
<1>2. CASE Decide(h)
  <2>1. h \in On("quarantine") /\ Agent(h) \in Agents
    BY <1>2, MeshParameters
       DEF Decide, At, Agent, Coroutines, JobFits, StreamPoints, Points, SchedulerAwaits
  <2> QED
    BY <1>2, <2>1 DEF Decide, Agent, Next
<1>3. CASE \/ Registered(h) \/ Returned(h) \/ Completed(h) \/ LogMetric(h)
           \/ AfterScore(h) \/ LogEvent(h) \/ AfterQuarantine(h)
  BY <1>3 DEF Registered, Returned, Completed, LogMetric, AfterScore, LogEvent, AfterQuarantine
<1> QED
  BY <1>1, <1>2, <1>3 DEF Proceed

\* Every step of the service is a step of TaskScheduler, or leaves it alone.
LEMMA StepUsesPool ==
  ASSUME Coroutines, [MeshNext]_meshVars
  PROVE  [Next]_vars
<1>1. ASSUME NEW h \in On("register"), NEW a \in Agents, RegisterCall(h, a)
      PROVE  Next
  BY <1>1 DEF RegisterCall, Next
<1>2. ASSUME NEW h \in On("heartbeat"), NEW a \in Agents, NEW status \in Statuses,
             HeartBeatStream(h, a, status)
      PROVE  Next
  BY <1>2 DEF HeartBeatStream, Next
<1>3. ASSUME NEW h \in On("quarantine"), NEW a \in Agents, IssueQuarantine(h, a)
      PROVE  Next
  BY <1>3 DEF IssueQuarantine, Next
<1>4. ASSUME NEW h \in Handlers, \/ Break(h) \/ \E a \in Agents : OpenStream(h, a)
      PROVE  UNCHANGED vars
  BY <1>4 DEF Break, OpenStream
<1>5. ASSUME NEW h \in Cancellable, Disconnect(h)
      PROVE  Next
  BY <1>5 DEF Disconnect, Next
<1>6. CASE Resume
  BY <1>6 DEF Resume, Next
<1>7. CASE UNCHANGED meshVars
  BY <1>7 DEF meshVars
<1>8. On("complete_task") \subseteq Handlers
  BY DEF On
<1> QED
  BY <1>1, <1>2, <1>3, <1>4, <1>5, <1>6, <1>7, <1>8, ReceiveUsesPool, ProceedUsesPool DEF MeshNext

-----------------------------------------------------------------------------
(* What a step of the service can be.                                       *)

CallsInv == QueueInv /\ ServiceTypes /\ Coroutines

\* The event loop is free for h, which goes on to the local variables j.
Moves(h, j) ==
  /\ Quiet \/ Running(h)
  /\ j \in Jobs
  /\ JobFits(h, j)
  /\ job' = [job EXCEPT ![h] = j]

\* h asks the pool for r, or its suspended request r is served.
Asks(h, j, r) ==
  /\ Moves(h, j)
  /\ Quiet \/ job[h].at \in {"scoring", "decide"}
  /\ PoolStep(h, r)
  /\ <<j.at, r.op>> \in Operation
  /\ j.agent = r.agent
  /\ UNCHANGED <<keys, trail>>

\* h goes on without the pool, or ends.
Rests(h, j) ==
  /\ Moves(h, j)
  /\ j.at \notin SchedulerAwaits
  /\ agents' = agents
  /\ pending' = [pending EXCEPT ![h] = None]
  /\ Registered(h) \/ UNCHANGED keys
  /\ Completed(h) \/ UNCHANGED trail
  /\ Registered(h) \/ Completed(h) \/ Quiet \/ job[h].at \notin {"register", "complete"}

StepShape(h, j) == Rests(h, j) \/ \E r \in ServiceRequests : Asks(h, j, r)

\* The local variables of a handler that serves a call fit its place.
LEMMA HandlerTypes ==
  ASSUME Coroutines, NEW h \in Handlers
  PROVE  /\ job \in [Handlers -> Jobs]
         /\ job[h] \in Jobs
         /\ job[h].at # "free" => Agent(h) \in Agents
         /\ job[h].at \in StreamPoints => h \in On("complete_task")
         /\ job[h].at = "complete" => Packet(h) \in Packets
         /\ job[h].at # "metric" => job[h].batch = {}
         /\ job[h].at \notin SchedulerAwaits => pending[h] = None
<1>1. job \in [Handlers -> Jobs] /\ JobFits(h, job[h]) /\ CallFits(job[h], pending[h])
  BY DEF Coroutines
<1> QED
  BY <1>1 DEF JobFits, CallFits, Operation, SchedulerAwaits, Agent, Packet, Packets

\* Which points are whose.
LEMMA PointKinds ==
  /\ {"receive", "complete", "metric", "scoring", "score", "event", "decide", "quarantine"}
       \subseteq StreamPoints
  /\ SchedulerAwaits \cup StreamPoints \cup {"free"} \subseteq Points
  /\ {"free", "receive", "metric", "scoring", "event", "decide"} \cap SchedulerAwaits = {}
  /\ {"register", "heartbeat", "issue"} \cap StreamPoints = {}
  /\ {"register", "heartbeat", "issue", "complete", "score", "quarantine"} = SchedulerAwaits
BY DEF StreamPoints, Points, SchedulerAwaits

\* A handler with nothing in hand fits every point but one that needs a packet.
LEMMA JobTypes ==
  ASSUME NEW h, NEW a \in Agents, NEW point \in Points \ {"free", "complete"},
         point \in StreamPoints => h \in On("complete_task")
  PROVE  /\ Job(point, a) \in Jobs
         /\ JobFits(h, Job(point, a))
         /\ Job(point, a).at = point /\ Job(point, a).agent = a
BY DEF Job, Jobs, JobFits

LEMMA FreeTypes ==
  ASSUME NEW h
  PROVE  Free \in Jobs /\ JobFits(h, Free) /\ Free.at = "free"
BY DEF Free, Job, Jobs, Points, JobFits, StreamPoints, SchedulerAwaits

\* A handler that is in no call stays in none.
LEMMA StillNoCall ==
  ASSUME CallsInv, NEW h \in Handlers, pending[h] = None, UNCHANGED vars
  PROVE  agents' = agents /\ pending' = [pending EXCEPT ![h] = None]
BY DEF CallsInv, QueueInv, TypeOK, vars

\* A handler that calls an operation of the pool asks for it.
LEMMA CallAsks ==
  ASSUME CallsInv, NEW h \in Handlers, NEW r \in ServiceRequests, Call(h, r), NEW j,
         Moves(h, j), <<j.at, r.op>> \in Operation, j.agent = r.agent,
         Quiet \/ job[h].at \in {"scoring", "decide"}, UNCHANGED <<keys, trail>>
  PROVE  StepShape(h, j)
BY CallRuns DEF Asks, StepShape, CallsInv, QueueInv

\* The requests handlers make, and the places they make them for.
LEMMA RequestKinds ==
  ASSUME NEW a \in Agents
  PROVE  /\ [op |-> "register", agent |-> a] \in ServiceRequests
         /\ [op |-> "quarantine", agent |-> a] \in ServiceRequests
         /\ \A status \in Statuses :
              [op |-> "heartbeat", agent |-> a, status |-> status] \in ServiceRequests
         /\ \A success \in BOOLEAN :
              [op |-> "complete_task", agent |-> a, success |-> success] \in ServiceRequests
         /\ \A s \in Scores :
              [op |-> "update_anomaly_score", agent |-> a, score |-> s] \in ServiceRequests
         /\ {<<"register", "register">>, <<"heartbeat", "heartbeat">>,
              <<"issue", "quarantine">>, <<"quarantine", "quarantine">>,
              <<"complete", "complete_task">>, <<"score", "update_anomaly_score">>}
              \subseteq Operation
BY DEF ServiceRequests, AgentRequests, Operation

LEMMA OpensShape ==
  ASSUME CallsInv, NEW h \in Handlers, NEW a \in Agents
  PROVE  /\ RegisterCall(h, a) => \E j : StepShape(h, j)
         /\ \A status \in Statuses : HeartBeatStream(h, a, status) => \E j : StepShape(h, j)
         /\ IssueQuarantine(h, a) => \E j : StepShape(h, j)
         /\ OpenStream(h, a) /\ h \in On("complete_task") => \E j : StepShape(h, j)
<1>1. ASSUME NEW point \in {"register", "heartbeat", "issue"},
             Opens(h, a, point), UNCHANGED <<keys, trail>>,
             NEW r \in ServiceRequests, <<point, r.op>> \in Operation, r.agent = a, Call(h, r)
      PROVE  \E j : StepShape(h, j)
  <2>1. Moves(h, Job(point, a)) /\ Quiet
    BY <1>1, JobTypes, PointKinds DEF Opens, Moves
  <2>2. Job(point, a).at = point /\ Job(point, a).agent = a
    BY DEF Job
  <2> QED
    BY <1>1, <2>1, <2>2, CallAsks
<1>2. ASSUME RegisterCall(h, a)
      PROVE  \E j : StepShape(h, j)
  <2> DEFINE r == [op |-> "register", agent |-> a]
  <2>1. r \in ServiceRequests /\ <<"register", r.op>> \in Operation /\ r.agent = a
    BY RequestKinds
  <2>2. Call(h, r) /\ Opens(h, a, "register") /\ UNCHANGED <<keys, trail>>
    BY <1>2 DEF RegisterCall, Register
  <2> HIDE DEF r
  <2> QED
    BY <1>1, <2>1, <2>2
<1>3. ASSUME NEW status \in Statuses, HeartBeatStream(h, a, status)
      PROVE  \E j : StepShape(h, j)
  <2> DEFINE r == [op |-> "heartbeat", agent |-> a, status |-> status]
  <2>1. r \in ServiceRequests /\ <<"heartbeat", r.op>> \in Operation /\ r.agent = a
    BY RequestKinds
  <2>2. Call(h, r) /\ Opens(h, a, "heartbeat") /\ UNCHANGED <<keys, trail>>
    BY <1>3 DEF HeartBeatStream, Heartbeat
  <2> HIDE DEF r
  <2> QED
    BY <1>1, <2>1, <2>2
<1>4. ASSUME IssueQuarantine(h, a)
      PROVE  \E j : StepShape(h, j)
  <2> DEFINE r == [op |-> "quarantine", agent |-> a]
  <2>1. r \in ServiceRequests /\ <<"issue", r.op>> \in Operation /\ r.agent = a
    BY RequestKinds
  <2>2. Call(h, r) /\ Opens(h, a, "issue") /\ UNCHANGED <<keys, trail>>
    BY <1>4 DEF IssueQuarantine, Quarantine
  <2> HIDE DEF r
  <2> QED
    BY <1>1, <2>1, <2>2
<1>5. ASSUME OpenStream(h, a), h \in On("complete_task")
      PROVE  StepShape(h, Job("receive", a))
  <2>1. /\ Quiet
        /\ job[h].at = "free"
        /\ job' = [job EXCEPT ![h] = Job("receive", a)]
        /\ UNCHANGED <<vars, keys, trail>>
    BY <1>5 DEF OpenStream, Opens, At
  <2>2. Moves(h, Job("receive", a)) /\ Job("receive", a).at \notin SchedulerAwaits
    BY <1>5, <2>1, JobTypes, PointKinds DEF Moves
  <2>3. pending[h] = None
    BY <2>1, HandlerTypes, PointKinds DEF CallsInv
  <2> QED
    BY <2>1, <2>2, <2>3, StillNoCall DEF Rests, StepShape
<1> QED
  BY <1>2, <1>3, <1>4, <1>5

LEMMA ReceiveShape ==
  ASSUME CallsInv, NEW h \in Handlers, Receive(h)
  PROVE  \E j : StepShape(h, j)
<1>1. PICK p \in [agent : {Agent(h)}, nth : Arrivals] : Refuse(p) \/ Pass(h, p)
  BY DEF Receive, Agent
<1>2. Quiet /\ job[h].at = "receive" /\ UNCHANGED <<keys, trail>>
  BY DEF Receive, At
<1>3. /\ job \in [Handlers -> Jobs] /\ job[h] \in Jobs
      /\ Agent(h) \in Agents
      /\ h \in On("complete_task")
      /\ job[h].batch = {}
      /\ job[h].at \notin SchedulerAwaits
      /\ pending[h] = None
  BY <1>2, HandlerTypes, PointKinds DEF CallsInv
<1>4. CASE Refuse(p)
  <2>1. Moves(h, job[h])
    BY <1>2, <1>3, <1>4 DEF Refuse, Moves, CallsInv, Coroutines
  <2> QED
    BY <1>2, <1>3, <1>4, <2>1, StillNoCall DEF Refuse, Rests, StepShape
<1>5. CASE Pass(h, p)
  <2> DEFINE j == [job[h] EXCEPT !.at = "complete", !.nth = p.nth]
  <2>1. job' = [job EXCEPT ![h] = j]
    BY <1>3, <1>5 DEF Pass
  <2>2. j.at = "complete" /\ j.agent = Agent(h) /\ j.nth \in Arrivals /\ j.batch = {}
    BY <1>1, <1>3 DEF Jobs, Agent
  <2>3. j \in Jobs
    BY <1>1, <1>3 DEF Jobs, Points, SchedulerAwaits
  <2> HIDE DEF j
  <2>4. Moves(h, j)
    BY <1>2, <1>3, <2>1, <2>2, <2>3 DEF Moves, JobFits
  <2>5. PICK success \in BOOLEAN :
          Call(h, [op |-> "complete_task", agent |-> Agent(h), success |-> success])
    BY <1>1, <1>5, MeshParameters DEF Pass, CompleteTask
  <2> DEFINE r == [op |-> "complete_task", agent |-> Agent(h), success |-> success]
  <2>6. r \in ServiceRequests /\ <<j.at, r.op>> \in Operation /\ r.agent = j.agent
    BY <1>3, <2>2, <2>5, RequestKinds
  <2> HIDE DEF r
  <2> QED
    BY <1>2, <2>4, <2>5, <2>6, CallAsks DEF r
<1> QED
  BY <1>1, <1>4, <1>5

LEMMA CompletedShape ==
  ASSUME CallsInv, NEW h \in Handlers, Completed(h)
  PROVE  \E j : StepShape(h, j)
<1>1. /\ Running(h)
      /\ job[h].at = "complete"
      /\ UNCHANGED <<vars, keys>>
      /\ pending[h] = None
      /\ buffer \subseteq Packets
  BY DEF Completed, At, Running, CallsInv, ServiceTypes
<1>2. /\ job \in [Handlers -> Jobs] /\ job[h] \in Jobs
      /\ Agent(h) \in Agents
      /\ h \in On("complete_task")
  BY <1>1, HandlerTypes, PointKinds DEF CallsInv
<1>3. ASSUME NEW j, Moves(h, j), j.at \notin SchedulerAwaits
      PROVE  StepShape(h, j)
  BY <1>1, <1>3, StillNoCall DEF Rests, StepShape
<1>4. CASE Drain(h)
  <2> DEFINE j == [job[h] EXCEPT !.batch = buffer,
                                 !.at = IF buffer = {} THEN "scoring" ELSE "metric"]
  <2>1. job' = [job EXCEPT ![h] = j]
    BY <1>2, <1>4 DEF Drain
  <2>2. /\ j.at = (IF buffer = {} THEN "scoring" ELSE "metric")
        /\ j.agent = Agent(h)
        /\ j.batch = buffer
    BY <1>2 DEF Jobs, Agent
  <2>3. j \in Jobs
    BY <1>1, <1>2 DEF Jobs, Points
  <2> HIDE DEF j
  <2>4. Moves(h, j)
    BY <1>1, <1>2, <2>1, <2>2, <2>3 DEF Moves, JobFits
  <2> QED
    BY <1>3, <2>2, <2>4, PointKinds
<1>5. CASE Ends(h)
  BY <1>1, <1>3, <1>5, FreeTypes, PointKinds DEF Ends, Moves
<1> QED
  BY <1>4, <1>5 DEF Completed

LEMMA LogMetricShape ==
  ASSUME CallsInv, NEW h \in Handlers, LogMetric(h)
  PROVE  \E j : StepShape(h, j)
<1>1. PICK m \in job[h].batch :
        job' = [job EXCEPT ![h].batch = @ \ {m},
                           ![h].at = IF job[h].batch = {m} THEN "scoring" ELSE @]
  BY DEF LogMetric
<1>2. Quiet /\ job[h].at = "metric" /\ UNCHANGED <<vars, keys, trail>>
  BY DEF LogMetric, At
<1>3. /\ job \in [Handlers -> Jobs] /\ job[h] \in Jobs
      /\ Agent(h) \in Agents
      /\ h \in On("complete_task")
      /\ pending[h] = None
  BY <1>2, HandlerTypes, PointKinds DEF CallsInv
<1> DEFINE j == [job[h] EXCEPT !.batch = @ \ {m},
                               !.at = IF job[h].batch = {m} THEN "scoring" ELSE @]
<1>4. job' = [job EXCEPT ![h] = j]
  BY <1>1, <1>3
<1>5. /\ j.at = (IF job[h].batch = {m} THEN "scoring" ELSE "metric")
      /\ j.agent = Agent(h)
      /\ j.batch = job[h].batch \ {m}
  BY <1>2, <1>3 DEF Jobs, Agent
<1>6. j \in Jobs
  BY <1>2, <1>3 DEF Jobs, Points
<1> HIDE DEF j
<1>7. Moves(h, j) /\ j.at \notin SchedulerAwaits
  BY <1>2, <1>3, <1>4, <1>5, <1>6, PointKinds DEF Moves, JobFits
<1> QED
  BY <1>2, <1>3, <1>7, StillNoCall DEF Rests, StepShape

LEMMA ScoringShape ==
  ASSUME CallsInv, NEW h \in Handlers, Scoring(h)
  PROVE  \E j : StepShape(h, j)
<1>1. PICK s \in Scores :
        /\ job' = [job EXCEPT ![h].at = "score", ![h].score = s]
        /\ UpdateAnomalyScore(h, Agent(h), s)
  BY DEF Scoring, Agent
<1>2. Running(h) /\ job[h].at = "scoring" /\ UNCHANGED <<keys, trail>>
  BY DEF Scoring, At
<1>3. /\ job \in [Handlers -> Jobs] /\ job[h] \in Jobs
      /\ Agent(h) \in Agents
      /\ h \in On("complete_task")
      /\ job[h].batch = {}
  BY <1>2, HandlerTypes, PointKinds DEF CallsInv
<1> DEFINE j == [job[h] EXCEPT !.at = "score", !.score = s]
<1>4. job' = [job EXCEPT ![h] = j]
  BY <1>1, <1>3
<1>5. j.at = "score" /\ j.agent = Agent(h) /\ j.batch = {}
  BY <1>3 DEF Jobs, Agent
<1>6. j \in Jobs
  BY <1>3 DEF Jobs, Points, SchedulerAwaits
<1> HIDE DEF j
<1>7. Moves(h, j)
  BY <1>2, <1>3, <1>4, <1>5, <1>6 DEF Moves, JobFits
<1> DEFINE r == [op |-> "update_anomaly_score", agent |-> Agent(h), score |-> s]
<1>8. r \in ServiceRequests /\ <<j.at, r.op>> \in Operation /\ r.agent = j.agent
  BY <1>3, <1>5, RequestKinds
<1>9. Call(h, r)
  BY <1>1 DEF UpdateAnomalyScore
<1> HIDE DEF r
<1> QED
  BY <1>2, <1>7, <1>8, <1>9, CallAsks

\* A stream goes from one of its points to another.
LEMMA GoesMoves ==
  ASSUME CallsInv, NEW h \in Handlers, NEW point \in {"event", "decide", "quarantine"},
         job[h].at \in {"score", "event", "decide"}, Goes(h, point), Quiet \/ Running(h)
  PROVE  \E j : Moves(h, j) /\ j.at = point /\ j.agent = Agent(h)
<1>1. /\ job \in [Handlers -> Jobs] /\ job[h] \in Jobs
      /\ Agent(h) \in Agents
      /\ h \in On("complete_task")
      /\ job[h].batch = {}
  BY HandlerTypes, PointKinds DEF CallsInv
<1> DEFINE j == [job[h] EXCEPT !.at = point]
<1>2. job' = [job EXCEPT ![h] = j]
  BY <1>1 DEF Goes
<1>3. j.at = point /\ j.agent = Agent(h) /\ j.batch = {}
  BY <1>1 DEF Jobs, Agent
<1>4. j \in Jobs
  BY <1>1 DEF Jobs, Points, SchedulerAwaits
<1> HIDE DEF j
<1>5. Moves(h, j)
  BY <1>1, <1>2, <1>3, <1>4 DEF Moves, JobFits
<1> QED
  BY <1>3, <1>5

\* A running handler that ends, or turns to the next packet.
LEMMA EndsMoves ==
  ASSUME CallsInv, NEW h \in Handlers, Quiet \/ Running(h),
         Ends(h) \/ (NextPacket(h) /\ job[h].at \in {"decide", "quarantine"})
  PROVE  \E j : Moves(h, j) /\ j.at \notin SchedulerAwaits
<1>1. CASE Ends(h)
  BY <1>1, FreeTypes, PointKinds DEF Ends, Moves
<1>2. CASE NextPacket(h) /\ job[h].at \in {"decide", "quarantine"}
  <2>1. Agent(h) \in Agents /\ h \in On("complete_task")
    BY <1>2, HandlerTypes, PointKinds DEF CallsInv
  <2> DEFINE j == Job("receive", Agent(h))
  <2>2. "receive" \in Points \ {"free", "complete"}
    BY PointKinds
  <2>3. j \in Jobs /\ JobFits(h, j) /\ j.at = "receive"
    BY <2>1, <2>2, JobTypes
  <2>4. job' = [job EXCEPT ![h] = j]
    BY <1>2 DEF NextPacket, Agent
  <2> HIDE DEF j
  <2> QED
    BY <2>3, <2>4, PointKinds DEF Moves
<1> QED
  BY <1>1, <1>2

LEMMA ProceedShape ==
  ASSUME CallsInv, NEW h \in Handlers, Proceed(h)
  PROVE  \E j : StepShape(h, j)
<1>0. ASSUME pending[h] = None, UNCHANGED <<vars, trail>>, UNCHANGED keys \/ Registered(h),
             Registered(h) \/ Quiet \/ job[h].at \notin {"register", "complete"},
             NEW j, Moves(h, j), j.at \notin SchedulerAwaits
      PROVE  \E k : StepShape(h, k)
  BY <1>0, StillNoCall DEF Rests, StepShape
<1>1. CASE Registered(h)
  <2>1. pending[h] = None /\ Running(h) /\ UNCHANGED <<vars, trail>> /\ Ends(h)
    BY <1>1 DEF Registered, Running
  <2> QED
    BY <1>0, <1>1, <2>1, EndsMoves
<1>2. CASE Returned(h)
  <2>1. /\ pending[h] = None /\ Running(h)
        /\ job[h].at \in {"heartbeat", "issue"}
        /\ UNCHANGED <<vars, keys, trail>>
        /\ Ends(h)
    BY <1>2 DEF Returned, Running, At
  <2> QED
    BY <1>0, <2>1, EndsMoves
<1>3. CASE AfterScore(h)
  <2>1. /\ pending[h] = None /\ Running(h)
        /\ job[h].at = "score"
        /\ UNCHANGED <<vars, keys, trail>>
        /\ Goes(h, "event") \/ Goes(h, "decide")
    BY <1>3 DEF AfterScore, Running, At
  <2> QED
    BY <1>0, <2>1, GoesMoves, PointKinds
<1>4. CASE LogEvent(h)
  <2>1. /\ pending[h] = None /\ Quiet
        /\ job[h].at = "event"
        /\ UNCHANGED <<vars, keys, trail>>
        /\ Goes(h, "decide")
    BY <1>4, HandlerTypes, PointKinds DEF LogEvent, At, CallsInv
  <2> QED
    BY <1>0, <2>1, GoesMoves, PointKinds
<1>5. CASE Decide(h)
  <2>1. pending[h] = None /\ Running(h) /\ job[h].at = "decide" /\ UNCHANGED <<keys, trail>>
    BY <1>5 DEF Decide, Running, At
  <2>2. CASE Goes(h, "quarantine") /\ Quarantine(h, Agent(h))
    <3>1. PICK j : Moves(h, j) /\ j.at = "quarantine" /\ j.agent = Agent(h)
      BY <2>1, <2>2, GoesMoves
    <3>2. Agent(h) \in Agents
      BY <2>1, HandlerTypes DEF CallsInv
    <3> DEFINE r == [op |-> "quarantine", agent |-> Agent(h)]
    <3>3. r \in ServiceRequests /\ <<j.at, r.op>> \in Operation /\ r.agent = j.agent
      BY <3>1, <3>2, RequestKinds
    <3>4. Call(h, r)
      BY <2>2 DEF Quarantine
    <3> HIDE DEF r
    <3> QED
      BY <2>1, <3>1, <3>3, <3>4, CallAsks
  <2>3. CASE NextPacket(h) /\ UNCHANGED vars
    BY <1>0, <2>1, <2>3, EndsMoves
  <2> QED
    BY <1>5, <2>2, <2>3 DEF Decide, Agent
<1>6. CASE AfterQuarantine(h)
  <2>1. /\ pending[h] = None /\ Running(h)
        /\ job[h].at = "quarantine"
        /\ UNCHANGED <<vars, keys, trail>>
        /\ NextPacket(h) \/ Ends(h)
    BY <1>6 DEF AfterQuarantine, Running, At
  <2> QED
    BY <1>0, <2>1, EndsMoves
<1> QED
  BY <1>1, <1>2, <1>3, <1>4, <1>5, <1>6, CompletedShape, LogMetricShape, ScoringShape DEF Proceed

LEMMA EarlyEndShape ==
  ASSUME CallsInv, NEW h \in Handlers, Break(h) \/ Disconnect(h)
  PROVE  \E j : StepShape(h, j)
<1>1. Quiet /\ Ends(h) /\ UNCHANGED <<keys, trail>>
  BY DEF Break, Disconnect, Abandon, trail
<1>2. agents' = agents /\ pending' = [pending EXCEPT ![h] = None]
  <2>1. CASE Break(h)
    <3>1. pending[h] = None /\ UNCHANGED vars
      BY <2>1, HandlerTypes, PointKinds DEF Break, At, CallsInv
    <3> QED
      BY <3>1, StillNoCall
  <2>2. CASE Disconnect(h)
    BY <2>2 DEF Disconnect, Cancel
  <2> QED
    BY <2>1, <2>2
<1>3. PICK j : Moves(h, j) /\ j.at \notin SchedulerAwaits
  BY <1>1, EndsMoves
<1> QED
  BY <1>1, <1>2, <1>3 DEF StepShape, Rests

\* When the lock becomes free, a suspended handler asks again.
LEMMA ResumeShape ==
  ASSUME CallsInv, Resume
  PROVE  \E h \in Handlers : /\ pending[h] # None
                             /\ pending[h] \in ServiceRequests
                             /\ Asks(h, job[h], pending[h])
<1>1. PICK h \in Handlers : pending[h] \in ServiceRequests /\ PoolStep(h, pending[h])
  BY AcquireRuns DEF Resume, CallsInv
<1>2. Quiet /\ UNCHANGED <<job, keys, trail>>
  BY DEF Resume, service
<1>3. Moves(h, job[h])
  BY <1>2 DEF Moves, CallsInv, Coroutines
<1>4. pending[h] # None
  BY <1>1, ParameterTypes DEF ServiceRequests, Requests
<1>5. <<job[h].at, pending[h].op>> \in Operation /\ pending[h].agent = job[h].agent
  BY <1>4 DEF CallsInv, Coroutines, CallFits
<1> QED
  BY <1>1, <1>2, <1>3, <1>4, <1>5 DEF Asks

\* Every step is the work of one handler, which asks the pool or rests.
LEMMA StepHasShape ==
  ASSUME CallsInv, MeshNext
  PROVE  \E h \in Handlers : \E j : StepShape(h, j)
<1>1. /\ On("register") \subseteq Handlers
      /\ On("heartbeat") \subseteq Handlers
      /\ On("quarantine") \subseteq Handlers
      /\ On("complete_task") \subseteq Handlers
      /\ Cancellable \subseteq Handlers
  BY ParameterTypes DEF On
<1>2. ASSUME NEW h \in Handlers, NEW a \in Agents,
             \/ RegisterCall(h, a) \/ IssueQuarantine(h, a)
             \/ \E status \in Statuses : HeartBeatStream(h, a, status)
             \/ OpenStream(h, a) /\ h \in On("complete_task")
      PROVE  \E j : StepShape(h, j)
  BY <1>2, OpensShape
<1>3. CASE Resume
  BY <1>3, ResumeShape DEF StepShape
<1> QED
  BY <1>1, <1>2, <1>3, ReceiveShape, ProceedShape, EarlyEndShape DEF MeshNext

\* The step of h moves h and nobody else.
LEMMA ShapeMoves ==
  ASSUME CallsInv, NEW h \in Handlers, NEW j, StepShape(h, j)
  PROVE  /\ job' \in [Handlers -> Jobs]
         /\ job'[h] = j
         /\ \A i \in Handlers \ {h} : job'[i] = job[i] /\ pending'[i] = pending[i]
         /\ pending'[Sweeper] = None
         /\ pending'[h] = None \/ \E r \in ServiceRequests : Asks(h, j, r) /\ pending'[h] = r
<1>1. /\ job \in [Handlers -> Jobs]
      /\ pending \in [Callers -> Requests \cup {None}]
      /\ pending[Sweeper] = None
      /\ Handlers \subseteq Callers /\ Sweeper \in Callers /\ Sweeper # h
  BY ParameterTypes DEF CallsInv, QueueInv, TypeOK, Coroutines, Callers
<1>2. j \in Jobs /\ job' = [job EXCEPT ![h] = j]
  BY DEF StepShape, Asks, Rests, Moves
<1>3. \/ pending' = [pending EXCEPT ![h] = None]
      \/ \E r \in ServiceRequests : Asks(h, j, r) /\ pending' = [pending EXCEPT ![h] = r]
  BY DEF StepShape, Asks, Rests, PoolStep
<1> QED
  BY <1>1, <1>2, <1>3

LEMMA ShapeKeepsCoroutines ==
  ASSUME CallsInv, NEW h \in Handlers, NEW j, StepShape(h, j)
  PROVE  Coroutines'
<1>1. /\ job' \in [Handlers -> Jobs]
      /\ job'[h] = j
      /\ \A i \in Handlers \ {h} : job'[i] = job[i] /\ pending'[i] = pending[i]
      /\ pending'[Sweeper] = None
      /\ pending'[h] = None \/ \E r \in ServiceRequests : Asks(h, j, r) /\ pending'[h] = r
  BY ShapeMoves
<1>2. JobFits(h, j) /\ (Quiet \/ Running(h))
  BY DEF StepShape, Asks, Rests, Moves
<1>3. CallFits(j, pending'[h])
  BY <1>1 DEF Asks, CallFits
<1>4. \A i \in Handlers : JobFits(i, job'[i]) /\ CallFits(job'[i], pending'[i])
  BY <1>1, <1>2, <1>3 DEF CallsInv, Coroutines
<1>5. OneRuns'
  BY <1>1, <1>2 DEF Quiet, CallsInv, Coroutines, OneRuns, Running, At
<1> QED
  BY <1>1, <1>4, <1>5 DEF Coroutines, JobFits, CallFits

\* One step keeps the handlers at places that fit, and one of them running.
LEMMA CoroutinesStep ==
  ASSUME CallsInv, [MeshNext]_meshVars
  PROVE  Coroutines'
<1>1. CASE MeshNext
  BY <1>1, StepHasShape, ShapeKeepsCoroutines
<1>2. CASE UNCHANGED meshVars
  BY <1>2 DEF meshVars, vars, service, CallsInv, Coroutines, OneRuns, Running, At
<1> QED
  BY <1>1, <1>2

LEMMA CoroutinesInit == MeshInit => Coroutines
<1> SUFFICES ASSUME MeshInit PROVE Coroutines
  OBVIOUS
<1>1. \A h \in Handlers : job[h] = Free
  BY DEF MeshInit
<1>2. \A c \in Callers : pending[c] = None
  BY DEF MeshInit, Init
<1>3. job \in [Handlers -> Jobs] /\ \A h \in Handlers : JobFits(h, job[h])
  BY <1>1, FreeTypes DEF MeshInit
<1>4. \A h \in Handlers : CallFits(job[h], pending[h])
  BY <1>2 DEF CallFits, Callers
<1>5. OneRuns
  BY <1>1, FreeTypes, PointKinds DEF OneRuns, Running, At
<1> QED
  BY <1>2, <1>3, <1>4, <1>5 DEF Coroutines, Callers

-----------------------------------------------------------------------------
(* Types of the service.                                                    *)

LEMMA PushedTypes ==
  ASSUME NEW history \in Seq(Scores), NEW s \in Scores
  PROVE  Pushed(history, s) \in Seq(Scores)
<1>1. Append(history, s) \in Seq(Scores) /\ Len(Append(history, s)) = Len(history) + 1
  BY AppendProperties
<1>2. Len(history) \in Nat
  BY LenProperties
<1>3. Append(history, s) # <<>>
  BY <1>1, <1>2, EmptySeq
<1>4. Tail(Append(history, s)) \in Seq(Scores)
  BY <1>1, <1>3, HeadTailProperties
<1> QED
  BY <1>1, <1>4 DEF Pushed

LEMMA ReceiveTypes ==
  ASSUME ServiceTypes, Coroutines, NEW h \in Handlers, Receive(h)
  PROVE  ServiceTypes'
<1>1. PICK p \in [agent : {Agent(h)}, nth : Arrivals] : Refuse(p) \/ Pass(h, p)
  BY DEF Receive, Agent
<1>2. p \in Packets
  BY HandlerTypes DEF Receive, At, Packets
<1>3. taken' \subseteq Packets /\ buffer' \subseteq Packets
  BY <1>1, <1>2 DEF Refuse, Pass, ServiceTypes
<1> QED
  BY <1>3 DEF Receive, ServiceTypes, keys, trail, engine

LEMMA ProceedTypes ==
  ASSUME ServiceTypes, Coroutines, NEW h \in Handlers, Proceed(h)
  PROVE  ServiceTypes'
<1> USE DEF ServiceTypes, keys, trail, metricFlow, engine
<1>1. CASE Registered(h)
  <2>1. Agent(h) \in Agents
    BY <1>1, HandlerTypes DEF Registered, At
  <2>2. sessions[Agent(h)] + 1 \in Nat
    BY <2>1
  <2>3. CASE NewSession(Agent(h))
    BY <1>1, <2>2, <2>3 DEF Registered, NewSession, Agent
  <2>4. CASE UNCHANGED <<session, sessions>>
    BY <1>1, <2>4 DEF Registered, Agent
  <2> QED
    BY <1>1, <2>3, <2>4 DEF Registered, Agent
<1>2. CASE Returned(h) \/ AfterScore(h) \/ LogEvent(h) \/ Decide(h)
  BY <1>2 DEF Returned, AfterScore, LogEvent, Decide
<1>3. CASE Completed(h)
  <2>1. Packet(h) \in Packets
    BY <1>3, HandlerTypes DEF Completed, At
  <2> QED
    BY <1>3, <2>1 DEF Completed, Drain
<1>4. CASE LogMetric(h)
  <2>1. job[h].batch \subseteq Packets
    BY DEF Coroutines, Jobs
  <2> QED
    BY <1>4, <2>1 DEF LogMetric
<1>5. CASE Scoring(h)
  <2>1. PICK s \in Scores :
          /\ windows' = [windows EXCEPT ![Agent(h)] = Pushed(windows[Agent(h)], s)]
          /\ alarm' = [alarm EXCEPT ![Agent(h)] =
                         ShouldQuarantine(Pushed(windows[Agent(h)], s))]
    BY <1>5 DEF Scoring, Agent
  <2>2. Agent(h) \in Agents
    BY <1>5, HandlerTypes DEF Scoring, At
  <2>3. Pushed(windows[Agent(h)], s) \in Seq(Scores)
    BY <2>2, PushedTypes
  <2>4. ShouldQuarantine(Pushed(windows[Agent(h)], s)) \in BOOLEAN
    BY DEF ShouldQuarantine
  <2>5. windows' \in [Agents -> Seq(Scores)] /\ alarm' \in [Agents -> BOOLEAN]
    BY <2>1, <2>2, <2>3, <2>4
  <2> QED
    BY <1>5, <2>5 DEF Scoring
<1>6. CASE AfterQuarantine(h)
  BY <1>6 DEF AfterQuarantine
<1> QED
  BY <1>1, <1>2, <1>3, <1>4, <1>5, <1>6 DEF Proceed

LEMMA AbandonTypes ==
  ASSUME ServiceTypes, Coroutines, NEW h \in Handlers, Abandon(h)
  PROVE  ServiceTypes'
<1>1. job[h].batch \subseteq Packets
  BY DEF Coroutines, Jobs
<1> QED
  BY <1>1 DEF Abandon, ServiceTypes, keys, trail

\* One step keeps the types of the service's own variables.
LEMMA ServiceTypesStep ==
  ASSUME ServiceTypes, Coroutines, [MeshNext]_meshVars
  PROVE  ServiceTypes'
<1>1. Cancellable \subseteq Handlers
  BY ParameterTypes
<1>2. ASSUME NEW h, NEW a, \/ RegisterCall(h, a) \/ IssueQuarantine(h, a) \/ OpenStream(h, a)
                           \/ \E status \in Statuses : HeartBeatStream(h, a, status)
      PROVE  ServiceTypes'
  BY <1>2 DEF RegisterCall, IssueQuarantine, OpenStream, HeartBeatStream, ServiceTypes, keys,
     trail, metricFlow, engine
<1>3. ASSUME NEW h \in Handlers, Break(h) \/ Disconnect(h)
      PROVE  ServiceTypes'
  BY <1>3, AbandonTypes DEF Break, Disconnect
<1>4. CASE Resume \/ UNCHANGED meshVars
  BY <1>4 DEF Resume, meshVars, service, ServiceTypes, keys, trail, metricFlow, engine
<1> QED
  BY <1>1, <1>2, <1>3, <1>4, ReceiveTypes, ProceedTypes DEF MeshNext

LEMMA ServiceTypesInit == MeshInit => ServiceTypes
<1>1. <<>> \in Seq(Scores)
  BY EmptySeq
<1> QED
  BY <1>1 DEF MeshInit, ServiceTypes

-----------------------------------------------------------------------------
(* The first results.                                                       *)

LEMMA CallsInit == MeshInit => CallsInv
BY QueueInit, ServiceTypesInit, CoroutinesInit DEF MeshInit, CallsInv

LEMMA CallsStep ==
  ASSUME CallsInv, [MeshNext]_meshVars
  PROVE  CallsInv'
BY StepUsesPool, QueueStep, ServiceTypesStep, CoroutinesStep DEF CallsInv

\* The handlers, between their awaits, use the pool as TaskScheduler says, for
\* every set of agents, handlers and packets.
THEOREM HandlersUsePool == MeshSpec => UsesPool
<1>1. MeshInit => Init
  BY DEF MeshInit
<1>2. CallsInv /\ [MeshNext]_meshVars => [Next]_vars
  BY StepUsesPool DEF CallsInv
<1> QED
  BY <1>1, <1>2, CallsInit, CallsStep, PTL DEF MeshSpec, UsesPool, Spec

\* Every variable of the service keeps its type, and never two handlers run.
THEOREM MeshTypes == MeshSpec => []MeshTypeOK
<1>1. CallsInv => MeshTypeOK
  BY DEF CallsInv, QueueInv, ServiceTypes, Coroutines, OneRuns, MeshTypeOK
<1> QED
  BY <1>1, CallsInit, CallsStep, PTL DEF MeshSpec

-----------------------------------------------------------------------------
(* Sessions and pool.                                                       *)

\* When the keys stay, sessions and pool match as long as known agents stay, and
\* those that become known are about to get their keys.
LEMMA KeysStay ==
  ASSUME SessionInv, UNCHANGED keys,
         \A a \in Agents : Known(a) => Known(a)',
         \A a \in Agents : Known(a)' => Known(a) \/ \E i \in Handlers : Enters(i, a)',
         \A i \in Handlers, a \in Agents : Enters(i, a) => Enters(i, a)',
         \A i \in Handlers, a \in Agents : Enters(i, a)' => Known(a)'
  PROVE  SessionInv'
<1>1. session' = session /\ sessions' = sessions /\ badKey' = badKey
  BY DEF keys
<1>2. ASSUME NEW a \in Agents
      PROVE  /\ session'[a] # 0 => Known(a)'
             /\ Known(a)' /\ session'[a] = 0 =>
                  badKey'[a] \/ \E i \in Handlers : Enters(i, a)'
  BY <1>1 DEF SessionInv
<1> QED
  BY <1>1, <1>2 DEF SessionInv

LEMMA RegisteredKeepsSessions ==
  ASSUME CallsInv, SessionInv, NEW h \in Handlers, Registered(h)
  PROVE  SessionInv'
<1>1. /\ Running(h) /\ job[h].at = "register"
      /\ UNCHANGED vars
      /\ job' = [job EXCEPT ![h] = Free]
  BY DEF Registered, At, Ends
<1>2. /\ job \in [Handlers -> Jobs]
      /\ Agent(h) \in Agents
      /\ Enters(h, Agent(h))
      /\ session \in [Agents -> Nat] /\ sessions \in [Agents -> Nat]
      /\ badKey \in [Agents -> BOOLEAN]
      /\ session = sessions
      /\ Known(Agent(h))
  BY <1>1, HandlerTypes DEF CallsInv, ServiceTypes, Enters, At, SessionInv
<1>3. \A i \in Handlers, a \in Agents : Enters(i, a) => i = h /\ a = Agent(h)
  BY <1>1 DEF Enters, CallsInv, Coroutines, OneRuns
<1>4. \A i \in Handlers, a \in Agents : ~Enters(i, a)'
  <2>1. \A i \in Handlers : (Running(i) /\ At(i, {"register"}))' => i # h
    BY <1>1, <1>2, FreeTypes DEF At
  <2>2. \A i \in Handlers \ {h} : job'[i] = job[i] /\ pending'[i] = pending[i]
    BY <1>1, <1>2 DEF vars
  <2>3. \A i \in Handlers \ {h} : ~Enters(i, Agent(i))'
    BY <1>1, <2>2 DEF Enters, Running, At, CallsInv, Coroutines, OneRuns
  <2> QED
    BY <2>1, <2>3 DEF Enters
<1>5. \A a \in Agents : Known(a)' <=> Known(a)
  BY <1>1 DEF vars, Known
<1>6. \A a \in Agents \ {Agent(h)} :
        /\ session'[a] = session[a]
        /\ badKey'[a] = badKey[a]
        /\ Known(a) /\ session[a] = 0 => badKey[a]
  BY <1>2, <1>3 DEF Registered, NewSession, Agent, SessionInv
<1>7. /\ session' = sessions'
      /\ session'[Agent(h)] = 0 => badKey'[Agent(h)]
  <2>1. CASE NewSession(Agent(h))
    <3>1. sessions[Agent(h)] + 1 # 0
      BY <1>2
    <3>2. session' = [session EXCEPT ![Agent(h)] = sessions[Agent(h)] + 1]
          /\ sessions' = [sessions EXCEPT ![Agent(h)] = sessions[Agent(h)] + 1]
      BY <2>1 DEF NewSession
    <3> QED
      BY <1>2, <3>1, <3>2
  <2>2. CASE UNCHANGED <<session, sessions>> /\ badKey' = [badKey EXCEPT ![Agent(h)] = TRUE]
    BY <1>2, <2>2
  <2> QED
    BY <2>1, <2>2 DEF Registered, Agent
<1>8. \A a \in Agents : session'[a] # 0 => Known(a)'
  BY <1>2, <1>5, <1>6 DEF SessionInv
<1> QED
  BY <1>4, <1>5, <1>6, <1>7, <1>8 DEF SessionInv

\* One step keeps sessions and pool in step.
LEMMA SessionStep ==
  ASSUME CallsInv, SessionInv, [MeshNext]_meshVars
  PROVE  SessionInv'
<1>1. CASE UNCHANGED meshVars
  BY <1>1, KeysStay DEF meshVars, vars, service, Known, Enters, Running, At, Agent, SessionInv
<1>2. ASSUME NEW h \in Handlers, NEW j, Rests(h, j), ~Registered(h)
      PROVE  SessionInv'
  <2>1. /\ job'[h].at \notin SchedulerAwaits
        /\ \A i \in Handlers \ {h} : job'[i] = job[i] /\ pending'[i] = pending[i]
        /\ agents' = agents
    BY <1>2, ShapeMoves DEF StepShape, Rests
  <2>2. ~(Running(h) /\ At(h, {"register"}))
    BY <1>2 DEF Rests, Completed, At, Quiet
  <2>3. \A i \in Handlers, a \in Agents : Enters(i, a)' <=> Enters(i, a)
    BY <2>1, <2>2, PointKinds DEF Enters, Running, At, Agent
  <2>4. \A a \in Agents : Known(a)' <=> Known(a)
    BY <2>1 DEF Known
  <2> QED
    BY <1>2, <2>3, <2>4, KeysStay DEF Rests, SessionInv
<1>3. ASSUME NEW h \in Handlers, NEW j, NEW r \in ServiceRequests, Asks(h, j, r)
      PROVE  SessionInv'
  <2>1. /\ job'[h] = j
        /\ \A i \in Handlers \ {h} : job'[i] = job[i] /\ pending'[i] = pending[i]
    BY <1>3, ShapeMoves DEF StepShape
  <2>2. /\ j.agent = r.agent
        /\ j.at = "register" <=> r.op = "register"
        /\ r # None
        /\ UNCHANGED keys
    BY <1>3, ParameterTypes DEF Asks, Operation, ServiceRequests, Requests
  <2>3. \A a \in Agents : ~Enters(h, a)
    BY <1>3 DEF Asks, Quiet, Enters, At
  <2>4. \A i \in Handlers \ {h}, a \in Agents : Enters(i, a)' <=> Enters(i, a)
    BY <2>1 DEF Enters, Running, At, Agent
  <2>5. CASE pending' = [pending EXCEPT ![h] = None] /\ Ran(r)
    <3>1. pending'[h] = None
      BY <2>5 DEF CallsInv, QueueInv, TypeOK, Callers
    <3>2. \A a \in Agents : Enters(h, a)' <=> r.op = "register" /\ a = r.agent
      BY <2>1, <2>2, <3>1, PointKinds DEF Enters, Running, At, Agent
    <3>3. \A a \in Agents : Known(a)' <=> Known(a) \/ (r.op = "register" /\ a = r.agent)
      BY <2>5 DEF Ran, Known
    <3> QED
      BY <2>2, <2>3, <2>4, <3>2, <3>3, KeysStay DEF SessionInv
  <2>6. CASE pending' = [pending EXCEPT ![h] = r] /\ PoolKept
    <3>1. pending'[h] = r
      BY <2>6 DEF CallsInv, QueueInv, TypeOK, Callers
    <3>2. \A a \in Agents : ~Enters(h, a)'
      BY <2>2, <3>1 DEF Enters, Running
    <3>3. \A a \in Agents : Known(a)' <=> Known(a)
      BY <2>6 DEF PoolKept
    <3> QED
      BY <2>2, <2>3, <2>4, <3>2, <3>3, KeysStay DEF SessionInv
  <2> QED
    BY <1>3, <2>5, <2>6 DEF Asks, PoolStep
<1> QED
  BY <1>1, <1>2, <1>3, RegisteredKeepsSessions, StepHasShape DEF StepShape

LEMMA SessionInit == MeshInit => SessionInv
<1> SUFFICES ASSUME MeshInit PROVE SessionInv
  OBVIOUS
<1>1. \A h \in Handlers : ~At(h, {"register"})
  BY FreeTypes DEF MeshInit, At
<1>2. \A a \in Agents : ~Known(a)
  BY DEF MeshInit, Init, Known
<1> QED
  BY <1>1, <1>2 DEF MeshInit, SessionInv, Enters

\* Whenever no handler is in the middle of a step, keys and pool agree, through
\* any registrations that overtake one another, fail or are cancelled.
THEOREM SessionsAndPoolAgree == MeshSpec => []SessionsMatchPool
<1> DEFINE I == CallsInv /\ SessionInv
<1>1. MeshInit => I
  BY CallsInit, SessionInit
<1>2. I /\ [MeshNext]_meshVars => I'
  BY CallsStep, SessionStep
<1>3. I => SessionsMatchPool
  BY DEF SessionInv, SessionsMatchPool, Quiet, Enters
<1> QED
  BY <1>1, <1>2, <1>3, PTL DEF MeshSpec

-----------------------------------------------------------------------------
(* The metrics.                                                             *)

\* Where a metric can be, one packet at a time.
LEMMA LocatedIs ==
  \A m : m \in Located <=> \/ m \in buffer \/ m \in logged \/ m \in lost
                           \/ \E h \in Handlers : m \in job[h].batch
BY DEF Located

\* Steps that move no metric and bring no stream to a new packet.
LEMMA FlowStays ==
  ASSUME FlowInv, UNCHANGED <<metricFlow, trail>>, taken \subseteq taken',
         \A h \in Handlers : job'[h].batch = job[h].batch,
         \A h \in Handlers : At(h, {"complete"})' => At(h, {"complete"}) /\ Packet(h)' = Packet(h)
  PROVE  FlowInv'
<1>1. /\ buffer' = buffer /\ logged' = logged /\ lost' = lost
      /\ audited' = audited /\ unaudited' = unaudited
  BY DEF metricFlow, trail
<1>2. Located' = Located
  BY <1>1 DEF Located
<1>3. MetricsKept'
  BY <1>1, <1>2 DEF FlowInv, MetricsKept, Located
<1> QED
  BY <1>1, <1>2, <1>3 DEF FlowInv

LEMMA PassKeepsFlow ==
  ASSUME CallsInv, FlowInv, NEW h \in Handlers, job[h].at = "receive",
         NEW p \in [agent : {Agent(h)}, nth : Arrivals] \ taken, Pass(h, p),
         UNCHANGED <<trail, logged, lost>>
  PROVE  FlowInv'
<1>1. /\ job \in [Handlers -> Jobs] /\ job[h] \in Jobs
      /\ job[h].batch = {}
  BY HandlerTypes, PointKinds DEF CallsInv
<1>2. /\ taken' = taken \cup {p}
      /\ buffer' = buffer \cup {p}
      /\ logged' = logged /\ lost' = lost /\ audited' = audited /\ unaudited' = unaudited
      /\ job' = [job EXCEPT ![h].at = "complete", ![h].nth = p.nth]
  BY DEF Pass, trail
<1>3. \A i \in Handlers \ {h} : job'[i] = job[i]
  BY <1>1, <1>2
<1>4. job'[h].batch = job[h].batch /\ Packet(h)' = p
  <2>1. p = [agent |-> job[h].agent, nth |-> p.nth]
    BY DEF Agent
  <2> QED
    BY <1>1, <1>2, <2>1 DEF Jobs, Packet
<1>5. /\ \A i \in Handlers : job'[i].batch = job[i].batch
      /\ p \notin Located
  BY <1>3, <1>4 DEF FlowInv
<1>6. Located' = Located \cup {p}
  <2>1. UNION {job'[i].batch : i \in Handlers} = UNION {job[i].batch : i \in Handlers}
    BY <1>5
  <2> QED
    BY <1>2, <2>1 DEF Located
<1>7. MetricsKept'
  <2>1. p \notin logged \cup lost /\ \A i \in Handlers : p \notin job[i].batch
    BY <1>5, LocatedIs
  <2>2. audited' \subseteq Located'
    BY <1>2, <1>6 DEF FlowInv, MetricsKept, Located
  <2>3. buffer' \cap (logged' \cup lost') = {}
    BY <1>2, <2>1 DEF FlowInv, MetricsKept
  <2>4. ASSUME NEW i \in Handlers
        PROVE  job'[i].batch \cap (buffer' \cup logged' \cup lost') = {}
    <3>1. job[i].batch \cap (buffer \cup logged \cup lost) = {}
      BY DEF FlowInv, MetricsKept
    <3>2. job'[i].batch = job[i].batch /\ p \notin job[i].batch
      BY <1>5, <2>1
    <3> QED
      BY <1>2, <3>1, <3>2
  <2>5. \A i, k \in Handlers : i # k => job'[i].batch \cap job'[k].batch = {}
    BY <1>5 DEF FlowInv, MetricsKept
  <2> QED
    BY <2>2, <2>3, <2>4, <2>5 DEF MetricsKept, Located
<1>8. \A i \in Handlers : At(i, {"complete"})' => Packet(i)' \in Located'
  BY <1>3, <1>4, <1>6 DEF FlowInv, At, Packet
<1> QED
  BY <1>2, <1>6, <1>7, <1>8 DEF FlowInv

LEMMA CompletedKeepsFlow ==
  ASSUME CallsInv, FlowInv, NEW h \in Handlers, Completed(h)
  PROVE  FlowInv'
<1>1. /\ job \in [Handlers -> Jobs] /\ job[h] \in Jobs
      /\ job[h].at = "complete"
      /\ job[h].batch = {}
      /\ taken' = taken /\ logged' = logged /\ lost' = lost
      /\ Packet(h) \in Located
  BY HandlerTypes DEF CallsInv, Completed, At, FlowInv
<1>2. CASE Drain(h) /\ audited' = audited \cup {Packet(h)} /\ UNCHANGED unaudited
  <2>1. \A i \in Handlers \ {h} : job'[i] = job[i]
    BY <1>1, <1>2 DEF Drain
  <2>2. job'[h].batch = buffer /\ buffer' = {} /\ job'[h].at # "complete"
    BY <1>1, <1>2 DEF Drain, Jobs
  <2>3. Located' = Located
    BY <1>1, <2>1, <2>2, LocatedIs DEF Located
  <2>4. MetricsKept'
    <3>1. audited' \subseteq Located'
      BY <1>1, <1>2, <2>3 DEF FlowInv, MetricsKept, Located
    <3> QED
      BY <1>1, <2>1, <2>2, <3>1 DEF FlowInv, MetricsKept, Located
  <2>5. \A i \in Handlers : At(i, {"complete"})' => Packet(i)' \in Located'
    BY <2>1, <2>2, <2>3 DEF FlowInv, At, Packet
  <2> QED
    BY <1>1, <1>2, <2>3, <2>4, <2>5 DEF FlowInv
<1>3. CASE Ends(h) /\ unaudited' = unaudited \cup {Packet(h)} /\ UNCHANGED <<audited, buffer>>
  <2>1. /\ \A i \in Handlers \ {h} : job'[i] = job[i]
        /\ job'[h].batch = {} /\ job'[h].at # "complete"
    BY <1>1, <1>3 DEF Ends, Free, Job
  <2>2. Located' = Located
    BY <1>1, <1>3, <2>1 DEF Located
  <2>3. MetricsKept'
    BY <1>1, <1>3, <2>1, <2>2 DEF FlowInv, MetricsKept, Located
  <2>4. \A i \in Handlers : At(i, {"complete"})' => Packet(i)' \in Located'
    BY <2>1, <2>2 DEF FlowInv, At, Packet
  <2> QED
    BY <1>1, <1>3, <2>2, <2>3, <2>4 DEF FlowInv
<1> QED
  BY <1>2, <1>3 DEF Completed

LEMMA LogMetricKeepsFlow ==
  ASSUME CallsInv, FlowInv, NEW h \in Handlers, LogMetric(h)
  PROVE  FlowInv'
<1>1. PICK m \in job[h].batch :
        /\ logged' = logged \cup {m}
        /\ job' = [job EXCEPT ![h].batch = @ \ {m},
                              ![h].at = IF job[h].batch = {m} THEN "scoring" ELSE @]
  BY DEF LogMetric
<1>2. /\ job \in [Handlers -> Jobs] /\ job[h] \in Jobs
      /\ job[h].at = "metric"
      /\ taken' = taken /\ buffer' = buffer /\ lost' = lost
      /\ audited' = audited /\ unaudited' = unaudited
  BY HandlerTypes DEF CallsInv, LogMetric, At, trail
<1>3. \A i \in Handlers \ {h} : job'[i] = job[i]
  BY <1>1, <1>2
<1>4. job'[h].batch = job[h].batch \ {m} /\ job'[h].at # "complete"
  BY <1>1, <1>2 DEF Jobs
<1>5. Located' = Located
  BY <1>1, <1>2, <1>3, <1>4, LocatedIs DEF Located
<1>6. MetricsKept'
  <2>1. audited' \subseteq Located'
    BY <1>2, <1>5 DEF FlowInv, MetricsKept, Located
  <2>2. \A i \in Handlers \ {h} : m \notin job[i].batch
    BY <1>1 DEF FlowInv, MetricsKept
  <2>3. m \notin buffer
    BY <1>1 DEF FlowInv, MetricsKept
  <2> QED
    BY <1>1, <1>2, <1>3, <1>4, <2>1, <2>2, <2>3 DEF FlowInv, MetricsKept, Located
<1>7. \A i \in Handlers : At(i, {"complete"})' => Packet(i)' \in Located'
  BY <1>3, <1>4, <1>5 DEF FlowInv, At, Packet
<1> QED
  BY <1>2, <1>5, <1>6, <1>7 DEF FlowInv

LEMMA AbandonKeepsFlow ==
  ASSUME CallsInv, FlowInv, NEW h \in Handlers, Abandon(h)
  PROVE  FlowInv'
<1>1. /\ job \in [Handlers -> Jobs]
      /\ job' = [job EXCEPT ![h] = Free]
      /\ lost' = lost \cup job[h].batch
      /\ taken' = taken /\ buffer' = buffer /\ logged' = logged
      /\ audited' = audited /\ unaudited' = unaudited
  BY HandlerTypes DEF CallsInv, Abandon, Ends, trail
<1>2. /\ \A i \in Handlers \ {h} : job'[i] = job[i]
      /\ job'[h].batch = {} /\ job'[h].at # "complete"
  BY <1>1 DEF Free, Job
<1>3. Located' = Located
  BY <1>1, <1>2, LocatedIs DEF Located
<1>4. MetricsKept'
  <2>1. audited' \subseteq Located'
    BY <1>1, <1>3 DEF FlowInv, MetricsKept, Located
  <2> QED
    BY <1>1, <1>2, <2>1 DEF FlowInv, MetricsKept, Located
<1>5. \A i \in Handlers : At(i, {"complete"})' => Packet(i)' \in Located'
  BY <1>2, <1>3 DEF FlowInv, At, Packet
<1> QED
  BY <1>1, <1>3, <1>4, <1>5 DEF FlowInv

\* A handler that holds no metrics goes on without one.
LEMMA FlowRests ==
  ASSUME CallsInv, CallsInv', FlowInv, NEW h \in Handlers, NEW j,
         job' = [job EXCEPT ![h] = j],
         job[h].at # "metric", j.at \notin {"metric", "complete"},
         taken' = taken, UNCHANGED <<metricFlow, trail>>
  PROVE  FlowInv'
<1>1. /\ job \in [Handlers -> Jobs]
      /\ job[h].batch = {}
      /\ JobFits(h, job'[h])
  BY HandlerTypes DEF CallsInv, Coroutines, JobFits
<1>2. job'[h] = j /\ \A i \in Handlers \ {h} : job'[i] = job[i]
  BY <1>1
<1>3. job'[h].batch = {}
  BY <1>1, <1>2 DEF JobFits
<1>4. \A i \in Handlers : job'[i].batch = job[i].batch
  BY <1>1, <1>2, <1>3
<1>5. \A i \in Handlers : At(i, {"complete"})' => At(i, {"complete"}) /\ Packet(i)' = Packet(i)
  BY <1>2 DEF At, Packet
<1> QED
  BY <1>4, <1>5, FlowStays

LEMMA ProceedKeepsFlow ==
  ASSUME CallsInv, CallsInv', FlowInv, NEW h \in Handlers, Proceed(h)
  PROVE  FlowInv'
<1>0. job \in [Handlers -> Jobs] /\ job[h] \in Jobs
  BY HandlerTypes DEF CallsInv
<1>1. CASE Registered(h) \/ Returned(h)
  <2>1. /\ job' = [job EXCEPT ![h] = Free]
        /\ job[h].at # "metric"
        /\ taken' = taken /\ UNCHANGED <<metricFlow, trail>>
    BY <1>1 DEF Registered, Returned, Ends, At
  <2> QED
    BY <2>1, FreeTypes, FlowRests
<1>2. CASE Scoring(h)
  <2>1. PICK s : job' = [job EXCEPT ![h].at = "score", ![h].score = s]
    BY <1>2 DEF Scoring
  <2> DEFINE j == [job[h] EXCEPT !.at = "score", !.score = s]
  <2>2. job' = [job EXCEPT ![h] = j] /\ j.at = "score"
    BY <1>0, <2>1 DEF Jobs
  <2>3. job[h].at # "metric" /\ taken' = taken /\ UNCHANGED <<metricFlow, trail>>
    BY <1>2 DEF Scoring, At
  <2> HIDE DEF j
  <2> QED
    BY <2>2, <2>3, FlowRests
<1>3. ASSUME NEW point \in {"event", "decide", "quarantine"}, Goes(h, point),
             job[h].at # "metric", taken' = taken, UNCHANGED <<metricFlow, trail>>
      PROVE  FlowInv'
  <2> DEFINE j == [job[h] EXCEPT !.at = point]
  <2>1. job' = [job EXCEPT ![h] = j] /\ j.at = point
    BY <1>0, <1>3 DEF Goes, Jobs
  <2> HIDE DEF j
  <2> QED
    BY <1>3, <2>1, FlowRests
<1>4. ASSUME NextPacket(h), job[h].at # "metric", taken' = taken, UNCHANGED <<metricFlow, trail>>
      PROVE  FlowInv'
  <2>1. Job("receive", job[h].agent).at = "receive"
    BY DEF Job
  <2> QED
    BY <1>4, <2>1, FlowRests DEF NextPacket
<1>5. CASE AfterScore(h) \/ LogEvent(h)
  BY <1>3, <1>5 DEF AfterScore, LogEvent, At
<1>6. CASE Decide(h)
  BY <1>3, <1>4, <1>6 DEF Decide, At
<1>7. CASE AfterQuarantine(h)
  <2>1. job[h].at # "metric" /\ taken' = taken /\ UNCHANGED <<metricFlow, trail>>
    BY <1>7 DEF AfterQuarantine, At
  <2>2. CASE Ends(h)
    BY <2>1, <2>2, FreeTypes, FlowRests DEF Ends
  <2> QED
    BY <1>4, <1>7, <2>1, <2>2 DEF AfterQuarantine
<1> QED
  BY <1>1, <1>2, <1>5, <1>6, <1>7, CompletedKeepsFlow, LogMetricKeepsFlow DEF Proceed

\* One step keeps every metric in one place.
LEMMA FlowStep ==
  ASSUME CallsInv, CallsInv', FlowInv, [MeshNext]_meshVars
  PROVE  FlowInv'
<1>0. /\ On("register") \subseteq Handlers
      /\ On("heartbeat") \subseteq Handlers
      /\ On("quarantine") \subseteq Handlers
      /\ On("complete_task") \subseteq Handlers
      /\ Cancellable \subseteq Handlers
  BY ParameterTypes DEF On
<1>1. ASSUME NEW h \in Handlers, NEW a \in Agents,
             \/ RegisterCall(h, a) \/ IssueQuarantine(h, a) \/ OpenStream(h, a)
             \/ \E status \in Statuses : HeartBeatStream(h, a, status)
      PROVE  FlowInv'
  <2>1. PICK point \in {"register", "heartbeat", "issue", "receive"} : Opens(h, a, point)
    BY <1>1 DEF RegisterCall, IssueQuarantine, OpenStream, HeartBeatStream
  <2>2. taken' = taken /\ UNCHANGED <<metricFlow, trail>>
    BY <1>1 DEF RegisterCall, IssueQuarantine, OpenStream, HeartBeatStream
  <2>3. job' = [job EXCEPT ![h] = Job(point, a)] /\ job[h].at = "free"
    BY <2>1 DEF Opens, At
  <2>4. Job(point, a).at = point
    BY DEF Job
  <2> QED
    BY <2>1, <2>2, <2>3, <2>4, FlowRests
<1>2. ASSUME NEW h \in Handlers, Receive(h)
      PROVE  FlowInv'
  <2>1. PICK p \in [agent : {Agent(h)}, nth : Arrivals] \ taken : Refuse(p) \/ Pass(h, p)
    BY <1>2 DEF Receive, Agent
  <2>2. UNCHANGED <<trail, logged, lost>> /\ job[h].at = "receive"
    BY <1>2 DEF Receive, At
  <2>3. CASE Refuse(p)
    <3>1. job' = job /\ UNCHANGED <<metricFlow, trail>> /\ taken \subseteq taken'
      BY <2>2, <2>3 DEF Refuse, metricFlow
    <3> QED
      BY <3>1, FlowStays DEF At, Packet
  <2>4. CASE Pass(h, p)
    BY <2>2, <2>4, PassKeepsFlow
  <2> QED
    BY <2>1, <2>3, <2>4
<1>3. ASSUME NEW h \in Handlers, Break(h) \/ Disconnect(h)
      PROVE  FlowInv'
  BY <1>3, AbandonKeepsFlow DEF Break, Disconnect
<1>4. CASE Resume \/ UNCHANGED meshVars
  <2>1. job' = job /\ taken' = taken /\ UNCHANGED <<metricFlow, trail>>
    BY <1>4 DEF Resume, meshVars, service
  <2> QED
    BY <2>1, FlowStays DEF At, Packet
<1> QED
  BY <1>0, <1>1, <1>2, <1>3, <1>4, ProceedKeepsFlow DEF MeshNext

LEMMA FlowInit == MeshInit => FlowInv
<1> SUFFICES ASSUME MeshInit PROVE FlowInv
  OBVIOUS
<1>1. \A h \in Handlers : job[h].batch = {} /\ job[h].at = "free"
  BY DEF MeshInit, Free, Job
<1>2. /\ buffer = {} /\ logged = {} /\ lost = {} /\ taken = {}
      /\ audited = {} /\ unaudited = {}
  BY DEF MeshInit
<1>3. Located = {}
  BY <1>1, <1>2 DEF Located
<1>4. MetricsKept
  BY <1>1, <1>2 DEF MetricsKept
<1> QED
  BY <1>1, <1>2, <1>3, <1>4 DEF FlowInv, At

FlowAndCalls == CallsInv /\ FlowInv

LEMMA FlowAndCallsStep ==
  ASSUME FlowAndCalls, [MeshNext]_meshVars
  PROVE  FlowAndCalls'
BY CallsStep, FlowStep DEF FlowAndCalls

\* The metric of every packet that passed stays in exactly one place, however
\* many streams drain the one buffer and whichever of them end early.
THEOREM MetricsAreKept == MeshSpec => []MetricsKept
<1>1. MeshInit => FlowAndCalls
  BY CallsInit, FlowInit DEF FlowAndCalls
<1>2. FlowAndCalls => MetricsKept
  BY DEF FlowAndCalls, FlowInv
<1> QED
  BY <1>1, <1>2, FlowAndCallsStep, PTL DEF MeshSpec

-----------------------------------------------------------------------------
(* The counters and the audit trail.                                        *)

\* Which handlers hold the packet of a result that may have been counted.
PacketsInv ==
  \A h \in Handlers : At(h, {"complete"}) =>
    /\ Packet(h) \notin audited \cup unaudited
    /\ \A i \in Handlers : At(i, {"complete"}) /\ Packet(i) = Packet(h) => i = h

\* The counters of one agent.
AgentCounted(a) ==
  \/ Counted(a) <= Cardinality(Trail(a))
  \/ /\ Counted(a) <= Cardinality(Trail(a)) + 1
     /\ \E h \in Handlers : Unrecorded(h, a)

LEMMA CountedParts ==
  CountedInv <=> /\ IsFiniteSet(audited \cup unaudited)
                 /\ PacketsInv
                 /\ \A a \in Agents : Known(a) => AgentCounted(a)
BY DEF CountedInv, PacketsInv, AgentCounted

LEMMA TrailCounts ==
  ASSUME CallsInv, CountedInv, NEW a \in Agents
  PROVE  /\ IsFiniteSet(Trail(a))
         /\ Cardinality(Trail(a)) \in Nat
         /\ Known(a) => Counted(a) \in Nat
<1>1. IsFiniteSet(audited \cup unaudited)
  BY DEF CountedInv
<1>2. Trail(a) \subseteq audited \cup unaudited
  BY DEF Trail
<1>3. IsFiniteSet(Trail(a))
  BY <1>1, <1>2, FS_Subset
<1>4. Known(a) => agents[a] \in AgentRecord /\ clock \in Nat
  BY DEF CallsInv, QueueInv, TypeOK, Known
<1>5. Known(a) => agents[a].tasks_completed \in Nat /\ agents[a].tasks_failed \in Nat
  BY <1>4, RecordCounts
<1> QED
  BY <1>3, <1>5, FS_CardinalityType DEF Counted

LEMMA CompletedCounts ==
  ASSUME CallsInv, CallsInv', CountedInv, NEW h \in Handlers, Completed(h)
  PROVE  CountedInv'
<1> DEFINE p == Packet(h)
<1>1. /\ Running(h) /\ job[h].at = "complete"
      /\ UNCHANGED vars
      /\ job \in [Handlers -> Jobs]
      /\ IsFiniteSet(audited \cup unaudited)
      /\ p \notin audited \cup unaudited
      /\ p.agent = Agent(h)
  BY HandlerTypes DEF Completed, At, CallsInv, CountedInv, Packet, Agent
<1>2. audited' \cup unaudited' = (audited \cup unaudited) \cup {p}
  BY DEF Completed
<1>3. \A i \in Handlers \ {h} : job'[i] = job[i]
  BY <1>1 DEF Completed, Drain, Ends
<1>4. job'[h].at # "complete"
  <2>1. CASE Drain(h)
    BY <1>1, <2>1, HandlerTypes DEF Drain, Jobs, CallsInv
  <2>2. CASE Ends(h)
    BY <1>1, <2>2, FreeTypes DEF Ends
  <2> QED
    BY <2>1, <2>2 DEF Completed
<1>5. IsFiniteSet(audited' \cup unaudited')
  BY <1>1, <1>2, FS_AddElement
<1>6. PacketsInv'
  <2>1. \A i \in Handlers \ {h} : At(i, {"complete"}) => Packet(i) # p
    BY <1>1 DEF CountedInv, At
  <2>2. \A i \in Handlers \ {h} : Packet(i)' = Packet(i) /\ (At(i, {"complete"})' <=> At(i, {"complete"}))
    BY <1>3 DEF Packet, At
  <2>3. ~At(h, {"complete"})'
    BY <1>4 DEF At
  <2> QED
    BY <1>2, <2>1, <2>2, <2>3 DEF PacketsInv, CountedInv
<1>7. ASSUME NEW a \in Agents, Known(a)'
      PROVE  AgentCounted(a)'
  <2>1. /\ Known(a)
        /\ Counted(a)' = Counted(a)
        /\ Counted(a) \in Nat
        /\ Cardinality(Trail(a)) \in Nat
        /\ IsFiniteSet(Trail(a))
    BY <1>1, <1>7, TrailCounts DEF vars, Known, Counted
  <2>2. \A i \in Handlers : Unrecorded(i, a) => i = h
    BY <1>1 DEF Unrecorded, CallsInv, Coroutines, OneRuns
  <2>3. CASE a = Agent(h)
    <3>1. Trail(a)' = Trail(a) \cup {p} /\ p \notin Trail(a)
      BY <1>1, <1>2, <2>3 DEF Trail
    <3>2. Cardinality(Trail(a)') = Cardinality(Trail(a)) + 1
      BY <2>1, <3>1, FS_AddElement
    <3>3. Cardinality(Trail(a))' = Cardinality(Trail(a)')
      OBVIOUS
    <3>4. Counted(a) <= Cardinality(Trail(a)) + 1
      BY <2>1 DEF CountedInv
    <3> QED
      BY <2>1, <3>2, <3>3, <3>4 DEF AgentCounted
  <2>4. CASE a # Agent(h)
    <3>1. Trail(a)' = Trail(a)
      BY <1>1, <1>2, <2>4 DEF Trail
    <3>2. Counted(a) <= Cardinality(Trail(a))
      BY <2>1, <2>2, <2>4 DEF CountedInv, Unrecorded
    <3> QED
      BY <2>1, <3>1, <3>2 DEF AgentCounted
  <2> QED
    BY <2>3, <2>4
<1> QED
  BY <1>5, <1>6, <1>7 DEF CountedInv, PacketsInv, AgentCounted


\* A stream comes to a new packet only by passing one that nobody had, from an
\* agent the pool serves.
LEMMA NewPackets ==
  ASSUME CallsInv, MeshNext, NEW i \in Handlers, At(i, {"complete"})'
  PROVE  \/ At(i, {"complete"}) /\ Packet(i)' = Packet(i)
         \/ /\ Packet(i)' \notin taken
            /\ Served(Agent(i)) /\ Agent(i)' = Agent(i)
            /\ \A k \in Handlers \ {i} : job'[k] = job[k]
<1> DEFINE Old == At(i, {"complete"}) /\ Packet(i)' = Packet(i)
           New == /\ Packet(i)' \notin taken
                  /\ Served(Agent(i)) /\ Agent(i)' = Agent(i)
                  /\ \A k \in Handlers \ {i} : job'[k] = job[k]
<1>0. /\ job \in [Handlers -> Jobs]
      /\ On("register") \subseteq Handlers /\ On("heartbeat") \subseteq Handlers
      /\ On("quarantine") \subseteq Handlers /\ On("complete_task") \subseteq Handlers
      /\ Cancellable \subseteq Handlers
  BY ParameterTypes DEF CallsInv, Coroutines, On
<1>1. ASSUME NEW h \in Handlers, NEW j, job' = [job EXCEPT ![h] = j], j.at # "complete"
      PROVE  Old
  <2>1. job'[h] = j /\ \A k \in Handlers \ {h} : job'[k] = job[k]
    BY <1>0, <1>1
  <2> QED
    BY <1>1, <2>1 DEF At, Packet
<1>2. ASSUME NEW h \in Handlers, NEW a, NEW point \in {"register", "heartbeat", "issue", "receive"},
             Opens(h, a, point)
      PROVE  Old
  <2>1. Job(point, a).at # "complete"
    BY DEF Job
  <2> QED
    BY <1>1, <1>2, <2>1 DEF Opens
<1>3. ASSUME NEW h \in Handlers, Ends(h) \/ NextPacket(h)
      PROVE  Old
  <2>1. Free.at # "complete" /\ Job("receive", job[h].agent).at # "complete"
    BY DEF Free, Job
  <2> QED
    BY <1>1, <1>3, <2>1 DEF Ends, NextPacket
<1>4. ASSUME NEW h \in Handlers, NEW point \in {"event", "decide", "quarantine"}, Goes(h, point)
      PROVE  Old
  <2> DEFINE j == [job[h] EXCEPT !.at = point]
  <2>1. job' = [job EXCEPT ![h] = j] /\ j.at = point
    BY <1>0, <1>4 DEF Goes, Jobs
  <2> HIDE DEF j
  <2> QED
    BY <1>1, <2>1
<1>5. ASSUME NEW h \in Handlers, Receive(h)
      PROVE  Old \/ New
  <2>1. PICK p \in [agent : {Agent(h)}, nth : Arrivals] \ taken : Refuse(p) \/ Pass(h, p)
    BY <1>5 DEF Receive, Agent
  <2>2. CASE Refuse(p)
    BY <2>2 DEF Refuse, At, Packet
  <2>3. CASE Pass(h, p)
    <3>1. /\ \A k \in Handlers \ {h} : job'[k] = job[k]
          /\ job'[h].agent = job[h].agent /\ job'[h].nth = p.nth
      BY <1>0, <2>3 DEF Pass, Jobs
    <3>2. Packet(h)' = p
      BY <3>1 DEF Packet, Agent
    <3> QED
      BY <1>5, <3>1, <3>2 DEF At, Packet, Agent, Receive
  <2> QED
    BY <2>1, <2>2, <2>3
<1>6. ASSUME NEW h \in Handlers, Completed(h) \/ LogMetric(h) \/ Scoring(h)
      PROVE  Old
  <2>1. \A k \in Handlers \ {h} : job'[k] = job[k]
    BY <1>0, <1>6 DEF Completed, Drain, Ends, LogMetric, Scoring
  <2>2. job'[h].at # "complete"
    <3>1. CASE Completed(h)
      BY <1>0, <3>1 DEF Completed, Drain, Ends, Free, Job, Jobs
    <3>2. CASE LogMetric(h)
      BY <1>0, <3>2 DEF LogMetric, Jobs, At
    <3>3. CASE Scoring(h)
      BY <1>0, <3>3 DEF Scoring, Jobs
    <3> QED
      BY <1>6, <3>1, <3>2, <3>3
  <2> QED
    BY <2>1, <2>2 DEF At, Packet
<1>7. ASSUME NEW h \in Handlers, Proceed(h)
      PROVE  Old
  BY <1>3, <1>4, <1>6, <1>7 DEF Proceed, Registered, Returned, AfterScore, LogEvent, Decide,
     AfterQuarantine
<1>8. CASE Resume
  BY <1>8 DEF Resume, service, At, Packet
<1> QED
  BY <1>0, <1>2, <1>3, <1>5, <1>7, <1>8
  DEF MeshNext, RegisterCall, HeartBeatStream, IssueQuarantine, OpenStream, Break, Disconnect,
      Abandon

LEMMA PacketsStep ==
  ASSUME CallsInv, FlowInv, PacketsInv, MeshNext, UNCHANGED trail
  PROVE  PacketsInv'
<1>1. audited' \cup unaudited' = audited \cup unaudited
  BY DEF trail
<1>2. audited \cup unaudited \subseteq taken
  BY DEF FlowInv
<1>3. \A i \in Handlers : At(i, {"complete"}) => Packet(i) \in taken
  BY DEF FlowInv
<1>4. ASSUME NEW i \in Handlers, At(i, {"complete"})'
      PROVE  /\ Packet(i)' \notin audited \cup unaudited
             /\ \A k \in Handlers : At(k, {"complete"})' /\ Packet(k)' = Packet(i)' => k = i
  <2>1. Packet(i)' \notin audited \cup unaudited
    BY <1>2, <1>4, NewPackets DEF PacketsInv
  <2>2. ASSUME NEW k \in Handlers, At(k, {"complete"})', Packet(k)' = Packet(i)', k # i
        PROVE  FALSE
    <3>1. \/ At(i, {"complete"}) /\ Packet(i)' = Packet(i)
          \/ Packet(i)' \notin taken /\ job'[k] = job[k]
      BY <1>4, <2>2, NewPackets
    <3>2. \/ At(k, {"complete"}) /\ Packet(k)' = Packet(k)
          \/ Packet(k)' \notin taken /\ job'[i] = job[i]
      BY <2>2, NewPackets
    <3>3. job'[k] = job[k] => Packet(k)' = Packet(k) /\ At(k, {"complete"})
      BY <2>2 DEF Packet, At
    <3>4. job'[i] = job[i] => Packet(i)' = Packet(i) /\ At(i, {"complete"})
      BY <1>4 DEF Packet, At
    <3> QED
      BY <1>3, <2>2, <3>1, <3>2, <3>3, <3>4 DEF PacketsInv
  <2> QED
    BY <2>1, <2>2
<1> QED
  BY <1>1, <1>4 DEF PacketsInv

\* The counters of an agent when the trail stays.
LEMMA RestsCounts ==
  ASSUME CallsInv, CountedInv, NEW h \in Handlers, NEW j, Rests(h, j), ~Completed(h),
         NEW a \in Agents, Known(a)'
  PROVE  AgentCounted(a)'
<1>1. agents' = agents /\ audited' = audited /\ unaudited' = unaudited
  BY DEF Rests, trail
<1>2. Known(a) /\ Counted(a)' = Counted(a) /\ Trail(a)' = Trail(a)
  BY <1>1 DEF Known, Counted, Trail
<1>3. ~Unrecorded(h, a)
  BY DEF Rests, Registered, Quiet, At, Unrecorded
<1>4. \A i \in Handlers \ {h} : job'[i] = job[i] /\ pending'[i] = pending[i]
  BY ShapeMoves DEF StepShape
<1>5. \A i \in Handlers : Unrecorded(i, a) => Unrecorded(i, a)'
  BY <1>3, <1>4 DEF Unrecorded, Running, At, Agent
<1> QED
  BY <1>2, <1>5 DEF CountedInv, AgentCounted

LEMMA AsksCounts ==
  ASSUME CallsInv, CountedInv, NEW h \in Handlers, NEW j, NEW r \in ServiceRequests,
         Asks(h, j, r), NEW a \in Agents, Known(a)'
  PROVE  AgentCounted(a)'
<1>1. Trail(a)' = Trail(a)
  BY DEF Asks, trail, Trail
<1>2. \A i \in Handlers : ~Unrecorded(i, a)
  BY DEF Asks, Moves, Quiet, Unrecorded, At, CallsInv, Coroutines, OneRuns
<1>3. Known(a) => Counted(a) <= Cardinality(Trail(a)) /\ Counted(a) \in Nat
  BY <1>2, TrailCounts DEF CountedInv
<1>4. Cardinality(Trail(a)) \in Nat /\ Cardinality(Trail(a))' = Cardinality(Trail(a))
  BY <1>1, TrailCounts
<1>5. CASE pending' = [pending EXCEPT ![h] = None] /\ Ran(r)
  <2>1. pending'[h] = None /\ job'[h] = j
    BY <1>5, ShapeMoves DEF StepShape, CallsInv, QueueInv, TypeOK, Callers
  <2>2. CASE r.op = "register" /\ a = r.agent
    BY <1>4, <1>5, <2>2 DEF Ran, AgentCounted
  <2>3. CASE r.op = "complete_task" /\ a = r.agent
    <3>1. Known(a) /\ Counted(a)' = Counted(a) + 1
      BY <1>5, <2>3 DEF Ran
    <3>2. j.at = "complete" /\ j.agent = a
      BY <2>3 DEF Asks, Operation
    <3>3. Unrecorded(h, a)'
      BY <2>1, <3>2, PointKinds DEF Unrecorded, Running, At, Agent
    <3>4. Counted(a)' <= Cardinality(Trail(a))' + 1
      BY <1>3, <1>4, <3>1
    <3> QED
      BY <3>3, <3>4 DEF AgentCounted
  <2>4. CASE a # r.agent \/ r.op \notin {"register", "complete_task"}
    <3>1. Known(a) /\ Counted(a)' = Counted(a)
      <4>1. CASE a # r.agent
        <5>1. agents'[a] = agents[a]
          BY <1>5, <4>1 DEF Ran
        <5> QED
          BY <5>1 DEF Known, Counted
      <4>2. CASE a = r.agent /\ r.op \notin {"register", "complete_task"}
        <5>1. Known(a) /\ Counted(a)' = Counted(a) + 0
          BY <1>5, <4>2 DEF Ran
        <5> QED
          BY <1>3, <5>1
      <4> QED
        BY <2>4, <4>1, <4>2
    <3> QED
      BY <1>1, <1>3, <3>1 DEF AgentCounted
  <2> QED
    BY <2>2, <2>3, <2>4
<1>6. CASE PoolKept
  <2>1. Known(a) /\ Counted(a)' = Counted(a)
    BY <1>6 DEF PoolKept
  <2> QED
    BY <1>1, <1>3, <2>1 DEF AgentCounted
<1> QED
  BY <1>5, <1>6 DEF Asks, PoolStep

\* One step keeps the counters behind the trail, but for the result in hand.
LEMMA CountedStep ==
  ASSUME CallsInv, CallsInv', FlowInv, CountedInv, [MeshNext]_meshVars
  PROVE  CountedInv'
<1>1. CASE UNCHANGED meshVars
  <2>1. /\ job' = job /\ pending' = pending /\ agents' = agents
        /\ audited' = audited /\ unaudited' = unaudited
    BY <1>1 DEF meshVars, vars, service, trail
  <2> QED
    BY <2>1 DEF CountedInv, Packet, At, Known, Counted, Trail, Unrecorded, Running, Agent
<1>2. CASE MeshNext
  <2>1. PICK h \in Handlers : \E j : StepShape(h, j)
    BY <1>2, StepHasShape
  <2>2. PICK j : StepShape(h, j)
    BY <2>1
  <2>3. CASE Completed(h)
    BY <2>3, CompletedCounts
  <2>4. CASE ~Completed(h)
    <3>1. UNCHANGED trail
      BY <2>2, <2>4 DEF StepShape, Rests, Asks
    <3>2. IsFiniteSet(audited' \cup unaudited')
      BY <3>1 DEF trail, CountedInv
    <3>3. PacketsInv'
      BY <1>2, <3>1, CountedParts, PacketsStep
    <3>4. \A a \in Agents : Known(a)' => AgentCounted(a)'
      BY <2>2, <2>4, RestsCounts, AsksCounts DEF StepShape
    <3> QED
      BY <3>2, <3>3, <3>4 DEF CountedInv, PacketsInv, AgentCounted
  <2> QED
    BY <2>3, <2>4
<1> QED
  BY <1>1, <1>2

LEMMA CountedInit == MeshInit => CountedInv
<1> SUFFICES ASSUME MeshInit PROVE CountedInv
  OBVIOUS
<1>1. \A h \in Handlers : ~At(h, {"complete"})
  BY FreeTypes DEF MeshInit, At
<1>2. audited \cup unaudited = {}
  BY DEF MeshInit
<1>3. \A a \in Agents : ~Known(a)
  BY DEF MeshInit, Init, Known
<1> QED
  BY <1>1, <1>2, <1>3, FS_EmptySet DEF CountedInv

\* Each result in the counters of the pool has an audit entry of its own, or one
\* that could not be written, for any number of streams that deliver, wait for
\* the lock, break and are cut, and registrations that start the counts again.
THEOREM ResultsAreAudited == MeshSpec => []CountedIsAudited
<1> DEFINE I == FlowAndCalls /\ CountedInv
<1>1. MeshInit => I
  BY CallsInit, FlowInit, CountedInit DEF FlowAndCalls
<1>2. I /\ [MeshNext]_meshVars => I'
  <2> SUFFICES ASSUME I, [MeshNext]_meshVars PROVE I'
    OBVIOUS
  <2>1. FlowAndCalls'
    BY FlowAndCallsStep
  <2> QED
    BY <2>1, CountedStep DEF FlowAndCalls
<1>3. I => CountedIsAudited
  BY DEF CountedInv, CountedIsAudited, Quiet, Unrecorded, Trail
<1> QED
  BY <1>1, <1>2, <1>3, PTL DEF MeshSpec

-----------------------------------------------------------------------------
(* The alarms.                                                              *)

\* Steps that take no history further, and leave no alarm behind.
LEMMA AlarmStays ==
  ASSUME Coroutines, AlarmInv, NEW h \in Handlers, NEW j, job' = [job EXCEPT ![h] = j],
         windows' = windows,
         \A a \in Agents : alarm'[a] =>
           /\ alarm[a]
           /\ Answers(h, a) => j.at \in {"score", "event", "decide", "quarantine"} /\ j.agent = a
  PROVE  AlarmInv'
<1>1. job'[h] = j /\ \A i \in Handlers \ {h} : job'[i] = job[i]
  BY DEF Coroutines
<1>2. ASSUME NEW a \in Agents, alarm'[a]
      PROVE  ShouldQuarantine(windows[a]) /\ \E i \in Handlers : Answers(i, a)'
  <2>1. PICK i \in Handlers : Answers(i, a)
    BY <1>2 DEF AlarmInv
  <2>2. Answers(i, a)'
    BY <1>1, <1>2, <2>1 DEF Answers, At, Agent
  <2> QED
    BY <1>2, <2>2 DEF AlarmInv
<1>3. \A a \in Agents : ShouldQuarantine(windows[a])' <=> ShouldQuarantine(windows[a])
  BY DEF ShouldQuarantine
<1> QED
  BY <1>2, <1>3 DEF AlarmInv

\* A handler that has no score to act on leaves every alarm to the others.
LEMMA NoAnswer ==
  ASSUME Coroutines, AlarmInv, NEW h \in Handlers, NEW j, job' = [job EXCEPT ![h] = j],
         UNCHANGED engine, ~At(h, {"score", "event", "decide", "quarantine"})
  PROVE  AlarmInv'
BY AlarmStays DEF Answers, engine

LEMMA ScoringKeepsAlarms ==
  ASSUME CallsInv, AlarmInv, NEW h \in Handlers, Scoring(h)
  PROVE  AlarmInv'
<1>1. PICK s \in Scores :
        /\ windows' = [windows EXCEPT ![Agent(h)] = Pushed(windows[Agent(h)], s)]
        /\ alarm' = [alarm EXCEPT ![Agent(h)] = ShouldQuarantine(Pushed(windows[Agent(h)], s))]
        /\ job' = [job EXCEPT ![h].at = "score", ![h].score = s]
  BY DEF Scoring, Agent
<1>2. /\ job \in [Handlers -> Jobs]
      /\ Agent(h) \in Agents
      /\ job[h].at = "scoring"
      /\ windows \in [Agents -> Seq(Scores)] /\ alarm \in [Agents -> BOOLEAN]
  BY HandlerTypes DEF CallsInv, ServiceTypes, Scoring, At
<1>3. /\ job'[h].at = "score" /\ job'[h].agent = Agent(h)
      /\ \A i \in Handlers \ {h} : job'[i] = job[i]
  BY <1>1, <1>2 DEF Jobs, Agent
<1>4. ASSUME NEW a \in Agents, alarm'[a]
      PROVE  ShouldQuarantine(windows'[a]) /\ \E i \in Handlers : Answers(i, a)'
  <2>1. CASE a = Agent(h)
    <3>1. windows'[a] = Pushed(windows[a], s) /\ alarm'[a] = ShouldQuarantine(Pushed(windows[a], s))
      BY <1>1, <1>2, <2>1
    <3>2. Answers(h, a)'
      BY <1>3, <2>1 DEF Answers, At, Agent
    <3> QED
      BY <1>4, <3>1, <3>2
  <2>2. CASE a # Agent(h)
    <3>1. windows'[a] = windows[a] /\ alarm'[a] = alarm[a]
      BY <1>1, <1>2, <2>2
    <3>2. PICK i \in Handlers : Answers(i, a)
      BY <1>4, <3>1 DEF AlarmInv
    <3>3. Answers(i, a)'
      BY <1>3, <2>2, <3>2 DEF Answers, At, Agent
    <3> QED
      BY <1>4, <3>1, <3>3 DEF AlarmInv
  <2> QED
    BY <2>1, <2>2
<1>5. \A a \in Agents : ShouldQuarantine(windows[a])' <=> ShouldQuarantine(windows'[a])
  BY DEF ShouldQuarantine
<1> QED
  BY <1>4, <1>5 DEF AlarmInv

LEMMA ProceedKeepsAlarms ==
  ASSUME CallsInv, AlarmInv, NEW h \in Handlers, Proceed(h)
  PROVE  AlarmInv'
<1>0. Coroutines /\ job \in [Handlers -> Jobs] /\ job[h] \in Jobs
  BY HandlerTypes DEF CallsInv
<1>1. CASE Registered(h) \/ Returned(h)
  BY <1>0, <1>1, NoAnswer DEF Registered, Returned, Ends, At
<1>2. CASE Completed(h)
  <2>1. ~At(h, {"score", "event", "decide", "quarantine"}) /\ UNCHANGED engine
    BY <1>2 DEF Completed, At
  <2>2. CASE Ends(h)
    BY <1>0, <2>1, <2>2, NoAnswer DEF Ends
  <2>3. CASE Drain(h)
    <3> DEFINE j == [job[h] EXCEPT !.batch = buffer,
                                   !.at = IF buffer = {} THEN "scoring" ELSE "metric"]
    <3>1. job' = [job EXCEPT ![h] = j]
      BY <1>0, <2>3 DEF Drain
    <3> HIDE DEF j
    <3> QED
      BY <1>0, <2>1, <3>1, NoAnswer
  <2> QED
    BY <1>2, <2>2, <2>3 DEF Completed
<1>3. CASE LogMetric(h)
  <2>1. ~At(h, {"score", "event", "decide", "quarantine"}) /\ UNCHANGED engine
    BY <1>3 DEF LogMetric, At
  <2>2. PICK m : job' = [job EXCEPT ![h].batch = @ \ {m},
                                    ![h].at = IF job[h].batch = {m} THEN "scoring" ELSE @]
    BY <1>3 DEF LogMetric
  <2> DEFINE j == [job[h] EXCEPT !.batch = @ \ {m},
                                 !.at = IF job[h].batch = {m} THEN "scoring" ELSE @]
  <2>3. job' = [job EXCEPT ![h] = j]
    BY <1>0, <2>2 DEF Jobs
  <2> HIDE DEF j
  <2> QED
    BY <1>0, <2>1, <2>3, NoAnswer
<1>4. ASSUME NEW point \in {"event", "decide", "quarantine"}, Goes(h, point), UNCHANGED engine
      PROVE  AlarmInv'
  <2> DEFINE j == [job[h] EXCEPT !.at = point]
  <2>1. job' = [job EXCEPT ![h] = j] /\ j.at = point /\ j.agent = Agent(h)
    BY <1>0, <1>4 DEF Goes, Jobs, Agent
  <2> HIDE DEF j
  <2> QED
    BY <1>0, <1>4, <2>1, AlarmStays DEF Answers, engine
<1>5. CASE AfterScore(h) \/ LogEvent(h)
  BY <1>4, <1>5 DEF AfterScore, LogEvent
<1>6. CASE Decide(h)
  <2>1. CASE ShouldQuarantine(windows[Agent(h)])
    BY <1>4, <1>6, <2>1 DEF Decide, Agent
  <2>2. CASE ~ShouldQuarantine(windows[Agent(h)])
    <3>1. job' = [job EXCEPT ![h] = Job("receive", Agent(h))] /\ UNCHANGED engine
      BY <1>6, <2>2 DEF Decide, NextPacket, Agent
    <3>2. \A a \in Agents : alarm[a] => ~Answers(h, a)
      BY <2>2 DEF AlarmInv, Answers
    <3> QED
      BY <1>0, <3>1, <3>2, AlarmStays DEF engine
  <2> QED
    BY <2>1, <2>2
<1>7. CASE AfterQuarantine(h)
  <2>1. PICK j : job' = [job EXCEPT ![h] = j]
    BY <1>7 DEF AfterQuarantine, NextPacket, Ends
  <2>2. windows' = windows /\ alarm' = [alarm EXCEPT ![Agent(h)] = FALSE]
    BY <1>7 DEF AfterQuarantine, Agent
  <2>3. \A a \in Agents : alarm'[a] => alarm[a] /\ ~Answers(h, a)
    BY <2>2 DEF Answers, CallsInv, ServiceTypes
  <2> QED
    BY <1>0, <2>1, <2>2, <2>3, AlarmStays
<1> QED
  BY <1>1, <1>2, <1>3, <1>5, <1>6, <1>7, ScoringKeepsAlarms DEF Proceed

\* Whoever ends early on its way to act drops the alarm of its agent.
LEMMA EarlyEndKeepsAlarms ==
  ASSUME CallsInv, AlarmInv, NEW h \in Handlers, Break(h) \/ Disconnect(h)
  PROVE  AlarmInv'
<1>1. Abandon(h) /\ job[h].at # "decide"
  <2>1. job[h].at = "decide" => pending[h] = None
    BY HandlerTypes, PointKinds DEF CallsInv
  <2>2. Disconnect(h) => pending[h] # None
    BY DEF Disconnect, Cancel
  <2> QED
    BY <2>1, <2>2 DEF Break, Disconnect, At
<1>2. job' = [job EXCEPT ![h] = Free] /\ windows' = windows
  BY <1>1 DEF Abandon, Ends
<1>3. \A a \in Agents : alarm'[a] => alarm[a] /\ ~Answers(h, a)
  BY <1>1 DEF Abandon, Answers, At, Agent, CallsInv, ServiceTypes
<1> QED
  BY <1>2, <1>3, AlarmStays DEF CallsInv

\* One step leaves no alarm without a handler on its way to act on it.
LEMMA AlarmStep ==
  ASSUME CallsInv, AlarmInv, [MeshNext]_meshVars
  PROVE  AlarmInv'
<1>0. /\ On("register") \subseteq Handlers /\ On("heartbeat") \subseteq Handlers
      /\ On("quarantine") \subseteq Handlers /\ On("complete_task") \subseteq Handlers
      /\ Cancellable \subseteq Handlers
      /\ Coroutines /\ job \in [Handlers -> Jobs]
  BY ParameterTypes DEF On, CallsInv, Coroutines
<1>1. ASSUME NEW h \in Handlers, NEW a \in Agents,
             \/ RegisterCall(h, a) \/ IssueQuarantine(h, a) \/ OpenStream(h, a)
             \/ \E status \in Statuses : HeartBeatStream(h, a, status)
      PROVE  AlarmInv'
  <2>1. UNCHANGED engine /\ \E point : Opens(h, a, point)
    BY <1>1 DEF RegisterCall, IssueQuarantine, OpenStream, HeartBeatStream
  <2> QED
    BY <1>0, <2>1, NoAnswer DEF Opens, At
<1>2. ASSUME NEW h \in Handlers, Receive(h)
      PROVE  AlarmInv'
  <2>1. UNCHANGED engine /\ ~At(h, {"score", "event", "decide", "quarantine"})
    BY <1>2 DEF Receive, At
  <2>2. PICK p : Refuse(p) \/ Pass(h, p)
    BY <1>2 DEF Receive
  <2>3. CASE Refuse(p)
    <3>1. job' = [job EXCEPT ![h] = job[h]]
      BY <1>0, <2>3 DEF Refuse
    <3> QED
      BY <1>0, <2>1, <3>1, NoAnswer
  <2>4. CASE Pass(h, p)
    <3> DEFINE j == [job[h] EXCEPT !.at = "complete", !.nth = p.nth]
    <3>1. job' = [job EXCEPT ![h] = j]
      BY <1>0, <2>4 DEF Pass
    <3> HIDE DEF j
    <3> QED
      BY <1>0, <2>1, <3>1, NoAnswer
  <2> QED
    BY <2>2, <2>3, <2>4
<1>3. CASE Resume \/ UNCHANGED meshVars
  <2>1. job' = job /\ windows' = windows /\ alarm' = alarm
    BY <1>3 DEF Resume, meshVars, service, engine
  <2> QED
    BY <2>1 DEF AlarmInv, Answers, At, Agent, ShouldQuarantine
<1> QED
  BY <1>0, <1>1, <1>2, <1>3, ProceedKeepsAlarms, EarlyEndKeepsAlarms DEF MeshNext

\* When the last two windows of an agent are suspicious, some handler is on its
\* way to quarantine it, unless one has since, or the one that was is gone.
THEOREM AlarmsAreAnswered == MeshSpec => []AlarmIsAnswered
<1> DEFINE I == CallsInv /\ AlarmInv
<1>1. MeshInit => I
  <2>1. MeshInit => AlarmInv
    BY DEF MeshInit, AlarmInv
  <2> QED
    BY <2>1, CallsInit
<1>2. I /\ [MeshNext]_meshVars => I'
  BY CallsStep, AlarmStep
<1>3. I => AlarmIsAnswered
  BY DEF AlarmInv, AlarmIsAnswered, Answers, Agent
<1> QED
  BY <1>1, <1>2, <1>3, PTL DEF MeshSpec

-----------------------------------------------------------------------------
(* Results of quarantined agents.                                           *)

\* The counters of an agent rise only with a result of its own.
LEMMA OnlyResultsCount ==
  ASSUME CallsInv, NEW h \in Handlers, NEW j, NEW r \in ServiceRequests, Asks(h, j, r),
         NEW a \in Agents, Known(a), Counted(a) \in Nat, Counted(a)' > Counted(a)
  PROVE  r.op = "complete_task" /\ r.agent = a /\ pending'[h] = None
<1>1. CASE pending' = [pending EXCEPT ![h] = None] /\ Ran(r)
  <2>1. pending'[h] = None
    BY <1>1 DEF CallsInv, QueueInv, TypeOK, Callers
  <2>2. a = r.agent
    <3>1. a # r.agent => agents'[a] = agents[a]
      BY <1>1 DEF Ran
    <3> QED
      BY <3>1 DEF Counted
  <2>3. r.op # "register"
    BY <1>1, <2>2 DEF Ran
  <2>4. r.op = "complete_task"
    BY <1>1, <2>2, <2>3 DEF Ran
  <2> QED
    BY <2>1, <2>2, <2>4
<1>2. CASE PoolKept
  BY <1>2 DEF PoolKept
<1> QED
  BY <1>1, <1>2 DEF Asks, PoolStep

\* A result is counted by the stream that has just let its packet pass, or by one
\* that has waited for the lock with it.
LEMMA ResultsComeFromStreams ==
  ASSUME CallsInv, MeshNext, NEW h \in Handlers, NEW j, NEW r \in ServiceRequests,
         Asks(h, j, r), r.op = "complete_task"
  PROVE  \/ Served(r.agent)
         \/ pending[h] # None /\ pending[h].op = "complete_task" /\ pending[h].agent = r.agent
<1>1. /\ job'[h] = j
      /\ j.at = "complete" /\ j.agent = r.agent
      /\ Quiet \/ job[h].at \in {"scoring", "decide"}
  BY ShapeMoves DEF Asks, StepShape, Operation
<1>2. At(h, {"complete"})' /\ Packet(h)'.agent = r.agent /\ Agent(h)' = r.agent
  BY <1>1 DEF At, Packet, Agent
<1>3. CASE At(h, {"complete"}) /\ Packet(h)' = Packet(h)
  <2>1. job[h].at = "complete" /\ Agent(h) = r.agent
    BY <1>2, <1>3 DEF At, Packet, Agent
  <2>2. pending[h] # None
    BY <1>1, <2>1, PointKinds DEF Quiet, Running, At
  <2>3. <<"complete", pending[h].op>> \in Operation /\ pending[h].agent = r.agent
    BY <2>1, <2>2 DEF CallsInv, Coroutines, CallFits, Agent
  <2>4. pending[h].op = "complete_task"
    BY <2>3 DEF Operation
  <2> QED
    BY <2>2, <2>3, <2>4
<1>4. CASE Served(Agent(h)) /\ Agent(h)' = Agent(h)
  BY <1>2, <1>4
<1> QED
  BY <1>2, <1>3, <1>4, NewPackets

\* No result of a quarantined agent is counted, unless its stream had passed the
\* packet before the quarantine and has waited for the lock since.
THEOREM QuarantineIsKept == MeshSpec => QuarantineHoldsBack
<1> DEFINE Late(a) == /\ Known(a) /\ agents[a].state = "QUARANTINED"
                      /\ agents'[a] # None /\ agents'[a].tasks_completed + agents'[a].tasks_failed > Counted(a)
           Waited(a) == \E h \in Handlers : /\ pending[h] # None
                                            /\ pending[h].op = "complete_task"
                                            /\ pending[h].agent = a
                                            /\ pending'[h] = None
<1>1. ASSUME CallsInv, MeshNext, NEW a \in Agents, Late(a)
      PROVE  Waited(a)
  <2>1. Known(a) /\ ~Served(a) /\ Counted(a)' > Counted(a)
    BY <1>1 DEF Served, Counted
  <2>2. Counted(a) \in Nat
    <3>1. agents[a] \in AgentRecord /\ clock \in Nat
      BY <1>1, <2>1 DEF CallsInv, QueueInv, TypeOK, Known
    <3> QED
      BY <3>1, RecordCounts DEF Counted
  <2>3. PICK h \in Handlers : \E j : StepShape(h, j)
    BY <1>1, StepHasShape
  <2>4. PICK j : StepShape(h, j)
    BY <2>3
  <2>5. PICK r \in ServiceRequests : Asks(h, j, r)
    <3>1. agents' # agents
      BY <2>1, <2>2 DEF Counted
    <3> QED
      BY <2>4, <3>1 DEF StepShape, Rests
  <2>6. r.op = "complete_task" /\ r.agent = a /\ pending'[h] = None
    BY <1>1, <2>1, <2>2, <2>5, OnlyResultsCount
  <2>7. pending[h] # None /\ pending[h].op = "complete_task" /\ pending[h].agent = a
    BY <1>1, <2>1, <2>5, <2>6, ResultsComeFromStreams
  <2> QED
    BY <2>6, <2>7
<1>2. CallsInv /\ [MeshNext]_meshVars => [\A a \in Agents : Late(a) => Waited(a)]_meshVars
  BY <1>1
<1> QED
  BY <1>2, CallsInit, CallsStep, PTL DEF MeshSpec, QuarantineHoldsBack

-----------------------------------------------------------------------------
(* What the pool promises on its own it promises under the service, too.    *)

\* Among the handlers of the service no call to the pool is lost or runs twice,
\* the lock is held between steps only by a call that waits for itself, and an
\* agent reaches the quarantine threshold only by suspicious windows in a row,
\* unless an earlier attempt to quarantine it was cancelled.  While the lock is
\* held no handler changes the pool, and no agent goes offline unless it says so.
THEOREM PoolPromisesHold ==
  MeshSpec => /\ [](NoCallLost /\ HeldLockIsSelfWait /\ ThresholdMeansConsecutive)
              /\ [][HeldLockFreezes]_vars
              /\ OfflineOnlyWhenSilent
<1>1. MeshSpec => Spec
  BY HandlersUsePool DEF UsesPool
<1>2. Spec => [](NoCallLost /\ HeldLockIsSelfWait /\ ThresholdMeansConsecutive)
  BY CallsAreNeverLost, LockIsHeldBySelfWaiters, ThresholdIsConsecutive, PTL
<1> QED
  BY <1>1, <1>2, HeldLockFreezesPool, OnlySilentAgentsAreSwept
=============================================================================
