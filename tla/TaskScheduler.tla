--------------------------- MODULE TaskScheduler ---------------------------
(***************************************************************************)
(* orchestrator/task_scheduler.py: the agent pool and the asyncio.Lock     *)
(* around every operation on it.                                           *)
(*                                                                         *)
(* The orchestrator is one event loop.  A critical section contains no     *)
(* await, so a call that finds the lock free runs it to the end in one     *)
(* step; the one exception is update_anomaly_score, which awaits           *)
(* self.quarantine (and so the same lock) while it holds the lock.  From   *)
(* then on every other call joins the lock's queue of waiters, and the     *)
(* owner is itself in that queue.  Only the cancellation of the owner (its *)
(* gRPC client went away) releases the lock.                               *)
(***************************************************************************)
EXTENDS AgentRecords, Sequences, SequencesExt, FiniteSets

CONSTANTS
  Agents,         \* agent ids
  Handlers,       \* coroutines that serve agents, one call of theirs at a time
  Duties,         \* the operations each coroutine calls
  Cancellable,    \* the handlers a disconnecting client cancels (gRPC)
  Sweeper,        \* the orchestrator's own loop around mark_offline_stale
  TaskTypes,      \* what tasks ask for
  Capabilities,   \* what each agent's registration request lists
  Statuses,       \* statuses that heartbeats carry
  Scores,         \* anomaly scores, in hundredths
  Timeout,        \* HEARTBEAT_TIMEOUT_SECONDS, in ticks
  MaxTime,        \* bound of a run: the clock stops here
  MaxTasks,       \* bound of a run: task results counted per agent
  MaxSuspicion,   \* bound of a run: suspicion_count
  None            \* no agent record, no pending call, no owner

Callers == Handlers \cup {Sweeper}

Operations == {"register", "unregister", "heartbeat", "mark_offline_stale",
               "dispatch", "complete_task", "quarantine", "update_anomaly_score"}

AgentRequests ==
       [op : {"register", "unregister", "quarantine"}, agent : Agents]
  \cup [op : {"heartbeat"}, agent : Agents, status : Statuses]
  \cup [op : {"complete_task"}, agent : Agents, success : BOOLEAN]
  \cup [op : {"update_anomaly_score"}, agent : Agents, score : Scores]

Requests ==
       AgentRequests
  \cup [op : {"dispatch"}, task_type : TaskTypes]
  \cup [op : {"mark_offline_stale"}, now : Nat]

ASSUME ParameterTypes ==
  /\ Cancellable \subseteq Handlers
  /\ Sweeper \notin Handlers
  /\ Duties \in [Handlers -> SUBSET Operations]
  /\ None \notin Callers
  /\ None \notin AgentRecord
  /\ None \notin Requests
  /\ Capabilities \in [Agents -> SUBSET TaskTypes]
  /\ Statuses \subseteq AgentStatus
  /\ Scores \subseteq Nat
  /\ Timeout \in Nat
  /\ MaxTime \in Nat
  /\ MaxTasks \in Nat
  /\ MaxSuspicion \in Nat

VARIABLES
  agents,     \* _agents: the record of each registered agent, None for others
  lock,       \* who holds _lock between two steps of the event loop
  waiters,    \* the lock's queue of waiting coroutines, first come first served
  pending,    \* the call each coroutine is suspended in
  clock,      \* time.time()
  streak,     \* history: the current row of suspicious windows since registration
  abandoned   \* history: an automatic quarantine of this registration was cancelled

vars == <<agents, lock, waiters, pending, clock, streak, abandoned>>

Known(a) == agents[a] # None

\* history: windows in a row that README.md:178-186 calls suspicious, counted up
\* to Threshold, and whether one of them scored exactly the cutoff, which is
\* suspicious there (0.65 and more) and calm in update_anomaly_score (> 0.65).
Rows == [length : 0..Threshold, edge : BOOLEAN]
NoRow == [length |-> 0, edge |-> FALSE]

Lengthen(row, score) ==
  IF score < Cutoff THEN NoRow
  ELSE [length |-> IF row.length < Threshold THEN row.length + 1 ELSE row.length,
        edge   |-> row.edge \/ score = Cutoff]

Init ==
  /\ agents    = [a \in Agents |-> None]
  /\ lock      = None
  /\ waiters   = <<>>
  /\ pending   = [c \in Callers |-> None]
  /\ clock     = 0
  /\ streak    = [a \in Agents |-> NoRow]
  /\ abandoned = [a \in Agents |-> FALSE]

-----------------------------------------------------------------------------
(* The critical sections that end by releasing the lock: what request r    *)
(* does to the pool.                                                        *)

Forget(a) ==
  /\ streak'    = [streak EXCEPT ![a] = NoRow]
  /\ abandoned' = [abandoned EXCEPT ![a] = FALSE]

KeepHistory == UNCHANGED <<streak, abandoned>>

RegisterBody(r) ==
  /\ r.op = "register"
  /\ agents' = [agents EXCEPT ![r.agent] = NewRecord(clock)]
  /\ Forget(r.agent)

UnregisterBody(r) ==
  /\ r.op = "unregister"
  /\ agents' = [agents EXCEPT ![r.agent] = None]
  /\ Forget(r.agent)

HeartbeatBody(r) ==
  /\ r.op = "heartbeat"
  /\ agents' = [agents EXCEPT ![r.agent] =
                  IF @ = None THEN None ELSE Heard(@, r.status, clock)]
  /\ KeepHistory

MarkOfflineStaleBody(r) ==
  /\ r.op = "mark_offline_stale"
  /\ agents' = [a \in Agents |->
                  IF ~Known(a) THEN None
                  ELSE SweptIf(Stale(agents[a], r.now, Timeout), agents[a])]
  /\ KeepHistory

Candidates(task_type) ==
  {a \in Agents : /\ Known(a)
                  /\ agents[a].state = "IDLE"
                  /\ task_type \in Capabilities[a]}

\* mutant: dispatch waits, in its critical section, until an agent is idle
DispatchBodyBlocks(r) ==
  /\ r.op = "dispatch"
  /\ \E a \in Candidates(r.task_type) :
       /\ \A b \in Candidates(r.task_type) :
            DispatchKey(agents[a]) <= DispatchKey(agents[b])
       /\ agents' = [agents EXCEPT ![a].state = "BUSY"]
  /\ KeepHistory

\* min() over the candidates; among equal keys any may come first in _agents.
DispatchBody(r) ==
  /\ r.op = "dispatch"
  /\ \/ /\ Candidates(r.task_type) = {}
        /\ UNCHANGED agents
     \/ \E a \in Candidates(r.task_type) :
          /\ \A b \in Candidates(r.task_type) :
               DispatchKey(agents[a]) <= DispatchKey(agents[b])
          /\ agents' = [agents EXCEPT ![a].state = "BUSY"]
  /\ KeepHistory

CompleteTaskBody(r) ==
  /\ r.op = "complete_task"
  /\ agents' = [agents EXCEPT ![r.agent] =
                  IF @ = None THEN None ELSE Finished(@, r.success)]
  /\ KeepHistory

QuarantineBody(r) ==
  /\ r.op = "quarantine"
  /\ agents' = [agents EXCEPT ![r.agent] =
                  IF @ = None THEN None ELSE Quarantined(@)]
  /\ KeepHistory

\* The bookkeeping of update_anomaly_score on a known agent.
Score(r) ==
  /\ agents' = [agents EXCEPT ![r.agent] = Scored(@, r.score)]
  /\ streak' = [streak EXCEPT ![r.agent] = Lengthen(@, r.score)]
  /\ UNCHANGED abandoned

UpdateAnomalyScoreBody(r) ==
  /\ r.op = "update_anomaly_score"
  /\ \/ /\ ~Known(r.agent)
        /\ UNCHANGED agents
        /\ KeepHistory
     \/ /\ Known(r.agent)
        /\ ~Condemned(Scored(agents[r.agent], r.score))
        /\ Score(r)

Serve(r) ==
  \/ RegisterBody(r)
  \/ UnregisterBody(r)
  \/ HeartbeatBody(r)
  \/ MarkOfflineStaleBody(r)
  \/ DispatchBody(r)
  \/ CompleteTaskBody(r)
  \/ QuarantineBody(r)
  \/ UpdateAnomalyScoreBody(r)

\* The score condemns the agent: update_anomaly_score awaits self.quarantine,
\* which queues for the lock its own caller holds.
AwaitQuarantine(c, r) ==
  /\ r.op = "update_anomaly_score"
  /\ Known(r.agent)
  /\ Condemned(Scored(agents[r.agent], r.score))
  /\ Score(r)
  /\ lock' = c

\* Caller c, with the lock free, runs the critical section of r; `queue` is
\* what is left of the lock's queue without c.
Enter(c, r, queue) ==
  \/ /\ Serve(r)
     /\ pending' = [pending EXCEPT ![c] = None]
     /\ waiters' = queue
     /\ UNCHANGED lock
  \/ /\ AwaitQuarantine(c, r)
     /\ pending' = [pending EXCEPT ![c] = r]
     /\ waiters' = Append(queue, c)

-----------------------------------------------------------------------------
(* asyncio.Lock                                                             *)

\* acquire() returns at once only if no one holds or waits for the lock.
FastPath == lock = None /\ waiters = <<>>

Waits(c, r) ==
  /\ pending' = [pending EXCEPT ![c] = r]
  /\ waiters' = Append(waiters, c)
  /\ UNCHANGED <<agents, lock, streak, abandoned>>

Call(c, r) ==
  /\ pending[c] = None
  /\ IF FastPath THEN Enter(c, r, waiters) ELSE Waits(c, r)
  /\ UNCHANGED clock

\* The lock is free and its first waiter has been woken.
Acquire ==
  /\ lock = None
  /\ waiters # <<>>
  /\ Enter(Head(waiters), pending[Head(waiters)], Tail(waiters))
  /\ UNCHANGED clock

\* acquire() takes its waiter out of the queue when it is cancelled there.
Leaves(c) ==
  \E i \in 1..Len(waiters) : waiters[i] = c /\ waiters' = RemoveAt(waiters, i)

\* mutant: cancellation forgets that the cancelled call held the lock
CancelKeepsLock(c) ==
  /\ pending[c] # None
  /\ pending' = [pending EXCEPT ![c] = None]
  /\ Leaves(c)
  /\ abandoned' = abandoned
  /\ UNCHANGED <<agents, lock, clock, streak>>

\* mutant: the cancelled waiter's place in the queue stays
CancelLeavesWaiter(c) ==
  /\ pending[c] # None
  /\ pending' = [pending EXCEPT ![c] = None]
  /\ lock' = IF lock = c THEN None ELSE lock
  /\ UNCHANGED <<agents, waiters, clock, streak, abandoned>>

\* CancelledError is raised where c waits for the lock; `async with` releases
\* the lock if c holds it.  What the call already changed stays changed.
Cancel(c) ==
  /\ pending[c] # None
  /\ pending' = [pending EXCEPT ![c] = None]
  /\ Leaves(c)
  /\ lock' = IF lock = c THEN None ELSE lock
  /\ abandoned' = IF lock = c THEN [abandoned EXCEPT ![pending[c].agent] = TRUE]
                  ELSE abandoned
  /\ UNCHANGED <<agents, clock, streak>>

-----------------------------------------------------------------------------
(* The operations, as the rest of the orchestrator calls them.  The two    *)
(* guards with a bound of the run count what waiting calls may still add.  *)

Queued(op, a) ==
  Cardinality({c \in Handlers : /\ pending[c] # None
                                /\ pending[c].op = op
                                /\ pending[c].agent = a})

TasksBound(a) ==
  Known(a) =>
    agents[a].tasks_completed + agents[a].tasks_failed + Queued("complete_task", a)
      < MaxTasks

SuspicionBound(a, score) ==
  Known(a) /\ score > Cutoff =>
    agents[a].suspicion_count + Queued("update_anomaly_score", a) < MaxSuspicion

Register(c, a) == Call(c, [op |-> "register", agent |-> a])

Unregister(c, a) == Call(c, [op |-> "unregister", agent |-> a])

Heartbeat(c, a, status) == Call(c, [op |-> "heartbeat", agent |-> a, status |-> status])

Dispatch(c, task_type) == Call(c, [op |-> "dispatch", task_type |-> task_type])

CompleteTask(c, a, success) ==
  /\ TasksBound(a)
  /\ Call(c, [op |-> "complete_task", agent |-> a, success |-> success])

Quarantine(c, a) == Call(c, [op |-> "quarantine", agent |-> a])

UpdateAnomalyScore(c, a, score) ==
  /\ SuspicionBound(a, score)
  /\ Call(c, [op |-> "update_anomaly_score", agent |-> a, score |-> score])

\* mutant: the sweep compares with the time its loop was started at
MarkOfflineStaleFrozen == Call(Sweeper, [op |-> "mark_offline_stale", now |-> 0])

\* mark_offline_stale reads the time before it asks for the lock.
MarkOfflineStale == Call(Sweeper, [op |-> "mark_offline_stale", now |-> clock])

Tick ==
  /\ clock < MaxTime
  /\ clock' = clock + 1
  /\ UNCHANGED <<agents, lock, waiters, pending, streak, abandoned>>

On(op) == {c \in Handlers : op \in Duties[c]}

Next ==
  \/ \E c \in On("register"), a \in Agents : Register(c, a)
  \/ \E c \in On("unregister"), a \in Agents : Unregister(c, a)
  \/ \E c \in On("heartbeat"), a \in Agents, status \in Statuses :
       Heartbeat(c, a, status)
  \/ \E c \in On("dispatch"), task_type \in TaskTypes : Dispatch(c, task_type)
  \/ \E c \in On("complete_task"), a \in Agents, success \in BOOLEAN :
       CompleteTask(c, a, success)
  \/ \E c \in On("quarantine"), a \in Agents : Quarantine(c, a)
  \/ \E c \in On("update_anomaly_score"), a \in Agents, score \in Scores :
       UpdateAnomalyScore(c, a, score)
  \/ MarkOfflineStale
  \/ Acquire
  \/ \E c \in Cancellable : Cancel(c)
  \/ Tick

Spec == Init /\ [][Next]_vars

\* The event loop keeps running what is ready: a woken waiter resumes, and the
\* sweeping loop comes round again.  Nothing obliges agents to send anything,
\* clients to disconnect, or time to pass.
FairSpec == Spec /\ WF_vars(Acquire) /\ WF_vars(MarkOfflineStale)

-----------------------------------------------------------------------------
(* Properties *)

\* Every variable keeps its type: in particular each known agent has a full
\* record and each suspended call is a request its coroutine can make.
TypeOK ==
  /\ agents \in [Agents -> AgentRecord \cup {None}]
  /\ lock \in Callers \cup {None}
  /\ waiters \in Seq(Callers)
  /\ pending \in [Callers -> Requests \cup {None}]
  /\ clock \in Nat
  /\ streak \in [Agents -> Rows]
  /\ abandoned \in [Agents -> BOOLEAN]

\* No call is lost and none runs twice: the coroutines suspended in a call are
\* exactly those in the lock's queue, each once, through calls, wake-ups and
\* cancellations in any order.
NoCallLost ==
  /\ \A i, j \in 1..Len(waiters) : waiters[i] = waiters[j] => i = j
  /\ \A c \in Callers : pending[c] # None <=> \E i \in 1..Len(waiters) : waiters[i] = c

\* Whenever the event loop sees the lock held, its owner waits for itself: it
\* is update_anomaly_score, suspended in the queue of the lock it holds, and
\* the agent it condemned is known, over the threshold and not touched since.
HeldLockIsSelfWait ==
  lock # None =>
    /\ \E i \in 1..Len(waiters) : waiters[i] = lock
    /\ pending[lock] # None
    /\ pending[lock].op = "update_anomaly_score"
    /\ Known(pending[lock].agent)
    /\ Condemned(agents[pending[lock].agent])

\* README.md:178-186: a score of 0.65 and more is suspicious, and two in a row
\* trigger a quarantine.  No sequence of calm windows, heartbeats, task results or
\* cancelled calls lets suspicion_count fall behind the current row of suspicious
\* windows, unless one of them scored exactly 0.65, where the code disagrees.
StreakIsCounted ==
  \A a \in Agents :
    Known(a) => streak[a].edge \/ streak[a].length <= agents[a].suspicion_count

\* An agent only reaches the quarantine threshold by suspicious windows in a
\* row ("for {n} consecutive windows" in the reason update_anomaly_score
\* gives), as long as no earlier attempt on this registration was cancelled.
ThresholdMeansConsecutive ==
  \A a \in Agents :
    /\ Known(a)
    /\ agents[a].suspicion_count >= Threshold
    /\ ~abandoned[a]
    => streak[a].length >= Threshold

\* The sweep, which compares a time read before it waited for the lock with
\* heartbeats that may have arrived while it waited, never takes an agent
\* offline that was heard from within the timeout, nor lifts a quarantine: the
\* only other way offline is the agent's own heartbeat.
OfflineOnlyWhenSilent ==
  [][\A a \in Agents :
       /\ Known(a)
       /\ agents[a].state # "OFFLINE"
       /\ agents'[a] # None
       /\ agents'[a].state = "OFFLINE"
       => \/ agents'[a].last_heartbeat = clock
          \/ /\ clock - agents[a].last_heartbeat > Timeout
             /\ agents[a].state # "QUARANTINED"]_vars

Overdue(a) == Known(a) /\ Stale(agents[a], clock, Timeout)

LockHeldForever == <>[](lock # None)

\* An agent that has gone silent does not stay in the pool as if it were
\* online: the sweep finds it, or it is heard from again, unless an automatic
\* quarantine has taken the lock for good.
SilentAgentsAreSwept ==
  LockHeldForever \/ \A a \in Agents : Overdue(a) ~> ~Overdue(a)

\* Every call that has to wait for the lock is eventually served or cancelled,
\* in whatever order calls arrive and clients disconnect, unless an automatic
\* quarantine has taken the lock for good.
EveryCallReturns ==
  LockHeldForever \/ \A c \in Callers : pending[c] # None ~> pending[c] = None

\* README.md:151 "automatic quarantine on 2 consecutive anomalous windows":
\* an agent that is condemned and neither leaves the pool nor re-registers is
\* eventually quarantined.
CondemnedIsQuarantined ==
  \A a \in Agents :
    (Known(a) /\ Condemned(agents[a])) ~>
      (~Known(a) \/ ~Condemned(agents[a]) \/ agents[a].state = "QUARANTINED")
=============================================================================
