------------------------ MODULE TaskSchedulerProofs ------------------------
(***************************************************************************)
(* What the pool guarantees for any agents, handlers and bounds: no call   *)
(* is lost, suspicion counts windows in a row, only silent agents are      *)
(* swept; and what an automatic quarantine does to it: the lock is taken   *)
(* by a call that waits for itself, and the pool stands still.             *)
(***************************************************************************)
EXTENDS TaskScheduler, SequenceTheorems, TLAPS

-----------------------------------------------------------------------------
(* The lock's queue.                                                        *)

\* Taking the element at position i out of a sequence keeps the others, in order.
LEMMA RemoveAtProperties ==
  ASSUME NEW S, NEW s \in Seq(S), NEW i \in 1..Len(s)
  PROVE  /\ RemoveAt(s, i) \in Seq(S)
         /\ Len(RemoveAt(s, i)) = Len(s) - 1
         /\ \A j \in 1..(Len(s) - 1) :
              RemoveAt(s, i)[j] = IF j < i THEN s[j] ELSE s[j + 1]
<1> DEFINE front == SubSeq(s, 1, i - 1)
           back  == SubSeq(s, i + 1, Len(s))
<1>1. Len(s) \in Nat
  BY LenProperties
<1>2. /\ front \in Seq(S)
      /\ Len(front) = i - 1
      /\ \A j \in 1..(i - 1) : front[j] = s[j]
  BY <1>1, SubSeqProperties
<1>3. /\ back \in Seq(S)
      /\ Len(back) = Len(s) - i
      /\ \A j \in 1..(Len(s) - i) : back[j] = s[i + j]
  BY <1>1, SubSeqProperties
<1>4. RemoveAt(s, i) = front \o back
  BY DEF RemoveAt
<1> HIDE DEF front, back
<1>5. /\ front \o back \in Seq(S)
      /\ Len(front \o back) = Len(s) - 1
  <2>1. /\ front \o back \in Seq(S)
        /\ Len(front \o back) = Len(front) + Len(back)
    BY <1>2, <1>3, ConcatProperties
  <2>2. Len(front) + Len(back) = Len(s) - 1
    BY <1>1, <1>2, <1>3
  <2> QED
    BY <2>1, <2>2
<1>6. ASSUME NEW j \in 1..(Len(s) - 1)
      PROVE  (front \o back)[j] = IF j < i THEN s[j] ELSE s[j + 1]
  <2>1. CASE j < i
    <3>1. j \in 1..(i - 1)
      BY <1>1, <2>1
    <3>2. (front \o back)[j] = front[j]
      BY <1>1, <1>2, <1>3, <2>1, ConcatProperties
    <3> QED
      BY <1>2, <2>1, <3>1, <3>2
  <2>2. CASE ~(j < i)
    <3>1. /\ j - (i - 1) \in 1..(Len(s) - i)
          /\ j \in 1..(Len(front) + Len(back))
          /\ ~(j <= Len(front))
      BY <1>1, <1>2, <1>3, <2>2
    <3>2. (front \o back)[j] = back[j - (i - 1)]
      BY <1>1, <1>2, <1>3, <2>2, <3>1, ConcatProperties
    <3>3. i + (j - (i - 1)) = j + 1
      BY <1>1
    <3> QED
      BY <1>3, <2>2, <3>1, <3>2, <3>3
  <2> QED
    BY <2>1, <2>2
<1> QED
  BY <1>4, <1>5, <1>6

-----------------------------------------------------------------------------
(* Types.                                                                   *)

\* Every operation on an agent's record returns a record.
LEMMA RecordsAreRecords ==
  ASSUME NEW now \in Nat
  PROVE  /\ NewRecord(now) \in AgentRecord
         /\ \A rec \in AgentRecord :
              /\ \A status \in AgentStatus : Heard(rec, status, now) \in AgentRecord
              /\ \A stale \in BOOLEAN : SweptIf(stale, rec) \in AgentRecord
              /\ \A success \in BOOLEAN : Finished(rec, success) \in AgentRecord
              /\ Quarantined(rec) \in AgentRecord
              /\ [rec EXCEPT !.state = "BUSY"] \in AgentRecord
              /\ \A score \in Nat : Scored(rec, score) \in AgentRecord
<1>1. NewRecord(now) \in AgentRecord
  BY DEF NewRecord, AgentRecord, AgentState
<1>2. ASSUME NEW rec \in AgentRecord
      PROVE  /\ Quarantined(rec) \in AgentRecord
             /\ [rec EXCEPT !.state = "BUSY"] \in AgentRecord
             /\ \A stale \in BOOLEAN : SweptIf(stale, rec) \in AgentRecord
  BY DEF Quarantined, SweptIf, AgentRecord, AgentState
<1>3. ASSUME NEW rec \in AgentRecord, NEW status \in AgentStatus
      PROVE  Heard(rec, status, now) \in AgentRecord
  <2>1. StateOf(status) \in AgentState
    BY DEF StateOf, AgentState, AgentStatus
  <2> QED
    BY <2>1 DEF Heard, AgentRecord
<1>4. ASSUME NEW rec \in AgentRecord, NEW success \in BOOLEAN
      PROVE  Finished(rec, success) \in AgentRecord
  <2>1. rec.tasks_completed + 1 \in Nat /\ rec.tasks_failed + 1 \in Nat
    BY DEF AgentRecord
  <2>2. CASE success
    BY <2>1, <2>2 DEF Finished, AgentRecord, AgentState
  <2>3. CASE ~success
    BY <2>1, <2>3 DEF Finished, AgentRecord, AgentState
  <2> QED
    BY <2>2, <2>3
<1>5. ASSUME NEW rec \in AgentRecord, NEW score \in Nat
      PROVE  Scored(rec, score) \in AgentRecord
  <2>1. Suspicion(rec.suspicion_count, score) \in Nat
    BY DEF Suspicion, AgentRecord, Cutoff
  <2> QED
    BY <2>1 DEF Scored, AgentRecord
<1> QED
  BY <1>1, <1>2, <1>3, <1>4, <1>5

\* A row stays a row, whatever window is added to it.
LEMMA LengthenTypes ==
  /\ NoRow \in Rows
  /\ \A row \in Rows, score \in Nat : Lengthen(row, score) \in Rows
<1>1. NoRow \in Rows
  BY DEF NoRow, Rows, Threshold
<1>2. ASSUME NEW row \in Rows, NEW score \in Nat
      PROVE  Lengthen(row, score) \in Rows
  <2>1. row.length \in 0..Threshold /\ (row.edge \/ score = Cutoff) \in BOOLEAN
    BY DEF Rows
  <2>2. (IF row.length < Threshold THEN row.length + 1 ELSE row.length) \in 0..Threshold
    BY <2>1 DEF Threshold
  <2> QED
    BY <1>1, <2>1, <2>2 DEF Lengthen, Rows
<1> QED
  BY <1>1, <1>2

\* A critical section that ends by releasing the lock keeps the pool and the
\* histories well-typed.
LEMMA ServeTypes ==
  ASSUME TypeOK, NEW r \in Requests, Serve(r)
  PROVE  /\ agents' \in [Agents -> AgentRecord \cup {None}]
         /\ streak' \in [Agents -> Rows]
         /\ abandoned' \in [Agents -> BOOLEAN]
<1> USE ParameterTypes, RecordsAreRecords
<1>0. /\ agents \in [Agents -> AgentRecord \cup {None}]
      /\ clock \in Nat
      /\ streak \in [Agents -> Rows]
      /\ abandoned \in [Agents -> BOOLEAN]
  BY DEF TypeOK
<1>a. ASSUME NEW a \in Agents, Forget(a)
      PROVE  streak' \in [Agents -> Rows] /\ abandoned' \in [Agents -> BOOLEAN]
  BY <1>0, <1>a, LengthenTypes DEF Forget
<1>b. ASSUME KeepHistory
      PROVE  streak' \in [Agents -> Rows] /\ abandoned' \in [Agents -> BOOLEAN]
  BY <1>0, <1>b DEF KeepHistory
<1>1. CASE RegisterBody(r)
  <2>1. r.agent \in Agents
    BY <1>1 DEF RegisterBody, Requests, AgentRequests
  <2> QED
    BY <1>0, <1>1, <1>a, <2>1 DEF RegisterBody
<1>2. CASE UnregisterBody(r)
  <2>1. r.agent \in Agents
    BY <1>2 DEF UnregisterBody, Requests, AgentRequests
  <2> QED
    BY <1>0, <1>2, <1>a, <2>1 DEF UnregisterBody
<1>3. CASE HeartbeatBody(r)
  <2>1. r.status \in AgentStatus
    BY <1>3 DEF HeartbeatBody, Requests, AgentRequests
  <2> QED
    BY <1>0, <1>3, <1>b, <2>1 DEF HeartbeatBody
<1>4. CASE MarkOfflineStaleBody(r)
  <2>1. ASSUME NEW a \in Agents, Known(a)
        PROVE  SweptIf(Stale(agents[a], r.now, Timeout), agents[a]) \in AgentRecord
    <3>1. Stale(agents[a], r.now, Timeout) \in BOOLEAN
      BY DEF Stale
    <3>2. agents[a] \in AgentRecord
      BY <1>0, <2>1 DEF Known
    <3> QED
      BY <1>0, <3>1, <3>2
  <2> QED
    BY <1>0, <1>4, <1>b, <2>1 DEF MarkOfflineStaleBody
<1>5. CASE DispatchBody(r)
  <2>1. CASE UNCHANGED agents
    BY <1>0, <1>5, <1>b, <2>1 DEF DispatchBody
  <2>2. ASSUME NEW a \in Candidates(r.task_type),
               agents' = [agents EXCEPT ![a].state = "BUSY"]
        PROVE  agents' \in [Agents -> AgentRecord \cup {None}]
    <3>1. a \in Agents /\ agents[a] \in AgentRecord
      BY <1>0, <2>2 DEF Candidates, Known
    <3>2. [agents[a] EXCEPT !.state = "BUSY"] \in AgentRecord
      BY <1>0, <3>1
    <3> QED
      BY <1>0, <2>2, <3>1, <3>2
  <2> QED
    BY <1>5, <1>b, <2>1, <2>2 DEF DispatchBody
<1>6. CASE CompleteTaskBody(r)
  <2>1. r.success \in BOOLEAN
    BY <1>6 DEF CompleteTaskBody, Requests, AgentRequests
  <2> QED
    BY <1>0, <1>6, <1>b, <2>1 DEF CompleteTaskBody
<1>7. CASE QuarantineBody(r)
  BY <1>0, <1>7, <1>b DEF QuarantineBody
<1>8. CASE UpdateAnomalyScoreBody(r)
  <2>1. CASE UNCHANGED agents /\ KeepHistory
    BY <1>0, <1>b, <2>1
  <2>2. CASE Known(r.agent) /\ Score(r)
    <3>1. r.agent \in Agents /\ r.score \in Nat
      BY <1>8 DEF UpdateAnomalyScoreBody, Requests, AgentRequests
    <3>2. Scored(agents[r.agent], r.score) \in AgentRecord
      BY <1>0, <2>2, <3>1 DEF Known
    <3>3. streak' \in [Agents -> Rows]
      BY <1>0, <2>2, <3>1, LengthenTypes DEF Score
    <3> QED
      BY <1>0, <2>2, <3>1, <3>2, <3>3 DEF Score
  <2> QED
    BY <1>8, <2>1, <2>2 DEF UpdateAnomalyScoreBody
<1> QED
  BY <1>1, <1>2, <1>3, <1>4, <1>5, <1>6, <1>7, <1>8 DEF Serve

\* update_anomaly_score on a known agent keeps the pool and the histories typed.
LEMMA ScoreTypes ==
  ASSUME TypeOK, NEW r \in Requests, r.op = "update_anomaly_score",
         Known(r.agent), Score(r)
  PROVE  /\ agents' \in [Agents -> AgentRecord \cup {None}]
         /\ streak' \in [Agents -> Rows]
         /\ abandoned' \in [Agents -> BOOLEAN]
<1>1. r.agent \in Agents /\ r.score \in Nat
  BY ParameterTypes DEF Requests, AgentRequests
<1>2. Scored(agents[r.agent], r.score) \in AgentRecord
  BY <1>1, RecordsAreRecords DEF TypeOK, Known
<1>3. streak' \in [Agents -> Rows]
  BY <1>1, LengthenTypes DEF Score, TypeOK
<1> QED
  BY <1>1, <1>2, <1>3 DEF Score, TypeOK

\* Entering the critical section keeps every type, the queue's included.
LEMMA EnterTypes ==
  ASSUME TypeOK, NEW c \in Callers, NEW r \in Requests, NEW q \in Seq(Callers),
         Enter(c, r, q), UNCHANGED clock
  PROVE  TypeOK'
<1>1. CASE Serve(r) /\ pending' = [pending EXCEPT ![c] = None] /\ waiters' = q
           /\ UNCHANGED lock
  BY <1>1, ServeTypes DEF TypeOK
<1>2. CASE AwaitQuarantine(c, r) /\ pending' = [pending EXCEPT ![c] = r]
           /\ waiters' = Append(q, c)
  <2>1. waiters' \in Seq(Callers)
    BY <1>2, AppendProperties
  <2> QED
    BY <1>2, <2>1, ScoreTypes DEF AwaitQuarantine, TypeOK
<1> QED
  BY <1>1, <1>2 DEF Enter

\* A call, whether it is served at once or has to wait, keeps every type.
LEMMA CallTypes ==
  ASSUME TypeOK, NEW c \in Callers, NEW r \in Requests, Call(c, r)
  PROVE  TypeOK'
<1>1. CASE FastPath /\ Enter(c, r, waiters)
  BY <1>1, EnterTypes DEF Call, TypeOK
<1>2. CASE ~FastPath /\ Waits(c, r)
  <2>1. waiters' \in Seq(Callers)
    BY <1>2, AppendProperties DEF Waits, TypeOK
  <2> QED
    BY <1>2, <2>1 DEF Waits, Call, TypeOK
<1> QED
  BY <1>1, <1>2 DEF Call

\* A sweep compares with a time that has come.
Timely(r) == r.op = "mark_offline_stale" => r.now <= clock

\* Every way to call an operation is a Call of one of the Requests, and a sweep
\* is called with the present time.
LEMMA CallsAreRequests ==
  ASSUME TypeOK, Next, ~Acquire, ~(\E c \in Cancellable : Cancel(c)), ~Tick
  PROVE  \E c \in Callers, r \in Requests : Call(c, r) /\ Timely(r)
<1> USE ParameterTypes DEF On, Callers, Timely
<1>1. CASE \E c \in On("register"), a \in Agents : Register(c, a)
  <2>1. PICK c \in Callers, a \in Agents : Register(c, a)
    BY <1>1
  <2>2. [op |-> "register", agent |-> a] \in Requests
    BY DEF Requests, AgentRequests
  <2> QED
    BY <2>1, <2>2 DEF Register
<1>2. CASE \E c \in On("unregister"), a \in Agents : Unregister(c, a)
  <2>1. PICK c \in Callers, a \in Agents : Unregister(c, a)
    BY <1>2
  <2>2. [op |-> "unregister", agent |-> a] \in Requests
    BY DEF Requests, AgentRequests
  <2> QED
    BY <2>1, <2>2 DEF Unregister
<1>3. CASE \E c \in On("heartbeat"), a \in Agents, status \in Statuses :
             Heartbeat(c, a, status)
  <2>1. PICK c \in Callers, a \in Agents, status \in Statuses : Heartbeat(c, a, status)
    BY <1>3
  <2>2. [op |-> "heartbeat", agent |-> a, status |-> status] \in Requests
    BY DEF Requests, AgentRequests
  <2> QED
    BY <2>1, <2>2 DEF Heartbeat
<1>4. CASE \E c \in On("dispatch"), task_type \in TaskTypes : Dispatch(c, task_type)
  <2>1. PICK c \in Callers, task_type \in TaskTypes : Dispatch(c, task_type)
    BY <1>4
  <2>2. [op |-> "dispatch", task_type |-> task_type] \in Requests
    BY DEF Requests
  <2> QED
    BY <2>1, <2>2 DEF Dispatch
<1>5. CASE \E c \in On("complete_task"), a \in Agents, success \in BOOLEAN :
             CompleteTask(c, a, success)
  <2>1. PICK c \in Callers, a \in Agents, success \in BOOLEAN : CompleteTask(c, a, success)
    BY <1>5
  <2>2. [op |-> "complete_task", agent |-> a, success |-> success] \in Requests
    BY DEF Requests, AgentRequests
  <2> QED
    BY <2>1, <2>2 DEF CompleteTask
<1>6. CASE \E c \in On("quarantine"), a \in Agents : Quarantine(c, a)
  <2>1. PICK c \in Callers, a \in Agents : Quarantine(c, a)
    BY <1>6
  <2>2. [op |-> "quarantine", agent |-> a] \in Requests
    BY DEF Requests, AgentRequests
  <2> QED
    BY <2>1, <2>2 DEF Quarantine
<1>7. CASE \E c \in On("update_anomaly_score"), a \in Agents, score \in Scores :
             UpdateAnomalyScore(c, a, score)
  <2>1. PICK c \in Callers, a \in Agents, score \in Scores : UpdateAnomalyScore(c, a, score)
    BY <1>7
  <2>2. [op |-> "update_anomaly_score", agent |-> a, score |-> score] \in Requests
    BY DEF Requests, AgentRequests
  <2> QED
    BY <2>1, <2>2 DEF UpdateAnomalyScore
<1>8. CASE MarkOfflineStale
  <2>1. [op |-> "mark_offline_stale", now |-> clock] \in Requests
    BY DEF Requests, TypeOK
  <2> QED
    BY <1>8, <2>1 DEF MarkOfflineStale, TypeOK
<1> QED
  BY <1>1, <1>2, <1>3, <1>4, <1>5, <1>6, <1>7, <1>8 DEF Next

-----------------------------------------------------------------------------
(* The queue and the suspended calls.                                       *)

\* NoCallLost, for any suspended calls p and queue w.
Coherent(p, w) ==
  /\ \A i, j \in 1..Len(w) : w[i] = w[j] => i = j
  /\ \A c \in Callers : p[c] # None <=> \E i \in 1..Len(w) : w[i] = c

\* A coroutine that is in no call may join the end of the queue with one.
LEMMA JoinCoherent ==
  ASSUME NEW p \in [Callers -> Requests \cup {None}], NEW w \in Seq(Callers),
         Coherent(p, w), NEW c \in Callers, p[c] = None, NEW r \in Requests
  PROVE  Coherent([p EXCEPT ![c] = r], Append(w, c))
<1> DEFINE q  == Append(w, c)
           pp == [p EXCEPT ![c] = r]
<1>1. /\ Len(w) \in Nat
      /\ Len(q) = Len(w) + 1
      /\ \A i \in 1..Len(w) : q[i] = w[i]
      /\ q[Len(w) + 1] = c
  BY AppendProperties, LenProperties
<1>2. \A i \in 1..Len(w) : w[i] # c
  BY DEF Coherent
<1>3. r # None
  BY ParameterTypes
<1>4. /\ pp[c] = r
      /\ \A d \in Callers : d # c => pp[d] = p[d]
  OBVIOUS
<1> HIDE DEF q, pp
<1>5. \A i, j \in 1..Len(q) : q[i] = q[j] => i = j
  <2> SUFFICES ASSUME NEW i \in 1..Len(q), NEW j \in 1..Len(q), q[i] = q[j]
               PROVE  i = j
    OBVIOUS
  <2>1. /\ i \in 1..Len(w) \/ i = Len(w) + 1
        /\ j \in 1..Len(w) \/ j = Len(w) + 1
    BY <1>1
  <2> QED
    BY <1>1, <1>2, <2>1 DEF Coherent
<1>6. ASSUME NEW d \in Callers
      PROVE  pp[d] # None <=> \E i \in 1..Len(q) : q[i] = d
  <2>1. CASE d = c
    <3>1. Len(w) + 1 \in 1..Len(q)
      BY <1>1
    <3> QED
      BY <1>1, <1>3, <1>4, <2>1, <3>1
  <2>2. CASE d # c
    <3>1. (\E i \in 1..Len(q) : q[i] = d) <=> (\E i \in 1..Len(w) : w[i] = d)
      <4>1. \A i \in 1..Len(q) : i \in 1..Len(w) \/ i = Len(w) + 1
        BY <1>1
      <4>2. \A i \in 1..Len(w) : i \in 1..Len(q)
        BY <1>1
      <4> QED
        BY <1>1, <2>2, <4>1, <4>2
    <3> QED
      BY <1>4, <2>2, <3>1 DEF Coherent
  <2> QED
    BY <2>1, <2>2
<1> QED
  BY <1>5, <1>6 DEF Coherent, q, pp

\* v is the queue w without the waiter at position i: when that waiter's call
\* ends, queue and calls still match.
LEMMA LeaveCoherent ==
  ASSUME NEW p \in [Callers -> Requests \cup {None}], NEW w \in Seq(Callers),
         Coherent(p, w), NEW i \in 1..Len(w), NEW v \in Seq(Callers),
         Len(v) = Len(w) - 1,
         \A j \in 1..Len(v) : v[j] = IF j < i THEN w[j] ELSE w[j + 1]
  PROVE  Coherent([p EXCEPT ![w[i]] = None], v)
<1> DEFINE c  == w[i]
           pp == [p EXCEPT ![c] = None]
<1>1. Len(w) \in Nat /\ i \in Nat
  BY LenProperties
<1>2. c \in Callers
  BY ElementOfSeq
<1>3. \A j \in 1..Len(v) : j \in 1..Len(w) /\ j + 1 \in 1..Len(w)
  BY <1>1
<1>4. /\ pp[c] = None
      /\ \A d \in Callers : d # c => pp[d] = p[d]
  BY <1>2
<1> HIDE DEF c, pp
<1>5. \A j, k \in 1..Len(v) : v[j] = v[k] => j = k
  <2> SUFFICES ASSUME NEW j \in 1..Len(v), NEW k \in 1..Len(v), v[j] = v[k]
               PROVE  j = k
    OBVIOUS
  <2> DEFINE from(n) == IF n < i THEN n ELSE n + 1
  <2>1. v[j] = w[from(j)] /\ v[k] = w[from(k)]
    OBVIOUS
  <2>2. from(j) \in 1..Len(w) /\ from(k) \in 1..Len(w)
    BY <1>3
  <2>3. from(j) = from(k)
    <3> HIDE DEF from
    <3>1. w[from(j)] = w[from(k)]
      BY <2>1
    <3> QED
      BY <2>2, <3>1 DEF Coherent
  <2> QED
    BY <1>1, <2>3
<1>6. \A j \in 1..Len(v) : v[j] # c
  <2> SUFFICES ASSUME NEW j \in 1..Len(v), v[j] = c
               PROVE  FALSE
    OBVIOUS
  <2>1. CASE j < i
    <3>1. w[j] = w[i]
      BY <2>1 DEF c
    <3> QED
      BY <1>1, <1>3, <2>1, <3>1 DEF Coherent
  <2>2. CASE ~(j < i)
    <3>1. w[j + 1] = w[i]
      BY <2>2 DEF c
    <3>2. j + 1 = i
      BY <1>3, <3>1 DEF Coherent
    <3> QED
      BY <1>1, <2>2, <3>2
  <2> QED
    BY <2>1, <2>2
<1>7. ASSUME NEW d \in Callers
      PROVE  pp[d] # None <=> \E j \in 1..Len(v) : v[j] = d
  <2>1. CASE d = c
    BY <1>4, <1>6, <2>1
  <2>2. CASE d # c
    <3>1. (\E j \in 1..Len(v) : v[j] = d) => (\E j \in 1..Len(w) : w[j] = d)
      BY <1>3
    <3>2. ASSUME NEW j \in 1..Len(w), w[j] = d
          PROVE  \E k \in 1..Len(v) : v[k] = d
      <4>1. j # i
        BY <2>2, <3>2 DEF c
      <4>2. CASE j < i
        <5>1. j \in 1..Len(v)
          BY <1>1, <4>2
        <5> QED
          BY <3>2, <4>2, <5>1
      <4>3. CASE j > i
        <5>1. j - 1 \in 1..Len(v) /\ ~(j - 1 < i) /\ (j - 1) + 1 = j
          BY <1>1, <4>3
        <5> QED
          BY <3>2, <5>1
      <4> QED
        BY <1>1, <4>1, <4>2, <4>3
    <3> QED
      BY <1>4, <2>2, <3>1, <3>2 DEF Coherent
  <2> QED
    BY <2>1, <2>2
<1> QED
  BY <1>5, <1>7 DEF Coherent, c, pp

\* NoCallLost is inductive together with the types.
QueueInv == TypeOK /\ NoCallLost

\* The property speaks of the queue and the suspended calls as they are.
LEMMA NoCallLostIsCoherent == NoCallLost <=> Coherent(pending, waiters)
BY DEF NoCallLost, Coherent

\* When c enters with the rest of the queue coherent without it, it stays so.
LEMMA EnterCoherent ==
  ASSUME TypeOK, NEW c \in Callers, NEW r \in Requests, NEW q \in Seq(Callers),
         Coherent([pending EXCEPT ![c] = None], q), Enter(c, r, q)
  PROVE  NoCallLost'
<1> DEFINE p == [pending EXCEPT ![c] = None]
<1>1. p \in [Callers -> Requests \cup {None}] /\ p[c] = None
  BY DEF TypeOK
<1>2. CASE Serve(r) /\ pending' = p /\ waiters' = q
  BY <1>2, NoCallLostIsCoherent DEF Coherent, NoCallLost
<1>3. CASE pending' = [pending EXCEPT ![c] = r] /\ waiters' = Append(q, c)
  <2>1. [pending EXCEPT ![c] = r] = [p EXCEPT ![c] = r]
    BY DEF TypeOK
  <2>2. Coherent([p EXCEPT ![c] = r], Append(q, c))
    <3> HIDE DEF p
    <3> QED
      BY <1>1, JoinCoherent DEF p
  <2> QED
    BY <1>3, <2>1, <2>2 DEF Coherent, NoCallLost
<1> QED
  BY <1>2, <1>3 DEF Enter

\* A call keeps the queue and the suspended calls matched.
LEMMA CallCoherent ==
  ASSUME QueueInv, NEW c \in Callers, NEW r \in Requests, Call(c, r)
  PROVE  NoCallLost'
<1>1. /\ pending \in [Callers -> Requests \cup {None}]
      /\ waiters \in Seq(Callers)
      /\ Coherent(pending, waiters)
      /\ pending[c] = None
  BY NoCallLostIsCoherent DEF QueueInv, TypeOK, Call
<1>2. CASE Enter(c, r, waiters)
  <2>1. pending = [pending EXCEPT ![c] = None]
    BY <1>1
  <2> QED
    BY <1>1, <1>2, <2>1, EnterCoherent DEF QueueInv
<1>3. CASE Waits(c, r)
  <2>1. Coherent([pending EXCEPT ![c] = r], Append(waiters, c))
    BY <1>1, JoinCoherent
  <2> QED
    BY <1>3, <2>1 DEF Waits, Coherent, NoCallLost
<1> QED
  BY <1>2, <1>3 DEF Call

\* The first waiter is a suspended caller, and the queue without it is coherent.
LEMMA FirstWaiter ==
  ASSUME QueueInv, waiters # <<>>
  PROVE  /\ Head(waiters) \in Callers
         /\ pending[Head(waiters)] \in Requests
         /\ Tail(waiters) \in Seq(Callers)
         /\ Coherent([pending EXCEPT ![Head(waiters)] = None], Tail(waiters))
<1> DEFINE h == Head(waiters)
           v == Tail(waiters)
<1>1. /\ waiters \in Seq(Callers)
      /\ pending \in [Callers -> Requests \cup {None}]
      /\ Coherent(pending, waiters)
  BY NoCallLostIsCoherent DEF QueueInv, TypeOK
<1>2. /\ h \in Callers
      /\ h = waiters[1]
      /\ 1 \in 1..Len(waiters)
      /\ v \in Seq(Callers)
      /\ Len(v) = Len(waiters) - 1
      /\ \A j \in 1..Len(v) : v[j] = waiters[j + 1]
  BY <1>1, HeadTailProperties, LenProperties, EmptySeq
<1>3. pending[h] \in Requests
  BY <1>1, <1>2 DEF Coherent
<1>4. \A j \in 1..Len(v) : v[j] = IF j < 1 THEN waiters[j] ELSE waiters[j + 1]
  BY <1>2
<1> HIDE DEF v
<1>5. Coherent([pending EXCEPT ![waiters[1]] = None], v)
  BY <1>1, <1>2, <1>4, LeaveCoherent
<1> QED
  BY <1>2, <1>3, <1>5 DEF v

\* One step keeps the types and loses no call.
LEMMA QueueStep ==
  ASSUME QueueInv, [Next]_vars
  PROVE  QueueInv'
<1>1. CASE \E c \in Callers, r \in Requests : Call(c, r)
  BY <1>1, CallTypes, CallCoherent DEF QueueInv
<1>2. CASE Acquire
  <2>1. TypeOK'
    BY <1>2, FirstWaiter, EnterTypes DEF Acquire, QueueInv
  <2>2. NoCallLost'
    BY <1>2, FirstWaiter, EnterCoherent DEF Acquire, QueueInv
  <2> QED
    BY <2>1, <2>2 DEF QueueInv
<1>3. CASE \E c \in Cancellable : Cancel(c)
  <2>1. PICK c \in Cancellable : Cancel(c)
    BY <1>3
  <2>2. PICK i \in 1..Len(waiters) : waiters[i] = c /\ waiters' = RemoveAt(waiters, i)
    BY <2>1 DEF Cancel, Leaves
  <2>3. waiters \in Seq(Callers) /\ pending \in [Callers -> Requests \cup {None}]
    BY DEF QueueInv, TypeOK
  <2>4. /\ waiters' \in Seq(Callers)
        /\ Len(waiters') = Len(waiters) - 1
        /\ \A j \in 1..Len(waiters') :
             waiters'[j] = IF j < i THEN waiters[j] ELSE waiters[j + 1]
    BY <2>2, <2>3, RemoveAtProperties
  <2>5. TypeOK'
    <3>1. abandoned' \in [Agents -> BOOLEAN]
      BY <2>1 DEF Cancel, QueueInv, TypeOK
    <3> QED
      BY <2>1, <2>4, <3>1 DEF Cancel, QueueInv, TypeOK
  <2>6. Coherent([pending EXCEPT ![waiters[i]] = None], waiters')
    BY <2>3, <2>4, LeaveCoherent, NoCallLostIsCoherent DEF QueueInv
  <2>7. NoCallLost'
    BY <2>1, <2>2, <2>6 DEF Cancel, Coherent, NoCallLost
  <2> QED
    BY <2>5, <2>7 DEF QueueInv
<1>4. CASE Tick
  BY <1>4 DEF Tick, QueueInv, TypeOK, NoCallLost
<1>5. CASE UNCHANGED vars
  BY <1>5 DEF vars, QueueInv, TypeOK, NoCallLost
<1> QED
  BY <1>1, <1>2, <1>3, <1>4, <1>5, CallsAreRequests DEF QueueInv

\* At the start no coroutine is in a call.
LEMMA QueueInit == Init => QueueInv
<1> SUFFICES ASSUME Init PROVE QueueInv
  OBVIOUS
<1>1. TypeOK
  BY EmptySeq, LengthenTypes DEF Init, TypeOK
<1>2. NoCallLost
  BY DEF Init, NoCallLost
<1> QED
  BY <1>1, <1>2 DEF QueueInv

\* The pool, the lock and the suspended calls stay well-typed, whatever the
\* agents, the handlers and the order of their calls.
THEOREM TypeCorrect == Spec => []TypeOK
<1>1. QueueInv => TypeOK
  BY DEF QueueInv
<1> QED
  BY <1>1, QueueInit, QueueStep, PTL DEF Spec

\* No suspended call is ever lost from the lock's queue or queued twice, through
\* any sequence of calls, wake-ups and cancellations.
THEOREM CallsAreNeverLost == Spec => []NoCallLost
<1>1. QueueInv => NoCallLost
  BY DEF QueueInv
<1> QED
  BY <1>1, QueueInit, QueueStep, PTL DEF Spec

-----------------------------------------------------------------------------
(* What one step can be, as far as the pool and the lock are concerned.     *)

Serves ==
  /\ lock = None
  /\ lock' = None
  /\ \E r \in Requests : Serve(r)

Condemns ==
  /\ lock = None
  /\ \E c \in Callers, r \in Requests :
       AwaitQuarantine(c, r) /\ pending' = [pending EXCEPT ![c] = r]

Bystands ==
  /\ UNCHANGED <<agents, lock, streak, abandoned>>
  /\ \A c \in Callers : pending[c] # None => pending'[c] = pending[c]

\* Every step serves a request, condemns an agent, cancels a call, or leaves the
\* pool, the lock and the calls already suspended alone.
LEMMA StepKinds ==
  ASSUME QueueInv, [Next]_vars
  PROVE  \/ Serves
         \/ Condemns
         \/ Bystands
         \/ \E c \in Cancellable : Cancel(c)
<1>1. ASSUME NEW c \in Callers, NEW r \in Requests, NEW q, lock = None, Enter(c, r, q)
      PROVE  Serves \/ Condemns
  BY <1>1 DEF Enter, Serves, Condemns
<1>2. CASE \E c \in Callers, r \in Requests : Call(c, r)
  <2>1. PICK c \in Callers, r \in Requests : Call(c, r)
    BY <1>2
  <2>2. CASE FastPath /\ Enter(c, r, waiters)
    BY <1>1, <2>2 DEF FastPath
  <2>3. CASE Waits(c, r)
    <3>1. \A d \in Callers : pending[d] # None => pending'[d] = pending[d]
      BY <2>1, <2>3 DEF Waits, Call, QueueInv, TypeOK
    <3> QED
      BY <2>3, <3>1 DEF Waits, Bystands
  <2> QED
    BY <2>1, <2>2, <2>3 DEF Call
<1>3. CASE Acquire
  BY <1>1, <1>3, FirstWaiter DEF Acquire
<1>4. CASE Tick \/ UNCHANGED vars
  BY <1>4 DEF Tick, vars, Bystands
<1> QED
  BY <1>2, <1>3, <1>4, CallsAreRequests DEF QueueInv

\* What serving a request does to the suspicion of one agent.
Fresh(a) ==
  agents'[a].suspicion_count = 0 /\ streak'[a] = NoRow /\ ~abandoned'[a]

Untouched(a) ==
  /\ Known(a)
  /\ agents'[a].suspicion_count = agents[a].suspicion_count
  /\ streak'[a] = streak[a]
  /\ abandoned'[a] = abandoned[a]

ScoredWith(a, score) ==
  /\ Known(a)
  /\ agents'[a].suspicion_count = Suspicion(agents[a].suspicion_count, score)
  /\ streak'[a] = Lengthen(streak[a], score)
  /\ abandoned'[a] = abandoned[a]

\* The bookkeeping of a score concerns one agent.
LEMMA ScoreCounts ==
  ASSUME TypeOK, NEW r \in Requests, r.op = "update_anomaly_score",
         Known(r.agent), Score(r), NEW a \in Agents, Known(a)'
  PROVE  /\ r.agent \in Agents
         /\ r.score \in Nat
         /\ IF a = r.agent THEN ScoredWith(a, r.score) ELSE Untouched(a)
         /\ agents'[r.agent] = Scored(agents[r.agent], r.score)
<1>1. r.agent \in Agents /\ r.score \in Nat
  BY ParameterTypes DEF Requests, AgentRequests
<1>2. agents'[r.agent] = Scored(agents[r.agent], r.score)
  BY <1>1 DEF Score, TypeOK
<1>3. agents[r.agent] \in AgentRecord
  BY <1>1 DEF TypeOK, Known
<1>4. Scored(agents[r.agent], r.score).suspicion_count
        = Suspicion(agents[r.agent].suspicion_count, r.score)
  BY <1>3 DEF Scored, AgentRecord
<1>5. CASE a = r.agent
  BY <1>1, <1>2, <1>4, <1>5 DEF Score, TypeOK, ScoredWith
<1>6. CASE a # r.agent
  BY <1>1, <1>2, <1>6 DEF Score, TypeOK, Untouched, Known
<1> QED
  BY <1>1, <1>2, <1>5, <1>6

\* A served request makes an agent's record afresh, leaves its suspicion alone,
\* or scores it without reaching a quarantine.
LEMMA ServeCounts ==
  ASSUME TypeOK, NEW r \in Requests, Serve(r), NEW a \in Agents, Known(a)'
  PROVE  \/ Fresh(a)
         \/ Untouched(a)
         \/ \E score \in Nat : /\ ScoredWith(a, score)
                               /\ \/ score <= Cutoff
                                  \/ agents'[a].suspicion_count < Threshold
<1>0. /\ agents \in [Agents -> AgentRecord \cup {None}]
      /\ streak \in [Agents -> Rows]
      /\ abandoned \in [Agents -> BOOLEAN]
      /\ agents'[a] # None
  BY DEF TypeOK, Known
<1>a. \A rec \in AgentRecord :
        /\ \A status, now : Heard(rec, status, now).suspicion_count = rec.suspicion_count
        /\ \A stale : SweptIf(stale, rec).suspicion_count = rec.suspicion_count
        /\ \A success : Finished(rec, success).suspicion_count = rec.suspicion_count
        /\ Quarantined(rec).suspicion_count = rec.suspicion_count
        /\ [rec EXCEPT !.state = "BUSY"].suspicion_count = rec.suspicion_count
  BY DEF AgentRecord, Heard, SweptIf, Finished, Quarantined
<1>1. CASE RegisterBody(r)
  <2>1. r.agent \in Agents
    BY <1>1 DEF RegisterBody, Requests, AgentRequests
  <2>2. CASE a = r.agent
    BY <1>0, <1>1, <2>1, <2>2 DEF RegisterBody, Forget, Fresh, NewRecord
  <2>3. CASE a # r.agent
    BY <1>0, <1>1, <2>1, <2>3 DEF RegisterBody, Forget, Untouched, Known
  <2> QED
    BY <2>2, <2>3
<1>2. CASE UnregisterBody(r)
  <2>1. r.agent \in Agents
    BY <1>2 DEF UnregisterBody, Requests, AgentRequests
  <2> QED
    BY <1>0, <1>2, <2>1 DEF UnregisterBody, Forget, Untouched, Known
<1>3. CASE HeartbeatBody(r)
  BY <1>0, <1>a, <1>3 DEF HeartbeatBody, KeepHistory, Untouched, Known
<1>4. CASE MarkOfflineStaleBody(r)
  BY <1>0, <1>a, <1>4 DEF MarkOfflineStaleBody, KeepHistory, Untouched, Known
<1>5. CASE DispatchBody(r)
  <2>1. CASE UNCHANGED agents
    BY <1>0, <1>5, <2>1 DEF DispatchBody, KeepHistory, Untouched, Known
  <2>2. ASSUME NEW b \in Candidates(r.task_type),
               agents' = [agents EXCEPT ![b].state = "BUSY"]
        PROVE  Untouched(a)
    <3>1. b \in Agents /\ agents[b] \in AgentRecord /\ agents[b] # None
      BY <1>0, <2>2 DEF Candidates, Known
    <3>2. agents'[b] = [agents[b] EXCEPT !.state = "BUSY"]
      BY <1>0, <2>2, <3>1
    <3> QED
      BY <1>0, <1>a, <1>5, <2>2, <3>1, <3>2
      DEF DispatchBody, KeepHistory, Untouched, Known
  <2> QED
    BY <1>5, <2>1, <2>2 DEF DispatchBody
<1>6. CASE CompleteTaskBody(r)
  BY <1>0, <1>a, <1>6 DEF CompleteTaskBody, KeepHistory, Untouched, Known
<1>7. CASE QuarantineBody(r)
  BY <1>0, <1>a, <1>7 DEF QuarantineBody, KeepHistory, Untouched, Known
<1>8. CASE UpdateAnomalyScoreBody(r)
  <2>1. CASE UNCHANGED agents /\ KeepHistory
    BY <1>0, <2>1 DEF KeepHistory, Untouched, Known
  <2>2. CASE Known(r.agent) /\ ~Condemned(Scored(agents[r.agent], r.score)) /\ Score(r)
    <3>1. /\ r.agent \in Agents
          /\ r.score \in Nat
          /\ IF a = r.agent THEN ScoredWith(a, r.score) ELSE Untouched(a)
          /\ agents'[r.agent] = Scored(agents[r.agent], r.score)
      BY <1>8, <2>2, ScoreCounts DEF UpdateAnomalyScoreBody
    <3>2. CASE a = r.agent
      <4>1. agents[a] \in AgentRecord
        BY <1>0, <2>2, <3>2 DEF Known
      <4>2. /\ agents'[a] \in AgentRecord
            /\ agents'[a].anomaly_score = r.score
        <5>1. agents'[a] = Scored(agents[a], r.score)
          BY <3>1, <3>2
        <5>2. clock \in Nat
          BY DEF TypeOK
        <5>3. Scored(agents[a], r.score) \in AgentRecord
          BY <3>1, <4>1, <5>2, RecordsAreRecords
        <5>4. Scored(agents[a], r.score).anomaly_score = r.score
          BY <4>1 DEF Scored, AgentRecord
        <5> QED
          BY <5>1, <5>3, <5>4
      <4>3. ~(agents'[a].anomaly_score > Cutoff /\ agents'[a].suspicion_count >= Threshold)
        BY <2>2, <3>1, <3>2 DEF Condemned
      <4>4. \/ r.score <= Cutoff
            \/ agents'[a].suspicion_count < Threshold
        BY <3>1, <4>2, <4>3 DEF AgentRecord, Cutoff, Threshold
      <4> QED
        BY <3>1, <3>2, <4>4
    <3>3. CASE a # r.agent
      BY <3>1, <3>3
    <3> QED
      BY <3>2, <3>3
  <2> QED
    BY <1>8, <2>1, <2>2 DEF UpdateAnomalyScoreBody
<1> QED
  BY <1>1, <1>2, <1>3, <1>4, <1>5, <1>6, <1>7, <1>8 DEF Serve

-----------------------------------------------------------------------------
(* Who holds the lock, and what suspicion_count means.                      *)

\* One step keeps the held lock a self-wait.
LEMMA HeldLockStep ==
  ASSUME QueueInv, QueueInv', HeldLockIsSelfWait, [Next]_vars
  PROVE  HeldLockIsSelfWait'
<1>0. /\ agents \in [Agents -> AgentRecord \cup {None}]
      /\ lock \in Callers \cup {None}
      /\ lock' \in Callers \cup {None}
      /\ pending \in [Callers -> Requests \cup {None}]
      /\ \A c \in Callers : pending'[c] # None => \E i \in 1..Len(waiters') : waiters'[i] = c
  BY DEF QueueInv, TypeOK, NoCallLost
<1>1. CASE Serves
  BY <1>1 DEF Serves, HeldLockIsSelfWait
<1>2. CASE Condemns
  <2>1. PICK c \in Callers, r \in Requests :
          AwaitQuarantine(c, r) /\ pending' = [pending EXCEPT ![c] = r]
    BY <1>2 DEF Condemns
  <2>2. /\ r.agent \in Agents
        /\ agents'[r.agent] = Scored(agents[r.agent], r.score)
        /\ Known(r.agent)
        /\ Condemned(Scored(agents[r.agent], r.score))
    <3>1. r.agent \in Agents
      BY <2>1 DEF AwaitQuarantine, Requests, AgentRequests
    <3> QED
      BY <1>0, <2>1, <3>1 DEF AwaitQuarantine, Score
  <2>3. agents'[r.agent] # None
    <3>1. r.score \in Nat
      BY <2>1, ParameterTypes DEF AwaitQuarantine, Requests, AgentRequests
    <3>2. agents[r.agent] \in AgentRecord /\ clock \in Nat
      BY <1>0, <2>2 DEF Known, QueueInv, TypeOK
    <3>3. Scored(agents[r.agent], r.score) \in AgentRecord
      BY <3>1, <3>2, RecordsAreRecords
    <3> QED
      BY <2>2, <3>3, ParameterTypes
  <2>4. /\ lock' = c
        /\ pending'[c] = r
        /\ r # None
        /\ r.op = "update_anomaly_score"
    BY <1>0, <2>1, ParameterTypes DEF AwaitQuarantine
  <2> QED
    BY <1>0, <2>2, <2>3, <2>4 DEF HeldLockIsSelfWait, Known
<1>3. CASE Bystands
  BY <1>0, <1>3 DEF Bystands, HeldLockIsSelfWait, Known
<1>4. CASE \E c \in Callers : Cancel(c)
  <2>1. PICK c \in Callers : Cancel(c)
    BY <1>4
  <2>2. CASE lock = c
    BY <2>1, <2>2 DEF Cancel, HeldLockIsSelfWait
  <2>3. CASE lock # c
    <3>1. lock' = lock /\ agents' = agents
      BY <2>1, <2>3 DEF Cancel
    <3>2. lock # None => pending'[lock] = pending[lock]
      BY <1>0, <2>1, <2>3 DEF Cancel
    <3> QED
      BY <1>0, <3>1, <3>2 DEF HeldLockIsSelfWait, Known
  <2> QED
    BY <2>2, <2>3
<1> QED
  BY <1>1, <1>2, <1>3, <1>4, StepKinds, ParameterTypes DEF Callers

\* Whenever the event loop finds the lock held, the owner is an
\* update_anomaly_score call waiting for itself: for every set of agents,
\* handlers and scores, no other operation is ever caught holding it.
THEOREM LockIsHeldBySelfWaiters == Spec => []HeldLockIsSelfWait
<1> DEFINE I == QueueInv /\ HeldLockIsSelfWait
<1>1. Init => I
  BY QueueInit DEF Init, HeldLockIsSelfWait
<1>2. I /\ [Next]_vars => I'
  BY QueueStep, HeldLockStep
<1>3. I => HeldLockIsSelfWait
  OBVIOUS
<1> QED
  BY <1>1, <1>2, <1>3, PTL DEF Spec

\* Only a disconnecting client of the owner gives a taken lock back, and until
\* then nobody changes the pool.
HeldLockFreezes ==
  lock # None =>
    /\ agents' = agents
    /\ lock' = lock \/ (lock \in Cancellable /\ Cancel(lock))

\* What automatic quarantine does to the pool, in every instance: from the moment
\* the lock is taken over a step, no agent changes, the condemned one included,
\* which therefore is not quarantined; and only the cancellation of the very
\* stream that condemned it ends that.
THEOREM HeldLockFreezesPool == Spec => [][HeldLockFreezes]_vars
<1>1. QueueInv /\ [Next]_vars => HeldLockFreezes
  <2> SUFFICES ASSUME QueueInv, [Next]_vars, lock # None
               PROVE  /\ agents' = agents
                      /\ lock' = lock \/ (lock \in Cancellable /\ Cancel(lock))
    BY DEF HeldLockFreezes
  <2>1. ASSUME NEW c \in Cancellable, Cancel(c)
        PROVE  agents' = agents /\ (lock' = lock \/ (lock \in Cancellable /\ Cancel(lock)))
    <3>1. agents' = agents /\ (lock = c \/ lock' = lock)
      BY <2>1 DEF Cancel
    <3> QED
      BY <2>1, <3>1
  <2>2. ~Serves /\ ~Condemns
    BY DEF Serves, Condemns
  <2>3. CASE Bystands
    BY <2>3 DEF Bystands
  <2> QED
    BY <2>1, <2>2, <2>3, StepKinds
<1> QED
  BY <1>1, QueueInit, QueueStep, PTL DEF Spec

\* Where no client disconnects, the first automatic quarantine is the end of the
\* pool: a lock that is taken stays taken and no agent ever changes again.
THEOREM WithoutCancellationNothingMoves ==
  ASSUME Cancellable = {}
  PROVE  Spec => [][lock # None => lock' = lock /\ agents' = agents]_vars
<1>1. [HeldLockFreezes]_vars => [lock # None => lock' = lock /\ agents' = agents]_vars
  BY DEF HeldLockFreezes, vars
<1> QED
  BY <1>1, HeldLockFreezesPool, PTL

\* What suspicion_count is, in terms of the current row of suspicious windows:
\* never below it, unless a window scored exactly the cutoff; and, while no
\* automatic quarantine of this registration was cancelled, never above it and at
\* the threshold only while the call that brought it there still holds the lock.
NotBehind(row, count) == row.edge \/ row.length <= count

CountInv ==
  \A a \in Agents :
    Known(a) =>
      /\ NotBehind(streak[a], agents[a].suspicion_count)
      /\ ~abandoned[a] =>
           /\ agents[a].suspicion_count <= streak[a].length
           /\ agents[a].suspicion_count >= Threshold =>
                lock # None /\ pending[lock].agent = a

\* The arithmetic of one scored window.
LEMMA ScoreArithmetic ==
  ASSUME NEW n \in Nat, NEW row \in Rows, NEW score \in Nat, NotBehind(row, n)
  PROVE  /\ NotBehind(Lengthen(row, score), Suspicion(n, score))
         /\ n <= row.length /\ n < Threshold =>
              Suspicion(n, score) <= Lengthen(row, score).length
         /\ score <= Cutoff /\ n < Threshold => Suspicion(n, score) < Threshold
<1>1. row.length \in 0..Threshold /\ row.edge \in BOOLEAN
  BY DEF Rows
<1>2. CASE score < Cutoff
  <2>1. Lengthen(row, score).length = 0
    BY <1>2 DEF Lengthen, NoRow
  <2> QED
    BY <1>1, <1>2, <2>1 DEF NotBehind, Suspicion, Threshold, Cutoff
<1>3. CASE ~(score < Cutoff)
  <2>1. /\ Lengthen(row, score).length =
             IF row.length < Threshold THEN row.length + 1 ELSE row.length
        /\ Lengthen(row, score).edge = (row.edge \/ score = Cutoff)
    BY <1>3 DEF Lengthen
  <2>2. /\ n <= row.length /\ n < Threshold =>
             Suspicion(n, score) <= Lengthen(row, score).length
        /\ score <= Cutoff /\ n < Threshold => Suspicion(n, score) < Threshold
    BY <1>1, <1>3, <2>1 DEF Suspicion, Threshold, Cutoff
  <2>3. CASE row.edge \/ score = Cutoff
    <3>1. Lengthen(row, score).edge
      BY <2>1, <2>3
    <3> QED
      BY <2>2, <3>1 DEF NotBehind
  <2>4. CASE ~row.edge /\ score # Cutoff
    <3>1. row.length <= n /\ score > Cutoff
      BY <1>3, <2>4 DEF NotBehind, Cutoff
    <3>2. Lengthen(row, score).length <= Suspicion(n, score)
      BY <1>1, <2>1, <3>1 DEF Suspicion, Threshold
    <3> QED
      BY <2>2, <3>2 DEF NotBehind
  <2> QED
    BY <2>3, <2>4
<1> QED
  BY <1>2, <1>3

\* One step keeps suspicion_count in step with the row of suspicious windows.
LEMMA CountStep ==
  ASSUME QueueInv, QueueInv', HeldLockIsSelfWait, CountInv, [Next]_vars
  PROVE  CountInv'
<1>0. /\ agents \in [Agents -> AgentRecord \cup {None}]
      /\ lock \in Callers \cup {None}
      /\ pending \in [Callers -> Requests \cup {None}]
      /\ streak \in [Agents -> Rows]
      /\ abandoned \in [Agents -> BOOLEAN]
  BY DEF QueueInv, TypeOK
<1>a. ASSUME NEW a \in Agents, Known(a)
      PROVE  /\ agents[a].suspicion_count \in Nat
             /\ streak[a] \in Rows
             /\ NotBehind(streak[a], agents[a].suspicion_count)
             /\ ~abandoned[a] /\ lock = None =>
                  /\ agents[a].suspicion_count <= streak[a].length
                  /\ agents[a].suspicion_count < Threshold
  <2>1. agents[a] \in AgentRecord
    BY <1>0, <1>a DEF Known
  <2>2. agents[a].suspicion_count \in Nat
    BY <2>1 DEF AgentRecord
  <2> QED
    BY <1>0, <1>a, <2>2 DEF CountInv, Threshold
<1>b. ASSUME NEW a \in Agents, Known(a)', agents'[a].suspicion_count < Threshold
      PROVE  ~(agents'[a].suspicion_count >= Threshold)
  <2>1. agents'[a] \in AgentRecord
    BY <1>b DEF QueueInv, TypeOK, Known
  <2> QED
    BY <1>b, <2>1 DEF AgentRecord, Threshold
<1>1. CASE Serves
  <2> SUFFICES ASSUME NEW a \in Agents, Known(a)'
               PROVE  /\ NotBehind(streak'[a], agents'[a].suspicion_count)
                      /\ ~abandoned'[a] =>
                           /\ agents'[a].suspicion_count <= streak'[a].length
                           /\ agents'[a].suspicion_count < Threshold
    BY <1>b DEF CountInv
  <2>1. PICK r \in Requests : Serve(r)
    BY <1>1 DEF Serves
  <2>2. lock = None
    BY <1>1 DEF Serves
  <2>3. CASE Fresh(a)
    BY <2>3 DEF Fresh, NoRow, NotBehind, Threshold
  <2>4. CASE Untouched(a)
    BY <1>a, <2>2, <2>4 DEF Untouched
  <2>5. ASSUME NEW score \in Nat, ScoredWith(a, score),
               score <= Cutoff \/ agents'[a].suspicion_count < Threshold
        PROVE  /\ NotBehind(streak'[a], agents'[a].suspicion_count)
               /\ ~abandoned'[a] =>
                    /\ agents'[a].suspicion_count <= streak'[a].length
                    /\ agents'[a].suspicion_count < Threshold
    BY <1>a, <2>2, <2>5, ScoreArithmetic DEF ScoredWith
  <2> QED
    BY <2>1, <2>3, <2>4, <2>5, ServeCounts DEF QueueInv
<1>2. CASE Condemns
  <2>1. PICK c \in Callers, r \in Requests :
          AwaitQuarantine(c, r) /\ pending' = [pending EXCEPT ![c] = r]
    BY <1>2 DEF Condemns
  <2>2. lock = None /\ lock' = c /\ c # None /\ pending'[c] = r
    BY <1>0, <1>2, <2>1, ParameterTypes DEF Condemns, AwaitQuarantine
  <2>3. ASSUME NEW a \in Agents, Known(a)'
        PROVE  /\ NotBehind(streak'[a], agents'[a].suspicion_count)
               /\ ~abandoned'[a] => agents'[a].suspicion_count <= streak'[a].length
               /\ ~abandoned'[a] /\ a # r.agent => agents'[a].suspicion_count < Threshold
    <3>1. /\ r.score \in Nat
          /\ IF a = r.agent THEN ScoredWith(a, r.score) ELSE Untouched(a)
      BY <2>1, <2>3, ScoreCounts DEF AwaitQuarantine, QueueInv
    <3>2. CASE a = r.agent
      BY <1>a, <2>2, <3>1, <3>2, ScoreArithmetic DEF ScoredWith
    <3>3. CASE a # r.agent
      BY <1>a, <2>2, <3>1, <3>3 DEF Untouched
    <3> QED
      BY <3>2, <3>3
  <2> QED
    BY <1>b, <2>2, <2>3 DEF CountInv
<1>3. CASE Bystands
  BY <1>0, <1>3 DEF Bystands, CountInv, HeldLockIsSelfWait, Known
<1>4. CASE \E c \in Callers : Cancel(c)
  <2>1. PICK c \in Callers : Cancel(c)
    BY <1>4
  <2>2. CASE lock = c
    <3>1. c # None
      BY ParameterTypes
    <3>2. pending[c].agent \in Agents
      BY <1>0, <2>2, <3>1 DEF HeldLockIsSelfWait, Requests, AgentRequests
    <3>3. /\ agents' = agents
          /\ streak' = streak
          /\ abandoned' = [abandoned EXCEPT ![pending[c].agent] = TRUE]
      BY <2>1, <2>2 DEF Cancel
    <3> QED
      BY <1>0, <2>2, <3>2, <3>3 DEF CountInv, Known
  <2>3. CASE lock # c
    BY <1>0, <2>1, <2>3 DEF Cancel, CountInv, Known
  <2> QED
    BY <2>2, <2>3
<1> QED
  BY <1>1, <1>2, <1>3, <1>4, StepKinds, ParameterTypes DEF Callers

\* The three invariants together are inductive.
LEMMA CountAlways ==
  Spec => [](QueueInv /\ HeldLockIsSelfWait /\ CountInv)
<1> DEFINE I == QueueInv /\ HeldLockIsSelfWait /\ CountInv
<1>1. Init => I
  BY QueueInit DEF Init, HeldLockIsSelfWait, CountInv, Known
<1>2. I /\ [Next]_vars => I'
  BY QueueStep, HeldLockStep, CountStep
<1> QED
  BY <1>1, <1>2, PTL DEF Spec

\* suspicion_count never falls behind the current row of suspicious windows, as
\* README.md:178-186 counts them, unless one scored exactly the cutoff.
THEOREM StreaksAreCounted == Spec => []StreakIsCounted
<1>1. CountInv => StreakIsCounted
  BY DEF CountInv, NotBehind, StreakIsCounted
<1> QED
  BY <1>1, CountAlways, PTL

\* An agent is at the quarantine threshold only after suspicious windows in a
\* row, unless an earlier automatic quarantine of it was cancelled.
THEOREM ThresholdIsConsecutive == Spec => []ThresholdMeansConsecutive
<1>1. QueueInv /\ CountInv => ThresholdMeansConsecutive
  <2> SUFFICES ASSUME QueueInv, CountInv, NEW a \in Agents, Known(a),
                      agents[a].suspicion_count >= Threshold, ~abandoned[a]
               PROVE  streak[a].length >= Threshold
    BY DEF ThresholdMeansConsecutive
  <2>1. agents[a].suspicion_count \in Nat /\ streak[a].length \in Nat
    BY DEF QueueInv, TypeOK, Known, AgentRecord, Rows, Threshold
  <2>2. agents[a].suspicion_count <= streak[a].length
    BY DEF CountInv
  <2> QED
    BY <2>1, <2>2 DEF Threshold
<1> QED
  BY <1>1, CountAlways, PTL

-----------------------------------------------------------------------------
(* Who goes offline.                                                        *)

\* No suspended sweep is ahead of the clock.
SweepsArePast == \A c \in Callers : pending[c] # None => Timely(pending[c])

\* What OfflineOnlyWhenSilent says of one agent.
GoesOffline(a) ==
  /\ Known(a)
  /\ agents[a].state # "OFFLINE"
  /\ agents'[a] # None
  /\ agents'[a].state = "OFFLINE"

SilentOrSaidSo(a) ==
  \/ agents'[a].last_heartbeat = clock
  \/ /\ clock - agents[a].last_heartbeat > Timeout
     /\ agents[a].state # "QUARANTINED"

\* A score changes no agent's state.
LEMMA ScoringKeepsState ==
  ASSUME TypeOK, NEW r \in Requests, Known(r.agent), Score(r),
         NEW a \in Agents, Known(a)
  PROVE  agents'[a].state = agents[a].state
<1>1. agents \in [Agents -> AgentRecord \cup {None}] /\ agents[a] \in AgentRecord
  BY DEF TypeOK, Known
<1>2. agents'[a] = IF a = r.agent THEN Scored(agents[a], r.score) ELSE agents[a]
  BY <1>1 DEF Score
<1>3. Scored(agents[a], r.score).state = agents[a].state
  BY <1>1 DEF Scored, AgentRecord
<1> QED
  BY <1>2, <1>3

\* Of all requests only a sweep or a heartbeat can take an agent offline.
LEMMA ServedOffline ==
  ASSUME TypeOK, NEW r \in Requests, Serve(r), Timely(r),
         NEW a \in Agents, GoesOffline(a)
  PROVE  SilentOrSaidSo(a)
<1>0. /\ agents \in [Agents -> AgentRecord \cup {None}]
      /\ agents[a] \in AgentRecord
      /\ agents[a] # None
      /\ clock \in Nat
      /\ Timeout \in Nat
  BY ParameterTypes DEF TypeOK, GoesOffline, Known
<1> USE DEF GoesOffline
<1>1. CASE RegisterBody(r)
  BY <1>0, <1>1 DEF RegisterBody, NewRecord
<1>2. CASE UnregisterBody(r)
  BY <1>0, <1>2 DEF UnregisterBody
<1>3. CASE HeartbeatBody(r)
  <2>1. agents'[a] = IF a = r.agent THEN Heard(agents[a], r.status, clock) ELSE agents[a]
    BY <1>0, <1>3 DEF HeartbeatBody
  <2>2. Heard(agents[a], r.status, clock).last_heartbeat = clock
    BY <1>0 DEF Heard, AgentRecord
  <2> QED
    BY <2>1, <2>2 DEF SilentOrSaidSo
<1>4. CASE MarkOfflineStaleBody(r)
  <2>1. agents'[a] = SweptIf(Stale(agents[a], r.now, Timeout), agents[a])
    BY <1>0, <1>4 DEF MarkOfflineStaleBody, Known
  <2>2. Stale(agents[a], r.now, Timeout)
    BY <2>1 DEF SweptIf
  <2>3. r.now \in Nat /\ r.now <= clock
    BY <1>4 DEF MarkOfflineStaleBody, Timely, Requests, AgentRequests
  <2>4. agents[a].last_heartbeat \in Nat
    BY <1>0 DEF AgentRecord
  <2> QED
    BY <1>0, <2>2, <2>3, <2>4 DEF Stale, SilentOrSaidSo
<1>5. CASE DispatchBody(r)
  BY <1>0, <1>5 DEF DispatchBody, AgentRecord
<1>6. CASE CompleteTaskBody(r)
  BY <1>0, <1>6 DEF CompleteTaskBody, Finished, AgentRecord
<1>7. CASE QuarantineBody(r)
  BY <1>0, <1>7 DEF QuarantineBody, Quarantined, AgentRecord
<1>8. CASE UpdateAnomalyScoreBody(r)
  <2>1. CASE UNCHANGED agents
    BY <2>1
  <2>2. CASE Known(r.agent) /\ Score(r)
    BY <2>2, ScoringKeepsState
  <2> QED
    BY <1>8, <2>1, <2>2 DEF UpdateAnomalyScoreBody
<1> QED
  BY <1>1, <1>2, <1>3, <1>4, <1>5, <1>6, <1>7, <1>8 DEF Serve

\* Entering the critical section takes an agent offline only by serving.
LEMMA EnteredOffline ==
  ASSUME TypeOK, NEW c \in Callers, NEW r \in Requests, NEW q, Enter(c, r, q),
         Timely(r), NEW a \in Agents, GoesOffline(a)
  PROVE  SilentOrSaidSo(a)
<1>1. CASE AwaitQuarantine(c, r)
  BY <1>1, ScoringKeepsState DEF AwaitQuarantine, GoesOffline
<1> QED
  BY <1>1, ServedOffline DEF Enter

\* A step keeps suspended sweeps in the past and takes only silent agents, or
\* agents that say so themselves, offline.
LEMMA OfflineStep ==
  ASSUME QueueInv, SweepsArePast, [Next]_vars
  PROVE  /\ SweepsArePast'
         /\ \A a \in Agents : GoesOffline(a) => SilentOrSaidSo(a)
<1>0. /\ pending \in [Callers -> Requests \cup {None}]
      /\ TypeOK
      /\ clock \in Nat
  BY DEF QueueInv, TypeOK
<1>1. ASSUME NEW c \in Callers, NEW r \in Requests, Call(c, r), Timely(r)
      PROVE  /\ SweepsArePast'
             /\ \A a \in Agents : GoesOffline(a) => SilentOrSaidSo(a)
  <2>1. CASE FastPath /\ Enter(c, r, waiters)
    <3>1. SweepsArePast'
      BY <1>0, <1>1, <2>1 DEF Call, Enter, SweepsArePast, Timely
    <3> QED
      BY <1>0, <1>1, <2>1, <3>1, EnteredOffline
  <2>2. CASE Waits(c, r)
    <3>1. SweepsArePast'
      BY <1>0, <1>1, <2>2 DEF Call, Waits, SweepsArePast, Timely
    <3> QED
      BY <2>2, <3>1 DEF Waits, GoesOffline
  <2> QED
    BY <1>1, <2>1, <2>2 DEF Call
<1>2. CASE Acquire
  <2> DEFINE h == Head(waiters)
  <2>1. h \in Callers /\ pending[h] \in Requests
    BY <1>2, FirstWaiter DEF Acquire
  <2>2. Timely(pending[h]) /\ clock' = clock /\ Enter(h, pending[h], Tail(waiters))
    BY <1>2, <2>1, ParameterTypes DEF SweepsArePast, Acquire
  <2> HIDE DEF h
  <2>3. SweepsArePast'
    BY <1>0, <2>1, <2>2 DEF Enter, SweepsArePast, Timely
  <2> QED
    BY <1>0, <2>1, <2>2, <2>3, EnteredOffline
<1>3. CASE \E c \in Cancellable : Cancel(c)
  BY <1>0, <1>3, ParameterTypes DEF Cancel, SweepsArePast, Timely, GoesOffline, Callers
<1>4. CASE Tick
  <2>1. ASSUME NEW c \in Callers, pending'[c] # None
        PROVE  Timely(pending[c])'
    <3>1. pending'[c] = pending[c] /\ pending[c] \in Requests /\ clock' = clock + 1
      BY <1>0, <1>4, <2>1 DEF Tick
    <3>2. pending[c].op = "mark_offline_stale" =>
            pending[c].now \in Nat /\ pending[c].now <= clock
      BY <2>1, <3>1 DEF SweepsArePast, Timely, Requests, AgentRequests
    <3> QED
      BY <1>0, <3>1, <3>2 DEF Timely
  <2> QED
    BY <1>4, <2>1 DEF Tick, SweepsArePast, GoesOffline
<1>5. CASE UNCHANGED vars
  BY <1>5 DEF vars, SweepsArePast, Timely, GoesOffline
<1> QED
  BY <1>0, <1>1, <1>2, <1>3, <1>4, <1>5, CallsAreRequests

\* However long a sweep waits for the lock, it takes no agent offline that was
\* heard from within the timeout, and lifts no quarantine.
THEOREM OnlySilentAgentsAreSwept == Spec => OfflineOnlyWhenSilent
<1> DEFINE I == QueueInv /\ SweepsArePast
           Step == \A a \in Agents : GoesOffline(a) => SilentOrSaidSo(a)
<1>1. Init => I
  BY QueueInit DEF Init, SweepsArePast
<1>2. I /\ [Next]_vars => I' /\ Step
  BY QueueStep, OfflineStep
<1>3. [Step]_vars => [\A a \in Agents :
         /\ Known(a)
         /\ agents[a].state # "OFFLINE"
         /\ agents'[a] # None
         /\ agents'[a].state = "OFFLINE"
         => \/ agents'[a].last_heartbeat = clock
            \/ /\ clock - agents[a].last_heartbeat > Timeout
               /\ agents[a].state # "QUARANTINED"]_vars
  BY DEF GoesOffline, SilentOrSaidSo
<1> QED
  BY <1>1, <1>2, <1>3, PTL DEF Spec, OfflineOnlyWhenSilent
=============================================================================
