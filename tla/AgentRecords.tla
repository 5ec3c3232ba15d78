---------------------------- MODULE AgentRecords ----------------------------
(***************************************************************************)
(* The record the orchestrator keeps of one agent (AgentRecord in          *)
(* orchestrator/task_scheduler.py) and what each operation of              *)
(* TaskScheduler does to it.  No state of its own: TaskScheduler says when *)
(* these happen, and to which agent.                                       *)
(*                                                                         *)
(* Left out of the record: label, sdk_version, registered_at, session_id   *)
(* (written once, never read by the scheduler) and current_task_id (only   *)
(* ever assigned None).  Scores are in hundredths, time in ticks.          *)
(***************************************************************************)
EXTENDS Integers

AgentState == {"IDLE", "BUSY", "QUARANTINED", "OFFLINE"}

\* What an agent may report in a heartbeat (AgentStatus in proto/mesh.proto).
AgentStatus == {"UNSPECIFIED", "IDLE", "BUSY", "ERROR", "QUARANTINED", "OFFLINE"}

AgentRecord ==
  [state           : AgentState,
   last_heartbeat  : Nat,
   tasks_completed : Nat,
   tasks_failed    : Nat,
   anomaly_score   : Nat,
   suspicion_count : Nat]

\* score > 0.65 in update_anomaly_score.
Cutoff == 65

\* QUARANTINE_SUSPICION_THRESHOLD
Threshold == 2

\* register: a fresh record, whatever the pool held for this agent before.
NewRecord(now) ==
  [state |-> "IDLE", last_heartbeat |-> now, tasks_completed |-> 0,
   tasks_failed |-> 0, anomaly_score |-> 0, suspicion_count |-> 0]

\* status_map of heartbeat, with its default.
StateOf(status) ==
  CASE status \in {"IDLE", "ERROR"}        -> "IDLE"
    [] status \in {"UNSPECIFIED", "OFFLINE"} -> "OFFLINE"
    [] OTHER                               -> status

\* mutant: a heartbeat starts the agent's record afresh
HeardAnew(rec, status, now) == [NewRecord(now) EXCEPT !.state = StateOf(status)]

Heard(rec, status, now) ==
  [rec EXCEPT !.last_heartbeat = now, !.state = StateOf(status)]

\* mutant: a quarantined agent is swept like any other
StaleSweepsAll(rec, now, timeout) ==
  /\ now - rec.last_heartbeat > timeout
  /\ rec.state # "OFFLINE"

\* mark_offline_stale, for one agent and the time sampled before the lock.
Stale(rec, now, timeout) ==
  /\ now - rec.last_heartbeat > timeout
  /\ rec.state \notin {"OFFLINE", "QUARANTINED"}

SweptIf(stale, rec) == IF stale THEN [rec EXCEPT !.state = "OFFLINE"] ELSE rec

\* complete_task: the agent becomes IDLE whatever its state was.
Finished(rec, success) ==
  [rec EXCEPT !.tasks_completed = IF success THEN @ + 1 ELSE @,
              !.tasks_failed    = IF success THEN @ ELSE @ + 1,
              !.state           = "IDLE"]

Quarantined(rec) == [rec EXCEPT !.state = "QUARANTINED"]

\* mutant: the count is lowered without the floor at zero
SuspicionUnfloored(count, score) == IF score > Cutoff THEN count + 1 ELSE count - 1

\* mutant: calm windows never lower the count
SuspicionStubborn(count, score) == IF score > Cutoff THEN count + 1 ELSE count

\* A suspicious window raises the count, any other lowers it, never below zero.
Suspicion(count, score) ==
  IF score > Cutoff THEN count + 1 ELSE IF count > 0 THEN count - 1 ELSE 0

\* update_anomaly_score up to the decision to quarantine.
Scored(rec, score) ==
  [rec EXCEPT !.anomaly_score   = score,
              !.suspicion_count = Suspicion(@, score)]

\* Whether update_anomaly_score now calls quarantine: `rec` is already scored.
Condemned(rec) == rec.anomaly_score > Cutoff /\ rec.suspicion_count >= Threshold

\* The key dispatch minimises.
DispatchKey(rec) == rec.tasks_completed - rec.tasks_failed
=============================================================================
