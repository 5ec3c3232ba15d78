-------------------------- MODULE MCTaskScheduler --------------------------
(* Definitions that the .cfg files of TaskScheduler give its constants. *)
EXTENDS TaskScheduler

CONSTANTS stream, unary

AllCapable == [a \in Agents |-> TaskTypes]

\* server.py: a task stream reports results and scores, and quarantines; the
\* other calls come from short-lived handlers.
ByHandler ==
  stream :> {"complete_task", "update_anomaly_score", "quarantine"}
  @@ unary :> {"register", "unregister", "heartbeat", "dispatch"}
=============================================================================
