------------------------------- MODULE MCMesh -------------------------------
(* Definitions that the .cfg files of Mesh give its constants. *)
EXTENDS Mesh

CONSTANTS stream1, stream2, unary

\* A task stream also quarantines; the other calls are short.
ByCall ==
  stream1 :> {"complete_task", "update_anomaly_score", "quarantine"}
  @@ stream2 :> {"complete_task", "update_anomaly_score", "quarantine"}
  @@ unary :> {"register", "heartbeat", "quarantine"}

AllCapable == [a \in Agents |-> TaskTypes]
=============================================================================
