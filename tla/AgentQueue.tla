----------------------------- MODULE AgentQueue -----------------------------
(***************************************************************************)
(* The bound of MeshAgent's queue of pending results, which the agent's    *)
(* own run and the adapters that drive an agent share.                     *)
(***************************************************************************)
EXTENDS Naturals

CONSTANT QueueMax  \* maxsize of _pending_results

ASSUME QueueParameter == QueueMax \in Nat \ {0}
=============================================================================
