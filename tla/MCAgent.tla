------------------------------ MODULE MCAgent ------------------------------
(***************************************************************************)
(* The agent's side: a MeshAgent either runs itself (agent_sdk/main.py) or *)
(* is driven by an adapter, which connects it and never calls run.  The    *)
(* two share nothing but the class, so one instance takes either part.     *)
(***************************************************************************)
EXTENDS AgentClient, Adapter, TLC

CONSTANTS c1, c2, c3

VARIABLE adapted  \* whether the agent belongs to an adapter

agentVars == <<adapted, vars, adapterVars>>

AgentInit == adapted \in BOOLEAN /\ Init /\ AdapterInit

AgentNext ==
  \/ ~adapted /\ Next /\ UNCHANGED <<adapted, adapterVars>>
  \/ adapted /\ AdapterNext /\ UNCHANGED <<adapted, vars>>

\* The part not taken stays as it began, where nothing of it that is fair can happen.
AgentSpec == AgentInit /\ [][AgentNext]_agentVars /\ Fairness /\ AdapterFairness

-----------------------------------------------------------------------------
(* Definitions that the .cfg file gives the constants. *)

Good == [allowed |-> TRUE, handled |-> TRUE, raises |-> FALSE, oversize |-> FALSE,
         overtime |-> FALSE]

SomeTasks == {Good, [Good EXCEPT !.overtime = TRUE]}

MixedKinds == c1 :> "execute_task" @@ c2 :> "wrap_tool" @@ c3 :> "ainvoke"
=============================================================================
