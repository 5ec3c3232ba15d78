---------------------------- MODULE MCLlmClients ----------------------------
(* Definitions that the .cfg file of LlmClients gives its constants. *)
EXTENDS LlmClients

CONSTANTS t1, t2

TwoTasks == <<t1, t2>>
=============================================================================
