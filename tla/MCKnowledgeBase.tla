-------------------------- MODULE MCKnowledgeBase --------------------------
(* Definitions that the .cfg file of KnowledgeBase gives its constants. *)
EXTENDS KnowledgeBase, TLC

CONSTANTS x1, x2, x3

KeywordMatches == x1 :> 3 @@ x2 :> 16 @@ x3 :> 2
=============================================================================
