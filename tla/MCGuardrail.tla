---------------------------- MODULE MCGuardrail ----------------------------
(* Definitions that the .cfg files of Guardrail give its constants. *)
EXTENDS Guardrail, TLC

CONSTANTS a1, a2

\* client.py raises the counter twice for each packet it sends.  Three numbers are
\* enough to prune a window of one, to drop a number and to see it again.
FewNumbers == {2, 4, 6}
Contents == 2 :> "data" @@ 4 :> "empty" @@ 6 :> "oversize"

\* One agent uses them all and reconnects; the other has a token to lend.
NumbersOfBoth == a1 :> FewNumbers @@ a2 :> {4}
EpochsOfBoth == a1 :> 2 @@ a2 :> 1
=============================================================================
