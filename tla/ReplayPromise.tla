--------------------------- MODULE ReplayPromise ---------------------------
(***************************************************************************)
(* What the replay gate of the guardrail keeps, without its sets and       *)
(* their pruning: every sequence number of a session is let through the    *)
(* first time it is offered, unless it is hopelessly late; and it is let   *)
(* through again only if it is far behind the newest one.  The last clause *)
(* is the code's, not README.md's: line 124 rejects every duplicate, which *)
(* the gate does not (DuplicatesAreRefused).                               *)
(***************************************************************************)
EXTENDS Integers

CONSTANTS
  Sessions,   \* session ids
  Numbers,    \* the sequence numbers in use
  Near,       \* a repeat less than this far behind the newest is always caught
  Far,        \* a number this far behind the newest may be refused unseen
  None        \* nothing was said of any number

VARIABLES
  taken,      \* the numbers let through in each session
  newest,     \* the highest of them, zero at first
  verdict     \* what was last said of a number: [session, seq, fresh] or None

promise == <<taken, newest, verdict>>

Said(session, seq, fresh) == [session |-> session, seq |-> seq, fresh |-> fresh]

Init ==
  /\ taken   = [s \in Sessions |-> {}]
  /\ newest  = [s \in Sessions |-> 0]
  /\ verdict = None

\* A number that is far behind the newest may have been forgotten, and a duplicate
\* of it passes.
Accept(s, n) ==
  /\ n \in taken[s] => n <= newest[s] - Near
  /\ taken'   = [taken EXCEPT ![s] = @ \cup {n}]
  /\ newest'  = [newest EXCEPT ![s] = IF n > @ THEN n ELSE @]
  /\ verdict' = Said(s, n, TRUE)

Refuse(s, n) ==
  /\ n \in taken[s] \/ n <= newest[s] - Far
  /\ verdict' = Said(s, n, FALSE)
  /\ UNCHANGED <<taken, newest>>

\* Nothing is being asked of the gate.
Rest == verdict' = None /\ UNCHANGED <<taken, newest>>

Next == Rest \/ \E s \in Sessions, n \in Numbers : Accept(s, n) \/ Refuse(s, n)

Spec == Init /\ [][Next]_promise
=============================================================================
