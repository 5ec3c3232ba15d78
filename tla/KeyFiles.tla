------------------------------ MODULE KeyFiles ------------------------------
(***************************************************************************)
(* orchestrator/token_issuer.py: the two key files that every process      *)
(* loads, or makes when they are missing.  The daemon and `--gen-keys` do  *)
(* so without knowing of each other, and either may die at any point.      *)
(*                                                                         *)
(* A key pair is a number; the file of a pair's public half holds the same *)
(* number.                                                                 *)
(***************************************************************************)
EXTENDS Naturals

CONSTANTS
  Processes,
  Absent,     \* a file that does not exist, a key that is not loaded yet
  Empty,      \* a file that was opened for writing and not written
  MaxPairs    \* bound of a run: pairs that are generated

VARIABLES
  file,    \* the content of each file
  held,    \* _private_key and _public_key of each process's issuer
  turn,    \* the key that TokenIssuer.__init__ is about to load
  making,  \* whether it found the file missing, and has opened it since
  pairs,   \* pairs generated so far
  raced,   \* history: a key was made while another process loaded or made its own
  cut      \* history: a process died between opening a file and writing it

Files == {"private", "public"}
NoKeys == [f \in Files |-> Absent]

KeysInit ==
  /\ file = NoKeys
  /\ held = [p \in Processes |-> NoKeys]
  /\ turn = [p \in Processes |-> "none"]
  /\ making = [p \in Processes |-> "no"]
  /\ pairs = 0
  /\ raced = FALSE
  /\ cut = FALSE

Racing ==
  \E p, q \in Processes :
    /\ p # q
    /\ making[p] # "no"
    /\ turn[q] \in Files

\* Each key in turn, then the issuer is ready.
Turns(p, f) == turn' = [turn EXCEPT ![p] = IF f = "private" THEN "public" ELSE "ready"]

-----------------------------------------------------------------------------

BeginKeys(p) ==
  /\ turn[p] = "none"
  /\ turn' = [turn EXCEPT ![p] = "private"]
  /\ UNCHANGED <<file, held, making, pairs, cut>>

Load(p, f) ==
  /\ turn[p] = f /\ making[p] = "no"
  /\ file[f] \notin {Absent, Empty}
  /\ held' = [held EXCEPT ![p][f] = file[f]]
  /\ Turns(p, f)
  /\ UNCHANGED <<file, making, pairs, cut>>

\* An empty file exists, and no key can be read from it.
LoadFails(p, f) ==
  /\ turn[p] = f /\ making[p] = "no"
  /\ file[f] = Empty
  /\ turn' = [turn EXCEPT ![p] = "failed"]
  /\ UNCHANGED <<file, held, making, pairs, cut>>

\* mutant: a private key is made at every start
MissingAlways(p, f) ==
  /\ turn[p] = f /\ making[p] = "no"
  /\ file[f] = Absent \/ f = "private"
  /\ making' = [making EXCEPT ![p] = "make"]
  /\ UNCHANGED <<file, held, turn, pairs, cut>>

Missing(p, f) ==
  /\ turn[p] = f /\ making[p] = "no"
  /\ file[f] = Absent
  /\ making' = [making EXCEPT ![p] = "make"]
  /\ UNCHANGED <<file, held, turn, pairs, cut>>

\* A new private key takes a while to generate, a public key is derived; then
\* the file is opened, which empties it if it has come to exist since.
Open(p, f) ==
  /\ turn[p] = f /\ making[p] = "make"
  /\ f = "private" => pairs < MaxPairs
  /\ pairs' = IF f = "private" THEN pairs + 1 ELSE pairs
  /\ held' = [held EXCEPT ![p][f] = IF f = "private" THEN pairs + 1 ELSE held[p]["private"]]
  /\ file' = [file EXCEPT ![f] = Empty]
  /\ making' = [making EXCEPT ![p] = "write"]
  /\ UNCHANGED <<turn, cut>>

Write(p, f) ==
  /\ turn[p] = f /\ making[p] = "write"
  /\ file' = [file EXCEPT ![f] = held[p][f]]
  /\ making' = [making EXCEPT ![p] = "no"]
  /\ Turns(p, f)
  /\ UNCHANGED <<held, pairs, cut>>

\* The process ends, on its own or not: its memory is gone, the files stay.
EndKeys(p) ==
  /\ turn[p] # "none"
  /\ turn' = [turn EXCEPT ![p] = "none"]
  /\ making' = [making EXCEPT ![p] = "no"]
  /\ held' = [held EXCEPT ![p] = NoKeys]
  /\ cut' = (cut \/ making[p] = "write")
  /\ UNCHANGED <<file, pairs>>

Noticed == raced' = (raced \/ Racing')

\* What TokenIssuer.__init__ does once it has begun.
KeyStep(p) ==
  /\ \E f \in Files : Load(p, f) \/ LoadFails(p, f) \/ Missing(p, f) \/ Open(p, f) \/ Write(p, f)
  /\ Noticed
Begins(p) == BeginKeys(p) /\ Noticed
Ends(p) == EndKeys(p) /\ Noticed

-----------------------------------------------------------------------------
(* Properties *)

\* Unless two processes made keys at the same time, the two keys an issuer works
\* with belong together, whatever happened to earlier processes, and a process
\* fails to get its keys only after another was stopped while it wrote a file.
KeysAgree ==
  raced \/ \A p \in Processes :
             /\ turn[p] = "ready" => held[p]["private"] = held[p]["public"]
             /\ turn[p] = "failed" => cut
=============================================================================
