----------------------------- MODULE AuditTrail -----------------------------
(***************************************************************************)
(* orchestrator/audit_trail.py: the table of audit events, which survives  *)
(* a restart of the orchestrator, and the hash of the last entry, which is *)
(* read back from the table when it is opened.  A hash is modelled by what *)
(* it is computed from, so that different entries have different hashes.   *)
(***************************************************************************)
EXTENDS Integers, Sequences

CONSTANTS
  EventTypes,     \* EVENT_TYPES
  SnapshotEvery,  \* entries between two Merkle roots, 1000 in record
  MaxCalls,       \* bound of a run: calls of record
  Null            \* Python's None

VARIABLES
  table,        \* audit_log, in the order of id
  roots,        \* merkle_roots: the entries under each stored root
  initialized,  \* _initialized
  last_hash,    \* _last_hash
  entry_count,  \* _entry_count
  recorded      \* history: how often record was given a known event

vars == <<table, roots, initialized, last_hash, entry_count, recorded>>

Init ==
  /\ table       = <<>>
  /\ roots       = <<>>
  /\ initialized = FALSE
  /\ last_hash   = ""
  /\ entry_count = 0
  /\ recorded    = 0

\* initialize selects a column next to COUNT(*): the row exists even if the
\* table is empty, with NULL for the hash; in a table with entries the hash is
\* that of any one of them, as SQLite leaves open which.
StoredHashes ==
  IF table = <<>> THEN {Null} ELSE {table[i].entry_hash : i \in 1..Len(table)}

\* The hash and the count record continues from: it initializes if need be.
Continuations ==
  IF initialized THEN {[previous |-> last_hash, count |-> entry_count]}
  ELSE [previous : StoredHashes, count : {Len(table)}]

Initialize ==
  /\ ~initialized
  /\ initialized' = TRUE
  /\ last_hash' \in StoredHashes
  /\ entry_count' = Len(table)
  /\ UNCHANGED <<table, roots, recorded>>

Entry(event, previous) ==
  [event_type |-> event, previous_hash |-> previous,
   entry_hash |-> <<recorded, event, previous>>]

\* The INSERT meets previous_hash TEXT NOT NULL: record raises IntegrityError.
RefusedByTable(previous, count) ==
  /\ previous = Null
  /\ last_hash' = previous
  /\ entry_count' = count
  /\ UNCHANGED <<table, roots>>

Stored(event, previous, count) ==
  /\ previous # Null
  /\ table' = Append(table, Entry(event, previous))
  /\ last_hash' = Entry(event, previous).entry_hash
  /\ entry_count' = count + 1
  /\ roots' = IF entry_count' % SnapshotEvery = 0 THEN Append(roots, table') ELSE roots

Record(event) ==
  /\ recorded < MaxCalls
  /\ recorded' = recorded + 1
  /\ initialized' = TRUE
  /\ \E c \in Continuations :
       RefusedByTable(c.previous, c.count) \/ Stored(event, c.previous, c.count)

\* The orchestrator stops, in any way, and starts with a new AuditTrail.
Restart ==
  /\ initialized
  /\ initialized' = FALSE
  /\ last_hash' = ""
  /\ entry_count' = 0
  /\ UNCHANGED <<table, roots, recorded>>

Next == Initialize \/ (\E event \in EventTypes : Record(event)) \/ Restart

Spec == Init /\ [][Next]_vars

-----------------------------------------------------------------------------
\* "Every agent action is recorded in an append-only, tamper-evident log"
\* (orchestrator/audit_trail.py:4): what record is called with is in the table,
\* across restarts.
EveryActionIsRecorded == Len(table) = recorded
=============================================================================
