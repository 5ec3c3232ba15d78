--------------------------- MODULE KnowledgeBase ---------------------------
(***************************************************************************)
(* self_update/crawl4ai_pipeline.py: update cycles that fetch papers and   *)
(* vulnerability alerts and write them into one Markdown file, with a      *)
(* SQLite database of what has been added before.                          *)
(*                                                                         *)
(* The daemon's scheduler and "--now" are processes of their own.  They    *)
(* share the file and the database; nothing makes a cycle one step.        *)
(***************************************************************************)
EXTENDS Naturals, Sequences, SequencesExt

CONSTANTS
  Processes,    \* the daemon and the calls of --now
  Papers,       \* versions of papers, by their arXiv id: "arXiv:...v1"
  Alerts,       \* vulnerabilities, by their CVE id
  Matches,      \* how many of the 16 keywords each paper matches
  Excluded,     \* papers that match an excluding keyword
  MaxFetched,   \* bound of a run: papers of one fetch that pass the filter
  MaxCycles     \* bound of a run: cycles

ASSUME KnowledgeBaseParameters ==
  /\ Papers \cap Alerts = {}
  /\ Matches \in [Papers -> 0..16]
  /\ Excluded \subseteq Papers
  /\ MaxFetched \in Nat
  /\ MaxCycles \in Nat

VARIABLES
  file,      \* the knowledge base on disk
  known,     \* the tables known_papers and cve_alerts
  at,        \* where each process is in its cycle
  content,   \* the content each process works on
  todo,      \* papers, then alerts, it has still to look at
  fetched,   \* the alerts it fetched
  new,       \* new_rows, then new_cve_rows
  cycles,    \* cycles begun
  calm,      \* history: no crash, no two cycles at once, no file without its table
  apart      \* history: no process emptied the file while another was to write it

vars == <<file, known, at, content, todo, fetched, new, cycles, calm, apart>>

Items == Papers \cup Alerts

\* How many rows each item has; where in the text they stand is left out.
RowCounts == [Items -> Nat]
NoRows == [x \in Items |-> 0]
Plus(r, s) == [x \in Items |-> r[x] + s[x]]

\* What can be left of some rows: the tail of their text.  Which rows that is
\* depends on the lengths, so any of them.
Leftovers(r) ==
  {s \in [Items -> UNION {0..r[x] : x \in Items}] : \A x \in Items : s[x] <= r[x]}

\* What a cycle can tell of the content: whether the row that ends the head of
\* the table of papers is there, and the rows of papers and alerts.
Contents == [table : BOOLEAN, rows : RowCounts]
NoContent == [table |-> FALSE, rows |-> NoRows]

\* The shipped file lists papers by other ids than those arXiv answers with.
\* Without a file a cycle changes nothing, so there is one.
Init ==
  /\ file = [NoContent EXCEPT !.table = TRUE]
  /\ known = {}
  /\ at = [p \in Processes |-> "idle"]
  /\ content = [p \in Processes |-> NoContent]
  /\ todo = [p \in Processes |-> <<>>]
  /\ fetched = [p \in Processes |-> <<>>]
  /\ new = [p \in Processes |-> NoRows]
  /\ cycles = 0
  /\ calm = TRUE
  /\ apart = TRUE

-----------------------------------------------------------------------------
(* Fetching *)

\* _compute_relevance, in hundredths; the threshold is 70.
Relevance(x) == IF 50 + 8 * Matches[x] < 95 THEN 50 + 8 * Matches[x] ELSE 95

\* RelevanceFilter.filter
Relevant(x) == Matches[x] > 0 /\ x \notin Excluded /\ Relevance(x) >= 70

\* ArXivFetcher.fetch asks one query after another and keeps what arrived: a
\* query that fails is skipped, and a paper may answer several.
PaperBatches == {b \in BoundedSeq(Papers, MaxFetched) : \A i \in DOMAIN b : Relevant(b[i])}

\* CVEfetcher.fetch answers everything, or nothing when anything fails.
AlertBatches == BoundedSeq(Alerts, 1)

-----------------------------------------------------------------------------
(* One cycle: run_cycle and update_knowledge_base *)

Idle(p) == at[p] = "idle"

\* The content is read once, when everything has been fetched.
Begin(p) ==
  /\ Idle(p)
  /\ cycles < MaxCycles
  /\ \E papers \in PaperBatches, alerts \in AlertBatches :
       /\ todo' = [todo EXCEPT ![p] = papers]
       /\ fetched' = [fetched EXCEPT ![p] = alerts]
  /\ at' = [at EXCEPT ![p] = "papers"]
  /\ content' = [content EXCEPT ![p] = file]
  /\ new' = [new EXCEPT ![p] = NoRows]
  /\ cycles' = cycles + 1
  /\ calm' = (calm /\ \A q \in Processes \ {p} : Idle(q))
  /\ UNCHANGED <<file, known, apart>>

Sections == {"papers", "alerts"}
Marking(s) == IF s = "papers" THEN "mark paper" ELSE "mark alert"

\* is_known, is_cve_notified
Check(p, s) ==
  /\ at[p] = s
  /\ todo[p] # <<>>
  /\ IF Head(todo[p]) \in known
     THEN /\ todo' = [todo EXCEPT ![p] = Tail(@)]
          /\ UNCHANGED at
     ELSE /\ at' = [at EXCEPT ![p] = Marking(s)]
          /\ UNCHANGED todo
  /\ UNCHANGED <<file, known, content, fetched, new, cycles, calm, apart>>

\* mutant: a failed INSERT is not noticed
MarkNothing(p, s) ==
  /\ at[p] = Marking(s)
  /\ new' = [new EXCEPT ![p][Head(todo[p])] = @ + 1]
  /\ todo' = [todo EXCEPT ![p] = Tail(@)]
  /\ at' = [at EXCEPT ![p] = s]
  /\ UNCHANGED <<file, known, content, fetched, cycles, calm, apart>>

\* The row, and mark_known with its commit: INSERT OR IGNORE does not say
\* whether another process was first.
Mark(p, s) ==
  /\ at[p] = Marking(s)
  /\ new' = [new EXCEPT ![p][Head(todo[p])] = @ + 1]
  /\ known' = known \cup {Head(todo[p])}
  /\ todo' = [todo EXCEPT ![p] = Tail(@)]
  /\ at' = [at EXCEPT ![p] = s]
  /\ UNCHANGED <<file, content, fetched, cycles, calm, apart>>

\* mutant: the rows go in at both ends of the table
PapersDoneTwice(p) ==
  /\ at[p] = "papers"
  /\ todo[p] = <<>>
  /\ content' = [content EXCEPT ![p].rows = IF content[p].table
                                            THEN Plus(Plus(@, new[p]), new[p]) ELSE @]
  /\ calm' = (calm /\ (new[p] = NoRows \/ content[p].table))
  /\ new' = [new EXCEPT ![p] = NoRows]
  /\ todo' = [todo EXCEPT ![p] = fetched[p]]
  /\ at' = [at EXCEPT ![p] = "alerts"]
  /\ UNCHANGED <<file, known, fetched, cycles, apart>>

\* The new rows go under the head of the table.  Without one they are dropped,
\* known as they are.
PapersDone(p) ==
  /\ at[p] = "papers"
  /\ todo[p] = <<>>
  /\ content' = [content EXCEPT ![p].rows = IF content[p].table THEN Plus(@, new[p]) ELSE @]
  /\ calm' = (calm /\ (new[p] = NoRows \/ content[p].table))
  /\ new' = [new EXCEPT ![p] = NoRows]
  /\ todo' = [todo EXCEPT ![p] = fetched[p]]
  /\ at' = [at EXCEPT ![p] = "alerts"]
  /\ UNCHANGED <<file, known, fetched, cycles, apart>>

\* The alerts go to the end.  Opening the file to write empties it.
Truncate(p) ==
  /\ at[p] = "alerts"
  /\ todo[p] = <<>>
  /\ content' = [content EXCEPT ![p].rows = Plus(@, new[p])]
  /\ new' = [new EXCEPT ![p] = NoRows]
  /\ file' = NoContent
  /\ at' = [at EXCEPT ![p] = "write"]
  /\ apart' = (apart /\ \A q \in Processes \ {p} : at[q] # "write")
  /\ UNCHANGED <<known, todo, fetched, cycles, calm>>

\* Nothing of a cycle is kept in memory.
Over(p) ==
  /\ at' = [at EXCEPT ![p] = "idle"]
  /\ content' = [content EXCEPT ![p] = NoContent]
  /\ todo' = [todo EXCEPT ![p] = <<>>]
  /\ fetched' = [fetched EXCEPT ![p] = <<>>]
  /\ new' = [new EXCEPT ![p] = NoRows]

\* The whole content, from the start of the file: of what another process wrote
\* there since the file was emptied, the tail of a longer text stays.
Write(p) ==
  /\ at[p] = "write"
  /\ \E left \in Leftovers(file.rows), table \in {FALSE, file.table} :
       file' = [table |-> content[p].table \/ table, rows |-> Plus(content[p].rows, left)]
  /\ Over(p)
  /\ UNCHANGED <<known, cycles, calm, apart>>

\* The process stops, and starts again: what it had in memory is gone.
Crash(p) ==
  /\ ~Idle(p)
  /\ Over(p)
  /\ calm' = FALSE
  /\ UNCHANGED <<file, known, cycles, apart>>

Step(p) ==
  \/ \E s \in Sections : Check(p, s) \/ Mark(p, s)
  \/ PapersDone(p)
  \/ Truncate(p)
  \/ Write(p)

Next == \E p \in Processes : Begin(p) \/ Step(p) \/ Crash(p)

Spec == Init /\ [][Next]_vars

-----------------------------------------------------------------------------
(* Properties *)

Points == {"idle", "papers", "mark paper", "alerts", "mark alert", "write"}

\* Every variable keeps its type.
TypeOK ==
  /\ file \in Contents
  /\ known \subseteq Items
  /\ at \in [Processes -> Points]
  /\ content \in [Processes -> Contents]
  /\ todo \in [Processes -> Seq(Items)]
  /\ fetched \in [Processes -> Seq(Alerts)]
  /\ new \in [Processes -> RowCounts]
  /\ cycles \in 0..MaxCycles
  /\ calm \in BOOLEAN
  /\ apart \in BOOLEAN

\* No paper and no alert has two rows (crawl4ai_pipeline.py:8 "Deduplication by
\* DOI/arXiv ID"), however cycles of several processes interleave between the
\* question whether it is known and the rewriting of the file, and wherever they
\* crash, as long as no process ever emptied the file between another's emptying
\* and its write: the text of the one then ends in the tail of the other's.
NoDuplicateRows == apart => \A x \in Items : file.rows[x] <= 1

Listed(r) == {x \in Items : r[x] > 0}
Written == Listed(file.rows)

\* What has a row is marked known, so that no later cycle adds it again: through
\* overlaps, tails of other texts, crashes, and marks that another process made.
RowsAreKnown == Written \subseteq known

\* Between cycles everything that is marked known is in the file, as long as no
\* cycle crashed, no two overlapped, and the file kept the head of its table.
KnownIsWritten ==
  calm /\ (\A p \in Processes : Idle(p)) => known = Written
=============================================================================
