------------------------ MODULE KnowledgeBaseProofs ------------------------
(***************************************************************************)
(* What the update cycles guarantee for every number of processes, papers  *)
(* and alerts, and wherever they crash: typing, that what has a row is     *)
(* known, that nothing gets a second row while no two processes write at   *)
(* once, and that an undisturbed cycle writes all it marks.                *)
(***************************************************************************)
EXTENDS KnowledgeBase, TLAPS

-----------------------------------------------------------------------------
(* Rows *)

\* No rows at all.
LEMMA Nothing ==
  /\ NoRows \in RowCounts
  /\ Listed(NoRows) = {}
  /\ \A x \in Items : NoRows[x] = 0
  /\ NoContent \in Contents
  /\ NoContent.rows = NoRows
BY DEF NoRows, RowCounts, Listed, NoContent, Contents

\* The rows of two texts, one after the other.
LEMMA PlusRows ==
  ASSUME NEW r \in RowCounts, NEW s \in RowCounts
  PROVE  /\ Plus(r, s) \in RowCounts
         /\ \A x \in Items : Plus(r, s)[x] = r[x] + s[x]
         /\ Listed(Plus(r, s)) = Listed(r) \cup Listed(s)
<1>1. \A x \in Items : r[x] \in Nat /\ s[x] \in Nat /\ Plus(r, s)[x] = r[x] + s[x]
  BY DEF RowCounts, Plus
<1>2. Plus(r, s) \in RowCounts
  BY DEF RowCounts, Plus
<1>3. \A x \in Items : Plus(r, s)[x] > 0 <=> r[x] > 0 \/ s[x] > 0
  BY <1>1
<1> QED
  BY <1>1, <1>2, <1>3 DEF Listed

\* One row more.
LEMMA OneMoreRow ==
  ASSUME NEW r \in RowCounts, NEW h \in Items, NEW t, t = [r EXCEPT ![h] = @ + 1]
  PROVE  /\ t \in RowCounts
         /\ t[h] = r[h] + 1
         /\ \A x \in Items : x # h => t[x] = r[x]
         /\ Listed(t) = Listed(r) \cup {h}
<1>1. /\ t \in RowCounts
      /\ t[h] = r[h] + 1
      /\ \A x \in Items : x # h => t[x] = r[x]
      /\ r[h] \in Nat
  BY DEF RowCounts
<1>2. t[h] > 0
  BY <1>1
<1> QED
  BY <1>1, <1>2 DEF Listed

\* What is left of some rows.
LEMMA LeftRows ==
  ASSUME NEW r \in RowCounts, NEW s \in Leftovers(r)
  PROVE  /\ s \in RowCounts
         /\ \A x \in Items : s[x] <= r[x]
         /\ Listed(s) \subseteq Listed(r)
<1>1. UNION {0..r[x] : x \in Items} \subseteq Nat
  BY DEF RowCounts
<1>2. s \in RowCounts /\ \A x \in Items : s[x] <= r[x]
  BY <1>1 DEF Leftovers, RowCounts
<1>3. \A x \in Items : s[x] \in Nat /\ r[x] \in Nat
  BY <1>2 DEF RowCounts
<1> QED
  BY <1>2, <1>3 DEF Listed

\* Contents as records.
LEMMA ContentTypes ==
  ASSUME NEW c \in Contents
  PROVE  /\ c.table \in BOOLEAN
         /\ c.rows \in RowCounts
         /\ \A r \in RowCounts : [c EXCEPT !.rows = r] \in Contents
BY DEF Contents

\* The entries of a sequence.
LEMMA Entries ==
  ASSUME NEW S, NEW s \in Seq(S), s # <<>>
  PROVE  Head(s) \in S /\ Tail(s) \in Seq(S)
OBVIOUS

\* Papers and alerts are items; a sequence of bounded length is a sequence.
LEMMA BoundedItems ==
  ASSUME NEW S, S \subseteq Items, NEW n \in Nat, NEW s \in BoundedSeq(S, n)
  PROVE  s \in Seq(Items)
<1>1. PICK m \in 0..n : s \in [1..m -> S]
  BY DEF BoundedSeq, SeqOf
<1> QED
  BY <1>1

\* The alerts of a fetch stay alerts.
LEMMA BoundedAlerts ==
  ASSUME NEW s \in AlertBatches
  PROVE  s \in Seq(Alerts)
<1>1. PICK m \in 0..1 : s \in [1..m -> Alerts]
  BY DEF AlertBatches, BoundedSeq, SeqOf
<1> QED
  BY <1>1

-----------------------------------------------------------------------------
(* What has a row is known *)

Marked == {"mark paper", "mark alert"}

\* All that a cycle holds is known, and one that is about to mark has an item.
CycleOK(p) ==
  /\ Listed(content[p].rows) \subseteq known
  /\ Listed(new[p]) \subseteq known
  /\ at[p] \in Marked => todo[p] # <<>>

Inv ==
  /\ TypeOK
  /\ RowsAreKnown
  /\ \A p \in Processes : CycleOK(p)

\* The types a step of p relies on.
LEMMA OfP ==
  ASSUME TypeOK, NEW p \in Processes
  PROVE  /\ content[p] \in Contents /\ content[p].rows \in RowCounts
         /\ new[p] \in RowCounts /\ todo[p] \in Seq(Items) /\ fetched[p] \in Seq(Alerts)
         /\ file \in Contents /\ file.rows \in RowCounts
BY ContentTypes DEF TypeOK

\* A cycle that does not move keeps what it holds, and marks are kept.
LEMMA CycleStays ==
  ASSUME NEW p \in Processes, CycleOK(p), known \subseteq known',
         UNCHANGED <<at[p], content[p], todo[p], new[p]>>
  PROVE  CycleOK(p)'
BY DEF CycleOK, Listed

\* A process that starts anew holds nothing.
LEMMA OverStays ==
  ASSUME Inv, NEW p \in Processes, Over(p), UNCHANGED <<known, cycles, apart>>,
         file' \in Contents, calm' \in BOOLEAN, RowsAreKnown'
  PROVE  Inv'
<1>1. TypeOK'
  <2>1. <<>> \in Seq(Items) /\ <<>> \in Seq(Alerts)
    OBVIOUS
  <2> QED
    BY <2>1, Nothing DEF TypeOK, Over, Points, Inv
<1>2. CycleOK(p)'
  <2>1. at'[p] = "idle" /\ content'[p] = NoContent /\ new'[p] = NoRows
    BY DEF TypeOK, Over, Inv
  <2> QED
    BY <2>1, Nothing DEF CycleOK, Marked, Listed
<1>3. ASSUME NEW q \in Processes, q # p
      PROVE  CycleOK(q)'
  <2>1. UNCHANGED <<at[q], content[q], todo[q], new[q]>>
    BY <1>3 DEF Over, TypeOK, Inv
  <2> QED
    BY <2>1, CycleStays DEF Inv
<1> QED
  BY <1>1, <1>2, <1>3 DEF Inv

LEMMA InitInv == Init => Inv
<1> SUFFICES ASSUME Init PROVE Inv
  OBVIOUS
<1>1. TypeOK
  <2>1. file \in Contents
    BY Nothing DEF Init, Contents
  <2>2. <<>> \in Seq(Items) /\ <<>> \in Seq(Alerts)
    OBVIOUS
  <2> QED
    BY <2>1, <2>2, Nothing, KnowledgeBaseParameters DEF Init, TypeOK, Points
<1>2. file.rows = NoRows
  BY Nothing DEF Init, NoContent
<1> QED
  BY <1>1, <1>2, Nothing DEF Init, Inv, RowsAreKnown, Written, CycleOK, Marked

LEMMA BeginInv ==
  ASSUME Inv, NEW p \in Processes, Begin(p)
  PROVE  Inv'
<1>1. PICK papers \in PaperBatches, alerts \in AlertBatches :
        /\ todo' = [todo EXCEPT ![p] = papers]
        /\ fetched' = [fetched EXCEPT ![p] = alerts]
  BY DEF Begin
<1>2. papers \in Seq(Items) /\ alerts \in Seq(Alerts)
  <2>1. Papers \subseteq Items
    BY DEF Items
  <2> QED
    BY <2>1, KnowledgeBaseParameters, BoundedItems, BoundedAlerts DEF PaperBatches
<1>3. TypeOK'
  <2>1. calm' \in BOOLEAN
    BY DEF Begin, Inv, TypeOK
  <2>2. cycles' \in 0..MaxCycles
    BY KnowledgeBaseParameters DEF Begin, Inv, TypeOK
  <2> QED
    BY <1>1, <1>2, <2>1, <2>2, Nothing DEF Begin, Inv, TypeOK, Points
<1>4. RowsAreKnown'
  BY DEF Begin, Inv, RowsAreKnown, Written, Listed
<1>5. CycleOK(p)'
  <2>1. at'[p] = "papers" /\ content'[p] = file /\ new'[p] = NoRows /\ known' = known
    BY DEF Begin, Inv, TypeOK
  <2>2. Listed(file.rows) \subseteq known
    BY DEF Inv, RowsAreKnown, Written
  <2> QED
    BY <2>1, <2>2, Nothing DEF CycleOK, Marked, Listed
<1>6. ASSUME NEW q \in Processes, q # p
      PROVE  CycleOK(q)'
  <2>1. UNCHANGED <<at[q], content[q], todo[q], new[q]>> /\ known' = known
    BY <1>1, <1>6 DEF Begin, Inv, TypeOK
  <2> QED
    BY <2>1, CycleStays DEF Inv
<1> QED
  BY <1>3, <1>4, <1>5, <1>6 DEF Inv

LEMMA CheckInv ==
  ASSUME Inv, NEW p \in Processes, NEW s \in Sections, Check(p, s)
  PROVE  Inv'
<1>1. /\ at[p] = s /\ todo[p] # <<>> /\ todo[p] \in Seq(Items)
      /\ UNCHANGED <<file, known, content, fetched, new, cycles, calm, apart>>
  BY DEF Check, Inv, TypeOK
<1>2. RowsAreKnown'
  BY <1>1 DEF Inv, RowsAreKnown, Written, Listed
<1>3. ASSUME NEW q \in Processes, q # p
      PROVE  CycleOK(q)'
  <2>1. UNCHANGED <<at[q], content[q], todo[q], new[q]>> /\ known \subseteq known'
    BY <1>1, <1>3 DEF Check, Inv, TypeOK
  <2> QED
    BY <2>1, CycleStays DEF Inv
<1>4. Tail(todo[p]) \in Seq(Items)
  BY <1>1, Entries
<1>5. TypeOK'
  BY <1>1, <1>4 DEF Check, Inv, TypeOK, Points, Marking
<1>6. CycleOK(p)'
  <2>1. at'[p] \in Marked => todo'[p] # <<>>
    BY <1>1 DEF Check, Inv, TypeOK, Sections, Marked
  <2>2. Listed(content[p].rows) \subseteq known /\ Listed(new[p]) \subseteq known
    BY DEF Inv, CycleOK
  <2> QED
    BY <1>1, <2>1, <2>2 DEF CycleOK, Listed
<1> QED
  BY <1>2, <1>3, <1>5, <1>6 DEF Inv

\* What marking an item does to the process that marks it.
LEMMA Marks ==
  ASSUME Inv, NEW p \in Processes, NEW s \in Sections, Mark(p, s)
  PROVE  LET h == Head(todo[p])
         IN  /\ at[p] \in Marked /\ at'[p] = s /\ s \notin Marked
             /\ h \in Items /\ Tail(todo[p]) \in Seq(Items)
             /\ known' = known \cup {h}
             /\ new'[p] \in RowCounts
             /\ new'[p][h] = new[p][h] + 1
             /\ \A x \in Items : x # h => new'[p][x] = new[p][x]
             /\ Listed(new'[p]) = Listed(new[p]) \cup {h}
<1> DEFINE h == Head(todo[p])
<1>1. TypeOK /\ new[p] \in RowCounts /\ todo[p] \in Seq(Items)
  BY OfP DEF Inv
<1>2. at[p] \in Marked /\ at'[p] = s /\ s \notin Marked /\ known' = known \cup {h}
  BY <1>1 DEF Mark, Marking, Marked, Sections, TypeOK
<1>3. todo[p] # <<>>
  BY <1>2 DEF Inv, CycleOK
<1>4. h \in Items /\ Tail(todo[p]) \in Seq(Items)
  BY <1>1, <1>3, Entries
<1>5. new'[p] = [new[p] EXCEPT ![h] = @ + 1]
  BY <1>1, <1>4 DEF Mark, TypeOK
<1>6. /\ new'[p] \in RowCounts
      /\ new'[p][h] = new[p][h] + 1
      /\ \A x \in Items : x # h => new'[p][x] = new[p][x]
      /\ Listed(new'[p]) = Listed(new[p]) \cup {h}
  <2> HIDE DEF h
  <2> QED
    BY <1>1, <1>4, <1>5, OneMoreRow
<1> QED
  BY <1>2, <1>4, <1>6

LEMMA MarkInv ==
  ASSUME Inv, NEW p \in Processes, NEW s \in Sections, Mark(p, s)
  PROVE  Inv'
<1> DEFINE h == Head(todo[p])
<1>1. /\ at'[p] = s /\ s \notin Marked /\ h \in Items /\ Tail(todo[p]) \in Seq(Items)
      /\ known' = known \cup {h} /\ new'[p] \in RowCounts
      /\ Listed(new'[p]) = Listed(new[p]) \cup {h}
  BY Marks
<1>2. UNCHANGED <<file, content, fetched, cycles, calm, apart>> /\ TypeOK
  BY DEF Mark, Inv
<1>3. new' \in [Processes -> RowCounts]
  BY <1>1, <1>2 DEF Mark, TypeOK
<1>4. TypeOK'
  BY <1>1, <1>2, <1>3 DEF Mark, TypeOK, Points, Sections
<1>5. RowsAreKnown'
  BY <1>1, <1>2 DEF Inv, RowsAreKnown, Written, Listed
<1>6. ASSUME NEW q \in Processes, q # p
      PROVE  CycleOK(q)'
  <2>1. UNCHANGED <<at[q], content[q], todo[q], new[q]>> /\ known \subseteq known'
    BY <1>1, <1>2, <1>6 DEF Mark, TypeOK
  <2> QED
    BY <2>1, CycleStays DEF Inv
<1>7. CycleOK(p)'
  <2>1. Listed(content[p].rows) \subseteq known /\ Listed(new[p]) \subseteq known
    BY DEF Inv, CycleOK
  <2>2. Listed(content'[p].rows) \subseteq known' /\ Listed(new'[p]) \subseteq known'
    BY <1>1, <1>2, <2>1
  <2> QED
    BY <1>1, <2>2 DEF CycleOK, Listed
<1> QED
  BY <1>4, <1>5, <1>6, <1>7 DEF Inv

\* What the end of the papers does to the process.
LEMMA Papered ==
  ASSUME TypeOK, NEW p \in Processes, PapersDone(p)
  PROVE  /\ at[p] = "papers" /\ at'[p] = "alerts" /\ new'[p] = NoRows
         /\ todo'[p] = fetched[p] /\ UNCHANGED <<file, known, fetched, cycles, apart>>
         /\ content'[p] \in Contents
         /\ content'[p].table = content[p].table
         /\ content'[p].rows = IF content[p].table THEN Plus(content[p].rows, new[p])
                                                   ELSE content[p].rows
         /\ \A q \in Processes : q # p => UNCHANGED <<at[q], content[q], todo[q], new[q]>>
<1> DEFINE r == IF content[p].table THEN Plus(content[p].rows, new[p])
                                    ELSE content[p].rows
<1>1. r \in RowCounts
  BY OfP, PlusRows
<1>2. content'[p] = [content[p] EXCEPT !.rows = r]
  BY DEF PapersDone, TypeOK
<1>3. content'[p] \in Contents /\ content'[p].table = content[p].table /\ content'[p].rows = r
  <2> HIDE DEF r
  <2> QED
    BY <1>1, <1>2, OfP DEF Contents
<1> QED
  BY <1>3 DEF PapersDone, TypeOK

LEMMA PapersDoneInv ==
  ASSUME Inv, NEW p \in Processes, PapersDone(p)
  PROVE  Inv'
<1>1. TypeOK
  BY DEF Inv
<1>2. /\ at[p] = "papers" /\ at'[p] = "alerts" /\ new'[p] = NoRows
      /\ todo'[p] = fetched[p] /\ UNCHANGED <<file, known, fetched, cycles, apart>>
      /\ content'[p] \in Contents
      /\ content'[p].rows \in {content[p].rows, Plus(content[p].rows, new[p])}
      /\ \A q \in Processes : q # p => UNCHANGED <<at[q], content[q], todo[q], new[q]>>
  BY <1>1, Papered
<1>3. TypeOK'
  <2>1. content' \in [Processes -> Contents]
    BY <1>1, <1>2 DEF PapersDone, TypeOK
  <2>2. fetched[p] \in Seq(Items)
    BY <1>1, OfP DEF Items
  <2> QED
    BY <1>1, <1>2, <2>1, <2>2, Nothing DEF PapersDone, TypeOK, Points
<1>4. RowsAreKnown'
  BY <1>2 DEF Inv, RowsAreKnown, Written, Listed
<1>5. CycleOK(p)'
  <2>1. Listed(content[p].rows) \subseteq known /\ Listed(new[p]) \subseteq known
    BY DEF Inv, CycleOK
  <2>2. Listed(Plus(content[p].rows, new[p])) \subseteq known
    BY <1>1, <2>1, OfP, PlusRows
  <2>3. Listed(content'[p].rows) \subseteq known' /\ Listed(new'[p]) \subseteq known'
    BY <1>2, <2>1, <2>2, Nothing
  <2> QED
    BY <1>2, <2>3 DEF CycleOK, Marked, Listed
<1> QED
  BY <1>2, <1>3, <1>4, <1>5, CycleStays DEF Inv

\* What emptying the file does to the process.
LEMMA Truncated ==
  ASSUME TypeOK, NEW p \in Processes, Truncate(p)
  PROVE  /\ at[p] = "alerts" /\ at'[p] = "write" /\ new'[p] = NoRows
         /\ UNCHANGED <<known, todo, fetched, cycles, calm>> /\ file' = NoContent
         /\ content'[p] \in Contents
         /\ content'[p].table = content[p].table
         /\ content'[p].rows = Plus(content[p].rows, new[p])
         /\ \A q \in Processes : q # p => UNCHANGED <<at[q], content[q], todo[q], new[q]>>
<1> DEFINE r == Plus(content[p].rows, new[p])
<1>1. r \in RowCounts
  BY OfP, PlusRows
<1>2. content'[p] = [content[p] EXCEPT !.rows = r]
  BY DEF Truncate, TypeOK
<1>3. content'[p] \in Contents /\ content'[p].table = content[p].table /\ content'[p].rows = r
  <2> HIDE DEF r
  <2> QED
    BY <1>1, <1>2, OfP DEF Contents
<1> QED
  BY <1>3 DEF Truncate, TypeOK

LEMMA TruncateInv ==
  ASSUME Inv, NEW p \in Processes, Truncate(p)
  PROVE  Inv'
<1>1. TypeOK
  BY DEF Inv
<1>2. /\ at'[p] = "write" /\ new'[p] = NoRows
      /\ UNCHANGED <<known, todo, fetched, cycles, calm>> /\ file' = NoContent
      /\ content'[p] \in Contents
      /\ content'[p].rows = Plus(content[p].rows, new[p])
      /\ \A q \in Processes : q # p => UNCHANGED <<at[q], content[q], todo[q], new[q]>>
  BY <1>1, Truncated
<1>3. TypeOK'
  <2>1. content' \in [Processes -> Contents] /\ apart' \in BOOLEAN
    BY <1>1, <1>2 DEF Truncate, TypeOK
  <2> QED
    BY <1>1, <1>2, <2>1, Nothing DEF Truncate, TypeOK, Points
<1>4. RowsAreKnown'
  BY <1>2, Nothing DEF RowsAreKnown, Written, Listed
<1>5. CycleOK(p)'
  <2>1. Listed(content[p].rows) \subseteq known /\ Listed(new[p]) \subseteq known
    BY DEF Inv, CycleOK
  <2>2. Listed(Plus(content[p].rows, new[p])) \subseteq known
    BY <1>1, <2>1, OfP, PlusRows
  <2>3. Listed(content'[p].rows) \subseteq known' /\ Listed(new'[p]) \subseteq known'
    BY <1>2, <2>1, <2>2, Nothing
  <2> QED
    BY <1>2, <2>3 DEF CycleOK, Marked, Listed
<1> QED
  BY <1>2, <1>3, <1>4, <1>5, CycleStays DEF Inv

\* The file after a write: the content, and what is left of the other text.
LEMMA Wrote ==
  ASSUME TypeOK, NEW p \in Processes, Write(p)
  PROVE  \E left \in Leftovers(file.rows) :
           /\ left \in RowCounts
           /\ file' \in Contents
           /\ file'.rows = Plus(content[p].rows, left)
           /\ content[p].table => file'.table
<1>1. PICK left \in Leftovers(file.rows), table \in {FALSE, file.table} :
        file' = [table |-> content[p].table \/ table, rows |-> Plus(content[p].rows, left)]
  BY DEF Write
<1>2. left \in RowCounts /\ Plus(content[p].rows, left) \in RowCounts
  BY OfP, LeftRows, PlusRows
<1>3. (content[p].table \/ table) \in BOOLEAN
  BY OfP, ContentTypes
<1> DEFINE r == Plus(content[p].rows, left)
           b == content[p].table \/ table
<1>4. content[p].table => b
  OBVIOUS
<1>5. r \in RowCounts /\ b \in BOOLEAN /\ file' = [table |-> b, rows |-> r]
  BY <1>1, <1>2, <1>3
<1> HIDE DEF r, b
<1>6. file' \in Contents /\ file'.rows = r /\ file'.table = b
  BY <1>5 DEF Contents
<1> QED
  BY <1>2, <1>4, <1>6 DEF r

LEMMA WriteInv ==
  ASSUME Inv, NEW p \in Processes, Write(p)
  PROVE  Inv'
<1>1. PICK left \in Leftovers(file.rows) :
        /\ left \in RowCounts
        /\ file' \in Contents
        /\ file'.rows = Plus(content[p].rows, left)
  BY Wrote DEF Inv
<1>2. Listed(left) \subseteq known
  BY OfP, LeftRows DEF Inv, RowsAreKnown, Written
<1>3. Listed(content[p].rows) \subseteq known /\ content[p].rows \in RowCounts
  BY OfP DEF Inv, CycleOK
<1>4. Listed(file'.rows) \subseteq known
  BY <1>1, <1>2, <1>3, PlusRows
<1>5. Over(p) /\ UNCHANGED <<known, cycles, calm, apart>> /\ calm \in BOOLEAN
  BY DEF Write, Inv, TypeOK
<1>6. RowsAreKnown'
  BY <1>4, <1>5 DEF RowsAreKnown, Written, Listed
<1> QED
  BY <1>1, <1>5, <1>6, OverStays

LEMMA CrashInv ==
  ASSUME Inv, NEW p \in Processes, Crash(p)
  PROVE  Inv'
<1>1. Over(p) /\ UNCHANGED <<file, known, cycles, apart>> /\ calm' = FALSE
  BY DEF Crash
<1>2. file' \in Contents /\ RowsAreKnown'
  BY <1>1 DEF Inv, TypeOK, RowsAreKnown, Written, Listed
<1> QED
  BY <1>1, <1>2, OverStays

LEMMA NextInv == Inv /\ [Next]_vars => Inv'
<1> SUFFICES ASSUME Inv, [Next]_vars PROVE Inv'
  OBVIOUS
<1>1. CASE UNCHANGED vars
  BY <1>1 DEF vars, Inv, TypeOK, RowsAreKnown, Written, CycleOK, Listed
<1>2. CASE Next
  BY <1>2, BeginInv, CheckInv, MarkInv, PapersDoneInv, TruncateInv, WriteInv, CrashInv
     DEF Next, Step
<1> QED
  BY <1>1, <1>2

LEMMA SpecInv == Spec => []Inv
BY InitInv, NextInv, PTL DEF Spec

\* Every variable keeps its type, for every number of processes and items.
THEOREM Typing == Spec => []TypeOK
<1>1. Inv => TypeOK
  BY DEF Inv
<1> QED
  BY <1>1, SpecInv, PTL

\* What has a row is marked known: whatever processes do to the file and to each
\* other's text, and wherever they stop, no row is one that a cycle could add.
THEOREM RowsStayKnown == Spec => []RowsAreKnown
<1>1. Inv => RowsAreKnown
  BY DEF Inv
<1> QED
  BY <1>1, SpecInv, PTL

-----------------------------------------------------------------------------
(* No second row *)

\* While no two processes write at once, a cycle has no item twice, in its content
\* and its new rows together, and not at all the one it is about to mark: when it
\* was found unknown, no row of it was anywhere.  What is written goes to an empty
\* file.
OnceOK ==
  apart =>
    /\ \A x \in Items : file.rows[x] <= 1
    /\ \A p \in Processes, x \in Items : content[p].rows[x] + new[p][x] <= 1
    /\ \A p \in Processes : at[p] \in Marked =>
         content[p].rows[Head(todo[p])] = 0 /\ new[p][Head(todo[p])] = 0
    /\ \A p \in Processes : at[p] = "write" =>
         file.rows = NoRows /\ \A q \in Processes : at[q] = "write" => q = p

\* An item that is not known has no row.
LEMMA Unlisted ==
  ASSUME NEW r \in RowCounts, NEW x \in Items, x \notin Listed(r)
  PROVE  r[x] = 0
BY DEF RowCounts, Listed

LEMMA InitOnce == Init => OnceOK
<1> SUFFICES ASSUME Init PROVE OnceOK
  OBVIOUS
<1>1. file.rows = NoRows
  BY Nothing DEF Init, NoContent
<1> QED
  BY <1>1, Nothing DEF Init, OnceOK, Marked

\* The other cycles keep theirs; what p itself must keep is left to show.
LEMMA OnceStep ==
  ASSUME Inv, OnceOK, NEW p \in Processes, apart' => apart,
         \A q \in Processes : q # p => UNCHANGED <<at[q], content[q], todo[q], new[q]>>,
         apart' => \A x \in Items : file'.rows[x] <= 1,
         apart' => \A x \in Items : content'[p].rows[x] + new'[p][x] <= 1,
         apart' /\ at'[p] \in Marked =>
           content'[p].rows[Head(todo'[p])] = 0 /\ new'[p][Head(todo'[p])] = 0,
         apart' => \A q \in Processes : at'[q] = "write" =>
           file'.rows = NoRows /\ \A o \in Processes : at'[o] = "write" => o = q
  PROVE  OnceOK'
<1>1. SUFFICES ASSUME apart'
               PROVE  OnceOK'
  BY DEF OnceOK
<1>2. ASSUME NEW q \in Processes, NEW x \in Items
      PROVE  content'[q].rows[x] + new'[q][x] <= 1
  BY <1>1, <1>2 DEF OnceOK
<1>3. ASSUME NEW q \in Processes, at'[q] \in Marked
      PROVE  content'[q].rows[Head(todo'[q])] = 0 /\ new'[q][Head(todo'[q])] = 0
  BY <1>1, <1>3 DEF OnceOK
<1> QED
  BY <1>1, <1>2, <1>3 DEF OnceOK, Marked

\* A process that starts anew.
LEMMA OverOnce ==
  ASSUME Inv, OnceOK, NEW p \in Processes, Over(p), apart' = apart,
         apart => \A x \in Items : file'.rows[x] <= 1,
         apart => \A q \in Processes : at[q] = "write" /\ q # p => file'.rows = NoRows
  PROVE  OnceOK'
<1>1. at'[p] = "idle" /\ content'[p] = NoContent /\ new'[p] = NoRows
  BY DEF TypeOK, Over, Inv
<1>2. \A q \in Processes : q # p => UNCHANGED <<at[q], content[q], todo[q], new[q]>>
  BY DEF TypeOK, Over, Inv
<1>3. \A x \in Items : content'[p].rows[x] + new'[p][x] <= 1
  BY <1>1, Nothing
<1>4. ASSUME apart', NEW q \in Processes, at'[q] = "write"
      PROVE  file'.rows = NoRows /\ \A o \in Processes : at'[o] = "write" => o = q
  <2>1. q # p /\ at[q] = "write"
    BY <1>1, <1>2, <1>4
  <2> QED
    BY <1>1, <1>2, <1>4, <2>1 DEF OnceOK
<1> QED
  BY <1>1, <1>2, <1>3, <1>4, OnceStep DEF Marked

LEMMA StepOnce ==
  ASSUME Inv, OnceOK, NEW p \in Processes, Begin(p) \/ Step(p) \/ Crash(p)
  PROVE  OnceOK'
<1>1. TypeOK /\ CycleOK(p) /\ RowsAreKnown
  BY DEF Inv
<1>t. /\ content[p].rows \in RowCounts /\ new[p] \in RowCounts /\ file.rows \in RowCounts
      /\ todo[p] \in Seq(Items)
  BY <1>1, OfP
<1>2. CASE Begin(p)
  <2>1. /\ at'[p] = "papers" /\ content'[p] = file /\ new'[p] = NoRows
        /\ UNCHANGED <<file, known, apart>>
        /\ \A q \in Processes : q # p => UNCHANGED <<at[q], content[q], todo[q], new[q]>>
    BY <1>1, <1>2 DEF Begin, TypeOK
  <2>2. ASSUME apart, NEW x \in Items
        PROVE  content'[p].rows[x] + new'[p][x] <= 1
    <3>1. file.rows[x] \in Nat /\ file.rows[x] <= 1
      BY <1>t, <2>2 DEF OnceOK, RowCounts
    <3> QED
      BY <2>1, <3>1, Nothing
  <2>3. ASSUME apart', NEW q \in Processes, at'[q] = "write"
        PROVE  file'.rows = NoRows /\ \A o \in Processes : at'[o] = "write" => o = q
    BY <2>1, <2>3 DEF OnceOK
  <2>4. apart' => \A x \in Items : file'.rows[x] <= 1
    BY <2>1 DEF OnceOK
  <2> QED
    BY <2>1, <2>2, <2>3, <2>4, OnceStep DEF Marked
<1>3. ASSUME NEW s \in Sections, Check(p, s)
      PROVE  OnceOK'
  <2>1. /\ UNCHANGED <<file, known, content, new, apart>> /\ at[p] = s /\ todo[p] # <<>>
        /\ at'[p] # "write" /\ at[p] # "write"
        /\ \A q \in Processes : q # p => UNCHANGED <<at[q], content[q], todo[q], new[q]>>
    BY <1>1, <1>3 DEF Check, TypeOK, Sections, Marking
  <2>2. ASSUME at'[p] \in Marked
        PROVE  content'[p].rows[Head(todo'[p])] = 0 /\ new'[p][Head(todo'[p])] = 0
    <3>1. Head(todo[p]) \notin known /\ todo' = todo
      BY <1>1, <1>3, <2>2 DEF Check, TypeOK, Sections, Marked
    <3>2. Head(todo[p]) \in Items
      BY <1>t, <2>1, Entries
    <3>3. Head(todo[p]) \notin Listed(content[p].rows) /\ Head(todo[p]) \notin Listed(new[p])
      BY <1>1, <3>1 DEF CycleOK
    <3>4. content[p].rows[Head(todo[p])] = 0 /\ new[p][Head(todo[p])] = 0
      BY <1>t, <3>2, <3>3, Unlisted
    <3> QED
      BY <2>1, <3>1, <3>4
  <2>3. ASSUME apart', NEW q \in Processes, at'[q] = "write"
        PROVE  file'.rows = NoRows /\ \A o \in Processes : at'[o] = "write" => o = q
    BY <2>1, <2>3 DEF OnceOK
  <2>4. apart' => /\ \A x \in Items : file'.rows[x] <= 1
                  /\ \A x \in Items : content'[p].rows[x] + new'[p][x] <= 1
    BY <2>1 DEF OnceOK
  <2> QED
    BY <2>1, <2>2, <2>3, <2>4, OnceStep
<1>4. ASSUME NEW s \in Sections, Mark(p, s)
      PROVE  OnceOK'
  <2> DEFINE h == Head(todo[p])
  <2>1. /\ at[p] \in Marked /\ at'[p] = s /\ s \notin Marked /\ h \in Items
        /\ new'[p][h] = new[p][h] + 1
        /\ \A x \in Items : x # h => new'[p][x] = new[p][x]
    BY <1>4, Marks
  <2>2. /\ UNCHANGED <<file, content, apart>> /\ at'[p] # "write"
        /\ \A q \in Processes : q # p => UNCHANGED <<at[q], content[q], todo[q], new[q]>>
    BY <1>1, <1>4, <2>1 DEF Mark, TypeOK, Sections
  <2>3. ASSUME apart, NEW x \in Items
        PROVE  content'[p].rows[x] + new'[p][x] <= 1
    <3>1. CASE x = h
      <4>1. content[p].rows[h] = 0 /\ new[p][h] = 0
        BY <2>1, <2>3 DEF OnceOK
      <4>2. content'[p].rows[h] = 0 /\ new'[p][h] = 1
        BY <2>1, <2>2, <4>1
      <4> QED
        BY <3>1, <4>2
    <3>2. CASE x # h
      BY <2>1, <2>2, <2>3, <3>2 DEF OnceOK
    <3> QED
      BY <3>1, <3>2
  <2>4. ASSUME apart', NEW q \in Processes, at'[q] = "write"
        PROVE  file'.rows = NoRows /\ \A o \in Processes : at'[o] = "write" => o = q
    BY <2>2, <2>4 DEF OnceOK
  <2>5. apart' => \A x \in Items : file'.rows[x] <= 1
    BY <2>2 DEF OnceOK
  <2> QED
    BY <2>1, <2>2, <2>3, <2>4, <2>5, OnceStep
<1>5. CASE PapersDone(p)
  <2>1. /\ at[p] = "papers" /\ at'[p] = "alerts" /\ new'[p] = NoRows
        /\ UNCHANGED <<file, known, fetched, cycles, apart>>
        /\ content'[p].rows \in {content[p].rows, Plus(content[p].rows, new[p])}
        /\ \A q \in Processes : q # p => UNCHANGED <<at[q], content[q], todo[q], new[q]>>
    BY <1>1, <1>5, Papered
  <2>2. ASSUME apart, NEW x \in Items
        PROVE  content'[p].rows[x] + new'[p][x] <= 1
    <3>1. /\ content[p].rows[x] \in Nat /\ new[p][x] \in Nat
          /\ content[p].rows[x] + new[p][x] <= 1
      BY <1>t, <2>2 DEF OnceOK, RowCounts
    <3>2. content'[p].rows[x] \in {content[p].rows[x], content[p].rows[x] + new[p][x]}
      BY <1>t, <2>1, PlusRows
    <3>3. new'[p][x] = 0
      BY <2>1, Nothing
    <3> QED
      BY <3>1, <3>2, <3>3
  <2>3. ASSUME apart', NEW q \in Processes, at'[q] = "write"
        PROVE  file'.rows = NoRows /\ \A o \in Processes : at'[o] = "write" => o = q
    BY <2>1, <2>3 DEF OnceOK
  <2>4. apart' => \A x \in Items : file'.rows[x] <= 1
    BY <2>1 DEF OnceOK
  <2> QED
    BY <2>1, <2>2, <2>3, <2>4, OnceStep DEF Marked
<1>6. CASE Truncate(p)
  <2>1. /\ at[p] = "alerts" /\ at'[p] = "write" /\ new'[p] = NoRows /\ file' = NoContent
        /\ content'[p].rows = Plus(content[p].rows, new[p])
        /\ \A q \in Processes : q # p => UNCHANGED <<at[q], content[q], todo[q], new[q]>>
    BY <1>1, <1>6, Truncated
  <2>2. apart' => apart /\ \A q \in Processes : q # p => at[q] # "write"
    BY <1>6 DEF Truncate
  <2>3. ASSUME apart, NEW x \in Items
        PROVE  content'[p].rows[x] + new'[p][x] <= 1
    <3>1. /\ content[p].rows[x] \in Nat /\ new[p][x] \in Nat
          /\ content[p].rows[x] + new[p][x] <= 1
      BY <1>t, <2>3 DEF OnceOK, RowCounts
    <3>2. content'[p].rows[x] = content[p].rows[x] + new[p][x]
      BY <1>t, <2>1, PlusRows
    <3>3. new'[p][x] = 0
      BY <2>1, Nothing
    <3> QED
      BY <3>1, <3>2, <3>3
  <2>4. ASSUME apart', NEW q \in Processes, at'[q] = "write"
        PROVE  file'.rows = NoRows /\ \A o \in Processes : at'[o] = "write" => o = q
    BY <2>1, <2>2, <2>4, Nothing
  <2>5. \A x \in Items : file'.rows[x] <= 1
    BY <2>1, Nothing
  <2> QED
    BY <2>1, <2>2, <2>3, <2>4, <2>5, OnceStep DEF Marked
<1>7. CASE Write(p)
  <2>1. PICK left \in Leftovers(file.rows) :
          left \in RowCounts /\ file'.rows = Plus(content[p].rows, left)
    BY <1>1, <1>7, Wrote
  <2>2. Over(p) /\ apart' = apart /\ at[p] = "write"
    BY <1>7 DEF Write
  <2>3. ASSUME apart, NEW x \in Items
        PROVE  file'.rows[x] <= 1
    <3>1. file.rows[x] = 0
      BY <2>2, <2>3, Nothing DEF OnceOK
    <3>2. left[x] \in Nat /\ left[x] <= 0
      BY <1>t, <2>1, <3>1, LeftRows DEF RowCounts
    <3>3. /\ content[p].rows[x] \in Nat /\ new[p][x] \in Nat
          /\ content[p].rows[x] + new[p][x] <= 1
      BY <1>t, <2>3 DEF OnceOK, RowCounts
    <3>4. file'.rows[x] = content[p].rows[x] + left[x]
      BY <1>t, <2>1, PlusRows
    <3> QED
      BY <3>2, <3>3, <3>4
  <2>4. apart => \A q \in Processes : at[q] = "write" => q = p
    BY <2>2 DEF OnceOK
  <2> QED
    BY <2>2, <2>3, <2>4, OverOnce
<1>8. CASE Crash(p)
  <2>1. Over(p) /\ UNCHANGED <<file, apart>>
    BY <1>8 DEF Crash
  <2>2. apart => \A x \in Items : file'.rows[x] <= 1
    BY <2>1 DEF OnceOK
  <2>3. apart => \A q \in Processes : at[q] = "write" /\ q # p => file'.rows = NoRows
    BY <2>1 DEF OnceOK
  <2> QED
    BY <2>1, <2>2, <2>3, OverOnce
<1> QED
  BY <1>2, <1>3, <1>4, <1>5, <1>6, <1>7, <1>8 DEF Step

\* No item gets a second row while no process empties the file between another's
\* emptying and its write, however cycles overlap before that and crash.
THEOREM OneRowEach == Spec => []NoDuplicateRows
<1>1. OnceOK => NoDuplicateRows
  BY DEF OnceOK, NoDuplicateRows
<1>2. ASSUME Inv, OnceOK, [Next]_vars
      PROVE  OnceOK'
  <2>1. CASE UNCHANGED vars
    BY <1>2, <2>1 DEF vars, OnceOK
  <2> QED
    BY <1>2, <2>1, StepOnce DEF Next
<1> QED
  BY <1>1, <1>2, InitOnce, SpecInv, PTL DEF Spec

-----------------------------------------------------------------------------
(* Cycles that nothing disturbs *)

Active(p) == ~Idle(p)

\* In calm there is at most one cycle, which holds the table and all that is
\* known, and writes to an empty file; between cycles the file has it all.
CalmOK ==
  calm =>
    /\ \A p, q \in Processes : Active(p) /\ Active(q) => p = q
    /\ (\A p \in Processes : Idle(p)) => file.table /\ known = Written
    /\ \A p \in Processes : Active(p) =>
         /\ content[p].table
         /\ known = Listed(content[p].rows) \cup Listed(new[p])
         /\ at[p] = "write" => new[p] = NoRows /\ file.rows = NoRows

LEMMA InitCalm == Init => CalmOK
<1> SUFFICES ASSUME Init PROVE CalmOK
  OBVIOUS
<1>1. file.table /\ file.rows = NoRows /\ known = {} /\ \A p \in Processes : Idle(p)
  BY DEF Init, NoContent, Idle
<1> QED
  BY <1>1, Nothing DEF CalmOK, Active, Written

\* A step of the one cycle under way that keeps the rest of the calm.
LEMMA CalmStep ==
  ASSUME CalmOK, NEW p \in Processes, calm' => calm, Active(p), Active(p)',
         \A q \in Processes : q # p => UNCHANGED <<at[q], content[q], todo[q], new[q]>>,
         calm => /\ content'[p].table
                 /\ known' = Listed(content'[p].rows) \cup Listed(new'[p])
                 /\ at'[p] = "write" => new'[p] = NoRows /\ file'.rows = NoRows
  PROVE  CalmOK'
<1>1. SUFFICES ASSUME calm'
               PROVE  CalmOK'
  BY DEF CalmOK
<1>2. \A q \in Processes : Active(q)' => q = p
  BY <1>1 DEF CalmOK, Active, Idle
<1> QED
  BY <1>1, <1>2 DEF CalmOK, Active, Idle, Listed

LEMMA StepCalm ==
  ASSUME Inv, CalmOK, NEW p \in Processes, Begin(p) \/ Step(p) \/ Crash(p)
  PROVE  CalmOK'
<1>1. TypeOK
  BY DEF Inv
<1>t. content[p].rows \in RowCounts /\ new[p] \in RowCounts /\ file.rows \in RowCounts
  BY <1>1, OfP
<1>2. CASE Begin(p)
  <2>1. SUFFICES ASSUME calm'
                 PROVE  CalmOK'
    BY DEF CalmOK
  <2>2. calm /\ \A q \in Processes : q # p => Idle(q)
    BY <1>2, <2>1 DEF Begin
  <2>3. Idle(p)
    BY <1>2 DEF Begin
  <2>4. /\ at'[p] = "papers" /\ content'[p] = file /\ new'[p] = NoRows
        /\ UNCHANGED <<file, known>>
        /\ \A q \in Processes : q # p => at'[q] = at[q]
    BY <1>1, <1>2 DEF Begin, TypeOK
  <2>5. file.table /\ known = Listed(file.rows)
    BY <2>2, <2>3 DEF CalmOK, Written
  <2>6. \A q \in Processes : Active(q)' <=> q = p
    BY <2>2, <2>4 DEF Active, Idle
  <2>7. /\ content'[p].table
        /\ known' = Listed(content'[p].rows) \cup Listed(new'[p])
    BY <2>4, <2>5, Nothing
  <2>8. ~(\A q \in Processes : Idle(q)')
    BY <2>6 DEF Active
  <2>9. Listed(content[p].rows)' = Listed(content'[p].rows) /\ Listed(new[p])' = Listed(new'[p])
    BY DEF Listed
  <2> QED
    BY <2>4, <2>6, <2>7, <2>8, <2>9 DEF CalmOK
<1>3. ASSUME NEW s \in Sections, Check(p, s)
      PROVE  CalmOK'
  <2>1. /\ UNCHANGED <<known, content, new, calm>> /\ Active(p) /\ Active(p)'
        /\ \A q \in Processes : q # p => UNCHANGED <<at[q], content[q], todo[q], new[q]>>
        /\ at'[p] # "write"
    BY <1>1, <1>3 DEF Check, Sections, Marking, Active, Idle, TypeOK
  <2>2. calm => /\ content'[p].table
                /\ known' = Listed(content'[p].rows) \cup Listed(new'[p])
    BY <2>1 DEF CalmOK
  <2> QED
    BY <2>1, <2>2, CalmStep
<1>4. ASSUME NEW s \in Sections, Mark(p, s)
      PROVE  CalmOK'
  <2>1. /\ UNCHANGED <<content, calm>> /\ Active(p) /\ Active(p)' /\ at'[p] # "write"
        /\ \A q \in Processes : q # p => UNCHANGED <<at[q], content[q], todo[q], new[q]>>
    BY <1>1, <1>4 DEF Mark, Sections, Marking, Active, Idle, TypeOK
  <2>2. /\ known' = known \cup {Head(todo[p])}
        /\ Listed(new'[p]) = Listed(new[p]) \cup {Head(todo[p])}
    BY <1>4, Marks
  <2>3. calm => /\ content'[p].table
                /\ known' = Listed(content'[p].rows) \cup Listed(new'[p])
    BY <2>1, <2>2 DEF CalmOK
  <2> QED
    BY <2>1, <2>3, CalmStep
<1>5. CASE PapersDone(p)
  <2>1. /\ at[p] = "papers" /\ at'[p] = "alerts" /\ new'[p] = NoRows /\ known' = known
        /\ content'[p].table = content[p].table
        /\ content'[p].rows = IF content[p].table THEN Plus(content[p].rows, new[p])
                                                  ELSE content[p].rows
        /\ \A q \in Processes : q # p => UNCHANGED <<at[q], content[q], todo[q], new[q]>>
    BY <1>1, <1>5, Papered
  <2>2. Active(p) /\ Active(p)' /\ (calm' => calm)
    BY <1>5, <2>1 DEF Active, Idle, PapersDone
  <2>3. ASSUME calm
        PROVE  /\ content'[p].table
               /\ known' = Listed(content'[p].rows) \cup Listed(new'[p])
    <3>1. content[p].table /\ known = Listed(content[p].rows) \cup Listed(new[p])
      BY <2>2, <2>3 DEF CalmOK
    <3> QED
      BY <1>t, <2>1, <3>1, PlusRows, Nothing
  <2> QED
    BY <2>1, <2>2, <2>3, CalmStep
<1>6. CASE Truncate(p)
  <2>1. /\ at[p] = "alerts" /\ at'[p] = "write" /\ new'[p] = NoRows
        /\ UNCHANGED <<known, calm>> /\ file' = NoContent
        /\ content'[p].table = content[p].table
        /\ content'[p].rows = Plus(content[p].rows, new[p])
        /\ \A q \in Processes : q # p => UNCHANGED <<at[q], content[q], todo[q], new[q]>>
    BY <1>1, <1>6, Truncated
  <2>2. Active(p) /\ Active(p)'
    BY <2>1 DEF Active, Idle
  <2>3. ASSUME calm
        PROVE  /\ content'[p].table
               /\ known' = Listed(content'[p].rows) \cup Listed(new'[p])
    <3>1. content[p].table /\ known = Listed(content[p].rows) \cup Listed(new[p])
      BY <2>2, <2>3 DEF CalmOK
    <3> QED
      BY <1>t, <2>1, <3>1, PlusRows, Nothing
  <2> QED
    BY <2>1, <2>2, <2>3, Nothing, CalmStep
<1>7. CASE Write(p)
  <2>1. SUFFICES ASSUME calm
                 PROVE  CalmOK'
    BY <1>7 DEF CalmOK, Write
  <2>2. /\ known' = known /\ at[p] = "write" /\ at'[p] = "idle" /\ Active(p)
        /\ \A q \in Processes : q # p => at'[q] = at[q]
    BY <1>1, <1>7 DEF Write, Over, Active, Idle, TypeOK
  <2>3. \A q \in Processes : Idle(q)'
    BY <2>1, <2>2 DEF CalmOK, Active, Idle
  <2>4. /\ content[p].table /\ known = Listed(content[p].rows) \cup Listed(new[p])
        /\ new[p] = NoRows /\ file.rows = NoRows
    BY <2>1, <2>2 DEF CalmOK
  <2>5. PICK left \in Leftovers(file.rows) :
          /\ left \in RowCounts
          /\ file'.rows = Plus(content[p].rows, left)
          /\ content[p].table => file'.table
    BY <1>1, <1>7, Wrote
  <2>6. Listed(left) = {}
    BY <1>t, <2>4, <2>5, LeftRows, Nothing
  <2>7. Listed(file'.rows) = Listed(content[p].rows) \cup Listed(left)
    BY <1>t, <2>5, PlusRows
  <2>8. file'.table /\ known' = Listed(file'.rows)
    BY <2>2, <2>4, <2>5, <2>6, <2>7, Nothing
  <2> QED
    BY <2>3, <2>8 DEF CalmOK, Active, Written, Listed
<1>8. CASE Crash(p)
  BY <1>8 DEF Crash, CalmOK
<1> QED
  BY <1>2, <1>3, <1>4, <1>5, <1>6, <1>7, <1>8 DEF Step

\* Between cycles all that is marked known is in the file, unless a cycle crashed
\* or overlapped another, or the file had lost the head of its table.
THEOREM NothingLostInCalm == Spec => []KnownIsWritten
<1>1. CalmOK => KnownIsWritten
  BY DEF CalmOK, KnownIsWritten
<1>2. ASSUME Inv, CalmOK, [Next]_vars
      PROVE  CalmOK'
  <2>1. CASE UNCHANGED vars
    BY <1>2, <2>1 DEF vars, CalmOK, Active, Idle, Written, Listed
  <2> QED
    BY <1>2, <2>1, StepCalm DEF Next
<1> QED
  BY <1>1, <1>2, InitCalm, SpecInv, PTL DEF Spec
=============================================================================
