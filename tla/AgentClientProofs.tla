------------------------- MODULE AgentClientProofs -------------------------
(***************************************************************************)
(* What one agent guarantees for any tasks, any size of its queue and any  *)
(* number of results: typing with the queue's bound, results in the order  *)
(* of execution, and nothing left behind by a run that is over.  Then the  *)
(* key exchange of connect, for any agents and any number of attempts: its *)
(* two ends never hold one key.                                            *)
(***************************************************************************)
EXTENDS AgentClient, SequenceTheorems, TLAPS

\* What the coroutines have at hand between two steps.
AtHand ==
  /\ run \in {"new", "connecting"} => work = <<>> /\ hand = <<>> /\ sender = "off"
  /\ reader \in {"reading", "executing"} => work = <<>>
  /\ Len(work) <= 1
  /\ sender = "get" => hand = <<>>
  /\ counter = 2 * Len(done)

TypeInv == TypeOK /\ AtHand

LEMMA InitTypes == Init => TypeInv
<1> SUFFICES ASSUME Init PROVE TypeInv
  OBVIOUS
<1>1. <<>> \in Seq(Packet) /\ <<>> \in Seq({"COMPLETED", "FAILED"}) /\ Len(<<>>) = 0
  OBVIOUS
<1>2. {work, queue, hand, sent} \subseteq Seq(Packet) /\ done \in Seq({"COMPLETED", "FAILED"})
  BY <1>1 DEF Init
<1>3. Len(queue) <= QueueMax /\ Len(work) <= 1 /\ counter = 2 * Len(done)
  <2>1. queue = <<>> /\ work = <<>> /\ done = <<>> /\ counter = 0
    BY DEF Init
  <2>2. Len(queue) = 0 /\ Len(work) = 0 /\ Len(done) = 0
    BY <1>1, <2>1
  <2> QED
    BY <2>1, <2>2, QueueParameter
<1>4. TypeOK
  <2>1. /\ main = "waiting" /\ run = "new" /\ running = FALSE
        /\ channel = "none" /\ stream = "none" /\ beat = "none"
        /\ reader = "off" /\ task = None /\ counter = 0 /\ sender = "off"
    BY DEF Init
  <2>2. running \in BOOLEAN
    BY <2>1
  <2>3. /\ main \in {"waiting", "stopping", "stopped"}
        /\ run \in {"new", "connecting", "serving", "cancelled", "over"}
        /\ channel \in {"none", "open", "closed"}
        /\ stream \in {"none", "open", "broken", "closed"}
        /\ beat \in {"none", "ready", "dead", "cancelled"}
        /\ reader \in {"off", "reading", "executing", "putting"}
        /\ task \in Tasks \cup {None}
        /\ counter \in Nat
        /\ sender \in {"off", "get", "write", "ended"}
    BY <2>1
  <2> QED
    BY <1>2, <1>3, <2>2, <2>3 DEF TypeOK
<1>5. AtHand
  <2>1. reader = "off" /\ sender = "off" /\ work = <<>> /\ hand = <<>>
    BY DEF Init
  <2> QED
    BY <1>3, <2>1 DEF AtHand
<1> QED
  BY <1>4, <1>5 DEF TypeInv

LEMMA ExecuteType == \A t : Execute(t) \in {"COMPLETED", "FAILED"}
BY DEF Execute

LEMMA NextTypes ==
  ASSUME TypeInv, [Next]_vars
  PROVE  TypeInv'
<1> USE DEF TypeInv, TypeOK, AtHand, life, outbound, inbound
<1>1. CASE Connect
  BY <1>1 DEF Connect
<1>2. CASE ConnectFails
  BY <1>2 DEF ConnectFails
<1>3. CASE Serve
  BY <1>3 DEF Serve
<1>4. CASE HeartbeatOnce
  BY <1>4 DEF HeartbeatOnce
<1>5. CASE StreamEnds
  BY <1>5 DEF StreamEnds, Finally
<1>6. CASE Signal
  <2>1. run' \in {"new", "connecting", "serving", "cancelled", "over"}
    BY <1>6 DEF Signal
  <2>2. run' \notin {"new", "connecting"}
    BY <1>6 DEF Signal
  <2>3. UNCHANGED <<channel, beat, stream, reader, task, work, counter, done, queue, sender,
                    hand, sent>>
    BY <1>6 DEF Signal
  <2>4. main' = "stopping" /\ running' = FALSE
    BY <1>6 DEF Signal
  <2>5. main' \in {"waiting", "stopping", "stopped"} /\ running' \in BOOLEAN
    BY <2>4
  <2>6. AtHand'
    BY <2>2, <2>3
  <2> QED
    BY <2>1, <2>3, <2>5, <2>6
<1>7. CASE Disconnected
  BY <1>7 DEF Disconnected
<1>8. CASE Cancelled
  <2>1. UNCHANGED <<main, task, work, counter, done, queue, sender, hand, sent>>
    BY <1>8 DEF Cancelled
  <2>2. CASE stream = "none"
    BY <1>8, <2>1, <2>2 DEF Cancelled
  <2>3. CASE stream # "none"
    BY <1>8, <2>1, <2>3 DEF Cancelled, Finally
  <2> QED
    BY <2>2, <2>3
<1>9. CASE Receive
  BY <1>9 DEF Receive
<1>10. CASE Executed
  <2>1. [seq |-> Numbered, state |-> Execute(task)] \in Packet
    BY ExecuteType DEF Packet, Numbered
  <2>2. work' \in Seq(Packet) /\ Len(work') = 1
    BY <1>10, <2>1 DEF Executed
  <2>3. /\ done' \in Seq({"COMPLETED", "FAILED"})
        /\ Len(done') = Len(done) + 1
    BY <1>10, ExecuteType, AppendProperties DEF Executed
  <2>4. Len(done) \in Nat
    BY LenProperties
  <2>5. counter' \in Nat /\ counter' = 2 * Len(done')
    BY <1>10, <2>3, <2>4 DEF Executed
  <2> QED
    BY <1>10, <2>2, <2>3, <2>5 DEF Executed
<1>11. CASE Put
  <2>1. queue \in Seq(Packet) /\ work \in Seq(Packet)
    OBVIOUS
  <2>2. queue \o work \in Seq(Packet) /\ Len(queue \o work) = Len(queue) + Len(work)
    BY <2>1, ConcatProperties
  <2>3. Len(queue) \in Nat /\ Len(work) \in Nat
    BY <2>1, LenProperties
  <2>4. queue' \in Seq(Packet) /\ Len(queue') <= QueueMax
    BY <1>11, <2>2, <2>3, QueueParameter DEF Put
  <2>5. <<>> \in Seq(Packet) /\ Len(<<>>) = 0
    OBVIOUS
  <2> QED
    BY <1>11, <2>4, <2>5 DEF Put
<1>12. CASE Take
  <2>1. Head(queue) \in Packet /\ Tail(queue) \in Seq(Packet) /\ Len(Tail(queue)) <= QueueMax
    BY <1>12, HeadTailProperties, LenProperties, QueueParameter DEF Take
  <2>2. hand' \in Seq(Packet)
    BY <1>12, <2>1 DEF Take
  <2>3. sender = "get" /\ sender' = "write" /\ queue' = Tail(queue)
    BY <1>12 DEF Take
  <2>4. UNCHANGED <<main, run, running, channel, beat, stream, reader, task, work, counter,
                    done, sent>>
    BY <1>12 DEF Take
  <2>5. run \notin {"new", "connecting"}
    BY <2>3
  <2> QED
    BY <2>1, <2>2, <2>3, <2>4
<1>13. CASE Timeout
  BY <1>13 DEF Timeout
<1>14. CASE Write
  <2>1. sent' \in Seq(Packet) /\ hand' \in Seq(Packet) /\ hand' = <<>>
    BY <1>14, ConcatProperties DEF Write
  <2> QED
    BY <1>14, <2>1 DEF Write
<1>15. CASE SenderEnds
  BY <1>15 DEF SenderEnds
<1>16. CASE Break
  BY <1>16 DEF Break
<1>17. CASE UNCHANGED vars
  BY <1>17 DEF vars
<1> QED
  BY <1>1, <1>2, <1>3, <1>4, <1>5, <1>6, <1>7, <1>8, <1>9, <1>10, <1>11, <1>12, <1>13, <1>14,
     <1>15, <1>16, <1>17 DEF Next

LEMMA AlwaysTyped == Spec => []TypeInv
BY InitTypes, NextTypes, PTL DEF Spec

\* Every variable keeps its type, and the queue of results its bound.
THEOREM Typing == Spec => []TypeOK
<1>1. TypeInv => TypeOK
  BY DEF TypeInv
<1> QED
  BY <1>1, AlwaysTyped, PTL

-----------------------------------------------------------------------------
(* Results                                                                  *)

Outcome(i) == [seq |-> 2 * i, state |-> done[i]]

\* A result at the end of the line.
LEMMA OneMore ==
  ASSUME TypeInv, Executed, ResultsInOrder
  PROVE  ResultsInOrder'
<1> USE DEF TypeInv, TypeOK
<1> DEFINE line == sent \o hand \o queue
           x == [seq |-> Numbered, state |-> Execute(task)]
           n == Len(done)
<1>1. line \in Seq(Packet)
  BY ConcatProperties
<1>2. work = <<>> /\ work' = <<x>> /\ done' = Append(done, Execute(task))
      /\ UNCHANGED <<sent, hand, queue>>
  BY DEF Executed, AtHand, outbound
<1>3. x \in Packet /\ n \in Nat /\ x = [seq |-> 2 * (n + 1), state |-> Execute(task)]
  <2>1. n \in Nat /\ counter = 2 * n
    BY LenProperties DEF AtHand
  <2> QED
    BY <2>1, ExecuteType DEF Packet, Numbered
<1>4. line = [i \in 1..n |-> Outcome(i)]
  BY <1>1, <1>2, ConcatEmptySeq DEF ResultsInOrder, Outcome
<1>5. Len(line) = n
  BY <1>1, <1>3, <1>4, LenProperties
<1>6. line \o <<x>> = Append(line, x)
  BY <1>1, <1>3, AppendIsConcat
<1>7. /\ Len(done') = n + 1
      /\ \A i \in 1..n : done'[i] = done[i]
      /\ done'[n + 1] = Execute(task)
  BY <1>2, ExecuteType, AppendProperties
<1>8. Append(line, x) = [i \in 1..(n + 1) |-> [seq |-> 2 * i, state |-> done'[i]]]
  <2> DEFINE all == [i \in 1..(n + 1) |-> [seq |-> 2 * i, state |-> done'[i]]]
  <2>1. /\ Append(line, x) \in Seq(Packet) /\ Len(Append(line, x)) = n + 1
        /\ \A i \in 1..n : Append(line, x)[i] = line[i]
        /\ Append(line, x)[n + 1] = x
    BY <1>1, <1>3, <1>5, AppendProperties
  <2>2. DOMAIN Append(line, x) = 1..(n + 1)
    BY <2>1, LenProperties
  <2>3. \A i \in 1..n : line[i] = all[i]
    BY <1>3, <1>4, <1>7 DEF Outcome
  <2>4. x = all[n + 1]
    BY <1>3, <1>7
  <2>5. ASSUME NEW i \in 1..(n + 1) PROVE Append(line, x)[i] = all[i]
    <3> HIDE DEF line, x, all
    <3>1. CASE i = n + 1
      BY <2>1, <2>4, <3>1
    <3>2. CASE i # n + 1
      <4>1. i \in 1..n
        BY <1>3, <3>2
      <4> QED
        BY <2>1, <2>3, <4>1
    <3> QED
      BY <3>1, <3>2
  <2> QED
    BY <2>1, <2>2, <2>5, LenProperties
<1>9. (sent \o hand \o queue \o work)' = line \o <<x>>
  BY <1>2
<1> QED
  BY <1>6, <1>7, <1>8, <1>9 DEF ResultsInOrder

\* The line may be cut anywhere.
LEMMA LineJoins ==
  \A s, t, u \in Seq(Packet) : (s \o t) \o u = s \o (t \o u)
BY ConcatAssociative

\* What moves along the line moves the line nowhere.
LEMMA SameLine ==
  ASSUME TypeInv, ResultsInOrder, done' = done,
         (sent \o hand \o queue \o work)' = sent \o hand \o queue \o work
  PROVE  ResultsInOrder'
BY DEF ResultsInOrder

LEMMA OrderStep ==
  ASSUME TypeInv, ResultsInOrder, [Next]_vars
  PROVE  ResultsInOrder'
<1> USE DEF life, outbound, inbound
<1>0. sent \in Seq(Packet) /\ hand \in Seq(Packet) /\ queue \in Seq(Packet) /\ work \in Seq(Packet)
  BY DEF TypeInv, TypeOK
<1>1. ASSUME UNCHANGED <<sent, hand, queue, work, done>>
      PROVE  ResultsInOrder'
  BY <1>1, SameLine
<1>2. CASE Executed
  BY <1>2, OneMore
<1>3. CASE Put
  <2>1. queue' = queue \o work /\ work' = <<>> /\ UNCHANGED <<sent, hand, done>>
    BY <1>3 DEF Put
  <2>2. sent \o hand \in Seq(Packet) /\ queue \o work \in Seq(Packet)
    BY <1>0, ConcatProperties
  <2>3. (sent \o hand) \o (queue \o work) = sent \o hand \o queue \o work
    <3> DEFINE gone == sent \o hand
    <3>1. gone \in Seq(Packet)
      BY <2>2
    <3> HIDE DEF gone
    <3>2. (gone \o queue) \o work = gone \o (queue \o work)
      BY <1>0, <3>1, LineJoins
    <3> QED
      BY <3>2 DEF gone
  <2>4. ((sent \o hand) \o (queue \o work)) \o <<>> = (sent \o hand) \o (queue \o work)
    <3>1. (sent \o hand) \o (queue \o work) \in Seq(Packet)
      BY <2>2, ConcatProperties
    <3> QED
      BY <3>1, ConcatEmptySeq
  <2> QED
    BY <2>1, <2>3, <2>4, SameLine
<1>4. CASE Take
  <2>1. hand = <<>> /\ queue # <<>> /\ hand' = <<Head(queue)>> /\ queue' = Tail(queue)
        /\ UNCHANGED <<sent, work, done>>
    BY <1>4 DEF Take, TypeInv, AtHand
  <2>2. Head(queue) \in Packet /\ Tail(queue) \in Seq(Packet)
    BY <1>0, <2>1, HeadTailProperties
  <2>3. <<Head(queue)>> \in Seq(Packet) /\ <<Head(queue)>> \o Tail(queue) = queue
    BY <1>0, <2>1, <2>2
  <2>4. (sent \o <<Head(queue)>>) \o Tail(queue) = sent \o queue
    BY <1>0, <2>2, <2>3, LineJoins
  <2>5. sent \o hand = sent
    BY <1>0, <2>1, ConcatEmptySeq
  <2> QED
    BY <2>1, <2>4, <2>5, SameLine
<1>5. CASE Write
  <2>1. sent' = sent \o hand /\ hand' = <<>> /\ UNCHANGED <<queue, work, done>>
    BY <1>5 DEF Write
  <2>2. (sent \o hand) \o <<>> = sent \o hand
    BY <1>0, ConcatProperties, ConcatEmptySeq
  <2> QED
    BY <2>1, <2>2, SameLine
<1>6. CASE Cancelled
  BY <1>1, <1>6 DEF Cancelled
<1>7. CASE Connect \/ ConnectFails \/ Serve \/ HeartbeatOnce \/ StreamEnds
  BY <1>1, <1>7 DEF Connect, ConnectFails, Serve, HeartbeatOnce, StreamEnds
<1>8. CASE Signal \/ Disconnected \/ Receive
  BY <1>1, <1>8 DEF Signal, Disconnected, Receive
<1>9. CASE Timeout \/ SenderEnds \/ Break
  BY <1>1, <1>9 DEF Timeout, SenderEnds, Break
<1>10. CASE UNCHANGED vars
  BY <1>1, <1>10 DEF vars
<1> QED
  BY <1>2, <1>3, <1>4, <1>5, <1>6, <1>7, <1>8, <1>9, <1>10 DEF Next

\* One result for each executed task, in the order of execution and with the
\* number it was encrypted under, from the handler to the wire.
THEOREM ResultsKeepOrder == Spec => []ResultsInOrder
<1>1. Init => ResultsInOrder
  <2> SUFFICES ASSUME Init PROVE ResultsInOrder
    OBVIOUS
  <2>1. sent = <<>> /\ hand = <<>> /\ queue = <<>> /\ work = <<>> /\ done = <<>>
    BY DEF Init
  <2>2. sent \o hand \o queue \o work = <<>>
    BY <2>1
  <2>3. Len(done) = 0
    BY <2>1
  <2>4. [i \in 1..Len(done) |-> [seq |-> 2 * i, state |-> done[i]]] = <<>>
    BY <2>3
  <2> QED
    BY <2>2, <2>4 DEF ResultsInOrder
<1> QED
  BY <1>1, AlwaysTyped, OrderStep, PTL DEF Spec

-----------------------------------------------------------------------------
(* The end of run                                                           *)

\* What run has set up belongs to its stream, and is there only with it.
RunInv ==
  /\ run \in {"new", "connecting"} => stream = "none"
  /\ run = "serving" => stream # "none"
  /\ stream = "none" => beat = "none" /\ reader = "off"
  /\ NothingOutlivesRun

LEMMA RunStep ==
  ASSUME TypeInv, RunInv, [Next]_vars
  PROVE  RunInv'
<1> USE DEF RunInv, NothingOutlivesRun, life, outbound, inbound
<1>1. CASE Connect \/ ConnectFails
  BY <1>1 DEF Connect, ConnectFails
<1>2. CASE Serve
  BY <1>2 DEF Serve
<1>3. CASE HeartbeatOnce
  BY <1>3 DEF HeartbeatOnce
<1>4. CASE StreamEnds
  BY <1>4 DEF StreamEnds, Finally
<1>5. CASE Signal
  BY <1>5 DEF Signal
<1>6. CASE Disconnected
  BY <1>6 DEF Disconnected
<1>7. CASE Cancelled
  <2>1. CASE stream = "none"
    BY <1>7, <2>1 DEF Cancelled
  <2>2. CASE stream # "none"
    BY <1>7, <2>2 DEF Cancelled, Finally
  <2> QED
    BY <2>1, <2>2
<1>8. CASE Receive \/ Executed \/ Put
  BY <1>8 DEF Receive, Executed, Put
<1>9. CASE Take \/ Timeout \/ Write \/ SenderEnds
  BY <1>9 DEF Take, Timeout, Write, SenderEnds
<1>10. CASE Break
  BY <1>10 DEF Break
<1>11. CASE UNCHANGED vars
  BY <1>11 DEF vars
<1> QED
  BY <1>1, <1>2, <1>3, <1>4, <1>5, <1>6, <1>7, <1>8, <1>9, <1>10, <1>11 DEF Next

\* Whichever way run ends, it leaves neither a heartbeat nor a reader behind, and
\* closes what it opened for its stream.
THEOREM RunCleansUp == Spec => []NothingOutlivesRun
<1>1. Init => RunInv
  BY DEF Init, RunInv, NothingOutlivesRun
<1>2. RunInv => NothingOutlivesRun
  BY DEF RunInv
<1> QED
  BY <1>1, <1>2, AlwaysTyped, RunStep, PTL DEF Spec

-----------------------------------------------------------------------------
(* The key exchange behind connect, with Handshake.tla's names.             *)

CONSTANTS Agents, MaxFresh

VARIABLES fresh, offered, answer, crypto, session

Exchange == INSTANCE Handshake

\* A session s in which every key and the salt were generated before.
Generated(s) == s.session_key.secret \subseteq 1..fresh /\ s.session_key.salt \in 1..fresh

\* What is offered and answered, and what the two ends hold, was generated
\* before; and no two ends have a secret or a salt in common.
KeysApart ==
  /\ fresh \in Nat
  /\ DOMAIN offered = Agents /\ DOMAIN answer = Agents
  /\ DOMAIN crypto = Agents /\ DOMAIN session = Agents
  /\ \A a \in Agents :
       /\ offered[a] # None => offered[a] \in 1..fresh
       /\ answer[a] # None => answer[a].public \in 1..fresh
       /\ crypto[a] # None => Generated(crypto[a])
       /\ session[a] # None => Generated(session[a])
  /\ \A a, b \in Agents : crypto[a] # None /\ session[b] # None =>
       /\ crypto[a].session_key.secret # session[b].session_key.secret
       /\ crypto[a].session_key.salt # session[b].session_key.salt

LEMMA ConnectKeepsApart ==
  ASSUME KeysApart, NEW a \in Agents, Exchange!Connect(a)
  PROVE  KeysApart'
<1>1. fresh' = fresh + 1 /\ 1..fresh \subseteq 1..fresh' /\ fresh + 1 \in 1..fresh'
  BY DEF KeysApart, Exchange!Connect, Exchange!Generate
<1> QED
  BY <1>1 DEF KeysApart, Generated, Exchange!Connect

LEMMA RegisterKeepsApart ==
  ASSUME KeysApart, NEW a \in Agents, Exchange!Register(a)
  PROVE  KeysApart'
<1> DEFINE made == Exchange!NewSession(fresh + 1, offered[a], fresh + 2)
<1>1. /\ fresh \in Nat /\ fresh' = fresh + 2 /\ 1..fresh \subseteq 1..fresh'
      /\ fresh + 1 \in 1..fresh' /\ fresh + 2 \in 1..fresh'
      /\ fresh + 1 \notin 1..fresh /\ fresh + 2 \notin 1..fresh
      /\ offered[a] \in 1..fresh
  BY DEF KeysApart, Exchange!Register, Exchange!Generate
<1>2. /\ made.session_key.secret = {fresh + 1, offered[a]}
      /\ made.session_key.salt = fresh + 2
      /\ made.own = fresh + 1
  BY DEF Exchange!NewSession, Exchange!DeriveSessionKey
<1> HIDE DEF made
<1>3. /\ session' = [session EXCEPT ![a] = made]
      /\ \E n : answer' = [answer EXCEPT ![a] = [public |-> made.own, nonce |-> n]]
      /\ UNCHANGED <<offered, crypto>>
  BY DEF Exchange!Register, made
<1>4. /\ DOMAIN session' = Agents /\ session'[a] = made
      /\ \A b \in Agents \ {a} : session'[b] = session[b]
      /\ DOMAIN answer' = Agents /\ answer'[a].public = fresh + 1
      /\ \A b \in Agents \ {a} : answer'[b] = answer[b]
  BY <1>2, <1>3 DEF KeysApart
<1>5. Generated(session[a])'
  BY <1>1, <1>2, <1>4 DEF Generated
<1>6. ASSUME NEW b \in Agents, crypto[b] # None
      PROVE  /\ crypto[b].session_key.secret # made.session_key.secret
             /\ crypto[b].session_key.salt # made.session_key.salt
  <2>1. /\ crypto[b].session_key.secret \subseteq 1..fresh
        /\ crypto[b].session_key.salt \in 1..fresh
    BY <1>6 DEF KeysApart, Generated
  <2>2. fresh + 1 \in made.session_key.secret
    BY <1>2
  <2> QED
    BY <1>1, <1>2, <2>1, <2>2
<1> QED
  BY <1>1, <1>3, <1>4, <1>5, <1>6 DEF KeysApart, Generated

LEMMA ConnectedKeepsApart ==
  ASSUME KeysApart, NEW a \in Agents, Exchange!Connected(a)
  PROVE  KeysApart'
<1> DEFINE own == Exchange!NewSession(fresh + 1, answer[a].public, fresh + 2)
           made == [own EXCEPT !.nonce = answer[a].nonce]
<1>1. /\ fresh \in Nat /\ fresh' = fresh + 2 /\ 1..fresh \subseteq 1..fresh'
      /\ fresh + 1 \in 1..fresh' /\ fresh + 2 \in 1..fresh'
      /\ fresh + 1 \notin 1..fresh /\ fresh + 2 \notin 1..fresh
      /\ answer[a].public \in 1..fresh
  BY DEF KeysApart, Exchange!Connected, Exchange!Generate
<1>2. /\ made.session_key.secret = {fresh + 1, answer[a].public}
      /\ made.session_key.salt = fresh + 2
  BY DEF Exchange!NewSession, Exchange!DeriveSessionKey
<1> HIDE DEF made
<1>3. /\ crypto' = [crypto EXCEPT ![a] = made]
      /\ offered' = [offered EXCEPT ![a] = None]
      /\ answer' = [answer EXCEPT ![a] = None]
      /\ session' = session
  BY DEF Exchange!Connected, made
<1>4. /\ DOMAIN crypto' = Agents /\ crypto'[a] = made
      /\ \A b \in Agents \ {a} : crypto'[b] = crypto[b]
  BY <1>3 DEF KeysApart
<1>5. Generated(crypto[a])'
  BY <1>1, <1>2, <1>4 DEF Generated
<1>6. \A b \in Agents : session[b] # None =>
        /\ made.session_key.secret # session[b].session_key.secret
        /\ made.session_key.salt # session[b].session_key.salt
  BY <1>1, <1>2 DEF KeysApart, Generated
<1> QED
  BY <1>1, <1>3, <1>4, <1>5, <1>6 DEF KeysApart, Generated

\* The orchestrator and an agent never hold the same session key, after any
\* number of registrations, lost answers and repeated calls: neither the secret
\* nor the salt it is derived from is ever the same at both ends.
THEOREM SessionKeysNeverAgree ==
  Exchange!Spec =>
    [](\A a \in Agents : crypto[a] # None /\ session[a] # None =>
         crypto[a].session_key # session[a].session_key)
<1>1. Exchange!Init => KeysApart
  BY DEF Exchange!Init, KeysApart
<1>2. KeysApart /\ [Exchange!Next]_(Exchange!vars) => KeysApart'
  <2> SUFFICES ASSUME KeysApart, [Exchange!Next]_(Exchange!vars) PROVE KeysApart'
    OBVIOUS
  <2>1. ASSUME NEW a \in Agents, Exchange!ConnectFails(a)
        PROVE  KeysApart'
    BY <2>1 DEF Exchange!ConnectFails, KeysApart, Generated
  <2>2. CASE UNCHANGED Exchange!vars
    BY <2>2 DEF Exchange!vars, KeysApart, Generated
  <2> QED
    BY <2>1, <2>2, ConnectKeepsApart, RegisterKeepsApart, ConnectedKeepsApart DEF Exchange!Next
<1>3. KeysApart => \A a \in Agents : crypto[a] # None /\ session[a] # None =>
                     crypto[a].session_key # session[a].session_key
  BY DEF KeysApart
<1> QED
  BY <1>1, <1>2, <1>3, PTL DEF Exchange!Spec

=============================================================================
