--------------------------- MODULE AdapterProofs ---------------------------
(***************************************************************************)
(* What the adapters guarantee for every set of calls, every queue bound   *)
(* and every number of connections: typing with the bound of the queue,    *)
(* which futures the table holds, and that a consumer survives.            *)
(***************************************************************************)
EXTENDS Adapter, SequenceTheorems, TLAPS

\* A queue that is not full takes one more call.
LEMMA RoomForOne ==
  ASSUME NEW q \in Seq(Calls), NEW c \in Calls, Len(q) < QueueMax
  PROVE  /\ Append(q, c) \in Seq(Calls)
         /\ Len(Append(q, c)) <= QueueMax
BY QueueParameter

\* A queue that is not empty can give one up.
LEMMA OneLess ==
  ASSUME NEW q \in Seq(Calls), q # <<>>, Len(q) <= QueueMax
  PROVE  /\ Tail(q) \in Seq(Calls)
         /\ Len(Tail(q)) <= QueueMax
<1>1. Tail(q) \in Seq(Calls) /\ Len(Tail(q)) = Len(q) - 1
  BY HeadTailProperties
<1>2. Len(q) \in Nat /\ QueueMax \in Nat
  BY QueueParameter
<1> QED
  BY <1>1, <1>2

LEMMA InitTypes == AdapterInit => AdapterTypeOK
<1>1. <<>> \in Seq(Calls) /\ Len(<<>>) = 0
  BY EmptySeq
<1>2. QueueMax \in Nat /\ MaxConnects \in Nat
  BY AdapterParameters, QueueParameter
<1>3. "new" \in CallPoints /\ 0 \in 0..MaxConnects
  BY <1>2 DEF CallPoints
<1> SUFFICES ASSUME AdapterInit PROVE AdapterTypeOK
  OBVIOUS
<1>4. requests \in Seq(Calls) /\ Len(requests) <= QueueMax /\ log \in Seq(Calls)
  BY <1>1, <1>2 DEF AdapterInit
<1>5. /\ at \in [Calls \cup {App} -> CallPoints]
      /\ signed \in [Calls -> 0..MaxConnects]
  BY <1>3 DEF AdapterInit
<1>6. /\ connected \in BOOLEAN /\ released \in BOOLEAN
      /\ crypto \in 0..MaxConnects /\ tracked \in 0..MaxConnects
      /\ consumers \subseteq 1..MaxConnects /\ futures \subseteq Calls
  BY <1>3 DEF AdapterInit
<1> QED
  BY <1>4, <1>5, <1>6 DEF AdapterTypeOK

\* Enqueueing keeps the queue typed and bounded, and moves the call only.
LEMMA EnqueueTypes ==
  ASSUME AdapterTypeOK, NEW c \in Calls, Enqueue(c)
  PROVE  /\ requests' \in Seq(Calls) /\ Len(requests') <= QueueMax
         /\ at' \in [Calls \cup {App} -> CallPoints]
         /\ at'[c] \in {"waiting", "putting"}
         /\ \A d \in Calls : d # c => at'[d] = at[d]
<1>1. CASE Len(requests) < QueueMax
  BY <1>1, RoomForOne DEF AdapterTypeOK, Enqueue, CallPoints
<1>2. CASE ~(Len(requests) < QueueMax)
  BY <1>2 DEF AdapterTypeOK, Enqueue, CallPoints
<1> QED
  BY <1>1, <1>2

\* So does submitting, which leaves a future in the table whatever follows.
LEMMA SubmitTypes ==
  ASSUME AdapterTypeOK, NEW c \in Calls, NEW key \in 0..MaxConnects, Submit(c, key)
  PROVE  /\ requests' \in Seq(Calls) /\ Len(requests') <= QueueMax
         /\ at' \in [Calls \cup {App} -> CallPoints]
         /\ signed' \in [Calls -> 0..MaxConnects]
         /\ futures' = futures \cup {c}
         /\ at'[c] \in {"waiting", "putting", "raised"}
         /\ \A d \in Calls : d # c => at'[d] = at[d] /\ signed'[d] = signed[d]
<1>1. CASE key = 0
  BY <1>1 DEF AdapterTypeOK, Submit, CallPoints
<1>2. CASE key # 0
  BY <1>2, EnqueueTypes DEF AdapterTypeOK, Submit
<1> QED
  BY <1>1, <1>2

\* And whatever follows an attempt to connect.
LEMMA GoesOnTypes ==
  ASSUME AdapterTypeOK, FuturesMatchCalls, NEW c \in Calls \cup {App},
         NEW key \in 0..MaxConnects, GoesOn(c, key)
  PROVE  /\ requests' \in Seq(Calls) /\ Len(requests') <= QueueMax
         /\ at' \in [Calls \cup {App} -> CallPoints]
         /\ signed' \in [Calls -> 0..MaxConnects]
         /\ futures' \subseteq Calls
         /\ FuturesMatchCalls'
<1>1. CASE c = App
  <2>1. /\ at' = [at EXCEPT ![App] = "new"]
        /\ UNCHANGED <<futures, signed, requests>>
    BY <1>1 DEF GoesOn
  <2>2. at' \in [Calls \cup {App} -> CallPoints] /\ \A d \in Calls : at'[d] = at[d]
    BY <2>1, AdapterParameters DEF AdapterTypeOK, CallPoints
  <2> QED
    BY <2>1, <2>2 DEF AdapterTypeOK, FuturesMatchCalls, LeftBehind
<1>2. CASE c \in Calls
  <2>1. Submit(c, key)
    BY <1>2, AdapterParameters DEF GoesOn
  <2>2. /\ requests' \in Seq(Calls) /\ Len(requests') <= QueueMax
        /\ at' \in [Calls \cup {App} -> CallPoints]
        /\ signed' \in [Calls -> 0..MaxConnects]
    BY <1>2, <2>1, SubmitTypes
  <2>3. /\ futures' = futures \cup {c}
        /\ at'[c] \in {"waiting", "putting", "raised"}
        /\ \A d \in Calls : d # c => at'[d] = at[d] /\ signed'[d] = signed[d]
    BY <1>2, <2>1, SubmitTypes
  <2> QED
    BY <1>2, <2>2, <2>3 DEF FuturesMatchCalls, LeftBehind
<1> QED
  BY <1>1, <1>2

\* A call that is not connected yet has signed nothing.
UnsignedAtFirst == \A c \in Calls : at[c] \in {"new", "connecting"} => signed[c] = 0

\* A call that is put or waits has signed its request.
SignedAtLast == \A c \in Calls : at[c] \in {"putting", "waiting"} => signed[c] # 0

AdapterInv ==
  AdapterTypeOK /\ FuturesMatchCalls /\ ConsumerSurvives /\ UnsignedAtFirst /\ SignedAtLast

\* Whatever follows an attempt to connect signs what goes on the queue.
LEMMA GoesOnSigned ==
  ASSUME AdapterTypeOK, UnsignedAtFirst, SignedAtLast, NEW c \in Calls \cup {App},
         at[c] = "connecting" \/ at[c] = "new",
         NEW key \in 0..MaxConnects, GoesOn(c, key)
  PROVE  UnsignedAtFirst' /\ SignedAtLast'
<1>1. CASE c = App
  BY <1>1, AdapterParameters DEF AdapterTypeOK, GoesOn, UnsignedAtFirst, SignedAtLast
<1>2. CASE c \in Calls
  <2>1. Submit(c, key)
    BY <1>2, AdapterParameters DEF GoesOn
  <2>2. \A d \in Calls : d # c => at'[d] = at[d] /\ signed'[d] = signed[d]
    BY <1>2, <2>1, SubmitTypes
  <2>3. at'[c] \in {"waiting", "putting", "raised"}
    BY <1>2, <2>1, SubmitTypes
  <2>4. at'[c] # "raised" => signed'[c] # 0
    BY <1>2, <2>1 DEF Submit, AdapterTypeOK
  <2> QED
    BY <1>2, <2>2, <2>3, <2>4 DEF UnsignedAtFirst, SignedAtLast
<1> QED
  BY <1>1, <1>2

LEMMA CallSteps ==
  ASSUME AdapterInv, NEW c \in Calls, Begin(c) \/ PutLater(c) \/ Cancel(c) \/ Deadline(c)
  PROVE  AdapterInv'
<1> USE DEF AdapterInv
<1>1. CASE Begin(c)
  <2>1. log' \in Seq(Calls)
    BY <1>1 DEF Begin, Logged, AdapterTypeOK
  <2>2. CASE connected
    <3>1. GoesOn(c, crypto)
      BY <1>1, <2>2, AdapterParameters DEF Begin, GoesOn
    <3>2. UnsignedAtFirst' /\ SignedAtLast'
      BY <1>1, <3>1, GoesOnSigned DEF Begin, AdapterTypeOK
    <3> QED
      BY <1>1, <2>1, <3>1, <3>2, GoesOnTypes DEF Begin, AdapterTypeOK, ConsumerSurvives
  <2>3. CASE ~connected
    <3>1. AdapterTypeOK' /\ ConsumerSurvives' /\ UnsignedAtFirst' /\ SignedAtLast'
      BY <1>1, <2>1, <2>3
         DEF Begin, AdapterTypeOK, CallPoints, ConsumerSurvives, UnsignedAtFirst, SignedAtLast
    <3> QED
      BY <1>1, <2>3, <3>1 DEF Begin, AdapterTypeOK, FuturesMatchCalls, LeftBehind
  <2> QED
    BY <2>2, <2>3
<1>2. CASE PutLater(c)
  <2>1. AdapterTypeOK' /\ ConsumerSurvives'
    BY <1>2, EnqueueTypes DEF PutLater, AdapterTypeOK, ConsumerSurvives
  <2>2. /\ \A d \in Calls : d # c => at'[d] = at[d]
        /\ at[c] = "putting" /\ at'[c] \in {"waiting", "putting"}
        /\ signed' = signed /\ futures' = futures
    BY <1>2, EnqueueTypes DEF PutLater
  <2> QED
    BY <2>1, <2>2 DEF FuturesMatchCalls, LeftBehind, UnsignedAtFirst, SignedAtLast
<1>3. CASE Cancel(c)
  <2>1. AdapterTypeOK' /\ ConsumerSurvives'
    BY <1>3 DEF Cancel, AdapterTypeOK, CallPoints, ConsumerSurvives
  <2>2. /\ \A d \in Calls : d # c => at'[d] = at[d]
        /\ at[c] \in {"connecting", "putting", "waiting"} /\ at'[c] = "cancelled"
        /\ signed' = signed /\ futures' = futures
    BY <1>3 DEF Cancel, AdapterTypeOK
  <2> QED
    BY <2>1, <2>2 DEF FuturesMatchCalls, LeftBehind, UnsignedAtFirst, SignedAtLast
<1>4. CASE Deadline(c)
  <2>1. AdapterTypeOK' /\ ConsumerSurvives'
    BY <1>4 DEF Deadline, AdapterTypeOK, CallPoints, ConsumerSurvives
  <2>2. /\ \A d \in Calls : d # c => at'[d] = at[d]
        /\ at'[c] = "timed out"
        /\ signed' = signed /\ futures' = futures \ {c}
    BY <1>4 DEF Deadline, AdapterTypeOK
  <2> QED
    BY <2>1, <2>2 DEF FuturesMatchCalls, LeftBehind, UnsignedAtFirst, SignedAtLast
<1> QED
  BY <1>1, <1>2, <1>3, <1>4

LEMMA ConnectSteps ==
  ASSUME AdapterInv, NEW c \in Calls \cup {App}, ConnectSucceeds(c) \/ ConnectionFails(c)
  PROVE  AdapterInv'
<1> USE DEF AdapterInv
<1>1. CASE ConnectSucceeds(c)
  <2>1. crypto + 1 \in 0..MaxConnects /\ crypto + 1 \in 1..MaxConnects
    BY <1>1, AdapterParameters DEF ConnectSucceeds, AdapterTypeOK
  <2>2. GoesOn(c, crypto + 1)
    BY <1>1 DEF ConnectSucceeds
  <2>3. UnsignedAtFirst' /\ SignedAtLast'
    BY <1>1, <2>1, <2>2, GoesOnSigned DEF ConnectSucceeds
  <2> QED
    BY <1>1, <2>1, <2>2, <2>3, GoesOnTypes DEF ConnectSucceeds, AdapterTypeOK, ConsumerSurvives
<1>2. CASE ConnectionFails(c)
  <2>1. GoesOn(c, crypto)
    BY <1>2 DEF ConnectionFails
  <2>2. UnsignedAtFirst' /\ SignedAtLast'
    BY <1>2, <2>1, GoesOnSigned DEF ConnectionFails, AdapterTypeOK
  <2> QED
    BY <1>2, <2>1, <2>2, GoesOnTypes DEF ConnectionFails, AdapterTypeOK, ConsumerSurvives
<1> QED
  BY <1>1, <1>2

LEMMA OtherSteps ==
  ASSUME AdapterInv, AppConnects \/ Disconnect \/ Consumption
  PROVE  AdapterInv'
<1> USE DEF AdapterInv
<1>1. CASE AppConnects
  BY <1>1, AdapterParameters
     DEF AppConnects, AdapterTypeOK, CallPoints, FuturesMatchCalls, LeftBehind,
         UnsignedAtFirst, SignedAtLast, ConsumerSurvives
<1>2. CASE Disconnect
  BY <1>2 DEF Disconnect, AdapterTypeOK, FuturesMatchCalls, LeftBehind, UnsignedAtFirst,
              SignedAtLast, ConsumerSurvives
<1>3. CASE Consumption
  <2>1. PICK k \in 1..MaxConnects : Consume(k)
    BY <1>3 DEF Consumption
  <2>2. requests' \in Seq(Calls) /\ Len(requests') <= QueueMax /\ futures' = futures
    BY <2>1, OneLess DEF Consume, AdapterTypeOK, Answered
  <2> QED
    BY <2>1, <2>2 DEF Consume, AdapterTypeOK, FuturesMatchCalls, LeftBehind, UnsignedAtFirst,
                      SignedAtLast, ConsumerSurvives
<1> QED
  BY <1>1, <1>2, <1>3

\* The invariants are inductive together.
LEMMA SpecInv == AdapterSpec => []AdapterInv
<1>1. AdapterInit => AdapterInv
  BY InitTypes DEF AdapterInit, AdapterInv, FuturesMatchCalls, LeftBehind, UnsignedAtFirst,
                   SignedAtLast, ConsumerSurvives
<1>2. ASSUME AdapterInv, [AdapterNext]_adapterVars
      PROVE  AdapterInv'
  <2>1. CASE UNCHANGED adapterVars
    BY <1>2, <2>1 DEF adapterVars, AdapterInv, AdapterTypeOK, FuturesMatchCalls, LeftBehind,
                      UnsignedAtFirst, SignedAtLast, ConsumerSurvives
  <2> QED
    BY <1>2, <2>1, CallSteps, ConnectSteps, OtherSteps DEF AdapterNext
<1> QED
  BY <1>1, <1>2, PTL DEF AdapterSpec

\* Every variable keeps its type, and the queue its bound.
THEOREM Typing == AdapterSpec => []AdapterTypeOK
<1>1. AdapterInv => AdapterTypeOK
  BY DEF AdapterInv
<1> QED
  BY <1>1, SpecInv, PTL

\* The table of futures holds those of the calls under way and those left behind
\* by calls that raised or were cancelled, and no other.
THEOREM FuturesAreAccountedFor == AdapterSpec => []FuturesMatchCalls
<1>1. AdapterInv => FuturesMatchCalls
  BY DEF AdapterInv
<1> QED
  BY <1>1, SpecInv, PTL

\* An adapter that has connected has a consumer until it is disconnected.
THEOREM ConsumerLives == AdapterSpec => []ConsumerSurvives
<1>1. AdapterInv => ConsumerSurvives
  BY DEF AdapterInv
<1> QED
  BY <1>1, SpecInv, PTL
=============================================================================
