-------------------------- MODULE LlmClientsProofs --------------------------
(***************************************************************************)
(* The provider and its clients, for any number of incidents, tasks,       *)
(* prompts and registered backends: the order in which a request asks,     *)
(* what becomes of an incident's report and its files, and what a batch    *)
(* of translations returns.                                                *)
(***************************************************************************)
EXTENDS LlmClients, SequenceTheorems, WellFoundedInduction, TLAPS

-----------------------------------------------------------------------------
(* The order of the backends                                                *)

Once(s) == \A i, j \in DOMAIN s : s[i] = s[j] => i = j

\* Two lists without repetition and without a common element make one.
LEMMA JoinOnce ==
  ASSUME NEW S, NEW s \in Seq(S), NEW t \in Seq(S), Once(s), Once(t),
         ToSet(s) \cap ToSet(t) = {}
  PROVE  /\ s \o t \in Seq(S)
         /\ Once(s \o t)
         /\ ToSet(s \o t) = ToSet(s) \cup ToSet(t)
<1>1. /\ s \o t \in Seq(S)
      /\ Len(s \o t) = Len(s) + Len(t)
      /\ \A i \in 1..Len(s) + Len(t) :
           (s \o t)[i] = IF i <= Len(s) THEN s[i] ELSE t[i - Len(s)]
  BY ConcatProperties
<1>2. /\ Len(s) \in Nat /\ DOMAIN s = 1..Len(s)
      /\ Len(t) \in Nat /\ DOMAIN t = 1..Len(t)
      /\ DOMAIN (s \o t) = 1..Len(s) + Len(t)
  BY <1>1
<1>3. ASSUME NEW i \in 1..Len(s) + Len(t)
      PROVE  \/ i \in 1..Len(s) /\ (s \o t)[i] = s[i]
             \/ i > Len(s) /\ i - Len(s) \in 1..Len(t) /\ (s \o t)[i] = t[i - Len(s)]
  BY <1>1, <1>2
<1>4. Once(s \o t)
  <2> SUFFICES ASSUME NEW i \in 1..Len(s) + Len(t), NEW j \in 1..Len(s) + Len(t),
                      (s \o t)[i] = (s \o t)[j]
               PROVE  i = j
    BY <1>2 DEF Once
  <2>1. ASSUME NEW k \in 1..Len(s), NEW l \in 1..Len(t)
        PROVE  s[k] # t[l]
    BY <1>2 DEF ToSet
  <2>2. CASE i \in 1..Len(s) /\ j \in 1..Len(s)
    BY <2>2, <1>2, <1>3 DEF Once
  <2>3. CASE i > Len(s) /\ j > Len(s)
    <3>1. i - Len(s) = j - Len(s)
      BY <2>3, <1>2, <1>3 DEF Once
    <3> QED
      BY <3>1, <1>2
  <2> QED
    BY <2>1, <2>2, <2>3, <1>2, <1>3
<1>5. ToSet(s \o t) \subseteq ToSet(s) \cup ToSet(t)
  BY <1>2, <1>3 DEF ToSet
<1>6. ToSet(s) \subseteq ToSet(s \o t)
  BY <1>1, <1>2 DEF ToSet
<1>7. ASSUME NEW j \in 1..Len(t)
      PROVE  t[j] \in ToSet(s \o t)
  <2>1. j + Len(s) \in 1..Len(s) + Len(t) /\ ~(j + Len(s) <= Len(s)) /\ (j + Len(s)) - Len(s) = j
    BY <1>2
  <2>2. (s \o t)[j + Len(s)] = t[j]
    BY <2>1, <1>1
  <2> QED
    BY <2>1, <2>2, <1>2 DEF ToSet
<1> QED
  BY <1>1, <1>2, <1>4, <1>5, <1>6, <1>7 DEF ToSet

LEMMA BackendOnce ==
  ASSUME NEW b
  PROVE  /\ Backend(b) \in Seq(Registered)
         /\ Once(Backend(b))
         /\ ToSet(Backend(b)) = {b} \cap Registered
<1>1. CASE b \in Registered
  <2>1. Backend(b) = <<b>>
    BY <1>1 DEF Backend
  <2>2. DOMAIN <<b>> = {1} /\ <<b>>[1] = b /\ <<b>> \in Seq(Registered)
    BY <1>1
  <2> QED
    BY <1>1, <2>1, <2>2 DEF Once, ToSet
<1>2. CASE b \notin Registered
  <2>1. Backend(b) = <<>>
    BY <1>2 DEF Backend
  <2>2. DOMAIN <<>> = {} /\ <<>> \in Seq(Registered)
    OBVIOUS
  <2> QED
    BY <1>2, <2>1, <2>2 DEF Once, ToSet
<1> QED
  BY <1>1, <1>2

LEMMA TurnOnce ==
  ASSUME NEW i, NEW skipped
  PROVE  /\ Turn(i, skipped) \in Seq(Registered)
         /\ Once(Turn(i, skipped))
         /\ ToSet(Turn(i, skipped)) = ({FallbackChain[i]} \ skipped) \cap Registered
<1>1. CASE FallbackChain[i] \in skipped
  <2>1. Turn(i, skipped) = <<>>
    BY <1>1 DEF Turn
  <2>2. DOMAIN <<>> = {} /\ <<>> \in Seq(Registered)
    OBVIOUS
  <2> QED
    BY <1>1, <2>1, <2>2 DEF Once, ToSet
<1>2. CASE FallbackChain[i] \notin skipped
  BY <1>2, BackendOnce DEF Turn
<1> QED
  BY <1>1, <1>2

LEMMA ChainNames ==
  /\ FallbackChain[1] = "claude" /\ FallbackChain[2] = "gpt4o" /\ FallbackChain[3] = "ollama"
  /\ ToSet(FallbackChain) = {"claude", "gpt4o", "ollama"}
<1>1. DOMAIN FallbackChain = {1, 2, 3}
  BY DEF FallbackChain
<1>2. FallbackChain[1] = "claude" /\ FallbackChain[2] = "gpt4o" /\ FallbackChain[3] = "ollama"
  BY DEF FallbackChain
<1> QED
  BY <1>1, <1>2 DEF ToSet

\* The order has the configured backend first, and every registered one of the
\* chain once.
LEMMA OrderOnce ==
  /\ Order \in Seq(Registered)
  /\ Once(Order)
  /\ ToSet(Order) = ({Primary} \cup ToSet(FallbackChain)) \cap Registered
  /\ Primary \in Registered => Order[1] = Primary
<1> DEFINE T(i) == Turn(i, {Primary})
<1>1. /\ T(1) \o T(2) \in Seq(Registered)
      /\ Once(T(1) \o T(2))
      /\ ToSet(T(1) \o T(2)) = ({"claude", "gpt4o"} \ {Primary}) \cap Registered
  <2>1. /\ T(1) \in Seq(Registered) /\ Once(T(1))
        /\ ToSet(T(1)) = ({"claude"} \ {Primary}) \cap Registered
    BY TurnOnce, ChainNames
  <2>2. /\ T(2) \in Seq(Registered) /\ Once(T(2))
        /\ ToSet(T(2)) = ({"gpt4o"} \ {Primary}) \cap Registered
    BY TurnOnce, ChainNames
  <2>3. ToSet(T(1)) \cap ToSet(T(2)) = {}
    BY <2>1, <2>2
  <2> HIDE DEF T
  <2>4. /\ T(1) \o T(2) \in Seq(Registered)
        /\ Once(T(1) \o T(2))
        /\ ToSet(T(1) \o T(2)) = ToSet(T(1)) \cup ToSet(T(2))
    BY <2>1, <2>2, <2>3, JoinOnce
  <2> QED
    BY <2>1, <2>2, <2>4
<1>2. /\ Fallbacks({Primary}) \in Seq(Registered)
      /\ Once(Fallbacks({Primary}))
      /\ ToSet(Fallbacks({Primary})) = (ToSet(FallbackChain) \ {Primary}) \cap Registered
  <2>1. /\ T(3) \in Seq(Registered) /\ Once(T(3))
        /\ ToSet(T(3)) = ({"ollama"} \ {Primary}) \cap Registered
    BY TurnOnce, ChainNames
  <2> DEFINE Two == T(1) \o T(2)
  <2>2. /\ Fallbacks({Primary}) = Two \o T(3)
        /\ Two \in Seq(Registered) /\ Once(Two)
        /\ ToSet(Two) = ({"claude", "gpt4o"} \ {Primary}) \cap Registered
    BY <1>1 DEF Fallbacks
  <2> HIDE DEF Two, T
  <2>3. ToSet(Two) \cap ToSet(T(3)) = {}
    BY <2>1, <2>2
  <2>4. /\ Two \o T(3) \in Seq(Registered)
        /\ Once(Two \o T(3))
        /\ ToSet(Two \o T(3)) = ToSet(Two) \cup ToSet(T(3))
    BY <2>1, <2>2, <2>3, JoinOnce
  <2> QED
    BY <2>1, <2>2, <2>4, ChainNames
<1>3. /\ Backend(Primary) \in Seq(Registered) /\ Once(Backend(Primary))
      /\ ToSet(Backend(Primary)) = {Primary} \cap Registered
  BY BackendOnce
<1>4. /\ Order \in Seq(Registered)
      /\ Once(Order)
      /\ ToSet(Order) = ToSet(Backend(Primary)) \cup ToSet(Fallbacks({Primary}))
  <2>1. ToSet(Backend(Primary)) \cap ToSet(Fallbacks({Primary})) = {}
    BY <1>2, <1>3
  <2> QED
    <3> DEFINE first == Backend(Primary)
               rest  == Fallbacks({Primary})
    <3>1. /\ first \in Seq(Registered) /\ Once(first)
          /\ rest \in Seq(Registered) /\ Once(rest)
          /\ ToSet(first) \cap ToSet(rest) = {}
      BY <1>2, <1>3, <2>1
    <3> HIDE DEF first, rest
    <3>2. /\ first \o rest \in Seq(Registered) /\ Once(first \o rest)
          /\ ToSet(first \o rest) = ToSet(first) \cup ToSet(rest)
      BY <3>1, JoinOnce
    <3> QED
      BY <3>2 DEF Order, first, rest
<1>5. ASSUME Primary \in Registered
      PROVE  Order[1] = Primary
  <2>1. Backend(Primary) = <<Primary>> /\ <<Primary>> \in Seq(Registered)
    BY <1>5 DEF Backend
  <2>2. Len(<<Primary>>) = 1 /\ <<Primary>>[1] = Primary
    OBVIOUS
  <2>3. (<<Primary>> \o Fallbacks({Primary}))[1] = <<Primary>>[1]
    BY <2>1, <2>2, <1>2, ConcatProperties
  <2> QED
    BY <2>1, <2>2, <2>3 DEF Order
<1> QED
  BY <1>2, <1>3, <1>4, <1>5


-----------------------------------------------------------------------------
(* The documented order *)

InChain(s) == \A i, j \in DOMAIN s : i < j => <<s[i], s[j]>> \in Before

\* Two lists in the order make one, when the first list's elements come before
\* those of the second.
LEMMA JoinInChain ==
  ASSUME NEW S, NEW s \in Seq(S), NEW t \in Seq(S), InChain(s), InChain(t),
         \A x \in ToSet(s), y \in ToSet(t) : <<x, y>> \in Before
  PROVE  InChain(s \o t)
<1>1. /\ Len(s) \in Nat /\ DOMAIN s = 1..Len(s)
      /\ Len(t) \in Nat /\ DOMAIN t = 1..Len(t)
      /\ DOMAIN (s \o t) = 1..Len(s) + Len(t)
      /\ \A i \in 1..Len(s) + Len(t) :
           (s \o t)[i] = IF i <= Len(s) THEN s[i] ELSE t[i - Len(s)]
  BY ConcatProperties
<1> SUFFICES ASSUME NEW i \in 1..Len(s) + Len(t), NEW j \in 1..Len(s) + Len(t), i < j
             PROVE  <<(s \o t)[i], (s \o t)[j]>> \in Before
  BY <1>1 DEF InChain
<1>2. CASE j <= Len(s)
  <2>1. i \in 1..Len(s) /\ j \in 1..Len(s) /\ (s \o t)[i] = s[i] /\ (s \o t)[j] = s[j]
    BY <1>1, <1>2
  <2> QED
    BY <1>1, <2>1 DEF InChain
<1>3. CASE i > Len(s)
  <2>1. /\ i - Len(s) \in 1..Len(t) /\ j - Len(s) \in 1..Len(t) /\ i - Len(s) < j - Len(s)
        /\ (s \o t)[i] = t[i - Len(s)] /\ (s \o t)[j] = t[j - Len(s)]
    BY <1>1, <1>3
  <2> QED
    BY <1>1, <2>1 DEF InChain
<1>4. CASE i <= Len(s) /\ j > Len(s)
  <2>1. /\ i \in 1..Len(s) /\ j - Len(s) \in 1..Len(t)
        /\ (s \o t)[i] = s[i] /\ (s \o t)[j] = t[j - Len(s)]
    BY <1>1, <1>4
  <2> QED
    BY <1>1, <2>1 DEF ToSet
<1>5. i \in Int /\ j \in Int /\ Len(s) \in Int
  BY <1>1
<1>6. j <= Len(s) \/ i > Len(s) \/ (i <= Len(s) /\ j > Len(s))
  BY <1>5
<1> QED
  BY <1>2, <1>3, <1>4, <1>6

\* A turn has one backend at most.
LEMMA TurnInChain ==
  ASSUME NEW i, NEW skipped
  PROVE  InChain(Turn(i, skipped))
<1>1. DOMAIN <<>> = {} /\ \A b : DOMAIN <<b>> = {1}
  OBVIOUS
<1>2. \/ Turn(i, skipped) = <<>>
      \/ Turn(i, skipped) = <<FallbackChain[i]>>
  BY DEF Turn, Backend
<1>3. ASSUME NEW s, DOMAIN s = {} \/ DOMAIN s = {1}
      PROVE  InChain(s)
  BY <1>3 DEF InChain
<1> QED
  BY <1>1, <1>2, <1>3

\* The fallbacks are in the documented order.
LEMMA FallbacksInChain == InChain(Fallbacks({Primary}))
<1> DEFINE T(i) == Turn(i, {Primary})
           Two  == T(1) \o T(2)
<1>1. /\ T(1) \in Seq(Registered) /\ T(2) \in Seq(Registered) /\ T(3) \in Seq(Registered)
      /\ ToSet(T(1)) \subseteq {"claude"}
      /\ ToSet(T(2)) \subseteq {"gpt4o"}
      /\ ToSet(T(3)) \subseteq {"ollama"}
  BY TurnOnce, ChainNames
<1>2. InChain(T(1)) /\ InChain(T(2)) /\ InChain(T(3))
  BY TurnInChain
<1>3. Two \in Seq(Registered) /\ ToSet(Two) \subseteq {"claude", "gpt4o"}
  <2> HIDE DEF T
  <2>1. /\ Two \in Seq(Registered)
        /\ \A i \in DOMAIN Two : \/ \E k \in DOMAIN T(1) : Two[i] = T(1)[k]
                                 \/ \E k \in DOMAIN T(2) : Two[i] = T(2)[k]
    <3>1. /\ Two \in Seq(Registered) /\ Len(Two) = Len(T(1)) + Len(T(2))
          /\ Len(T(1)) \in Nat /\ DOMAIN T(1) = 1..Len(T(1))
          /\ Len(T(2)) \in Nat /\ DOMAIN T(2) = 1..Len(T(2))
          /\ DOMAIN Two = 1..Len(T(1)) + Len(T(2))
          /\ \A i \in 1..Len(T(1)) + Len(T(2)) :
               Two[i] = IF i <= Len(T(1)) THEN T(1)[i] ELSE T(2)[i - Len(T(1))]
      BY <1>1, ConcatProperties
    <3>2. \A i \in DOMAIN Two : i \in 1..Len(T(1)) \/ i - Len(T(1)) \in 1..Len(T(2))
      BY <3>1
    <3>3. \A i \in DOMAIN Two : ~(i <= Len(T(1))) \/ i \in 1..Len(T(1))
      BY <3>1
    <3> HIDE DEF Two
    <3> QED
      BY <3>1, <3>2, <3>3
  <2> HIDE DEF Two
  <2> QED
    BY <1>1, <2>1 DEF ToSet
<1>4. InChain(Two)
  <2>1. \A x \in ToSet(T(1)), y \in ToSet(T(2)) : <<x, y>> \in Before
    BY <1>1 DEF Before
  <2> HIDE DEF T
  <2> QED
    BY <1>1, <1>2, <2>1, JoinInChain
<1>5. \A x \in ToSet(Two), y \in ToSet(T(3)) : <<x, y>> \in Before
  <2> HIDE DEF T, Two
  <2> QED
    BY <1>1, <1>3 DEF Before
<1>6. Fallbacks({Primary}) = Two \o T(3)
  BY DEF Fallbacks
<1> HIDE DEF T, Two
<1> QED
  BY <1>1, <1>2, <1>3, <1>4, <1>5, <1>6, JoinInChain

\* After the configured backend the order is the documented one.
LEMMA OrderInChain ==
  \A i, j \in 1..Len(Order) : i < j /\ Order[i] # Primary => <<Order[i], Order[j]>> \in Before
<1> DEFINE first == Backend(Primary)
           rest  == Fallbacks({Primary})
<1>1. /\ first \in Seq(Registered) /\ ToSet(first) \subseteq {Primary}
      /\ rest \in Seq(Registered) /\ InChain(rest)
      /\ Order = first \o rest
  <2>1. rest \in Seq(Registered)
    <3>1. \A i : Turn(i, {Primary}) \in Seq(Registered)
      BY TurnOnce
    <3> QED
      BY <3>1, ConcatProperties DEF Fallbacks
  <2> QED
    BY <2>1, BackendOnce, FallbacksInChain DEF Order
<1> HIDE DEF first, rest
<1>2. /\ Len(first) \in Nat /\ DOMAIN first = 1..Len(first)
      /\ Len(rest) \in Nat /\ DOMAIN rest = 1..Len(rest)
      /\ Len(Order) = Len(first) + Len(rest)
      /\ \A i \in 1..Len(first) + Len(rest) :
           Order[i] = IF i <= Len(first) THEN first[i] ELSE rest[i - Len(first)]
  BY <1>1, ConcatProperties
<1> SUFFICES ASSUME NEW i \in 1..Len(Order), NEW j \in 1..Len(Order), i < j, Order[i] # Primary
             PROVE  <<Order[i], Order[j]>> \in Before
  OBVIOUS
<1>3. i > Len(first)
  <2>1. ASSUME i <= Len(first)
        PROVE  FALSE
    <3>1. i \in 1..Len(first) /\ Order[i] = first[i]
      BY <1>2, <2>1
    <3> QED
      BY <1>1, <1>2, <3>1 DEF ToSet
  <2> QED
    BY <1>2, <2>1
<1>4. /\ i - Len(first) \in 1..Len(rest) /\ j - Len(first) \in 1..Len(rest)
      /\ i - Len(first) < j - Len(first)
      /\ Order[i] = rest[i - Len(first)] /\ Order[j] = rest[j - Len(first)]
  BY <1>2, <1>3
<1> QED
  BY <1>1, <1>2, <1>4 DEF InChain

-----------------------------------------------------------------------------
(* A request *)

\* What a request has asked, and what it has left, are the order so far and the
\* rest of it.
Progress(l, a) ==
  /\ Len(a) <= Len(Order)
  /\ \A i \in 1..Len(a) : a[i] = Order[i]
  /\ l # <<>> =>
       /\ Len(a) >= 1
       /\ Len(a) + Len(l) = Len(Order) + 1
       /\ \A j \in 1..Len(l) : l[j] = Order[Len(a) - 1 + j]

\* One that has given up has asked them all.
RequestInv ==
  /\ ProviderTypeOK
  /\ \A r \in Requests : Progress(left[r], asked[r])
  /\ \A r \in gaveUp : Len(asked[r]) = Len(Order)

LEMMA OrderLength == Len(Order) \in Nat /\ Len(Order) >= 1 /\ DOMAIN Order = 1..Len(Order)
BY OrderOnce, SomeBackend

LEMMA OthersKeep ==
  ASSUME RequestInv, ProviderTypeOK', NEW r \in Requests, Progress(left'[r], asked'[r]),
         \A s \in Requests : s # r => left'[s] = left[s] /\ asked'[s] = asked[s],
         gaveUp' \subseteq gaveUp \cup {r}, r \in gaveUp' => Len(asked'[r]) = Len(Order)
  PROVE  RequestInv'
<1>0. ASSUME NEW s \in gaveUp'
      PROVE  Len(asked'[s]) = Len(Order)
  BY <1>0 DEF RequestInv, ProviderTypeOK
<1> SUFFICES ASSUME NEW s \in Requests
             PROVE  Progress(left'[s], asked'[s])
  BY <1>0 DEF RequestInv
<1>1. CASE s = r
  BY <1>1
<1>2. CASE s # r
  BY <1>2 DEF RequestInv
<1> QED
  BY <1>1, <1>2

LEMMA FirstAsk ==
  ASSUME RequestInv, NEW r \in Requests, asked[r] = <<>>, StartRequest(r)
  PROVE  /\ RequestInv'
         /\ \A s \in Requests : s # r => left'[s] = left[s] /\ asked'[s] = asked[s]
<1>1. Order \in Seq(Registered) /\ Len(Order) \in Nat /\ Len(Order) >= 1
  BY OrderOnce, OrderLength
<1>2. /\ left' = [left EXCEPT ![r] = Order]
      /\ asked' = [asked EXCEPT ![r] = <<>> \o <<Head(Order)>>]
      /\ gaveUp' = gaveUp /\ r \notin gaveUp
  <2>1. r \notin gaveUp
    BY <1>1 DEF RequestInv
  <2> QED
    BY <2>1, SomeBackend DEF StartRequest, Ask, FirstOf
<1>3. /\ Head(Order) = Order[1] /\ Order[1] \in Registered
      /\ <<>> \o <<Order[1]>> = <<Order[1]>>
      /\ <<Order[1]>> \in Seq(Registered)
      /\ Len(<<Order[1]>>) = 1 /\ <<Order[1]>>[1] = Order[1]
  BY <1>1
<1>4. left'[r] = Order /\ asked'[r] = <<Order[1]>>
  BY <1>2, <1>3 DEF RequestInv, ProviderTypeOK
<1>5. \A s \in Requests : s # r => left'[s] = left[s] /\ asked'[s] = asked[s]
  BY <1>2 DEF RequestInv, ProviderTypeOK
<1>6. ProviderTypeOK'
  BY <1>1, <1>2, <1>3 DEF RequestInv, ProviderTypeOK
<1>7. Progress(left'[r], asked'[r])
  BY <1>1, <1>3, <1>4 DEF Progress
<1> QED
  BY <1>2, <1>5, <1>6, <1>7, OthersKeep

LEMMA NextAsk ==
  ASSUME RequestInv, NEW r \in Requests, left[r] # <<>>, NextBackend(r)
  PROVE  /\ RequestInv'
         /\ \A s \in Requests : s # r => left'[s] = left[s] /\ asked'[s] = asked[s]
         /\ Len(left[r]) = 1 => left'[r] = <<>>
<1> DEFINE old == left[r]
           had == asked[r]
<1>1. /\ old \in Seq(Registered) /\ old # <<>> /\ had \in Seq(Registered)
      /\ Len(had) \in Nat /\ Len(had) >= 1
      /\ Len(had) + Len(old) = Len(Order) + 1
      /\ \A i \in 1..Len(had) : had[i] = Order[i]
      /\ \A j \in 1..Len(old) : old[j] = Order[Len(had) - 1 + j]
  BY DEF RequestInv, ProviderTypeOK, Progress
<1>2. /\ left' = [left EXCEPT ![r] = Tail(old)]
      /\ asked' = [asked EXCEPT ![r] = had \o FirstOf(Tail(old))]
      /\ gaveUp' = IF Tail(old) = <<>> THEN gaveUp \cup {r} ELSE gaveUp
  BY DEF NextBackend, Falls, Ask, RequestInv, ProviderTypeOK
<1>3. left'[r] = Tail(old) /\ asked'[r] = had \o FirstOf(Tail(old))
  BY <1>2 DEF RequestInv, ProviderTypeOK
<1>4. \A s \in Requests : s # r => left'[s] = left[s] /\ asked'[s] = asked[s]
  BY <1>2 DEF RequestInv, ProviderTypeOK
<1>5. /\ ProviderTypeOK => left \in [Requests -> Seq(Registered)] /\ asked \in [Requests -> Seq(Registered)]
      /\ ProviderTypeOK
  BY DEF RequestInv, ProviderTypeOK
<1> HIDE DEF old, had
<1>6. /\ Tail(old) \in Seq(Registered) /\ Len(Tail(old)) = Len(old) - 1 /\ Len(old) \in Nat
      /\ \A j \in 1..Len(old) - 1 : Tail(old)[j] = old[j + 1]
  BY <1>1
<1>7. CASE Tail(old) = <<>>
  <2>1. had \o FirstOf(Tail(old)) = had
    BY <1>1, <1>7 DEF FirstOf
  <2>2. Progress(left'[r], asked'[r])
    BY <1>1, <1>3, <1>6, <1>7, <2>1, OrderLength DEF Progress
  <2>3. ProviderTypeOK'
    BY <1>1, <1>2, <1>5, <1>6, <2>1 DEF ProviderTypeOK
  <2>5. Len(old) = 1
    <3>1. Len(<<>>) = 0
      OBVIOUS
    <3>2. Len(Tail(old)) = 0
      BY <1>7, <3>1
    <3> QED
      BY <1>6, <3>2
  <2>6. Len(had) = Len(Order)
    BY <1>1, <2>5, OrderLength
  <2>4. Len(asked'[r]) = Len(Order) /\ gaveUp' \subseteq gaveUp \cup {r}
    BY <1>2, <1>3, <2>1, <2>6
  <2> QED
    BY <1>3, <1>4, <1>7, <2>2, <2>3, <2>4, OthersKeep DEF old
<1>8. CASE Tail(old) # <<>>
  <2>1. /\ Len(old) >= 2
        /\ FirstOf(Tail(old)) = <<old[2]>>
        /\ old[2] = Order[Len(had) + 1] /\ old[2] \in Registered
    BY <1>1, <1>6, <1>8 DEF FirstOf
  <2>2. /\ had \o <<old[2]>> \in Seq(Registered)
        /\ Len(had \o <<old[2]>>) = Len(had) + 1
        /\ \A i \in 1..Len(had) + 1 :
             (had \o <<old[2]>>)[i] = IF i = Len(had) + 1 THEN old[2] ELSE had[i]
    BY <1>1, <2>1
  <2>3. \A i \in 1..Len(had) + 1 : (had \o <<old[2]>>)[i] = Order[i]
    BY <1>1, <2>1, <2>2
  <2>4. \A j \in 1..Len(Tail(old)) : Tail(old)[j] = Order[Len(had) + 1 - 1 + j]
    BY <1>1, <1>6
  <2>5. Progress(Tail(old), had \o <<old[2]>>)
    <3>1. /\ Len(had) + 1 + Len(Tail(old)) = Len(Order) + 1
          /\ Len(Tail(old)) >= 1
          /\ Len(had) + 1 <= Len(Order)
      BY <1>1, <1>6, <2>1, OrderLength
    <3> QED
      BY <1>1, <2>2, <2>3, <2>4, <3>1 DEF Progress
  <2>8. Progress(left'[r], asked'[r])
    BY <1>3, <2>1, <2>5
  <2>6. ProviderTypeOK'
    BY <1>2, <1>5, <1>6, <2>1, <2>2 DEF ProviderTypeOK
  <2>7. Len(old) # 1
    BY <2>1, <1>6
  <2>9. gaveUp' = gaveUp /\ r \notin gaveUp
    <3>1. Len(had) # Len(Order)
      BY <1>1, <2>1, <1>6, OrderLength
    <3> QED
      BY <1>2, <1>8, <3>1 DEF RequestInv, had
  <2> QED
    BY <1>4, <2>6, <2>7, <2>8, <2>9, OthersKeep DEF old
<1> QED
  BY <1>7, <1>8

LEMMA RequestEnds ==
  ASSUME RequestInv, NEW r \in Requests, EndRequest(r)
  PROVE  /\ RequestInv'
         /\ \A s \in Requests : s # r => left'[s] = left[s]
         /\ left'[r] = <<>>
         /\ UNCHANGED <<asked, gaveUp>>
<1>1. left' = [left EXCEPT ![r] = <<>>] /\ asked' = asked /\ gaveUp' = gaveUp
  BY DEF EndRequest
<1>2. left'[r] = <<>> /\ \A s \in Requests : s # r => left'[s] = left[s]
  BY <1>1 DEF RequestInv, ProviderTypeOK
<1>3. <<>> \in Seq(Registered)
  OBVIOUS
<1>4. ProviderTypeOK'
  BY <1>1, <1>3 DEF RequestInv, ProviderTypeOK
<1>5. Progress(left'[r], asked'[r])
  BY <1>1, <1>2 DEF RequestInv, Progress
<1>6. r \in gaveUp' => Len(asked'[r]) = Len(Order)
  BY <1>1 DEF RequestInv
<1> QED
  BY <1>1, <1>2, <1>4, <1>5, <1>6, OthersKeep

\* A request that has asked the order so far has asked as AsksInOrder says.
LEMMA InOrder == ASSUME RequestInv PROVE AsksInOrder
<1> SUFFICES ASSUME NEW r \in Requests
             PROVE  /\ \A i, j \in DOMAIN asked[r] : asked[r][i] = asked[r][j] => i = j
                    /\ asked[r] # <<>> /\ Primary \in Registered => Head(asked[r]) = Primary
                    /\ \A i, j \in DOMAIN asked[r] :
                         i < j /\ asked[r][i] # Primary => <<asked[r][i], asked[r][j]>> \in Before
                    /\ \A b \in ToSet(asked[r]) \ {Primary}, c \in Registered :
                         <<c, b>> \in Before => c \in ToSet(asked[r])
                    /\ r \in gaveUp =>
                         Registered \cap {Primary, "claude", "gpt4o", "ollama"}
                           \subseteq ToSet(asked[r])
  BY DEF AsksInOrder
<1> DEFINE a == asked[r]
<1>1. /\ a \in Seq(Registered) /\ DOMAIN a = 1..Len(a) /\ Len(a) \in Nat
      /\ Len(a) <= Len(Order) /\ \A i \in 1..Len(a) : a[i] = Order[i]
      /\ r \in gaveUp => Len(a) = Len(Order)
  BY DEF RequestInv, ProviderTypeOK, Progress
<1> HIDE DEF a
<1>0. Len(Order) \in Nat /\ DOMAIN Order = 1..Len(Order)
  BY OrderLength
<1>4. \A i \in 1..Len(a) : i \in 1..Len(Order)
  <2>1. Len(a) \in Nat /\ Len(Order) \in Nat /\ Len(a) <= Len(Order)
    BY <1>0, <1>1
  <2>2. ASSUME NEW m \in Nat, NEW n \in Nat, m <= n, NEW i \in 1..m
        PROVE  i \in 1..n
    BY <2>2
  <2> QED
    BY <2>1, <2>2
<1>2. \A i, j \in DOMAIN a : a[i] = a[j] => i = j
  <2> SUFFICES ASSUME NEW i \in 1..Len(a), NEW j \in 1..Len(a), a[i] = a[j]
               PROVE  i = j
    BY <1>1
  <2>1. Order[i] = Order[j] /\ i \in DOMAIN Order /\ j \in DOMAIN Order
    BY <1>0, <1>1, <1>4
  <2> QED
    BY <2>1, OrderOnce DEF Once
<1>3. ASSUME a # <<>>, Primary \in Registered
      PROVE  Head(a) = Primary
  <2>1. Len(a) >= 1 /\ Head(a) = a[1]
    BY <1>1, <1>3
  <2> QED
    BY <1>1, <1>3, <2>1, OrderOnce
<1>5. \A i, j \in DOMAIN a : i < j /\ a[i] # Primary => <<a[i], a[j]>> \in Before
  BY <1>1, <1>4, OrderInChain
<1>6. ASSUME NEW b \in ToSet(a) \ {Primary}, NEW c \in Registered, <<c, b>> \in Before
      PROVE  c \in ToSet(a)
  <2>1. PICK j \in 1..Len(a) : a[j] = b
    BY <1>1 DEF ToSet
  <2>2. c \in ToSet(FallbackChain) /\ c # b /\ <<b, c>> \notin Before
    BY <1>6, ChainNames DEF Before
  <2>3. PICK k \in 1..Len(Order) : Order[k] = c
    BY <2>2, OrderOnce, OrderLength DEF ToSet
  <2>4. j \in 1..Len(Order) /\ Order[j] = b /\ b # Primary
    BY <1>1, <1>4, <2>1
  <2>5. ~(j < k)
    BY <2>2, <2>3, <2>4, OrderInChain
  <2>6. k \in 1..Len(a)
    <3>1. k \in Int /\ 1 <= k /\ j \in Int /\ j <= Len(a) /\ Len(a) \in Int
      <4>1. ASSUME NEW m \in Nat, NEW h \in 1..m
            PROVE  h \in Int /\ 1 <= h /\ h <= m
        BY <4>1
      <4>2. Len(a) \in Nat /\ Len(Order) \in Nat
        BY <1>0, <1>1
      <4> QED
        BY <4>1, <4>2
    <3>2. k <= j
      BY <2>5, <3>1
    <3> QED
      BY <3>1, <3>2
  <2> QED
    BY <1>1, <2>3, <2>6 DEF ToSet
<1>7. ASSUME r \in gaveUp, NEW b \in Registered \cap {Primary, "claude", "gpt4o", "ollama"}
      PROVE  b \in ToSet(a)
  <2>1. PICK k \in 1..Len(Order) : Order[k] = b
    BY OrderOnce, OrderLength, ChainNames DEF ToSet
  <2> QED
    BY <1>1, <1>7, <2>1 DEF ToSet
<1> QED
  BY <1>2, <1>3, <1>5, <1>6, <1>7 DEF a

-----------------------------------------------------------------------------
(* The clients *)

\* A request under way belongs to a task that waits for it, and one that has not
\* begun has asked nobody.
Waiting ==
  /\ \A i \in Incidents :
       /\ left[i] # <<>> => at[i] = "asking"
       /\ at[i] \in {"no task", "reading"} => asked[i] = <<>>
  /\ \A t \in Tasks : translation[t] = "new" => asked[t] = <<>>

Saved == {"saved", "half saved"}

\* The files named after an incident are its own report's, and whoever wrote a
\* file has ended.
OwnFiles ==
  /\ \A i \in Incidents : json[i] \in {None, i}
  /\ \A d \in Ids : json[d] # None => at[json[d]] \in Saved

Inv ==
  /\ RequestInv
  /\ ReportsTypeOK
  /\ TranslatorTypeOK
  /\ Waiting
  /\ ReportedDespiteProviders
  /\ FilesAgree
  /\ OwnFiles

\* What OwnReportsStay says of one step.
OwnKept ==
  \A i \in Incidents : json[i] # None => UNCHANGED <<json[i], markdown[i]>>

\* What writing the files does to one incident's place, and to files that are not
\* another incident's own.
Saves(i) ==
  /\ at' \in [Incidents -> Over \cup {"no task", "reading", "asking"}]
  /\ json' \in [Ids -> Incidents \cup {None}]
  /\ markdown' \in [Ids -> Incidents \cup {None, Empty}]
  /\ at'[i] \in Saved
  /\ \A j \in Incidents : j # i => UNCHANGED <<at[j], json[j], markdown[j]>>
  /\ FilesAgree'
  /\ OwnFiles'

LEMMA SaveLemma ==
  ASSUME Inv, NEW i \in Incidents, at[i] \notin Saved, NEW report,
         report.name \in Names \cup {Unnamed}, WriteFiles(i, report)
  PROVE  Saves(i) /\ (report.name = Unnamed => json'[i] = i)
<1> DEFINE d == IdOf(i, report)
<1>1. /\ d \in Ids /\ (d \in Incidents => d = i)
      /\ report.name = Unnamed => d = i
  BY ReportParameters DEF IdOf, Ids
<1>2. /\ json' = [json EXCEPT ![d] = i]
      /\ markdown' = [markdown EXCEPT ![d] = Markdown(i, report)]
      /\ at' = [at EXCEPT ![i] = IF Markdown(i, report) = Empty THEN "half saved" ELSE "saved"]
      /\ Markdown(i, report) \in {i, Empty}
  BY DEF WriteFiles, Markdown
<1> HIDE DEF d
<1>3. /\ at \in [Incidents -> Over \cup {"no task", "reading", "asking"}]
      /\ json \in [Ids -> Incidents \cup {None}]
      /\ markdown \in [Ids -> Incidents \cup {None, Empty}]
      /\ Saved \subseteq Over
      /\ Incidents \subseteq Ids
  BY DEF Inv, ReportsTypeOK, Over, Ids, Saved
<1>4. /\ at' \in [Incidents -> Over \cup {"no task", "reading", "asking"}]
      /\ at'[i] = IF Markdown(i, report) = Empty THEN "half saved" ELSE "saved"
      /\ at'[i] \in Saved
      /\ \A j \in Incidents : j # i => at'[j] = at[j]
  BY <1>2, <1>3 DEF Saved
<1>5. /\ json' \in [Ids -> Incidents \cup {None}]
      /\ markdown' \in [Ids -> Incidents \cup {None, Empty}]
  BY <1>1, <1>2, <1>3
<1>6. \A e \in Ids : e # d => json'[e] = json[e] /\ markdown'[e] = markdown[e]
  BY <1>1, <1>2, <1>3
<1>7. /\ json'[d] = i /\ i # None /\ i # Empty
      /\ markdown'[d] = Markdown(i, report)
      /\ markdown'[d] = IF at'[i] = "saved" THEN i ELSE Empty
  <2>1. json'[d] = i /\ i # None /\ i # Empty /\ markdown'[d] = Markdown(i, report)
    BY <1>1, <1>2, <1>3, ReportParameters
  <2> QED
    BY <1>2, <1>4, <2>1
<1>8. \A e \in Ids : e # d /\ json[e] # None =>
        json[e] \in Incidents /\ json[e] # i /\ at'[json[e]] = at[json[e]]
  BY <1>3, <1>4 DEF Inv, OwnFiles
<1>9. FilesAgree'
  <2> SUFFICES ASSUME NEW e \in Ids
               PROVE  markdown'[e] = IF json'[e] = None \/ at'[json'[e]] = "saved"
                                     THEN json'[e] ELSE Empty
    BY DEF FilesAgree
  <2>1. CASE e = d
    BY <2>1, <1>7
  <2>2. CASE e # d
    BY <2>2, <1>6, <1>8 DEF Inv, FilesAgree
  <2> QED
    BY <2>1, <2>2
<1>10. OwnFiles'
  <2>1. ASSUME NEW j \in Incidents
        PROVE  json'[j] \in {None, j}
    BY <1>1, <1>3, <1>6, <1>7 DEF Inv, OwnFiles
  <2>2. ASSUME NEW e \in Ids, json'[e] # None
        PROVE  at'[json'[e]] \in Saved
    <3>1. CASE e = d
      BY <1>4, <1>7, <3>1
    <3>2. CASE e # d
      BY <1>6, <1>8, <2>2, <3>2 DEF Inv, OwnFiles
    <3> QED
      BY <3>1, <3>2
  <2> QED
    BY <2>1, <2>2 DEF OwnFiles
<1> QED
  BY <1>1, <1>3, <1>4, <1>5, <1>6, <1>7, <1>9, <1>10 DEF Saves

\* A step of a report's task that ends with a saved report.
LEMMA SavedInv ==
  ASSUME Inv, NEW i \in Incidents, at[i] \in {"reading", "asking"}, Saves(i),
         RequestInv', left'[i] = <<>>,
         \A s \in Requests : s # i => left'[s] = left[s] /\ asked'[s] = asked[s],
         prompt' \in [Incidents -> Prompts \cup {None}],
         cache' \in [Prompts -> Answers \cup {NoAnswer}],
         via' \in [Incidents -> {None, "reading", "cache", "answer", "id", "backends"}],
         \A j \in Incidents : j # i => via'[j] = via[j],
         via'[i] = "backends" => json'[i] = i,
         UNCHANGED translatorVars
  PROVE  Inv' /\ OwnKept
<1>1. ReportsTypeOK'
  BY DEF Saves, ReportsTypeOK
<1>2. TranslatorTypeOK'
  BY DEF Inv, TranslatorTypeOK, translatorVars
<1>3. Waiting'
  <2>1. ASSUME NEW j \in Incidents
        PROVE  /\ left'[j] # <<>> => at'[j] = "asking"
               /\ at'[j] \in {"no task", "reading"} => asked'[j] = <<>>
    <3>1. CASE j = i
      BY <3>1 DEF Saves, Saved
    <3>2. CASE j # i
      BY <3>2, RequestsAreTheClients DEF Saves, Inv, Waiting
    <3> QED
      BY <3>1, <3>2
  <2>2. ASSUME NEW t \in Tasks, translation'[t] = "new"
        PROVE  asked'[t] = <<>>
    BY <2>2, RequestsAreTheClients DEF Inv, Waiting, translatorVars
  <2> QED
    BY <2>1, <2>2 DEF Waiting
<1>4. ReportedDespiteProviders'
  <2> SUFFICES ASSUME NEW j \in Incidents
               PROVE  /\ via'[j] = "backends" => json'[j] = j
                      /\ at'[j] = "failed" => via'[j] \in {"reading", "cache", "id"}
    BY DEF ReportedDespiteProviders
  <2>1. CASE j = i
    BY <2>1 DEF Saves, Saved
  <2>2. CASE j # i
    BY <2>2 DEF Saves, Inv, ReportedDespiteProviders
  <2> QED
    BY <2>1, <2>2
<1>5. OwnFiles'
  BY DEF Saves
<1>6. OwnKept
  <2>1. json[i] = None
    BY ReportParameters DEF Inv, OwnFiles, Ids, Saved
  <2> QED
    BY <2>1 DEF Saves, OwnKept
<1> QED
  BY <1>1, <1>2, <1>3, <1>4, <1>5, <1>6 DEF Inv, Saves

\* Nothing about the files changes as long as their writers stay where they are.
LEMMA FilesStay ==
  ASSUME OwnFiles, FilesAgree, UNCHANGED <<json, markdown>>,
         \A d \in Ids : json[d] # None => at'[json[d]] = at[json[d]]
  PROVE  OwnFiles' /\ FilesAgree' /\ OwnKept
BY DEF OwnFiles, FilesAgree, OwnKept

\* A step of a report's task that leaves the files alone.
LEMMA MovedInv ==
  ASSUME Inv, NEW i \in Incidents, at[i] \in {"no task", "reading", "asking"}, RequestInv',
         NEW place \in {"reading", "asking", "failed", "cancelled"},
         at' = [at EXCEPT ![i] = place],
         left'[i] # <<>> => place = "asking",
         place = "reading" => asked'[i] = <<>>,
         place = "failed" => via'[i] \in {"reading", "cache", "id"}, via'[i] # "backends",
         \A s \in Requests : s # i => left'[s] = left[s] /\ asked'[s] = asked[s],
         prompt' \in [Incidents -> Prompts \cup {None}],
         cache' \in [Prompts -> Answers \cup {NoAnswer}],
         via' \in [Incidents -> {None, "reading", "cache", "answer", "id", "backends"}],
         \A j \in Incidents : j # i => via'[j] = via[j],
         UNCHANGED <<json, markdown, translatorVars>>
  PROVE  Inv' /\ OwnKept
<1>1. /\ at' \in [Incidents -> Over \cup {"no task", "reading", "asking"}]
      /\ at'[i] = place
      /\ \A j \in Incidents : j # i => at'[j] = at[j]
  BY DEF Inv, ReportsTypeOK, Over
<1>2. ReportsTypeOK' /\ TranslatorTypeOK'
  BY <1>1 DEF Inv, ReportsTypeOK, TranslatorTypeOK, translatorVars
<1>3. Waiting'
  <2>1. ASSUME NEW j \in Incidents
        PROVE  /\ left'[j] # <<>> => at'[j] = "asking"
               /\ at'[j] \in {"no task", "reading"} => asked'[j] = <<>>
    <3>1. CASE j = i
      BY <3>1, <1>1
    <3>2. CASE j # i
      BY <3>2, <1>1, RequestsAreTheClients DEF Inv, Waiting
    <3> QED
      BY <3>1, <3>2
  <2>2. ASSUME NEW t \in Tasks, translation'[t] = "new"
        PROVE  asked'[t] = <<>>
    BY <2>2, RequestsAreTheClients DEF Inv, Waiting, translatorVars
  <2> QED
    BY <2>1, <2>2 DEF Waiting
<1>4. ReportedDespiteProviders'
  <2> SUFFICES ASSUME NEW j \in Incidents
               PROVE  /\ via'[j] = "backends" => json'[j] = j
                      /\ at'[j] = "failed" => via'[j] \in {"reading", "cache", "id"}
    BY DEF ReportedDespiteProviders
  <2>1. CASE j = i
    BY <1>1, <2>1
  <2>2. CASE j # i
    BY <1>1, <2>2 DEF Inv, ReportedDespiteProviders
  <2> QED
    BY <2>1, <2>2
<1>5. at[i] \notin Saved
  BY DEF Saved
<1>6. ASSUME NEW d \in Ids, json[d] # None
      PROVE  at'[json[d]] = at[json[d]]
  <2>1. json[d] \in Incidents /\ at[json[d]] \in Saved
    BY <1>6 DEF Inv, OwnFiles, ReportsTypeOK
  <2>2. json[d] # i
    BY <1>5, <2>1
  <2> QED
    BY <1>1, <2>1, <2>2
<1>7. OwnFiles' /\ FilesAgree' /\ OwnKept
  BY <1>6, FilesStay DEF Inv
<1> QED
  BY <1>2, <1>3, <1>4, <1>7 DEF Inv

\* A step of a translation.
LEMMA TranslatedInv ==
  ASSUME Inv, NEW t \in Tasks, RequestInv', TranslatorTypeOK',
         \A s \in Requests : s # t => left'[s] = left[s] /\ asked'[s] = asked[s],
         translation'[t] # "new",
         \A u \in Tasks : u # t => translation'[u] = translation[u],
         UNCHANGED reportVars
  PROVE  Inv' /\ OwnKept
<1>1. UNCHANGED <<at, prompt, cache, json, markdown, via>>
  BY DEF reportVars
<1>2. Waiting'
  BY <1>1, RequestsAreTheClients DEF Inv, Waiting
<1>3. /\ ReportsTypeOK' /\ ReportedDespiteProviders' /\ FilesAgree' /\ OwnFiles'
      /\ OwnKept
  BY <1>1 DEF Inv, ReportsTypeOK, ReportedDespiteProviders, FilesAgree, OwnFiles, OwnKept
<1> QED
  BY <1>2, <1>3 DEF Inv

LEMMA StutterInv ==
  ASSUME Inv, UNCHANGED vars
  PROVE  Inv' /\ OwnKept
<1>1. UNCHANGED <<left, asked, gaveUp, at, prompt, cache, json, markdown, via,
                  translation, finished, results>>
  BY DEF vars, providerVars, reportVars, translatorVars
<1>2. RequestInv' /\ Waiting' /\ TranslatorTypeOK'
  BY <1>1 DEF Inv, RequestInv, ProviderTypeOK, Waiting, TranslatorTypeOK
<1>3. /\ ReportsTypeOK' /\ ReportedDespiteProviders' /\ FilesAgree' /\ OwnFiles'
      /\ OwnKept
  BY <1>1 DEF Inv, ReportsTypeOK, ReportedDespiteProviders, FilesAgree, OwnFiles, OwnKept
<1> QED
  BY <1>2, <1>3 DEF Inv

-----------------------------------------------------------------------------
(* The steps *)

LEMMA EmptyList == <<>> \in Seq(Registered) /\ <<>> \in Seq(Tasks) /\ Len(<<>>) = 0
OBVIOUS

LEMMA NothingAsked == Progress(<<>>, <<>>)
BY EmptyList, OrderLength DEF Progress

LEMMA InitInv == Init => Inv
<1> SUFFICES ASSUME Init
             PROVE  Inv
  OBVIOUS
<1> USE DEF Init, ProviderInit, ReportsInit, TranslatorInit
<1>1. RequestInv
  <2>1. ProviderTypeOK
    BY EmptyList DEF ProviderTypeOK
  <2> QED
    BY <2>1, NothingAsked DEF RequestInv
<1>2. ReportsTypeOK
  BY DEF ReportsTypeOK
<1>3. TranslatorTypeOK
  BY EmptyList DEF TranslatorTypeOK
<1>4. Waiting
  BY RequestsAreTheClients DEF Waiting
<1>5. /\ \A d \in Ids : json[d] = None /\ markdown[d] = None
      /\ \A i \in Incidents : i \in Ids /\ via[i] = None /\ at[i] = "no task"
  BY DEF Ids
<1>6. FilesAgree /\ OwnFiles
  BY <1>5 DEF FilesAgree, OwnFiles
<1>7. ReportedDespiteProviders
  BY <1>5 DEF ReportedDespiteProviders, None
<1> QED
  BY <1>1, <1>2, <1>3, <1>4, <1>6, <1>7 DEF Inv

LEMMA StillRequestInv ==
  ASSUME RequestInv, UNCHANGED <<left, asked, gaveUp>>
  PROVE  RequestInv' /\ \A s \in Requests : left'[s] = left[s] /\ asked'[s] = asked[s]
BY DEF RequestInv, ProviderTypeOK

\* What the tasks of the reports do keeps the invariant.
LEMMA ReportsKeepInv ==
  ASSUME Inv, ReportsNext, UNCHANGED translatorVars
  PROVE  Inv' /\ OwnKept
<1>1. /\ Incidents \subseteq Requests
      /\ \A i \in Incidents : left[i] # <<>> => at[i] = "asking"
      /\ \A i \in Incidents : at[i] \in {"no task", "reading"} => asked[i] = <<>>
  BY RequestsAreTheClients DEF Inv, Waiting
<1>2. /\ prompt \in [Incidents -> Prompts \cup {None}]
      /\ cache \in [Prompts -> Answers \cup {NoAnswer}]
      /\ via \in [Incidents -> {None, "reading", "cache", "answer", "id", "backends"}]
      /\ RequestInv
  BY DEF Inv, ReportsTypeOK
<1>3. ASSUME NEW answer \in Answers \cup {NoAnswer}
      PROVE  Parsed(answer).name \in Names \cup {Unnamed, Unusable}
  BY DEF Answers, NoAnswer, Parsed, Fallback
<1>v. \A i \in Incidents : at[i] \in {"no task", "reading", "asking"} =>
        via[i] # "backends" /\ at[i] \notin Saved
  <2>1. ASSUME NEW i \in Incidents, via[i] = "backends"
        PROVE  at[i] \in Saved
    <3>1. json[i] = i /\ i # None /\ i \in Ids
      BY <2>1, ReportParameters DEF Inv, ReportedDespiteProviders, Ids
    <3> QED
      BY <3>1 DEF Inv, OwnFiles
  <2> QED
    BY <2>1 DEF Saved
<1>4. ASSUME NEW i \in Incidents, Quarantined(i)
      PROVE  Inv' /\ OwnKept
  <2>1. /\ at[i] = "no task" /\ at' = [at EXCEPT ![i] = "reading"]
        /\ UNCHANGED <<left, asked, gaveUp, prompt, cache, via, json, markdown>>
    BY <1>4 DEF Quarantined, providerVars
  <2>2. RequestInv' /\ left'[i] = <<>> /\ asked'[i] = <<>>
    BY <1>1, <1>2, <2>1, StillRequestInv
  <2> QED
    BY <1>2, <1>v, <2>1, <2>2, MovedInv
<1>5. ASSUME NEW i \in Incidents, ReadFails(i)
      PROVE  Inv' /\ OwnKept
  <2>1. /\ at[i] = "reading" /\ at' = [at EXCEPT ![i] = "failed"]
        /\ UNCHANGED <<left, asked, gaveUp, prompt, cache, json, markdown>>
        /\ via' = [via EXCEPT ![i] = "reading"]
    BY <1>5 DEF ReadFails, Fails, providerVars
  <2>2. RequestInv' /\ left'[i] = <<>>
    BY <1>1, <1>2, <2>1, StillRequestInv
  <2>3. /\ via' \in [Incidents -> {None, "reading", "cache", "answer", "id", "backends"}]
        /\ via'[i] = "reading" /\ \A j \in Incidents : j # i => via'[j] = via[j]
    BY <1>2, <2>1
  <2> QED
    BY <1>2, <2>1, <2>2, <2>3, MovedInv
<1>6. ASSUME NEW i \in Incidents, ReadEntries(i)
      PROVE  Inv' /\ OwnKept
  <2>1. PICK q \in Prompts :
          /\ prompt' = [prompt EXCEPT ![i] = q]
          /\ IF cache[q] # NoAnswer THEN FromCache(i, cache[q]) ELSE AskFirst(i)
    BY <1>6 DEF ReadEntries
  <2>2. /\ at[i] = "reading" /\ cache' = cache
        /\ prompt' \in [Incidents -> Prompts \cup {None}]
        /\ left[i] = <<>> /\ asked[i] = <<>>
    BY <1>1, <1>2, <1>6, <2>1 DEF ReadEntries
  <2>3. CASE cache[q] # NoAnswer
    <3>1. /\ FromCache(i, cache[q])
          /\ via' = [via EXCEPT ![i] = "cache"] /\ UNCHANGED <<left, asked, gaveUp>>
      BY <2>1, <2>3 DEF FromCache, providerVars
    <3>2. /\ via' \in [Incidents -> {None, "reading", "cache", "answer", "id", "backends"}]
          /\ via'[i] = "cache" /\ \A j \in Incidents : j # i => via'[j] = via[j]
      BY <1>2, <3>1
    <3>3. RequestInv' /\ left'[i] = <<>>
      BY <1>2, <2>2, <3>1, StillRequestInv
    <3>4. CASE cache[q].kind = "odd"
      <4>1. at' = [at EXCEPT ![i] = "failed"] /\ UNCHANGED <<json, markdown>>
        BY <3>1, <3>4 DEF FromCache, Fails
      <4> QED
        BY <1>2, <2>2, <3>1, <3>2, <3>3, <4>1, MovedInv
    <3>5. CASE cache[q].kind # "odd"
      <4>1. Save(i, Parsed(cache[q])) /\ Parsed(cache[q]).name \in Names \cup {Unnamed, Unusable}
        BY <1>2, <1>3, <3>1, <3>5 DEF FromCache
      <4>2. CASE Parsed(cache[q]).name = Unusable
        <5>1. at' = [at EXCEPT ![i] = "failed"] /\ UNCHANGED <<json, markdown>>
          BY <4>1, <4>2 DEF Save, Fails
        <5> QED
          BY <1>2, <2>2, <3>1, <3>2, <3>3, <5>1, MovedInv
      <4>3. CASE Parsed(cache[q]).name # Unusable
        <5>1. WriteFiles(i, Parsed(cache[q]))
          BY <4>1, <4>3 DEF Save
        <5>2. Saves(i)
          BY <1>v, <2>2, <4>1, <4>3, <5>1, SaveLemma
        <5> QED
          BY <1>2, <2>2, <3>1, <3>2, <3>3, <5>2, SavedInv
      <4> QED
        BY <4>2, <4>3
    <3> QED
      BY <3>4, <3>5
  <2>4. CASE cache[q] = NoAnswer
    <3>1. /\ StartRequest(i) /\ at' = [at EXCEPT ![i] = "asking"]
          /\ UNCHANGED <<json, markdown, via>>
      BY <2>1, <2>4 DEF AskFirst
    <3>2. /\ RequestInv'
          /\ \A s \in Requests : s # i => left'[s] = left[s] /\ asked'[s] = asked[s]
      BY <1>1, <1>2, <2>2, <3>1, FirstAsk
    <3> QED
      BY <1>2, <1>v, <2>2, <3>1, <3>2, MovedInv
  <2> QED
    BY <2>3, <2>4
<1>7. ASSUME NEW i \in Incidents, Answered(i)
      PROVE  Inv' /\ OwnKept
  <2> DEFINE report(answer) == IF answer.kind = "odd" THEN Fallback ELSE Parsed(answer)
  <2>1. PICK answer \in Answers :
          /\ cache' = [cache EXCEPT ![prompt[i]] = answer]
          /\ Save(i, report(answer))
          /\ via' = [via EXCEPT ![i] = IF report(answer).name = Unusable THEN "id" ELSE "answer"]
    BY <1>7 DEF Answered
  <2>2. at[i] = "asking" /\ EndRequest(i) /\ prompt' = prompt
    BY <1>1, <1>7 DEF Answered
  <2>3. report(answer).name \in Names \cup {Unnamed, Unusable}
    BY <1>3 DEF Fallback
  <2> HIDE DEF report
  <2>4. cache' \in [Prompts -> Answers \cup {NoAnswer}]
    BY <1>2, <2>1
  <2>5. /\ via' \in [Incidents -> {None, "reading", "cache", "answer", "id", "backends"}]
        /\ \A j \in Incidents : j # i => via'[j] = via[j]
        /\ via'[i] = IF report(answer).name = Unusable THEN "id" ELSE "answer"
    BY <1>2, <2>1
  <2>6. /\ RequestInv' /\ left'[i] = <<>>
        /\ \A s \in Requests : s # i => left'[s] = left[s] /\ asked'[s] = asked[s]
    BY <1>1, <1>2, <2>2, RequestEnds
  <2>7. CASE report(answer).name = Unusable
    <3>1. at' = [at EXCEPT ![i] = "failed"] /\ UNCHANGED <<json, markdown>>
      BY <2>1, <2>7 DEF Save, Fails
    <3> QED
      BY <1>2, <2>2, <2>4, <2>5, <2>6, <2>7, <3>1, MovedInv
  <2>8. CASE report(answer).name # Unusable
    <3>1. WriteFiles(i, report(answer))
      BY <2>1, <2>8 DEF Save
    <3>2. Saves(i)
      BY <1>v, <2>2, <2>3, <2>8, <3>1, SaveLemma
    <3> QED
      BY <1>2, <2>2, <2>4, <2>5, <2>6, <2>8, <3>2, SavedInv
  <2> QED
    BY <2>7, <2>8
<1>8. ASSUME NEW i \in Incidents, BackendFails(i)
      PROVE  Inv' /\ OwnKept
  <2>1. /\ at[i] = "asking" /\ left[i] # <<>> /\ NextBackend(i)
        /\ UNCHANGED <<prompt, cache>>
    BY <1>1, <1>8 DEF BackendFails
  <2>2. /\ RequestInv'
        /\ \A s \in Requests : s # i => left'[s] = left[s] /\ asked'[s] = asked[s]
        /\ Len(left[i]) = 1 => left'[i] = <<>>
    BY <1>1, <1>2, <2>1, NextAsk
  <2>3. CASE Len(left[i]) = 1
    <3>1. Save(i, Fallback) /\ via' = [via EXCEPT ![i] = "backends"]
      BY <1>8, <2>3 DEF BackendFails
    <3>2. Saves(i) /\ json'[i] = i
      <4>1. WriteFiles(i, Fallback) /\ Fallback.name = Unnamed
        BY <3>1, ReportParameters DEF Save, Fallback, Unnamed, Unusable
      <4> QED
        BY <1>v, <2>1, <4>1, SaveLemma
    <3>3. /\ via' \in [Incidents -> {None, "reading", "cache", "answer", "id", "backends"}]
          /\ \A j \in Incidents : j # i => via'[j] = via[j]
      BY <1>2, <3>1
    <3> QED
      BY <1>2, <2>1, <2>2, <2>3, <3>2, <3>3, SavedInv
  <2>4. CASE Len(left[i]) # 1
    <3>1. UNCHANGED <<at, json, markdown, via>>
      BY <1>8, <2>4 DEF BackendFails
    <3>2. at' = [at EXCEPT ![i] = "asking"]
      BY <2>1, <3>1 DEF Inv, ReportsTypeOK
    <3> QED
      BY <1>2, <1>v, <2>1, <2>2, <3>1, <3>2, MovedInv
  <2> QED
    BY <2>3, <2>4
<1>9. ASSUME NEW i \in Incidents, Cancelled(i)
      PROVE  Inv' /\ OwnKept
  <2>1. /\ at[i] \in {"reading", "asking"} /\ at' = [at EXCEPT ![i] = "cancelled"]
        /\ EndRequest(i) /\ UNCHANGED <<prompt, cache, json, markdown, via>>
    BY <1>9 DEF Cancelled
  <2>2. /\ RequestInv' /\ left'[i] = <<>>
        /\ \A s \in Requests : s # i => left'[s] = left[s] /\ asked'[s] = asked[s]
    BY <1>1, <1>2, <2>1, RequestEnds
  <2> QED
    BY <1>2, <1>v, <2>1, <2>2, MovedInv
<1>10. ASSUME NEW q \in Prompts, Expires(q)
       PROVE  Inv' /\ OwnKept
  <2>1. /\ cache' = [cache EXCEPT ![q] = NoAnswer]
        /\ UNCHANGED <<at, prompt, json, markdown, via, left, asked, gaveUp>>
    BY <1>10 DEF Expires, providerVars
  <2>2. cache' \in [Prompts -> Answers \cup {NoAnswer}]
    BY <1>2, <2>1
  <2>3. ReportsTypeOK' /\ TranslatorTypeOK' /\ RequestInv'
    BY <2>1, <2>2, StillRequestInv DEF Inv, ReportsTypeOK, TranslatorTypeOK, translatorVars
  <2>4. /\ Waiting' /\ ReportedDespiteProviders' /\ FilesAgree' /\ OwnFiles'
        /\ OwnKept
    BY <2>1 DEF Inv, Waiting, ReportedDespiteProviders, FilesAgree, OwnFiles, OwnKept,
                translatorVars
  <2> QED
    BY <2>3, <2>4 DEF Inv
<1> QED
  BY <1>4, <1>5, <1>6, <1>7, <1>8, <1>9, <1>10 DEF ReportsNext, ReportStep

\* What the translations do keeps the invariant.
LEMMA TranslatorKeepsInv ==
  ASSUME Inv, TranslatorNext, UNCHANGED reportVars
  PROVE  Inv' /\ OwnKept
<1>1. /\ Tasks \subseteq Requests /\ RequestInv
      /\ translation \in [Tasks -> {"new", "asking"} \cup Outcomes]
      /\ finished \in Seq(Tasks)
      /\ \A t \in Tasks : translation[t] = "new" => asked[t] = <<>>
  BY RequestsAreTheClients DEF Inv, Waiting, TranslatorTypeOK
<1>2. ASSUME NEW t \in Tasks, Translate(t)
      PROVE  Inv' /\ OwnKept
  <2>1. /\ translation[t] = "new" /\ StartRequest(t)
        /\ translation' = [translation EXCEPT ![t] = "asking"] /\ finished' = finished
    BY <1>2 DEF Translate
  <2>2. TranslatorTypeOK' /\ translation'[t] = "asking"
        /\ \A u \in Tasks : u # t => translation'[u] = translation[u]
    BY <1>1, <2>1 DEF TranslatorTypeOK
  <2>3. /\ RequestInv'
        /\ \A s \in Requests : s # t => left'[s] = left[s] /\ asked'[s] = asked[s]
    BY <1>1, <2>1, FirstAsk
  <2> QED
    BY <2>2, <2>3, TranslatedInv
<1>3. ASSUME NEW t \in Tasks, TranslationAnswered(t)
      PROVE  Inv' /\ OwnKept
  <2>1. PICK o \in Outcomes :
          /\ translation' = [translation EXCEPT ![t] = o]
          /\ finished' = Append(finished, t) /\ EndRequest(t)
    BY <1>3 DEF TranslationAnswered
  <2>2. TranslatorTypeOK' /\ translation'[t] # "new"
        /\ \A u \in Tasks : u # t => translation'[u] = translation[u]
    BY <1>1, <2>1 DEF TranslatorTypeOK, Outcomes
  <2>3. /\ RequestInv'
        /\ \A s \in Requests : s # t => left'[s] = left[s] /\ asked'[s] = asked[s]
    BY <1>1, <2>1, RequestEnds
  <2> QED
    BY <2>2, <2>3, TranslatedInv
<1>4. ASSUME NEW t \in Tasks, TranslationFails(t)
      PROVE  Inv' /\ OwnKept
  <2>1. left[t] # <<>> /\ NextBackend(t)
    BY <1>4 DEF TranslationFails
  <2>2. /\ RequestInv'
        /\ \A s \in Requests : s # t => left'[s] = left[s] /\ asked'[s] = asked[s]
    BY <1>1, <2>1, NextAsk
  <2>3. translation[t] # "new"
    <3>1. Len(asked[t]) >= 1
      BY <1>1, <2>1 DEF RequestInv, Progress
    <3> QED
      BY <1>1, <3>1, EmptyList
  <2>4. TranslatorTypeOK' /\ translation'[t] # "new"
        /\ \A u \in Tasks : u # t => translation'[u] = translation[u]
    <3>1. CASE Len(left[t]) = 1
      BY <1>1, <1>4, <3>1 DEF TranslationFails, Failed, TranslatorTypeOK, Outcomes
    <3>2. CASE Len(left[t]) # 1
      BY <1>1, <1>4, <2>3, <3>2 DEF TranslationFails, TranslatorTypeOK
    <3> QED
      BY <3>1, <3>2
  <2> QED
    BY <2>2, <2>4, TranslatedInv
<1>5. CASE Gather
  <2>1. UNCHANGED <<translation, finished, left, asked, gaveUp, at, prompt, cache, json, markdown, via>>
    BY <1>5 DEF Gather, reportVars, providerVars
  <2>2. RequestInv' /\ Waiting' /\ TranslatorTypeOK'
    BY <2>1, StillRequestInv DEF Inv, Waiting, TranslatorTypeOK
  <2>3. /\ ReportsTypeOK' /\ ReportedDespiteProviders' /\ FilesAgree' /\ OwnFiles'
        /\ OwnKept
    BY <2>1 DEF Inv, ReportsTypeOK, ReportedDespiteProviders, FilesAgree, OwnFiles, OwnKept
  <2> QED
    BY <2>2, <2>3 DEF Inv
<1> QED
  BY <1>2, <1>3, <1>4, <1>5 DEF TranslatorNext, TranslateStep

LEMMA NextInv == Inv /\ [Next]_vars => Inv' /\ OwnKept
BY ReportsKeepInv, TranslatorKeepsInv, StutterInv DEF Next

LEMMA Invariance == FairSpec => []Inv
<1>1. Inv /\ [Next]_vars => Inv'
  BY NextInv
<1> QED
  BY InitInv, <1>1, PTL DEF FairSpec

-----------------------------------------------------------------------------
(* The results *)

\* Every request, report and translation keeps its type.
THEOREM Typing == FairSpec => []TypeOK
<1>1. Inv => TypeOK
  BY DEF Inv, RequestInv, TypeOK
<1> QED
  BY Invariance, <1>1, PTL

\* For any configured backend and any set of registered ones, generate asks the
\* configured one first and none twice, falls back in the documented order without
\* leaving one out, and gives up only when it has asked them all.
THEOREM ChainIsAskedInOrder == FairSpec => []AsksInOrder
<1>1. Inv => AsksInOrder
  BY InOrder DEF Inv
<1> QED
  BY Invariance, <1>1, PTL

\* When all backends have failed the incident has its JSON report; a task fails
\* only by metrics it cannot read, by a report_id that names no file, or by an
\* answer from the cache.
THEOREM ProvidersDoNotMatter == FairSpec => []ReportedDespiteProviders
<1>1. Inv => ReportedDespiteProviders
  BY DEF Inv
<1> QED
  BY Invariance, <1>1, PTL

\* The two files that save writes under one id are about one incident, or the
\* Markdown is empty because the task that wrote there last was cut short by it.
THEOREM FilesMatch == FairSpec => []FilesAgree
<1>1. Inv => FilesAgree
  BY DEF Inv
<1> QED
  BY Invariance, <1>1, PTL

\* save overwrites no report that is named after its own incident.
THEOREM OwnReportsAreKept == FairSpec => OwnReportsStay
<1>1. Inv /\ [Next]_vars =>
        [\A i \in Incidents : json[i] # None => UNCHANGED <<json[i], markdown[i]>>]_reportVars
  BY NextInv DEF OwnKept
<1> QED
  BY Invariance, <1>1, PTL DEF FairSpec, OwnReportsStay

-----------------------------------------------------------------------------
(* The batch                                                                *)

\* Every set of naturals but the empty one has a least element: what induction
\* on the length of a list comes down to.
LEMMA LeastElement ==
  ASSUME NEW B, B \subseteq Nat, B # {}
  PROVE  \E n \in B : \A m \in B : ~(m < n)
<1>1. \E n \in B : \A m \in B : ~(<<m, n>> \in OpToRel(<, Nat))
  BY NatLessThanWellFounded, WFMin
<1>2. \A m, n \in B : m < n => <<m, n>> \in OpToRel(<, Nat)
  BY DEF OpToRel
<1> QED
  BY <1>1, <1>2

\* One round of the selection: what is kept of n elements, given what is kept of
\* fewer.
Round(s, good, g, n) ==
  IF n = 0 THEN <<>> ELSE IF s[n] \in good THEN Append(g[n - 1], s[n]) ELSE g[n - 1]

\* The rounds make a list for every length.
LEMMA SelectionExists ==
  ASSUME NEW s, NEW good, NEW k \in Nat
  PROVE  \E g : g = [n \in 0..k |-> Round(s, good, g, n)]
<1> DEFINE Exists(m) == \E g : g = [n \in 0..m |-> Round(s, good, g, n)]
           B == {m \in Nat : ~Exists(m)}
<1>1. Exists(0)
  <2> DEFINE g == [n \in 0..0 |-> <<>>]
  <2>1. \A n \in 0..0 : Round(s, good, g, n) = <<>>
    BY DEF Round
  <2>2. g = [n \in 0..0 |-> Round(s, good, g, n)]
    BY <2>1
  <2> QED
    BY <2>2
<1>2. ASSUME NEW m \in Nat, Exists(m)
      PROVE  Exists(m + 1)
  <2>1. PICK f : f = [n \in 0..m |-> Round(s, good, f, n)]
    BY <1>2
  <2> DEFINE g == [n \in 0..m + 1 |-> IF n = m + 1 THEN Round(s, good, f, n) ELSE f[n]]
  <2>2. \A n \in 0..m : g[n] = f[n]
    OBVIOUS
  <2>3. \A n \in 0..m + 1 : n # 0 => n - 1 \in 0..m
    OBVIOUS
  <2>4. \A n \in 0..m + 1 : Round(s, good, g, n) = Round(s, good, f, n)
    <3> HIDE DEF g
    <3> QED
      BY <2>2, <2>3 DEF Round
  <2>5. \A n \in 0..m : f[n] = Round(s, good, f, n)
    BY <2>1
  <2>6. \A n \in 0..m + 1 : g[n] = Round(s, good, g, n)
    <3>1. \A n \in 0..m + 1 : n = m + 1 \/ n \in 0..m
      OBVIOUS
    <3>2. g[m + 1] = Round(s, good, f, m + 1)
      OBVIOUS
    <3> HIDE DEF g
    <3> QED
      BY <2>2, <2>4, <2>5, <3>1, <3>2
  <2>7. g = [n \in 0..m + 1 |-> g[n]]
    OBVIOUS
  <2> HIDE DEF g
  <2>8. g = [n \in 0..m + 1 |-> Round(s, good, g, n)]
    BY <2>6, <2>7
  <2> QED
    BY <2>8
<1>3. B = {}
  <2> SUFFICES ASSUME B # {} PROVE FALSE
    OBVIOUS
  <2>1. B \subseteq Nat
    OBVIOUS
  <2> HIDE DEF B
  <2>2. PICK n \in B : \A m \in B : ~(m < n)
    BY <2>1, LeastElement
  <2> HIDE DEF Exists
  <2>3. n \in Nat /\ ~Exists(n)
    BY DEF B
  <2>4. n # 0
    BY <1>1, <2>3
  <2>5. n - 1 \in Nat /\ n - 1 < n /\ (n - 1) + 1 = n
    BY <2>3, <2>4
  <2>6. Exists(n - 1)
    BY <2>2, <2>5 DEF B
  <2>7. Exists((n - 1) + 1)
    BY <1>2, <2>5, <2>6
  <2> QED
    BY <2>3, <2>5, <2>7
<1> QED
  BY <1>3

LEMMA SelectionRounds ==
  ASSUME NEW S, NEW s \in Seq(S), NEW good
  PROVE  Selected(s, good) = [n \in 0..Len(s) |-> Round(s, good, Selected(s, good), n)]
<1>1. Len(s) \in Nat
  BY LenProperties
<1>2. \E g : g = [n \in 0..Len(s) |-> Round(s, good, g, n)]
  BY <1>1, SelectionExists
<1>3. Selected(s, good) = CHOOSE g : g = [n \in 0..Len(s) |-> Round(s, good, g, n)]
  BY DEF Selected, Round
<1> QED
  BY <1>2, <1>3

\* r holds what is good among the first n elements of s, in their order.
Picks(s, good, n, r) ==
  /\ \A i \in 1..Len(r) : \E k \in 1..n : s[k] = r[i] /\ s[k] \in good
  /\ \A k \in 1..n : s[k] \in good => \E i \in 1..Len(r) : r[i] = s[k]
  /\ \A i, j \in 1..Len(r) : i < j => \E k, l \in 1..n : k < l /\ s[k] = r[i] /\ s[l] = r[j]

LEMMA PicksNext ==
  ASSUME NEW S, NEW s \in Seq(S), NEW good, NEW n \in 1..Len(s), NEW r \in Seq(S),
         Picks(s, good, n - 1, r)
  PROVE  /\ s[n] \in good => Append(r, s[n]) \in Seq(S) /\ Picks(s, good, n, Append(r, s[n]))
         /\ s[n] \notin good => Picks(s, good, n, r)
<1>1. /\ Len(s) \in Nat /\ n \in Nat /\ s[n] \in S
      /\ Len(r) \in Nat
      /\ \A k \in 1..n - 1 : k \in 1..n /\ k < n
      /\ \A k \in 1..n : k = n \/ k \in 1..n - 1
  BY LenProperties, ElementOfSeq
<1>2. ASSUME s[n] \notin good
      PROVE  Picks(s, good, n, r)
  BY <1>1, <1>2 DEF Picks
<1>3. ASSUME s[n] \in good
      PROVE  Append(r, s[n]) \in Seq(S) /\ Picks(s, good, n, Append(r, s[n]))
  <2> DEFINE q == Append(r, s[n])
  <2>1. /\ q \in Seq(S) /\ Len(q) = Len(r) + 1
        /\ \A i \in 1..Len(r) : q[i] = r[i]
        /\ q[Len(r) + 1] = s[n]
    BY <1>1, AppendProperties
  <2>2. \A i \in 1..Len(r) + 1 : i = Len(r) + 1 \/ i \in 1..Len(r)
    BY <1>1
  <2> HIDE DEF q
  <2>3. ASSUME NEW i \in 1..Len(q)
        PROVE  \E k \in 1..n : s[k] = q[i] /\ s[k] \in good
    <3>1. CASE i = Len(r) + 1
      <4>1. n \in 1..n
        BY <1>1
      <4> QED
        BY <1>3, <2>1, <3>1, <4>1
    <3>2. CASE i \in 1..Len(r)
      <4>1. PICK k \in 1..n - 1 : s[k] = r[i] /\ s[k] \in good
        BY <3>2 DEF Picks
      <4>2. k \in 1..n
        BY <1>1
      <4> QED
        BY <2>1, <3>2, <4>1, <4>2
    <3> QED
      BY <2>1, <2>2, <3>1, <3>2
  <2>4. ASSUME NEW k \in 1..n, s[k] \in good
        PROVE  \E i \in 1..Len(q) : q[i] = s[k]
    <3>1. CASE k = n
      <4>1. Len(r) + 1 \in 1..Len(q)
        BY <1>1, <2>1
      <4> QED
        BY <2>1, <3>1, <4>1
    <3>2. CASE k \in 1..n - 1
      <4>1. PICK i \in 1..Len(r) : r[i] = s[k]
        BY <2>4, <3>2 DEF Picks
      <4>2. i \in 1..Len(q)
        BY <1>1, <2>1
      <4> QED
        BY <2>1, <4>1, <4>2
    <3> QED
      BY <1>1, <3>1, <3>2
  <2>5. ASSUME NEW i \in 1..Len(q), NEW j \in 1..Len(q), i < j
        PROVE  \E k, l \in 1..n : k < l /\ s[k] = q[i] /\ s[l] = q[j]
    <3>1. i \in 1..Len(r) /\ (j = Len(r) + 1 \/ j \in 1..Len(r))
      BY <1>1, <2>1, <2>5
    <3>2. CASE j = Len(r) + 1
      <4>1. PICK k \in 1..n - 1 : s[k] = r[i]
        BY <3>1 DEF Picks
      <4>2. k \in 1..n /\ n \in 1..n /\ k < n
        BY <1>1
      <4> QED
        BY <2>1, <3>1, <3>2, <4>1, <4>2
    <3>3. CASE j \in 1..Len(r)
      <4>1. PICK k \in 1..n - 1, l \in 1..n - 1 : k < l /\ s[k] = r[i] /\ s[l] = r[j]
        BY <2>5, <3>1, <3>3 DEF Picks
      <4>2. k \in 1..n /\ l \in 1..n
        BY <1>1
      <4> QED
        BY <2>1, <3>1, <3>3, <4>1, <4>2
    <3> QED
      BY <3>1, <3>2, <3>3
  <2> QED
    BY <2>1, <2>3, <2>4, <2>5 DEF Picks, q
<1> QED
  BY <1>2, <1>3

\* After every round the selection holds what it should.
LEMMA SelectionPicks ==
  ASSUME NEW S, NEW s \in Seq(S), NEW good, NEW n \in 0..Len(s)
  PROVE  Selected(s, good)[n] \in Seq(S) /\ Picks(s, good, n, Selected(s, good)[n])
<1> DEFINE kept == Selected(s, good)
           Good(m) == kept[m] \in Seq(S) /\ Picks(s, good, m, kept[m])
           B == {m \in 0..Len(s) : ~Good(m)}
<1>0. /\ Len(s) \in Nat
      /\ \A m \in 0..Len(s) : kept[m] = Round(s, good, kept, m)
  BY LenProperties, SelectionRounds
<1> HIDE DEF kept
<1>1. Good(0)
  <2>1. kept[0] = <<>>
    BY <1>0 DEF Round
  <2>2. <<>> \in Seq(S) /\ Len(<<>>) = 0 /\ 1..0 = {}
    OBVIOUS
  <2> QED
    BY <2>1, <2>2 DEF Picks
<1>2. ASSUME NEW m \in 1..Len(s), Good(m - 1)
      PROVE  Good(m)
  <2>1. /\ m \in 0..Len(s) /\ m # 0
        /\ kept[m] = IF s[m] \in good THEN Append(kept[m - 1], s[m]) ELSE kept[m - 1]
    BY <1>0 DEF Round
  <2> QED
    BY <1>2, <2>1, PicksNext
<1>3. B = {}
  <2> SUFFICES ASSUME B # {} PROVE FALSE
    OBVIOUS
  <2>1. B \subseteq Nat
    BY <1>0
  <2> HIDE DEF B
  <2>2. PICK m \in B : \A l \in B : ~(l < m)
    BY <2>1, LeastElement
  <2> HIDE DEF Good
  <2>3. m \in 0..Len(s) /\ ~Good(m)
    BY DEF B
  <2>4. m \in 1..Len(s) /\ m - 1 \in 0..Len(s) /\ m - 1 < m
    BY <1>0, <1>1, <2>3
  <2>5. Good(m - 1)
    BY <2>2, <2>4 DEF B
  <2> QED
    BY <1>2, <2>3, <2>4, <2>5
<1> QED
  BY <1>3 DEF kept

\* What the batch returns is what was translated, in the order it was asked for.
LEMMA TranslatedInOrder ==
  ASSUME NEW good \in SUBSET Tasks
  PROVE  LET r == Selected(Batch, good)[Len(Batch)] IN
         /\ \A i, j \in DOMAIN r :
              i < j => \E k, l \in DOMAIN Batch : k < l /\ Batch[k] = r[i] /\ Batch[l] = r[j]
         /\ ToSet(r) = good
<1> DEFINE r == Selected(Batch, good)[Len(Batch)]
<1>1. Batch \in Seq(Tasks) /\ Len(Batch) \in Nat /\ Len(Batch) \in 0..Len(Batch)
  BY BatchIsAList, LenProperties
<1>2. r \in Seq(Tasks) /\ Picks(Batch, good, Len(Batch), r)
  BY <1>1, SelectionPicks
<1> HIDE DEF r
<1>3. DOMAIN r = 1..Len(r) /\ DOMAIN Batch = 1..Len(Batch)
  BY <1>1, <1>2
<1>4. ASSUME NEW i \in DOMAIN r, NEW j \in DOMAIN r, i < j
      PROVE  \E k, l \in DOMAIN Batch : k < l /\ Batch[k] = r[i] /\ Batch[l] = r[j]
  <2>1. i \in 1..Len(r) /\ j \in 1..Len(r)
    BY <1>3
  <2>2. PICK k \in 1..Len(Batch), l \in 1..Len(Batch) :
          k < l /\ Batch[k] = r[i] /\ Batch[l] = r[j]
    BY <1>2, <1>4, <2>1 DEF Picks
  <2> QED
    BY <1>3, <2>2
<1>5. \A t : t \in ToSet(r) => t \in good
  BY <1>2, <1>3 DEF Picks, ToSet
<1>6. ASSUME NEW t \in good
      PROVE  t \in ToSet(r)
  <2>1. PICK k \in 1..Len(Batch) : Batch[k] = t
    BY <1>3 DEF Tasks, ToSet
  <2>2. PICK i \in 1..Len(r) : r[i] = t
    BY <1>2, <1>6, <2>1 DEF Picks
  <2> QED
    BY <1>3, <2>2 DEF ToSet
<1> QED
  BY <1>4, <1>5, <1>6 DEF r

\* Only a translation under way has backends to try, and a batch that has been
\* returned is over.
BatchInv ==
  /\ \A t \in Tasks : left[t] # <<>> => translation[t] = "asking"
  /\ results # Pending => \A t \in Tasks : translation[t] \in Outcomes
  /\ BatchKeepsOrder

\* Reports have requests of their own.
LEMMA ReportsLeaveTasks ==
  ASSUME Inv, ReportsNext, NEW t \in Tasks
  PROVE  left'[t] = left[t]
<1>1. RequestInv /\ t \in Requests
  BY RequestsAreTheClients DEF Inv
<1>2. ASSUME NEW i \in Incidents, Quarantined(i) \/ ReportStep(i) \/ Cancelled(i)
      PROVE  left'[t] = left[t]
  <2>1. i \in Requests /\ i # t /\ left \in [Requests -> Seq(Registered)]
    BY <1>1, RequestsAreTheClients DEF RequestInv, ProviderTypeOK
  <2>2. \/ UNCHANGED left
        \/ Ask(i, Order) \/ EndRequest(i)
        \/ Ask(i, Tail(left[i]))
    BY <1>2 DEF Quarantined, ReportStep, Cancelled, ReadFails, ReadEntries, FromCache, AskFirst,
       Answered, BackendFails, NextBackend, Falls, StartRequest, providerVars
  <2> QED
    BY <1>1, <2>1, <2>2 DEF Ask, EndRequest
<1>3. ASSUME NEW q \in Prompts, Expires(q)
      PROVE  left'[t] = left[t]
  BY <1>3 DEF Expires, providerVars
<1> QED
  BY <1>2, <1>3 DEF ReportsNext

\* While translations are under way nothing has been returned.
LEMMA BatchUnderWay ==
  ASSUME Inv, BatchInv, NEW t \in Tasks, TranslateStep(t)
  PROVE  BatchInv'
<1>1. /\ t \in Requests /\ Tasks \subseteq Requests
      /\ left \in [Requests -> Seq(Registered)]
      /\ translation \in [Tasks -> {"new", "asking"} \cup Outcomes]
      /\ results' = results
  BY RequestsAreTheClients
  DEF Inv, RequestInv, ProviderTypeOK, TranslatorTypeOK, TranslateStep, Translate,
      TranslationAnswered, TranslationFails
<1>2. translation[t] \in {"new", "asking"}
  BY DEF BatchInv, TranslateStep, Translate, TranslationAnswered, TranslationFails
<1>3. results = Pending
  BY <1>2 DEF BatchInv, Outcomes
<1>4. /\ \A u \in Tasks \ {t} : left'[u] = left[u] /\ translation'[u] = translation[u]
      /\ left'[t] # <<>> => translation'[t] = "asking"
  <2>1. CASE Translate(t)
    BY <1>1, <2>1 DEF Translate, StartRequest, Ask
  <2>2. CASE TranslationAnswered(t)
    BY <1>1, <2>2 DEF TranslationAnswered, EndRequest
  <2>3. CASE TranslationFails(t)
    <3>1. /\ left[t] # <<>> /\ translation[t] = "asking"
          /\ left' = [left EXCEPT ![t] = Tail(left[t])]
      BY <2>3 DEF TranslationFails, NextBackend, Falls, Ask, BatchInv
    <3>2. Len(left[t]) = 1 => left'[t] = <<>>
      BY <1>1, <2>3, NextAsk DEF TranslationFails, Inv
    <3> QED
      BY <1>1, <2>3, <3>1, <3>2 DEF TranslationFails, Failed
  <2> QED
    BY <2>1, <2>2, <2>3 DEF TranslateStep
<1> QED
  BY <1>1, <1>3, <1>4 DEF BatchInv, BatchKeepsOrder

LEMMA BatchStep ==
  ASSUME Inv, BatchInv, [Next]_vars
  PROVE  BatchInv'
<1>1. CASE UNCHANGED vars
  BY <1>1 DEF vars, providerVars, translatorVars, BatchInv, BatchKeepsOrder
<1>2. CASE ReportsNext /\ UNCHANGED translatorVars
  <2>1. \A t \in Tasks : left'[t] = left[t]
    BY <1>2, ReportsLeaveTasks
  <2> QED
    BY <1>2, <2>1 DEF translatorVars, BatchInv, BatchKeepsOrder
<1>3. CASE Gather
  <2>1. /\ \A t \in Tasks : translation[t] \in Outcomes
        /\ results' = Translated(Batch)
        /\ UNCHANGED <<translation, left>>
    BY <1>3 DEF Gather, providerVars
  <2> DEFINE good == {t \in Tasks : translation[t] = "task"}
  <2>2. results' = Selected(Batch, good)[Len(Batch)] /\ good \in SUBSET Tasks
    BY <2>1 DEF Translated
  <2> HIDE DEF good
  <2>3. /\ \A i, j \in DOMAIN results' :
             i < j => \E k, l \in DOMAIN Batch :
                        k < l /\ Batch[k] = results'[i] /\ Batch[l] = results'[j]
        /\ ToSet(results') = good
    BY <2>2, TranslatedInOrder
  <2>4. good = {t \in Tasks : translation'[t] = "task"}
    BY <2>1 DEF good
  <2>5. BatchKeepsOrder'
    BY <2>3, <2>4 DEF BatchKeepsOrder
  <2> QED
    BY <2>1, <2>5 DEF BatchInv
<1> QED
  BY <1>1, <1>2, <1>3, BatchUnderWay DEF Next, TranslatorNext

\* The batch returns exactly the tasks that were translated, in the order they
\* were given, whatever the order in which the backends answered or failed.
THEOREM BatchIsInOrder == FairSpec => []BatchKeepsOrder
<1>1. Init => BatchInv
  BY RequestsAreTheClients
  DEF Init, ProviderInit, TranslatorInit, BatchInv, BatchKeepsOrder
<1>2. Inv /\ BatchInv /\ [Next]_vars => BatchInv'
  BY BatchStep
<1>3. BatchInv => BatchKeepsOrder
  BY DEF BatchInv
<1> QED
  BY Invariance, <1>1, <1>2, <1>3, PTL DEF FairSpec
=============================================================================
