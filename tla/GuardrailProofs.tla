--------------------------- MODULE GuardrailProofs ---------------------------
(***************************************************************************)
(* What Guardrail guarantees for every number of agents, every set of      *)
(* sequence numbers and every window size: typing, what the pruned replay  *)
(* window still remembers, that the replay gate implements ReplayPromise,  *)
(* and that a packet passes only in its agent's latest session, for an     *)
(* agent that registered within TTL, whosever token it comes with.         *)
(***************************************************************************)
EXTENDS Guardrail, TLAPS

-----------------------------------------------------------------------------
(* Typing *)

\* A pruned set still holds sequence numbers only.
LEMMA KeptTypes ==
  ASSUME NEW a \in Agents, NEW n \in SeqNumbers, seen \in [Agents -> SUBSET SeqNumbers]
  PROVE  Kept(a, n) \in SUBSET SeqNumbers
BY DEF Kept

\* Whatever the gates after the replay check decide is an outcome.
LEMMA VerdictTypes ==
  ASSUME NEW p \in Packets, NEW token
  PROVE  /\ Verdict(p, token) \in Outcomes
         /\ Verdict(p, token) # "REJECT_REPLAY"
         /\ Verdict(p, token) # "REJECT_HMAC_MISMATCH"
BY DEF Verdict, Outcomes

\* Only a token that is still valid lets a packet pass.
LEMMA PassIsLive ==
  ASSUME NEW p \in Packets, NEW token, Verdict(p, token) = "PASS"
  PROVE  Live(token)
BY DEF Verdict

\* A token handed out at a registration has the claims the guardrail reads.
LEMMA TokenTypes ==
  ASSUME NEW a \in Agents, NEW granted \in BOOLEAN, clock \in Nat
  PROVE  Token(a, granted) \in Tokens
BY ParameterTypes DEF Token, Tokens

\* Validating a packet keeps every type.
LEMMA ValidateTypes ==
  ASSUME TypeOK, NEW p \in Packets, NEW token \in Presentable,
         ValidateInbound(p, token)
  PROVE  TypeOK'
<1> USE DEF TypeOK, gates
<1>1. p.agent \in Agents /\ p.seq \in SeqNumbers
  BY DEF Packets
<1>2. UNCHANGED <<session, epochs, issued, clock, joined>>
  BY DEF ValidateInbound
<1>3. CASE RejectForged(p)
  BY <1>2, <1>3 DEF RejectForged, Return, Results, Outcomes
<1>4. CASE RejectReplay(p)
  BY <1>2, <1>4 DEF RejectReplay, Return, Results, Outcomes
<1>5. CASE Judge(p, token)
  <2>1. seen' \in [Agents -> SUBSET SeqNumbers] /\ high' \in [Agents -> Nat]
    BY <1>1, <1>5, KeptTypes, ParameterTypes DEF Judge, Remember
  <2>2. result' \in Results /\ offered' \subseteq Packets
    BY <1>5, VerdictTypes DEF Judge, Return, Results
  <2>3. metrics' \in Seq([agent : Agents, seq : SeqNumbers])
    <3>1. CASE Verdict(p, token) = "PASS"
      <4>1. token \in Tokens
        BY <3>1, PassIsLive DEF Live, Presentable
      <4>2. [agent |-> token.agent, seq |-> p.seq] \in [agent : Agents, seq : SeqNumbers]
        BY <1>1, <4>1 DEF Tokens
      <4> QED
        BY <1>5, <3>1, <4>2 DEF Judge
    <3>2. CASE Verdict(p, token) # "PASS"
      BY <1>5, <3>2 DEF Judge
    <3> QED
      BY <3>1, <3>2
  <2> QED
    BY <1>2, <2>1, <2>2, <2>3
<1> QED
  BY <1>3, <1>4, <1>5 DEF ValidateInbound

\* Every variable keeps its type, for every value of the constants.
THEOREM TypeCorrect == Spec => []TypeOK
<1>1. Init => TypeOK
  BY DEF Init, TypeOK
<1>2. TypeOK /\ [Next]_vars => TypeOK'
  <2> SUFFICES ASSUME TypeOK, [Next]_vars
               PROVE  TypeOK'
    OBVIOUS
  <2>1. ASSUME NEW a \in Agents, NEW granted \in BOOLEAN, Register(a, granted)
        PROVE  TypeOK'
    <3>1. Token(a, granted) \in Tokens
      BY TokenTypes DEF TypeOK
    <3>2. epochs[a] + 1 \in Epochs
      <4>1. epochs[a] + 1 \in 1..MaxEpoch[a]
        <5>1. epochs[a] \in Nat /\ MaxEpoch[a] \in Nat /\ epochs[a] < MaxEpoch[a]
          BY <2>1, ParameterTypes DEF Register, TypeOK
        <5> QED
          BY <5>1
      <4> QED
        BY <4>1 DEF Epochs
    <3> QED
      BY <2>1, <3>1, <3>2 DEF Register, TypeOK, gates
  <2>2. ASSUME NEW a \in Agents, RevokeSession(a)
        PROVE  TypeOK'
    BY <2>2 DEF RevokeSession, TypeOK, gates
  <2>3. ASSUME NEW p \in Packets, NEW token \in Presentable,
               ValidateInbound(p, token)
        PROVE  TypeOK'
    BY <2>3, ValidateTypes
  <2>4. CASE DrainMetrics
    BY <2>4 DEF DrainMetrics, TypeOK
  <2>5. CASE Tick
    BY <2>5 DEF Tick, TypeOK, gates
  <2>6. CASE UNCHANGED vars
    BY <2>6 DEF vars, TypeOK
  <2> QED
    BY <2>1, <2>2, <2>3, <2>4, <2>5, <2>6 DEF Next
<1> QED
  BY <1>1, <1>2, PTL DEF Spec

-----------------------------------------------------------------------------
(* The replay window *)

\* A step of the gates that leaves the window alone leaves what it remembers.
LEMMA WindowUntouched ==
  ASSUME WindowRemembersRecent, UNCHANGED <<seen, high, offered>>
  PROVE  WindowRemembersRecent'
BY DEF WindowRemembersRecent, NumbersOffered

\* One more packet offered is one more number offered, of its agent.
LEMMA OneMoreOffered ==
  ASSUME TypeOK, NEW p \in Packets, offered' = offered \cup {p}, NEW a \in Agents
  PROVE  NumbersOffered(a)' =
           IF a = p.agent THEN NumbersOffered(a) \cup {p.seq} ELSE NumbersOffered(a)
BY DEF NumbersOffered, TypeOK, Packets

\* Letting a number through keeps the window: what pruning drops is far behind
\* the incoming number, hence far behind the new high water mark.
LEMMA JudgeKeepsWindow ==
  ASSUME TypeOK, WindowRemembersRecent, NEW p \in Packets, NEW token, Judge(p, token)
  PROVE  WindowRemembersRecent'
<1> DEFINE b == p.agent
           n == p.seq
<1>1. b \in Agents /\ n \in SeqNumbers /\ n \in Nat /\ KeepBehind \in Nat
  BY ParameterTypes DEF Packets
<1>2. /\ seen'[b] = Kept(b, n) \cup {n}
      /\ high'[b] = IF n > high[b] THEN n ELSE high[b]
      /\ \A a \in Agents : a # b => seen'[a] = seen[a] /\ high'[a] = high[a]
  BY <1>1 DEF Judge, Remember, TypeOK
<1>3. \A a \in Agents : high[a] \in Nat
  BY DEF TypeOK
<1>4. /\ NumbersOffered(b)' = NumbersOffered(b) \cup {n}
      /\ \A a \in Agents : a # b => NumbersOffered(a)' = NumbersOffered(a)
  BY <1>1, OneMoreOffered DEF Judge
<1>5. \A m \in NumbersOffered(b) : m \in Nat
  <2>1. NumbersOffered(b) \subseteq SeqNumbers
    BY DEF NumbersOffered, TypeOK, Packets
  <2> QED
    BY <2>1, ParameterTypes
<1> HIDE DEF b, n
<1>6. ASSUME NEW a \in Agents, a # b
      PROVE  /\ seen'[a] \subseteq NumbersOffered(a)'
             /\ \A m \in NumbersOffered(a)' :
                  m <= high'[a] /\ (m \in seen'[a] \/ m <= high'[a] - KeepBehind)
  BY <1>2, <1>4, <1>6 DEF WindowRemembersRecent
<1>7. seen'[b] \subseteq NumbersOffered(b)'
  BY <1>1, <1>2, <1>4 DEF Kept, WindowRemembersRecent
<1>8. ASSUME NEW m \in NumbersOffered(b)'
      PROVE  m <= high'[b] /\ (m \in seen'[b] \/ m <= high'[b] - KeepBehind)
  <2>1. CASE m = n
    BY <1>1, <1>2, <1>3, <2>1
  <2>2. CASE m \in NumbersOffered(b)
    <3>1. m \in Nat /\ m <= high[b] /\ (m \in seen[b] \/ m <= high[b] - KeepBehind)
      BY <1>1, <1>5, <2>2 DEF WindowRemembersRecent
    <3>2. m <= high'[b] /\ high[b] <= high'[b] /\ n <= high'[b] /\ high'[b] \in Nat
      BY <1>1, <1>2, <1>3, <3>1
    <3>3. CASE m <= high[b] - KeepBehind
      BY <1>1, <1>3, <3>1, <3>2, <3>3
    <3>4. CASE m \in seen[b]
      <4>1. m \in Kept(b, n) \/ m <= n - KeepBehind
        BY <1>1, <3>1, <3>4 DEF Kept
      <4> QED
        BY <1>1, <1>2, <3>1, <3>2, <4>1
    <3> QED
      BY <3>1, <3>3, <3>4
  <2> QED
    BY <1>4, <2>1, <2>2
<1> QED
  BY <1>6, <1>7, <1>8 DEF WindowRemembersRecent

\* Every step keeps the window: only Judge touches it.
LEMMA WindowStep ==
  ASSUME TypeOK, WindowRemembersRecent, [Next]_vars
  PROVE  WindowRemembersRecent'
<1>1. ASSUME NEW a \in Agents, NEW granted \in BOOLEAN, Register(a, granted)
      PROVE  UNCHANGED <<seen, high, offered>>
  BY <1>1 DEF Register, gates
<1>2. ASSUME NEW a \in Agents, RevokeSession(a)
      PROVE  UNCHANGED <<seen, high, offered>>
  BY <1>2 DEF RevokeSession, gates
<1>3. ASSUME NEW p \in Packets, NEW token \in Presentable, ValidateInbound(p, token)
      PROVE  UNCHANGED <<seen, high, offered>> \/ Judge(p, token)
  BY <1>3 DEF ValidateInbound, RejectForged, RejectReplay, gates
<1>4. CASE DrainMetrics \/ Tick \/ UNCHANGED vars
  BY <1>4, WindowUntouched DEF DrainMetrics, Tick, vars, gates
<1> QED
  BY <1>1, <1>2, <1>3, <1>4, WindowUntouched, JudgeKeepsWindow DEF Next

\* Pruning never forgets a number close to the high water mark, invents none,
\* and the mark is above all of them, in any order of delivery.
THEOREM WindowIsFaithful == Spec => []WindowRemembersRecent
<1>1. Init => WindowRemembersRecent
  BY DEF Init, WindowRemembersRecent, NumbersOffered
<1> QED
  BY <1>1, WindowStep, TypeCorrect, PTL DEF Spec

-----------------------------------------------------------------------------
(* The replay gate implements its promise *)

\* A step that says nothing about a number is a step at rest.
LEMMA Silent ==
  ASSUME UNCHANGED <<high, offered>>,
         result' = None \/ result'.outcome = "REJECT_HMAC_MISMATCH"
  PROVE  Promise!Next
BY DEF Promise!Next, Promise!Rest, NumbersOffered

\* A refused number was offered before or is hopelessly late.
LEMMA RefusalIsJust ==
  ASSUME TypeOK, WindowRemembersRecent, NEW p \in Packets, RejectReplay(p)
  PROVE  Promise!Next
<1>1. p.agent \in Agents /\ p.seq \in SeqNumbers
  BY DEF Packets
<1>2. p.seq \in NumbersOffered(p.agent) \/ p.seq <= high[p.agent] - MaxWindowDrift
  BY <1>1 DEF RejectReplay, Fresh, TooLate, WindowRemembersRecent
<1>3. UNCHANGED <<high, offered>>
  BY DEF RejectReplay, gates
<1>4. /\ result' # None
      /\ result'.outcome = "REJECT_REPLAY"
      /\ result'.packet = p
  BY ParameterTypes DEF RejectReplay, Return, Results, Outcomes
<1>5. Promise!Refuse(p.agent, p.seq)
  BY <1>1, <1>2, <1>3, <1>4 DEF Promise!Refuse, Promise!Said, NumbersOffered
<1> QED
  BY <1>1, <1>5 DEF Promise!Next

\* A number let through is new, or far behind the newest.
LEMMA AcceptanceIsJust ==
  ASSUME TypeOK, WindowRemembersRecent, NEW p \in Packets, NEW token, Judge(p, token)
  PROVE  Promise!Next
<1>1. p.agent \in Agents /\ p.seq \in SeqNumbers
  BY DEF Packets
<1>2. p.seq \in NumbersOffered(p.agent) => p.seq <= high[p.agent] - KeepBehind
  BY <1>1 DEF Judge, Fresh, WindowRemembersRecent
<1>3. [a \in Agents |-> NumbersOffered(a)]'
        = [[a \in Agents |-> NumbersOffered(a)] EXCEPT
             ![p.agent] = @ \cup {p.seq}]
  BY <1>1, OneMoreOffered DEF Judge
<1>4. high' = [high EXCEPT ![p.agent] = IF p.seq > @ THEN p.seq ELSE @]
  BY DEF Judge, Remember
<1>5. /\ result' # None
      /\ result'.outcome # "REJECT_REPLAY"
      /\ result'.outcome # "REJECT_HMAC_MISMATCH"
      /\ result'.packet = p
  BY VerdictTypes, ParameterTypes DEF Judge, Return, Results
<1>6. Promise!Accept(p.agent, p.seq)
  BY <1>1, <1>2, <1>3, <1>4, <1>5 DEF Promise!Accept, Promise!Said
<1> QED
  BY <1>1, <1>6 DEF Promise!Next

\* Every step of the guardrail is a step of the promise or leaves it alone.
LEMMA PromiseStep ==
  ASSUME TypeOK, WindowRemembersRecent, [Next]_vars
  PROVE  [Promise!Next]_Promise!promise
<1>1. ASSUME NEW a \in Agents, NEW granted \in BOOLEAN, Register(a, granted)
      PROVE  Promise!Next
  BY <1>1, Silent DEF Register, gates
<1>2. ASSUME NEW a \in Agents, RevokeSession(a)
      PROVE  Promise!Next
  BY <1>2, Silent DEF RevokeSession, gates
<1>3. ASSUME NEW p \in Packets, NEW token \in Presentable, ValidateInbound(p, token)
      PROVE  Promise!Next
  <2>1. CASE RejectForged(p)
    BY <2>1, Silent DEF RejectForged, Return, gates
  <2>2. CASE RejectReplay(p)
    BY <2>2, RefusalIsJust
  <2>3. CASE Judge(p, token)
    BY <2>3, AcceptanceIsJust
  <2> QED
    BY <1>3, <2>1, <2>2, <2>3 DEF ValidateInbound
<1>4. CASE DrainMetrics \/ Tick
  BY <1>4, Silent DEF DrainMetrics, Tick, gates
<1>5. CASE UNCHANGED vars
  BY <1>5 DEF vars, Promise!promise, NumbersOffered
<1> QED
  BY <1>1, <1>2, <1>3, <1>4, <1>5 DEF Next

\* The replay gate, its pruned sets included, implements ReplayPromise.
THEOREM GateKeepsPromise == Spec => KeepsPromise
<1>1. Init => Promise!Init
  BY DEF Init, Promise!Init, NumbersOffered
<1>2. Spec => [](TypeOK /\ WindowRemembersRecent)
  BY TypeCorrect, WindowIsFaithful, PTL
<1> QED
  BY <1>1, <1>2, PromiseStep, PTL DEF Spec, KeepsPromise, Promise!Spec

-----------------------------------------------------------------------------
(* Tokens *)

\* A session is its agent's latest or gone, no registration lies in the future, and
\* a token is of an agent that has registered, and does not outlive its last
\* registration by more than TTL.
TokensExpire ==
  /\ \A a \in Agents : joined[a] <= clock /\ session[a] \in {None, epochs[a]}
  /\ \A t \in issued : epochs[t.agent] # 0 /\ t.expires_at <= joined[t.agent] + TTL

\* Only a registration issues tokens, opens a session or moves `joined`, and the
\* token it issues expires TTL later.
LEMMA TokensStep ==
  ASSUME TypeOK, TokensExpire, [Next]_vars
  PROVE  TokensExpire'
<1> USE DEF TokensExpire
<1>1. /\ \A t \in issued : t.agent \in Agents /\ t.expires_at \in Nat
      /\ \A a \in Agents : joined[a] \in Nat /\ epochs[a] \in Nat
      /\ clock \in Nat /\ TTL \in Nat
  BY ParameterTypes DEF TypeOK, Tokens
<1>2. ASSUME NEW a \in Agents, NEW granted \in BOOLEAN, Register(a, granted)
      PROVE  TokensExpire'
  <2>1. /\ \A b \in Agents : /\ joined'[b] = IF b = a THEN clock ELSE joined[b]
                             /\ epochs'[b] = IF b = a THEN epochs[a] + 1 ELSE epochs[b]
                             /\ session'[b] = IF b = a THEN epochs[a] + 1 ELSE session[b]
        /\ clock' = clock
    BY <1>2 DEF Register, TypeOK
  <2>2. \A t \in issued' : t \in issued \/ (t.agent = a /\ t.expires_at = clock + TTL)
    BY <1>2 DEF Register, Token
  <2>3. \A b \in Agents : joined'[b] <= clock' /\ session'[b] \in {None, epochs'[b]}
    BY <1>1, <2>1
  <2>4. ASSUME NEW t \in issued'
        PROVE  epochs'[t.agent] # 0 /\ t.expires_at <= joined'[t.agent] + TTL
    BY <1>1, <2>1, <2>2, <2>4
  <2> QED
    BY <2>3, <2>4
<1>3. CASE Tick
  BY <1>1, <1>3 DEF Tick
<1>4. ASSUME UNCHANGED <<session, epochs, issued, joined, clock>>
      PROVE  TokensExpire'
  BY <1>4
<1>5. ASSUME NEW p \in Packets, NEW token \in Presentable, ValidateInbound(p, token)
      PROVE  TokensExpire'
  BY <1>4, <1>5 DEF ValidateInbound
<1>6. ASSUME NEW a \in Agents, RevokeSession(a)
      PROVE  TokensExpire'
  BY <1>6 DEF RevokeSession, TypeOK
<1>7. CASE DrainMetrics \/ UNCHANGED vars
  BY <1>4, <1>7 DEF DrainMetrics, vars
<1> QED
  BY <1>2, <1>3, <1>5, <1>6, <1>7 DEF Next

\* A packet passes only in its agent's latest session, and is credited to an agent
\* that has registered within TTL: the token's, which may be another.
THEOREM CreditNeedsRecentRegistration == Spec => CreditedWithinTTL
<1> DEFINE Credited(packet) ==
             \E a \in Agents : /\ metrics' = Append(metrics, [agent |-> a, seq |-> packet.seq])
                               /\ epochs[a] # 0
                               /\ clock <= joined[a] + TTL
           Within == result' # None /\ result'.outcome = "PASS"
                       => /\ result'.packet.epoch = epochs[result'.packet.agent]
                          /\ Credited(result'.packet)
<1>1. Init => TokensExpire
  BY DEF Init, TokensExpire
<1>2. TypeOK /\ TokensExpire /\ [Next]_vars => [Within]_vars
  <2> SUFFICES ASSUME TypeOK, TokensExpire, Next
               PROVE  Within
    OBVIOUS
  <2>1. ASSUME NEW p \in Packets, NEW token \in Presentable, ValidateInbound(p, token)
        PROVE  Within
    <3>1. CASE RejectForged(p) \/ RejectReplay(p)
      BY <3>1 DEF RejectForged, RejectReplay, Return
    <3>2. CASE Judge(p, token)
      <4>1. result' = [packet |-> p, outcome |-> Verdict(p, token)]
        BY <3>2 DEF Judge, Return
      <4>2. CASE Verdict(p, token) = "PASS"
        <5>1. token \in issued /\ token.agent \in Agents /\ clock <= token.expires_at
          BY <4>2, PassIsLive DEF Live, Presentable, TypeOK, Tokens
        <5>2. token.expires_at <= joined[token.agent] + TTL /\ epochs[token.agent] # 0
          BY <5>1 DEF TokensExpire
        <5>3. /\ clock \in Nat /\ token.expires_at \in Nat
              /\ joined[token.agent] \in Nat /\ TTL \in Nat
          BY <5>1, ParameterTypes DEF TypeOK, Tokens
        <5>4. clock <= joined[token.agent] + TTL
          BY <5>1, <5>2, <5>3
        <5>5. metrics' = Append(metrics, [agent |-> token.agent, seq |-> p.seq])
          BY <3>2, <4>2 DEF Judge
        <5>6. Credited(p)
          BY <5>1, <5>2, <5>4, <5>5
        <5>7. p.agent \in Agents /\ p.epoch \in Epochs
          BY DEF Packets
        <5>8. p.epoch = epochs[p.agent]
          BY <2>1, <3>2, <5>7 DEF ValidateInbound, Judge, Authentic, TokensExpire
        <5> HIDE DEF Credited
        <5>9. result'.packet = p
          BY <4>1
        <5> QED
          BY <5>6, <5>8, <5>9
      <4> QED
        BY <4>1, <4>2
    <3> QED
      BY <2>1, <3>1, <3>2 DEF ValidateInbound
  <2>2. ASSUME NEW a \in Agents, NEW granted \in BOOLEAN, Register(a, granted)
        PROVE  Within
    BY <2>2 DEF Register
  <2>3. ASSUME NEW a \in Agents, RevokeSession(a)
        PROVE  Within
    BY <2>3 DEF RevokeSession
  <2>4. CASE DrainMetrics \/ Tick
    BY <2>4 DEF DrainMetrics, Tick
  <2> QED
    BY <2>1, <2>2, <2>3, <2>4 DEF Next
<1> QED
  BY <1>1, <1>2, TokensStep, TypeCorrect, PTL DEF Spec, CreditedWithinTTL
=============================================================================
