----------------------------- MODULE Guardrail -----------------------------
(***************************************************************************)
(* orchestrator/guardrail.py with the parts of token_issuer.py and         *)
(* agent_sdk/crypto.py it relies on: the gates every inbound packet goes   *)
(* through, in their order, and the replay window they keep per session    *)
(* id.                                                                     *)
(*                                                                         *)
(* A session id is the agent's id, so it survives a reconnection; what     *)
(* changes at each registration is the session (the keys), here called its *)
(* epoch.  A packet carries the epoch it was signed in, a sequence number  *)
(* and a body; packets may be delivered late, repeatedly and in any order, *)
(* so any number the agent uses can arrive at any time.                    *)
(*                                                                         *)
(* validate_inbound runs without an await: one step.                       *)
(***************************************************************************)
EXTENDS Integers, Sequences, FiniteSets

CONSTANTS
  Agents,          \* agent ids, which are the session ids
  SeqNumbers,      \* the sequence numbers agents put on packets
  NumbersOf,       \* which of them each agent uses
  BodyOf,          \* what the packet with each number holds
  PruneAbove,      \* 10000: a larger set of seen numbers is pruned
  KeepBehind,      \* 5000: pruning keeps the numbers this close to the incoming one
  MaxWindowDrift,  \* MAX_WINDOW_DRIFT
  TTL,             \* TTL_SECONDS of a token, in ticks
  MaxEpoch,        \* bound of a run: how often each agent registers
  MaxTime,         \* bound of a run: the clock stops here
  MaxMetrics,      \* bound of a run: length of the metrics buffer
  None             \* no session, no result

Epochs == UNION {1..MaxEpoch[a] : a \in Agents}

\* What decrypting and parsing a packet makes of it.
Bodies == {"undecipherable", "oversize", "unparsable", "empty", "data"}

Packets == [agent : Agents, epoch : Epochs, seq : SeqNumbers]

\* The claims of a token that the guardrail reads.
Tokens == [agent : Agents, expires_at : Nat, permissions : BOOLEAN]

Outcomes ==
  {"PASS", "REJECT_HMAC_MISMATCH", "REJECT_REPLAY", "REJECT_SCHEMA_VIOLATION",
   "REJECT_PAYLOAD_OVERSIZE", "REJECT_EXPIRED_JWT", "REJECT_PERMISSION_OUT_OF_SCOPE"}

Results == [packet : Packets, outcome : Outcomes]

ASSUME ParameterTypes ==
  /\ SeqNumbers \subseteq Nat
  /\ NumbersOf \in [Agents -> SUBSET SeqNumbers]
  /\ BodyOf \in [SeqNumbers -> Bodies]
  /\ PruneAbove \in Nat
  /\ KeepBehind \in Nat
  /\ MaxWindowDrift \in Nat
  /\ TTL \in Nat
  /\ MaxEpoch \in [Agents -> Nat]
  /\ MaxTime \in Nat
  /\ MaxMetrics \in Nat
  /\ None \notin Epochs
  /\ None \notin Results

VARIABLES
  session,   \* token_issuer._session_keys: the epoch of each agent's session
  epochs,    \* how many sessions each agent has had
  issued,    \* the tokens handed out
  seen,      \* _seen_sequences
  high,      \* _sequence_high_water
  metrics,   \* _metrics_buffer: the agent and number of each passed packet
  clock,     \* time.time()
  result,    \* what the last call of validate_inbound returned, if that was last
  offered,   \* history: the packets the replay gate let through
  joined     \* history: when each agent last registered

gates == <<seen, high, metrics>>
vars == <<session, epochs, issued, seen, high, metrics, clock, result, offered,
          joined>>

Init ==
  /\ session = [a \in Agents |-> None]
  /\ epochs  = [a \in Agents |-> 0]
  /\ issued  = {}
  /\ seen    = [a \in Agents |-> {}]
  /\ high    = [a \in Agents |-> 0]
  /\ metrics = <<>>
  /\ clock   = 0
  /\ result  = None
  /\ offered = {}
  /\ joined  = [a \in Agents |-> 0]

-----------------------------------------------------------------------------
(* Sessions and tokens *)

\* mutant: the token outlives its issue by one tick
TokenForLonger(a, granted) ==
  [agent |-> a, expires_at |-> clock + TTL + 1, permissions |-> granted]

\* issue
Token(a, granted) == [agent |-> a, expires_at |-> clock + TTL, permissions |-> granted]

\* What the Register handler does here: a new crypto session under the agent's
\* id, and a token whose permissions are the capabilities the agent lists.
Register(a, granted) ==
  /\ epochs[a] < MaxEpoch[a]
  /\ epochs'  = [epochs EXCEPT ![a] = @ + 1]
  /\ session' = [session EXCEPT ![a] = epochs[a] + 1]
  /\ issued'  = issued \cup {Token(a, granted)}
  /\ joined'  = [joined EXCEPT ![a] = clock]
  /\ result'  = None
  /\ UNCHANGED <<gates, clock, offered>>

\* revoke_session
RevokeSession(a) ==
  /\ session[a] # None
  /\ session' = [session EXCEPT ![a] = None]
  /\ result'  = None
  /\ UNCHANGED <<epochs, issued, gates, clock, offered, joined>>

\* verify
Live(token) == token # None /\ clock <= token.expires_at

\* What may come with a packet: any token that was issued, to whichever agent and
\* expired or not, or none.  No gate compares its agent with the packet's.
Presentable == issued \cup {None}

-----------------------------------------------------------------------------
(* _check_replay *)

TooLate(a, n) == n <= high[a] - MaxWindowDrift

\* mutant: only numbers above the highest one are let through
FreshIfHighest(a, n) == n > high[a]

Fresh(a, n) == ~TooLate(a, n) /\ n \notin seen[a]

\* mutant: pruning starts the window afresh
KeptNone(a, n) == IF Cardinality(seen[a]) > PruneAbove THEN {} ELSE seen[a]

Kept(a, n) ==
  IF Cardinality(seen[a]) > PruneAbove
  THEN {s \in seen[a] : s > n - KeepBehind}
  ELSE seen[a]

Remember(a, n) ==
  /\ seen' = [seen EXCEPT ![a] = Kept(a, n) \cup {n}]
  /\ high' = [high EXCEPT ![a] = IF n > @ THEN n ELSE @]

-----------------------------------------------------------------------------
(* validate_inbound *)

\* The HMAC is right exactly if the packet was signed in the session given.
Authentic(p) == session[p.agent] = p.epoch

\* The gates after the replay check, in order.
Verdict(p, token) ==
  LET body == BodyOf[p.seq] IN
  IF body = "undecipherable" THEN "REJECT_SCHEMA_VIOLATION"
  ELSE IF body = "oversize" THEN "REJECT_PAYLOAD_OVERSIZE"
  ELSE IF ~Live(token) THEN "REJECT_EXPIRED_JWT"
  ELSE IF body = "unparsable" THEN "REJECT_SCHEMA_VIOLATION"
  ELSE IF body = "data" /\ ~token.permissions THEN "REJECT_PERMISSION_OUT_OF_SCOPE"
  ELSE "PASS"

Return(p, outcome) == result' = [packet |-> p, outcome |-> outcome]

RejectForged(p) ==
  /\ ~Authentic(p)
  /\ Return(p, "REJECT_HMAC_MISMATCH")
  /\ UNCHANGED <<gates, offered>>

RejectReplay(p) ==
  /\ Authentic(p)
  /\ ~Fresh(p.agent, p.seq)
  /\ Return(p, "REJECT_REPLAY")
  /\ UNCHANGED <<gates, offered>>

\* The number is committed to the replay window before the later gates decide.
Judge(p, token) ==
  /\ Authentic(p)
  /\ Fresh(p.agent, p.seq)
  /\ Remember(p.agent, p.seq)
  /\ offered' = offered \cup {p}
  /\ Return(p, Verdict(p, token))
  /\ metrics' = IF Verdict(p, token) = "PASS"
                THEN Append(metrics, [agent |-> token.agent, seq |-> p.seq])
                ELSE metrics

\* TaskStream looks the session up and does not call the guardrail without one.
ValidateInbound(p, token) ==
  /\ session[p.agent] # None
  /\ p.epoch <= epochs[p.agent]
  /\ p.seq \in NumbersOf[p.agent]
  /\ Len(metrics) < MaxMetrics
  /\ \/ RejectForged(p)
     \/ RejectReplay(p)
     \/ Judge(p, token)
  /\ UNCHANGED <<session, epochs, issued, clock, joined>>

DrainMetrics ==
  /\ metrics # <<>>
  /\ metrics' = <<>>
  /\ result'  = None
  /\ UNCHANGED <<session, epochs, issued, seen, high, clock, offered, joined>>

Tick ==
  /\ clock < MaxTime
  /\ clock'  = clock + 1
  /\ result' = None
  /\ UNCHANGED <<session, epochs, issued, gates, offered, joined>>

Next ==
  \/ \E a \in Agents, granted \in BOOLEAN : Register(a, granted)
  \/ \E a \in Agents : RevokeSession(a)
  \/ \E p \in Packets, token \in Presentable : ValidateInbound(p, token)
  \/ DrainMetrics
  \/ Tick

Spec == Init /\ [][Next]_vars

-----------------------------------------------------------------------------
(* Properties *)

\* Every variable keeps its type.
TypeOK ==
  /\ session \in [Agents -> Epochs \cup {None}]
  /\ epochs \in [Agents -> Nat]
  /\ issued \subseteq Tokens
  /\ seen \in [Agents -> SUBSET SeqNumbers]
  /\ high \in [Agents -> Nat]
  /\ metrics \in Seq([agent : Agents, seq : SeqNumbers])
  /\ clock \in Nat
  /\ result \in Results \cup {None}
  /\ offered \subseteq Packets
  /\ joined \in [Agents -> Nat]

NumbersOffered(a) == {p.seq : p \in {q \in offered : q.agent = a}}

\* However packets are delayed, repeated and reordered, and however often the
\* agent reconnects, pruning in _check_replay never forgets a number closer
\* than KeepBehind to the high water mark, invents none, and the mark is above
\* all of them.
WindowRemembersRecent ==
  \A a \in Agents :
    /\ seen[a] \subseteq NumbersOffered(a)
    /\ \A n \in NumbersOffered(a) :
         n <= high[a] /\ (n \in seen[a] \/ n <= high[a] - KeepBehind)

Promise == INSTANCE ReplayPromise WITH
  Sessions <- Agents,
  Numbers  <- SeqNumbers,
  Near     <- KeepBehind,
  Far      <- MaxWindowDrift,
  None     <- None,
  taken    <- [a \in Agents |-> NumbersOffered(a)],
  newest   <- high,
  verdict  <- IF result = None THEN None
              ELSE IF result.outcome = "REJECT_HMAC_MISMATCH" THEN None
              ELSE [session |-> result.packet.agent, seq |-> result.packet.seq,
                    fresh |-> result.outcome # "REJECT_REPLAY"]

\* The replay gate, with its pruned sets and its high water mark, implements the
\* promise the code can keep, which is less than README.md:124 says: a number
\* near the newest is let through once, one that was pruned may be let through
\* again (DuplicatesAreRefused), and none is refused that was not offered before
\* or is hopelessly late.
KeepsPromise == Promise!Spec

\* Whatever token a packet comes with, its own agent's or another's, of this
\* registration or an earlier one: a packet passes only in its agent's latest
\* session, and is credited to an agent that has registered within TTL.
CreditedWithinTTL ==
  [][result' # None /\ result'.outcome = "PASS"
       => /\ result'.packet.epoch = epochs[result'.packet.agent]
          /\ \E a \in Agents :
               /\ metrics' = Append(metrics, [agent |-> a, seq |-> result'.packet.seq])
               /\ epochs[a] # 0
               /\ clock <= joined[a] + TTL]_vars

\* README.md:124 "REJECT: Duplicate or stale sequence number": a packet that the
\* replay gate has let through once is not let through again.
DuplicatesAreRefused ==
  [][result' # None /\ result'.outcome \notin {"REJECT_HMAC_MISMATCH", "REJECT_REPLAY"}
       => result'.packet \notin offered]_vars

\* README.md:124 rejects a "Duplicate or stale sequence number" here, and :152
\* calls the numbers per-session: a packet is rejected as a replay only if that
\* packet was offered before or its number has left the window.
ReplayMeansRepeat ==
  [][result' # None /\ result'.outcome = "REJECT_REPLAY"
       => \/ result'.packet \in offered
          \/ TooLate(result'.packet.agent, result'.packet.seq)]_vars
=============================================================================
