----------------------------- MODULE Handshake -----------------------------
(***************************************************************************)
(* Registration as key exchange: connect of agent_sdk/client.py, the       *)
(* Register handler of orchestrator/server.py, and the two init_for_*      *)
(* constructors of agent_sdk/crypto.py between them.                       *)
(*                                                                         *)
(* Private keys and nonces are numbers never used before; a public key is  *)
(* written as the number of its private key.  Calls may be lost, answered  *)
(* after the client's 30 seconds, and repeated.  The pool is in Mesh.      *)
(***************************************************************************)
EXTENDS Naturals

CONSTANTS
  Agents,       \* agent ids
  MaxFresh,     \* bound of a run: keys and nonces generated
  None          \* no session, no call

VARIABLES
  fresh,     \* how many keys and nonces have been generated
  offered,   \* the public key in the agent's Register call, None between calls
  answer,    \* the handler's response on its way back
  crypto,    \* the agent's CryptoSession
  session    \* token_issuer._session_keys: the orchestrator's CryptoSession

vars == <<fresh, offered, answer, crypto, session>>

Init ==
  /\ fresh   = 0
  /\ offered = [a \in Agents |-> None]
  /\ answer  = [a \in Agents |-> None]
  /\ crypto  = [a \in Agents |-> None]
  /\ session = [a \in Agents |-> None]

\* derive_session_key: X25519 gives the same secret to the two owners of a pair
\* of keys; HKDF keeps secrets and salts apart.
DeriveSessionKey(own, peer, salt) == [secret |-> {own, peer}, salt |-> salt]

\* init_for_agent and init_for_orchestrator: a new key pair, a new nonce.
NewSession(own, peer, nonce) ==
  [own |-> own, peer |-> peer, nonce |-> nonce,
   session_key |-> DeriveSessionKey(own, peer, nonce)]

Generate(n) ==
  /\ fresh + n <= MaxFresh
  /\ fresh' = fresh + n

\* connect: _generate_ephemeral_keypair, and the Register call.
Connect(a) ==
  /\ offered[a] = None
  /\ Generate(1)
  /\ offered' = [offered EXCEPT ![a] = fresh + 1]
  /\ answer'  = [answer EXCEPT ![a] = None]
  /\ UNCHANGED <<crypto, session>>

\* The Register handler.
Register(a) ==
  LET made == NewSession(fresh + 1, offered[a], fresh + 2) IN
  /\ offered[a] # None
  /\ answer[a] = None
  /\ Generate(2)
  /\ session' = [session EXCEPT ![a] = made]
  /\ answer'  = [answer EXCEPT ![a] = [public |-> made.own, nonce |-> made.nonce]]
  /\ UNCHANGED <<offered, crypto>>

\* connect, on the response: the nonce is set after the key has been derived.
Connected(a) ==
  /\ answer[a] # None
  /\ Generate(2)
  /\ crypto'  = [crypto EXCEPT ![a] =
                   [NewSession(fresh + 1, answer[a].public, fresh + 2)
                      EXCEPT !.nonce = answer[a].nonce]]
  /\ offered' = [offered EXCEPT ![a] = None]
  /\ answer'  = [answer EXCEPT ![a] = None]
  /\ UNCHANGED session

\* The call fails or takes more than 30 seconds: connect returns False.
ConnectFails(a) ==
  /\ offered[a] # None
  /\ offered' = [offered EXCEPT ![a] = None]
  /\ UNCHANGED <<fresh, answer, crypto, session>>

Next == \E a \in Agents : Connect(a) \/ Register(a) \/ Connected(a) \/ ConnectFails(a)

Spec == Init /\ [][Next]_vars

-----------------------------------------------------------------------------
(* Properties *)

\* README.md:105 "X25519 ECDH | Establish shared session secret over insecure
\* channel": when connect has returned with an answer to the registration the
\* orchestrator holds, both ends have the same session key.
SessionKeysAgree ==
  \A a \in Agents :
    /\ crypto[a] # None /\ session[a] # None
    /\ crypto[a].peer = session[a].own
    => crypto[a].session_key = session[a].session_key
=============================================================================
