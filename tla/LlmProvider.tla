---------------------------- MODULE LlmProvider ----------------------------
(***************************************************************************)
(* llm/backend.py: one request tries the configured backend and then the   *)
(* others, each an await that answers or fails.  Its clients are the       *)
(* generator of incident reports and the task translator.                  *)
(***************************************************************************)
EXTENDS Naturals, Sequences, SequencesExt

CONSTANTS
  Requests,     \* calls of generate
  Primary,      \* provider_name
  Registered    \* names of the registered backends

VARIABLES
  left,    \* the backends each request has still to try; the first is being asked
  asked,   \* history: the backends each request has asked
  gaveUp   \* history: requests that ended in "All LLM backends failed"

providerVars == <<left, asked, gaveUp>>

ProviderInit ==
  /\ left = [r \in Requests |-> <<>>]
  /\ asked = [r \in Requests |-> <<>>]
  /\ gaveUp = {}

FallbackChain == <<"claude", "gpt4o", "ollama">>

\* A name that nothing is registered under is passed over.
Backend(b) == IF b \in Registered THEN <<b>> ELSE <<>>
Turn(i, skipped) ==
  IF FallbackChain[i] \in skipped THEN <<>> ELSE Backend(FallbackChain[i])
Fallbacks(skipped) == Turn(1, skipped) \o Turn(2, skipped) \o Turn(3, skipped)

Order == Backend(Primary) \o Fallbacks({Primary})

\* orchestrator/main.py registers the backends before it hands the provider out.
ASSUME SomeBackend == Order # <<>>

FirstOf(s) == IF s = <<>> THEN <<>> ELSE <<Head(s)>>

\* The request asks the next of these backends, if there is one.
Ask(r, backends) ==
  /\ left' = [left EXCEPT ![r] = backends]
  /\ asked' = [asked EXCEPT ![r] = @ \o FirstOf(backends)]

\* generate
StartRequest(r) ==
  /\ Ask(r, Order)
  /\ UNCHANGED gaveUp

\* A backend raised, by its timeout for instance: these are still to be tried.
Falls(r, backends) ==
  /\ Ask(r, backends)
  /\ gaveUp' = IF backends = <<>> THEN gaveUp \cup {r} ELSE gaveUp

\* mutant: one fallback is enough
NextBackendOnce(r) == Falls(r, IF Len(asked[r]) = 2 THEN <<>> ELSE Tail(left[r]))

NextBackend(r) == Falls(r, Tail(left[r]))

\* The answer ends the request, or the cancellation of its task.
EndRequest(r) ==
  /\ left' = [left EXCEPT ![r] = <<>>]
  /\ UNCHANGED <<asked, gaveUp>>

\* A call of ollama under way: its client is built without a timeout, so nothing
\* ends it when the server does not.  The others pass theirs on.
Hangs(r) == left[r] # <<>> /\ Head(left[r]) = "ollama"

-----------------------------------------------------------------------------
(* Properties *)

\* Requests have lists of registered backends to try and tried.
ProviderTypeOK ==
  /\ left \in [Requests -> Seq(Registered)]
  /\ asked \in [Requests -> Seq(Registered)]
  /\ gaveUp \subseteq Requests

\* backend.py:47 "Fallback order: claude", gpt4o, ollama: who is asked before whom.
Before == {<<"claude", "gpt4o">>, <<"claude", "ollama">>, <<"gpt4o", "ollama">>}

\* A request asks the configured backend first and none twice; it falls back in
\* the documented order, without leaving a registered backend out; and it gives up
\* only when it has asked all of them.
AsksInOrder ==
  \A r \in Requests :
    /\ \A i, j \in DOMAIN asked[r] : asked[r][i] = asked[r][j] => i = j
    /\ asked[r] # <<>> /\ Primary \in Registered => Head(asked[r]) = Primary
    /\ \A i, j \in DOMAIN asked[r] :
         i < j /\ asked[r][i] # Primary => <<asked[r][i], asked[r][j]>> \in Before
    /\ \A b \in ToSet(asked[r]) \ {Primary}, c \in Registered :
         <<c, b>> \in Before => c \in ToSet(asked[r])
    /\ r \in gaveUp =>
         Registered \cap {Primary, "claude", "gpt4o", "ollama"} \subseteq ToSet(asked[r])
=============================================================================
