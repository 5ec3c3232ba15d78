------------------------- MODULE OrchestratorProofs -------------------------
(***************************************************************************)
(* What the WebSocket server guarantees for every number of connections    *)
(* and agents: typing, that an entry of the table is ready for tasks, and  *)
(* that an agent with one connection stays reachable.  Then the daemon     *)
(* with everything it starts: what holds of the connections holds across   *)
(* its ends and restarts, the audit trail outlives every call, and the key *)
(* pair of an issuer fits unless two processes made keys at once.  Last,   *)
(* the audit trail by itself: one that starts empty stays empty.           *)
(***************************************************************************)
EXTENDS Orchestrator, TLAPS

-----------------------------------------------------------------------------
(* The WebSocket server by itself                                           *)

\* An id that is registered is one of Ids, and so is the one made up without.
LEMMA IdTypes ==
  ASSUME TypeOK, NEW c \in Connections
  PROVE  IdOf(c) \in Ids
BY DEF TypeOK, IdOf, Ids

LEMMA InitTypes == Init => TypeOK
<1>1. 0 \in 0..MaxFrames
  BY WebsocketParameters
<1>2. "new" \in Points
  BY DEF Points
<1> QED
  BY <1>1, <1>2 DEF Init, TypeOK

LEMMA NextTypes ==
  ASSUME TypeOK, [Next]_vars
  PROVE  TypeOK'
<1> USE DEF TypeOK, Points, Goes
<1>1. ASSUME NEW c \in Connections, Accept(c) PROVE TypeOK'
  BY <1>1 DEF Accept
<1>2. ASSUME NEW c \in Connections, BadRegistration(c) PROVE TypeOK'
  BY <1>2 DEF BadRegistration
<1>3. ASSUME NEW c \in Connections, Respond(c) PROVE TypeOK'
  BY <1>3 DEF Respond
<1>4. ASSUME NEW c \in Connections, EnterTable(c) PROVE TypeOK'
  BY <1>4, IdTypes DEF EnterTable
<1>5. ASSUME NEW c \in Connections, GiveUp(c) PROVE TypeOK'
  BY <1>5 DEF GiveUp
<1>6. ASSUME NEW c \in Connections, Leave(c) PROVE TypeOK'
  BY <1>6, IdTypes DEF Leave
<1>7. ASSUME NEW c \in Connections, Close(c) PROVE TypeOK'
  BY <1>7 DEF Close
<1>8. ASSUME NEW c \in Connections, NEW i \in Agents \cup {NoId}, Register(c, i) PROVE TypeOK'
  BY <1>8 DEF Register, Ids
<1>9. ASSUME NEW i \in Ids, Dispatch(i) PROVE TypeOK'
  <2>1. handlers[i] \in Connections /\ counter[handlers[i]] + 1 \in 0..MaxFrames
    BY <1>9, WebsocketParameters DEF Dispatch
  <2> QED
    BY <1>9, <2>1 DEF Dispatch
<1>10. CASE Stop
  BY <1>10 DEF Stop
<1>11. CASE UNCHANGED vars
  BY <1>11 DEF vars
<1> QED
  BY <1>1, <1>2, <1>3, <1>4, <1>5, <1>6, <1>7, <1>8, <1>9, <1>10, <1>11 DEF Next, HandleFrame

\* Every variable keeps its type.
THEOREM Typing == Spec => []TypeOK
BY InitTypes, NextTypes, PTL DEF Spec

-----------------------------------------------------------------------------
(* Entries and reachability *)

\* A connection that has answered its registration has keys under its id.
KeysFirst ==
  \A c \in Connections : at[c] \in {"send", "register", "run"} => session[IdOf(c)] # None

\* A connection is served from its entry on, and its registration stays.
ServedIsKnown ==
  \A c \in Connections : /\ at[c] = "run" => c \in served
                         /\ c \in served => at[c] \in {"run", "over"}

Alone(c) == \A d \in served : IdOf(d) = IdOf(c) => d = c

Inv == TypeOK /\ KeysFirst /\ ServedIsKnown /\ TableEntriesAreReady /\ AloneMeansReachable

\* What the table must satisfy, one connection at a time.
LEMMA EntriesByConnection ==
  ASSUME TypeOK',
         \A k \in Ids, d \in Connections : handlers'[k] = d =>
            /\ at'[d] = "run" /\ IdOf(d)' = k
            /\ session'[k] # None /\ asked'[d] \in pool'
  PROVE  TableEntriesAreReady'
<1>1. \A k \in Ids : handlers'[k] # None => handlers'[k] \in Connections
  BY DEF TypeOK
<1> QED
  BY <1>1 DEF TableEntriesAreReady, IdOf

\* Steps that leave the table, the registrations and the pool alone, and move no
\* connection into or out of its run.
Quiet(c) ==
  /\ UNCHANGED <<asked, session, pool, handlers, served>>
  /\ \/ at' = at
     \/ \E to \in {"recv", "register", "over"} :
          /\ at[c] \notin {"run"}
          /\ to = "register" => at[c] = "send"
          /\ at' = [at EXCEPT ![c] = to]

LEMMA QuietKeeps ==
  ASSUME Inv, TypeOK', NEW c \in Connections, Quiet(c), c \notin served \/ at' = at
  PROVE  Inv'
<1> USE DEF Inv
<1>1. \A d \in Connections : IdOf(d)' = IdOf(d)
  BY DEF Quiet, IdOf
<1>2. \A d \in Connections : at'[d] = "run" <=> at[d] = "run"
  BY DEF Quiet, TypeOK
<1>3. KeysFirst'
  BY <1>1, <1>2 DEF Quiet, KeysFirst, TypeOK
<1>4. ServedIsKnown'
  BY <1>2 DEF Quiet, ServedIsKnown, TypeOK
<1>5. TableEntriesAreReady'
  BY <1>1, <1>2 DEF Quiet, TableEntriesAreReady, TypeOK
<1>6. AloneMeansReachable'
  <2>1. served' = served /\ served \subseteq Connections /\ handlers' = handlers
    BY DEF Quiet, TypeOK
  <2> QED
    BY <1>1, <1>2, <2>1 DEF AloneMeansReachable
<1> QED
  BY <1>3, <1>4, <1>5, <1>6

LEMMA RegisterKeeps ==
  ASSUME Inv, TypeOK', NEW c \in Connections, NEW i \in Agents \cup {NoId}, Register(c, i)
  PROVE  Inv'
<1> USE DEF Inv
<1>1. /\ at[c] = "recv" /\ at' = [at EXCEPT ![c] = "send"]
      /\ asked' = [asked EXCEPT ![c] = i]
      /\ UNCHANGED <<pool, handlers, served>>
  BY DEF Register, Goes
<1>2. \A d \in Connections : d # c => IdOf(d)' = IdOf(d) /\ at'[d] = at[d]
  BY <1>1 DEF IdOf, TypeOK
<1>3. c \notin served /\ at'[c] = "send"
  BY <1>1 DEF ServedIsKnown, TypeOK
<1>4. /\ session' = [session EXCEPT ![IF i = NoId THEN c ELSE i] = c]
      /\ IdOf(c)' = IF i = NoId THEN c ELSE i
  BY <1>1 DEF Register, IdOf, TypeOK
<1>5. c # None /\ IdOf(c)' \in Ids
  BY <1>4, WebsocketParameters DEF Ids
<1>6. /\ session'[IdOf(c)'] = c
      /\ \A k \in Ids : session[k] # None => session'[k] # None
  BY <1>4, <1>5 DEF TypeOK
<1>7. KeysFirst'
  <2>1. ASSUME NEW d \in Connections, at'[d] \in {"send", "register", "run"}
        PROVE  session'[IdOf(d)'] # None
    <3>1. CASE d = c
      BY <1>5, <1>6, <3>1
    <3>2. CASE d # c
      BY <1>2, <1>6, <2>1, <3>2, IdTypes DEF KeysFirst
    <3> QED
      BY <3>1, <3>2
  <2> QED
    BY <2>1 DEF KeysFirst
<1>8. ServedIsKnown'
  BY <1>1, <1>2, <1>3 DEF ServedIsKnown, TypeOK
<1>9. TableEntriesAreReady'
  <2>1. ASSUME NEW k \in Ids, NEW d \in Connections, handlers'[k] = d
        PROVE  /\ at'[d] = "run" /\ IdOf(d)' = k
               /\ session'[k] # None /\ asked'[d] \in pool'
    <3>1. /\ at[d] = "run" /\ IdOf(d) = k /\ session[k] # None /\ asked[d] \in pool
      BY <1>1, <2>1, WebsocketParameters DEF TableEntriesAreReady
    <3>2. d # c
      BY <1>1, <3>1
    <3>3. asked'[d] = asked[d]
      BY <1>1, <3>2 DEF TypeOK
    <3> QED
      BY <1>1, <1>2, <1>6, <3>1, <3>2, <3>3
  <2> QED
    BY <2>1, EntriesByConnection
<1>10. AloneMeansReachable'
  <2>1. ASSUME NEW d \in Connections, at'[d] = "run",
               \A e \in served : IdOf(e)' = IdOf(d)' => e = d
        PROVE  handlers'[IdOf(d)'] = d
    <3>1. d # c
      BY <1>3, <2>1
    <3>2. at[d] = "run" /\ IdOf(d)' = IdOf(d)
      BY <1>2, <2>1, <3>1
    <3>3. \A e \in served : IdOf(e)' = IdOf(e)
      BY <1>2, <1>3 DEF TypeOK
    <3> QED
      BY <1>1, <2>1, <3>2, <3>3 DEF AloneMeansReachable
  <2> QED
    BY <1>1, <2>1 DEF AloneMeansReachable
<1> QED
  BY <1>7, <1>8, <1>9, <1>10

LEMMA EnterKeeps ==
  ASSUME Inv, TypeOK', NEW c \in Connections, EnterTable(c)
  PROVE  Inv'
<1> USE DEF Inv
<1>1. /\ at[c] = "register" /\ at' = [at EXCEPT ![c] = "run"]
      /\ pool' = pool \cup {asked[c]}
      /\ handlers' = [handlers EXCEPT ![IdOf(c)] = c]
      /\ served' = served \cup {c}
      /\ UNCHANGED <<asked, session>>
  BY DEF EnterTable, Goes
<1>2. /\ \A d \in Connections : IdOf(d)' = IdOf(d)
      /\ \A d \in Connections : d # c => at'[d] = at[d]
      /\ at'[c] = "run" /\ IdOf(c) \in Ids
  BY <1>1, IdTypes DEF IdOf, TypeOK
<1>3. KeysFirst'
  BY <1>1, <1>2 DEF KeysFirst
<1>4. ServedIsKnown'
  BY <1>1, <1>2 DEF ServedIsKnown
<1>5. TableEntriesAreReady'
  <2>1. ASSUME NEW k \in Ids, NEW d \in Connections, handlers'[k] = d
        PROVE  /\ at'[d] = "run" /\ IdOf(d)' = k
               /\ session'[k] # None /\ asked'[d] \in pool'
    <3>1. CASE k = IdOf(c)
      <4>1. d = c
        BY <1>1, <1>2, <2>1, <3>1 DEF TypeOK
      <4>2. session[k] # None
        BY <1>1, <3>1 DEF KeysFirst
      <4> QED
        BY <1>1, <1>2, <3>1, <4>1, <4>2
    <3>2. CASE k # IdOf(c)
      <4>1. handlers[k] = d
        BY <1>1, <2>1, <3>2 DEF TypeOK
      <4>2. at[d] = "run" /\ IdOf(d) = k /\ session[k] # None /\ asked[d] \in pool
        BY <4>1, WebsocketParameters DEF TableEntriesAreReady
      <4>3. d # c
        BY <3>2, <4>2
      <4> QED
        BY <1>1, <1>2, <4>2, <4>3
    <3> QED
      BY <3>1, <3>2
  <2> QED
    BY <2>1, EntriesByConnection
<1>6. AloneMeansReachable'
  <2>1. ASSUME NEW d \in Connections, at'[d] = "run",
               \A e \in served' : IdOf(e)' = IdOf(d)' => e = d
        PROVE  handlers'[IdOf(d)'] = d
    <3>1. CASE d = c
      BY <1>1, <1>2, <3>1 DEF TypeOK
    <3>2. CASE d # c
      <4>1. IdOf(c) # IdOf(d)
        BY <1>1, <1>2, <2>1, <3>2
      <4>2. handlers[IdOf(d)] = d
        BY <1>1, <1>2, <2>1, <3>2 DEF AloneMeansReachable, TypeOK
      <4> QED
        BY <1>1, <1>2, <4>1, <4>2, IdTypes DEF TypeOK
    <3> QED
      BY <3>1, <3>2
  <2> QED
    BY <2>1 DEF AloneMeansReachable
<1> QED
  BY <1>3, <1>4, <1>5, <1>6

LEMMA LeaveKeeps ==
  ASSUME Inv, TypeOK', NEW c \in Connections, Leave(c)
  PROVE  Inv'
<1> USE DEF Inv
<1>1. /\ at[c] = "run" /\ at' = [at EXCEPT ![c] = "over"]
      /\ handlers' = [handlers EXCEPT ![IdOf(c)] = None]
      /\ UNCHANGED <<asked, session, pool, served>>
  BY DEF Leave, Goes
<1>2. /\ \A d \in Connections : IdOf(d)' = IdOf(d)
      /\ \A d \in Connections : d # c => at'[d] = at[d]
      /\ at'[c] = "over" /\ IdOf(c) \in Ids
  BY <1>1, IdTypes DEF IdOf, TypeOK
<1>3. KeysFirst'
  BY <1>1, <1>2 DEF KeysFirst
<1>4. ServedIsKnown'
  BY <1>1, <1>2 DEF ServedIsKnown
<1>5. TableEntriesAreReady'
  <2>1. ASSUME NEW k \in Ids, NEW d \in Connections, handlers'[k] = d
        PROVE  /\ at'[d] = "run" /\ IdOf(d)' = k
               /\ session'[k] # None /\ asked'[d] \in pool'
    <3>1. k # IdOf(c) /\ handlers[k] = d
      BY <1>1, <1>2, <2>1, WebsocketParameters DEF TypeOK
    <3>2. at[d] = "run" /\ IdOf(d) = k /\ session[k] # None /\ asked[d] \in pool
      BY <3>1, WebsocketParameters DEF TableEntriesAreReady
    <3>3. d # c
      BY <3>1, <3>2
    <3> QED
      BY <1>1, <1>2, <3>2, <3>3
  <2> QED
    BY <2>1, EntriesByConnection
<1>6. AloneMeansReachable'
  <2>1. ASSUME NEW d \in Connections, at'[d] = "run",
               \A e \in served : IdOf(e)' = IdOf(d)' => e = d
        PROVE  handlers'[IdOf(d)'] = d
    <3>1. d # c /\ at[d] = "run"
      BY <1>2, <2>1
    <3>2. c \in served
      BY <1>1 DEF ServedIsKnown
    <3>3. IdOf(c) # IdOf(d)
      BY <1>2, <2>1, <3>1, <3>2
    <3>4. handlers[IdOf(d)] = d
      BY <1>2, <2>1, <3>1 DEF AloneMeansReachable, TypeOK
    <3> QED
      BY <1>1, <1>2, <3>3, <3>4, IdTypes DEF TypeOK
  <2> QED
    BY <1>1, <2>1 DEF AloneMeansReachable
<1> QED
  BY <1>3, <1>4, <1>5, <1>6

LEMMA NextInv ==
  ASSUME Inv, [Next]_vars
  PROVE  Inv'
<1>1. TypeOK /\ TypeOK'
  BY NextTypes DEF Inv
<1>2. ASSUME NEW c \in Connections,
             Accept(c) \/ BadRegistration(c) \/ Respond(c) \/ GiveUp(c)
      PROVE  Inv'
  <2>1. Quiet(c)
    BY <1>2 DEF Accept, BadRegistration, Respond, GiveUp, Goes, Quiet
  <2>2. c \notin served
    BY <1>2 DEF Accept, BadRegistration, Respond, GiveUp, Goes, Inv, ServedIsKnown
  <2> QED
    BY <1>1, <2>1, <2>2, QuietKeeps
<1>3. ASSUME NEW c \in Connections, Close(c)
      PROVE  Inv'
  BY <1>1, <1>3, QuietKeeps DEF Close, Quiet
<1>4. ASSUME UNCHANGED <<at, asked, session, pool, handlers, served>>
      PROVE  Inv'
  BY <1>1, <1>4
     DEF Inv, KeysFirst, ServedIsKnown, TableEntriesAreReady, AloneMeansReachable, IdOf
<1>5. ASSUME NEW i \in Ids, Dispatch(i)
      PROVE  Inv'
  BY <1>4, <1>5 DEF Dispatch
<1>6. CASE Stop
  BY <1>4, <1>6 DEF Stop
<1>7. CASE UNCHANGED vars
  BY <1>4, <1>7 DEF vars
<1> QED
  BY <1>1, <1>2, <1>3, <1>5, <1>6, <1>7, RegisterKeeps, EnterKeeps, LeaveKeeps
     DEF Next, HandleFrame

LEMMA SpecInv == Spec => []Inv
<1>1. Init => Inv
  BY InitTypes DEF Init, Inv, KeysFirst, ServedIsKnown, TableEntriesAreReady, AloneMeansReachable
<1> QED
  BY <1>1, NextInv, PTL DEF Spec

\* A handler in the table belongs to a connection that is being served under that
\* id, with keys and with the record its registration asked for.
THEOREM EntriesAreReady == Spec => []TableEntriesAreReady
<1>1. Inv => TableEntriesAreReady
  BY DEF Inv
<1> QED
  BY <1>1, SpecInv, PTL

\* An agent of which no second connection has been served stays in the table.
THEOREM OneConnectionIsReachable == Spec => []AloneMeansReachable
<1>1. Inv => AloneMeansReachable
  BY DEF Inv
<1> QED
  BY <1>1, SpecInv, PTL

-----------------------------------------------------------------------------
(* The WebSocket server within the daemon                                   *)

LEMMA EndsKeepInv == ASSUME WebsocketEnds PROVE Inv'
<1>1. 0 \in 0..MaxFrames
  BY WebsocketParameters
<1>2. TypeOK'
  BY <1>1 DEF WebsocketEnds, TypeOK, Points
<1>3. \A c \in Connections : at'[c] \in {"new", "over"}
  BY DEF WebsocketEnds
<1>4. \A i \in Ids : handlers'[i] = None
  BY DEF WebsocketEnds
<1>5. served' = {}
  BY DEF WebsocketEnds
<1>6. KeysFirst' /\ ServedIsKnown' /\ AloneMeansReachable'
  BY <1>3, <1>5 DEF KeysFirst, ServedIsKnown, AloneMeansReachable
<1>7. TableEntriesAreReady'
  BY <1>4 DEF TableEntriesAreReady
<1> QED
  BY <1>2, <1>6, <1>7 DEF Inv

\* A step of the daemon is one of its server, or ends it.
LEMMA ServerSteps ==
  ASSUME [OrchestratorNext]_all
  PROVE  [Next]_vars \/ WebsocketEnds
<1>1. ASSUME Start \/ IssuerStep \/ Assemble \/ OpenAudit \/ StartGrpc \/ StartWebsocket
             \/ StartUpdate \/ Signal \/ StopUpdate \/ WebsocketStopped \/ StopGrpc
             \/ CloseAudit \/ GenKeys
      PROVE  UNCHANGED vars
  BY <1>1 DEF Start, IssuerStep, Assemble, OpenAudit, StartGrpc, StartWebsocket, StartUpdate,
     Signal, StopUpdate, WebsocketStopped, StopGrpc, CloseAudit, GenKeys
<1>2. ASSUME Dies \/ StopUpdateFails
      PROVE  WebsocketEnds
  BY <1>2 DEF Dies, StopUpdateFails, DaemonEnds
<1>3. ASSUME NEW k \in Calls, CallBegins(k) \/ TakesLock(k) \/ CallEnds(k)
      PROVE  UNCHANGED vars
  BY <1>3 DEF CallBegins, TakesLock, CallEnds
<1>4. ASSUME NEW c \in Connections, Enters(c) \/ Served(c) \/ Connection(c)
      PROVE  Next
  BY <1>4 DEF Enters, Served, Connection, Next
<1>5. ASSUME NEW i \in Ids, Dispatches(i)
      PROVE  Next
  BY <1>5 DEF Dispatches, Next
<1>6. ASSUME StopWebsocket
      PROVE  Next
  BY <1>6 DEF StopWebsocket, Next
<1>7. CASE UNCHANGED all
  BY <1>7 DEF all
<1> QED
  BY <1>1, <1>2, <1>3, <1>4, <1>5, <1>6, <1>7 DEF OrchestratorNext

LEMMA DaemonInv == OrchestratorSpec => []Inv
<1>1. OrchestratorInit => Inv
  BY InitTypes DEF OrchestratorInit, Init, Inv, KeysFirst, ServedIsKnown,
     TableEntriesAreReady, AloneMeansReachable
<1>2. Inv /\ [OrchestratorNext]_all => Inv'
  BY ServerSteps, NextInv, EndsKeepInv
<1> QED
  BY <1>1, <1>2, PTL DEF OrchestratorSpec

\* In the daemon, too, an entry of the table is ready for tasks, whatever waits
\* for the pool's lock and however often the daemon is started.
THEOREM DaemonEntriesAreReady == OrchestratorSpec => []TableEntriesAreReady
<1>1. Inv => TableEntriesAreReady
  BY DEF Inv
<1> QED
  BY <1>1, DaemonInv, PTL

\* In the daemon, too, an agent with a single connection stays reachable.
THEOREM DaemonAgentIsReachable == OrchestratorSpec => []AloneMeansReachable
<1>1. Inv => AloneMeansReachable
  BY DEF Inv
<1> QED
  BY <1>1, DaemonInv, PTL

-----------------------------------------------------------------------------
(* Calls and the audit trail                                                *)

Recording == {"grpc"} \cup Serving \cup {"stop grpc", "close audit"}

AuditInv ==
  /\ phase \in Recording => audit = "open"
  /\ calls # {} => phase \in Serving \cup {"stop grpc"}

LEMMA AuditStep ==
  ASSUME AuditInv, [OrchestratorNext]_all
  PROVE  AuditInv'
<1> USE DEF AuditInv, Recording, Serving, Proceeds
<1>1. CASE Start
  BY <1>1 DEF Start
<1>2. CASE IssuerStep \/ GenKeys \/ StopWebsocket
  BY <1>2 DEF IssuerStep, GenKeys, StopWebsocket, services
<1>3. CASE Assemble
  BY <1>3 DEF Assemble
<1>4. CASE OpenAudit
  BY <1>4 DEF OpenAudit
<1>5. CASE StartGrpc \/ StartWebsocket
  BY <1>5 DEF StartGrpc, StartWebsocket
<1>6. CASE StartUpdate
  BY <1>6 DEF StartUpdate
<1>7. CASE Signal \/ StopUpdate \/ WebsocketStopped
  BY <1>7 DEF Signal, StopUpdate, WebsocketStopped
<1>8. CASE StopUpdateFails \/ Dies
  BY <1>8 DEF StopUpdateFails, Dies, DaemonEnds
<1>9. CASE StopGrpc
  BY <1>9 DEF StopGrpc
<1>10. CASE CloseAudit
  BY <1>10 DEF CloseAudit
<1>11. ASSUME NEW k \in Calls, CallBegins(k) \/ TakesLock(k) \/ CallEnds(k)
       PROVE  AuditInv'
  BY <1>11 DEF CallBegins, TakesLock, CallEnds
<1>12. ASSUME NEW c \in Connections, Enters(c) \/ Served(c) \/ Connection(c)
       PROVE  AuditInv'
  BY <1>12 DEF Enters, Served, Connection, services
<1>13. ASSUME NEW i \in Ids, Dispatches(i)
       PROVE  AuditInv'
  BY <1>13 DEF Dispatches, services
<1>14. CASE UNCHANGED all
  BY <1>14 DEF all, services
<1> QED
  BY <1>1, <1>2, <1>3, <1>4, <1>5, <1>6, <1>7, <1>8, <1>9, <1>10, <1>11, <1>12, <1>13, <1>14
     DEF OrchestratorNext

\* Every handler of the gRPC server finds the audit trail open for as long as it
\* runs: it is opened before the first call can come and closed after the last
\* one has been cut off.
THEOREM AuditIsOutlived == OrchestratorSpec => []AuditOutlivesCalls
<1>1. OrchestratorInit => AuditInv
  BY DEF OrchestratorInit, AuditInv, Recording, Serving
<1>2. AuditInv => AuditOutlivesCalls
  BY DEF AuditInv, AuditOutlivesCalls, Recording
<1> QED
  BY <1>1, <1>2, AuditStep, PTL DEF OrchestratorSpec

-----------------------------------------------------------------------------
(* The key files                                                            *)

Issuers == {Daemon, KeyMaker}

KeyTypes ==
  /\ file \in [Keys!Files -> Nat \cup {Absent, Empty}]
  /\ held \in [Issuers -> [Keys!Files -> Nat \cup {Absent}]]
  /\ turn \in [Issuers -> Keys!Files \cup {"none", "ready", "failed"}]
  /\ making \in [Issuers -> {"no", "make", "write"}]
  /\ pairs \in Nat
  /\ raced \in BOOLEAN
  /\ cut \in BOOLEAN

\* A file that was opened is still being written, or was left empty.
OnDisk ==
  /\ file["public"] # Absent => file["private"] \in Nat
  /\ file["public"] \in Nat => file["public"] = file["private"]
  /\ \A f \in Keys!Files :
       file[f] = Empty => \/ cut
                          \/ \E p \in Issuers : making[p] = "write" /\ turn[p] = f

\* What an issuer that works alone knows of the files.
InHand(p) ==
  /\ making[p] # "no" => turn[p] \in Keys!Files
  /\ making[p] = "make" => file[turn[p]] = Absent
  /\ making[p] = "write" => file[turn[p]] = Empty /\ held[p][turn[p]] \in Nat
  /\ making[p] = "write" /\ turn[p] = "public" => held[p]["public"] = held[p]["private"]
  /\ turn[p] \in {"public", "ready"} =>
       held[p]["private"] \in Nat /\ held[p]["private"] = file["private"]
  /\ turn[p] = "ready" => held[p]["public"] = held[p]["private"]
  /\ turn[p] = "failed" => cut

KeyInv ==
  /\ KeyTypes
  /\ Keys!Racing => raced
  /\ raced \/ (OnDisk /\ \A p \in Issuers : InHand(p))

\* Two issuers of which neither races with the other.
LEMMA Alone2 ==
  ASSUME ~Keys!Racing, NEW p \in Issuers, NEW q \in Issuers, p # q, making[p] # "no"
  PROVE  turn[q] \notin Keys!Files
BY DEF Keys!Racing, Issuers

LEMMA KeyTypesKept ==
  ASSUME KeyTypes, NEW p \in Issuers, NEW f \in Keys!Files,
         \/ Keys!Load(p, f) \/ Keys!LoadFails(p, f) \/ Keys!Missing(p, f)
         \/ Keys!Open(p, f) \/ Keys!Write(p, f),
         Keys!Noticed
  PROVE  KeyTypes'
<1> USE DEF KeyTypes, Keys!Noticed, Keys!Turns, Keys!Files
<1>1. (raced \/ Keys!Racing') \in BOOLEAN
  BY DEF Keys!Racing
<1>2. CASE Keys!Load(p, f)
  BY <1>1, <1>2 DEF Keys!Load
<1>3. CASE Keys!LoadFails(p, f)
  BY <1>1, <1>3 DEF Keys!LoadFails
<1>4. CASE Keys!Missing(p, f)
  BY <1>1, <1>4 DEF Keys!Missing
<1>5. CASE Keys!Open(p, f)
  BY <1>1, <1>5 DEF Keys!Open
<1>6. CASE Keys!Write(p, f)
  BY <1>1, <1>6 DEF Keys!Write
<1> QED
  BY <1>2, <1>3, <1>4, <1>5, <1>6

\* A step of p that leaves what p does not hold alone leaves the others in hand.
LEMMA OthersInHand ==
  ASSUME NEW p \in Issuers, NEW q \in Issuers, p # q, InHand(q),
         KeyTypes, cut => cut',
         held'[q] = held[q], turn'[q] = turn[q], making'[q] = making[q],
         making[q] # "no" => file' = file,
         file["private"] \in Nat => file'["private"] = file["private"]
  PROVE  InHand(q)'
BY DEF InHand, KeyTypes, Keys!Files

LEMMA KeyStepKeeps ==
  ASSUME KeyInv, NEW p \in Issuers, NEW f \in Keys!Files,
         \/ Keys!Load(p, f) \/ Keys!LoadFails(p, f) \/ Keys!Missing(p, f)
         \/ Keys!Open(p, f) \/ Keys!Write(p, f),
         Keys!Noticed
  PROVE  KeyInv'
<1>1. KeyTypes /\ KeyTypes'
  BY KeyTypesKept DEF KeyInv
<1>2. Keys!Racing' => raced'
  BY DEF Keys!Noticed
<1>3. CASE raced
  BY <1>1, <1>2, <1>3 DEF KeyInv, Keys!Noticed
<1>4. CASE ~raced
  <2>1. ~Keys!Racing /\ OnDisk /\ \A q \in Issuers : InHand(q)
    BY <1>4 DEF KeyInv
  <2>2. turn[p] = f
    BY DEF Keys!Load, Keys!LoadFails, Keys!Missing, Keys!Open, Keys!Write
  <2>3. \A q \in Issuers : q # p => making[q] = "no"
    BY <2>1, <2>2, Alone2
  <2>4. \A g \in Keys!Files : file[g] = Empty => cut \/ (making[p] = "write" /\ f = g)
    BY <2>1, <2>2, <2>3 DEF OnDisk
  <2> USE DEF Keys!Turns, Keys!Files, KeyTypes
  <2>5. file["private"] \in Nat => file'["private"] = file["private"]
    BY <1>1, <2>1, <2>2, OrchestratorParameters
       DEF InHand, Keys!Load, Keys!LoadFails, Keys!Missing, Keys!Open, Keys!Write
  <2>6. \A q \in Issuers : q # p =>
          held'[q] = held[q] /\ turn'[q] = turn[q] /\ making'[q] = making[q]
    BY <1>1 DEF Keys!Load, Keys!LoadFails, Keys!Missing, Keys!Open, Keys!Write
  <2>7. cut' = cut
    BY DEF Keys!Load, Keys!LoadFails, Keys!Missing, Keys!Open, Keys!Write
  <2>8. \A q \in Issuers : q # p => InHand(q)'
    BY <1>1, <2>1, <2>3, <2>5, <2>6, <2>7, OthersInHand
  <2>9. InHand(p)' /\ OnDisk'
    <3>0. InHand(p)
      BY <2>1
    <3>1. CASE Keys!Load(p, f)
      BY <1>1, <2>1, <2>2, <3>0, <3>1, OrchestratorParameters DEF Keys!Load, InHand, OnDisk
    <3>2. CASE Keys!LoadFails(p, f)
      BY <1>1, <2>1, <2>2, <2>4, <3>0, <3>2, OrchestratorParameters DEF Keys!LoadFails, InHand, OnDisk
    <3>3. CASE Keys!Missing(p, f)
      BY <1>1, <2>1, <2>2, <3>0, <3>3, OrchestratorParameters DEF Keys!Missing, InHand, OnDisk
    <3>4. CASE Keys!Open(p, f)
      BY <1>1, <2>1, <2>2, <2>4, <3>0, <3>4, OrchestratorParameters DEF Keys!Open, InHand, OnDisk
    <3>5. CASE Keys!Write(p, f)
      BY <1>1, <2>1, <2>2, <2>4, <3>0, <3>5, OrchestratorParameters DEF Keys!Write, InHand, OnDisk
    <3> QED
      BY <3>1, <3>2, <3>3, <3>4, <3>5
  <2> QED
    BY <1>1, <1>2, <2>8, <2>9 DEF KeyInv
<1> QED
  BY <1>3, <1>4

LEMMA BeginsKeeps ==
  ASSUME KeyInv, NEW p \in Issuers, Keys!Begins(p)
  PROVE  KeyInv'
<1> USE DEF Keys!Begins, Keys!BeginKeys, Keys!Noticed
<1>1. KeyTypes'
  BY DEF KeyInv, KeyTypes, Keys!Files, Keys!Racing
<1>2. CASE raced
  BY <1>1, <1>2 DEF KeyInv
<1>3. CASE ~raced
  <2>1. OnDisk /\ \A q \in Issuers : InHand(q)
    BY <1>3 DEF KeyInv
  <2>2. making[p] = "no"
    BY <2>1 DEF InHand, KeyInv, KeyTypes, Keys!Files
  <2>3. InHand(p)'
    BY <2>1, <2>2 DEF InHand, KeyInv, KeyTypes, Keys!Files
  <2>4. \A q \in Issuers : q # p => InHand(q)'
    BY <2>1, OthersInHand DEF KeyInv, KeyTypes
  <2>5. OnDisk'
    BY <2>1, <2>2 DEF OnDisk, KeyInv, KeyTypes
  <2> QED
    BY <1>1, <2>3, <2>4, <2>5 DEF KeyInv
<1> QED
  BY <1>2, <1>3

LEMMA EndsKeeps ==
  ASSUME KeyInv, NEW p \in Issuers, Keys!Ends(p)
  PROVE  KeyInv'
<1> USE DEF Keys!Ends, Keys!EndKeys, Keys!Noticed
<1>1. KeyTypes'
  BY DEF KeyInv, KeyTypes, Keys!Files, Keys!Racing, Keys!NoKeys
<1>2. CASE raced
  BY <1>1, <1>2 DEF KeyInv
<1>3. CASE ~raced
  <2>1. OnDisk /\ \A q \in Issuers : InHand(q)
    BY <1>3 DEF KeyInv
  <2>2. turn'[p] = "none" /\ making'[p] = "no"
    BY DEF KeyInv, KeyTypes
  <2>3. InHand(p)'
    BY <2>2 DEF InHand, Keys!Files
  <2>4. \A q \in Issuers : q # p => InHand(q)'
    BY <2>1, OthersInHand DEF KeyInv, KeyTypes
  <2>5. OnDisk'
    BY <2>1 DEF OnDisk, KeyInv, KeyTypes
  <2> QED
    BY <1>1, <2>3, <2>4, <2>5 DEF KeyInv
<1> QED
  BY <1>2, <1>3

LEMMA KeyInvStep ==
  ASSUME KeyInv, [OrchestratorNext]_all
  PROVE  KeyInv'
<1>1. Daemon \in Issuers /\ KeyMaker \in Issuers
  BY DEF Issuers
<1>2. ASSUME NEW p \in Issuers, Keys!Begins(p) \/ Keys!KeyStep(p) \/ Keys!Ends(p)
      PROVE  KeyInv'
  BY <1>2, BeginsKeeps, KeyStepKeeps, EndsKeeps DEF Keys!KeyStep
<1>3. ASSUME UNCHANGED keyVars
      PROVE  KeyInv'
  BY <1>3 DEF keyVars, KeyInv, KeyTypes, OnDisk, InHand, Keys!Racing
<1>4. ASSUME Start \/ IssuerStep \/ GenKeys \/ Dies \/ StopUpdateFails
      PROVE  KeyInv'
  BY <1>1, <1>2, <1>4 DEF Start, IssuerStep, GenKeys, Dies, StopUpdateFails, DaemonEnds
<1>5. ASSUME Assemble \/ OpenAudit \/ StartGrpc \/ StartWebsocket \/ StartUpdate \/ Signal
             \/ StopUpdate \/ StopWebsocket \/ WebsocketStopped \/ StopGrpc \/ CloseAudit
      PROVE  UNCHANGED keyVars
  BY <1>5 DEF Assemble, OpenAudit, StartGrpc, StartWebsocket, StartUpdate, Signal, StopUpdate,
     StopWebsocket, WebsocketStopped, StopGrpc, CloseAudit
<1>6. ASSUME \/ \E k \in Calls : CallBegins(k) \/ TakesLock(k) \/ CallEnds(k)
             \/ \E c \in Connections : Enters(c) \/ Served(c) \/ Connection(c)
             \/ \E i \in Ids : Dispatches(i)
      PROVE  UNCHANGED keyVars
  BY <1>6 DEF CallBegins, TakesLock, CallEnds, Enters, Served, Connection, Dispatches
<1>7. CASE UNCHANGED all
  BY <1>3, <1>7 DEF all
<1> QED
  BY <1>3, <1>4, <1>5, <1>6, <1>7 DEF OrchestratorNext

\* Unless two processes made keys at once, an issuer's two keys fit and loading
\* them fails only after a stop in the middle of writing: for any number of starts
\* of either process and any number of pairs.
THEOREM KeysFit == OrchestratorSpec => []KeysAgree
<1>1. OrchestratorInit => KeyInv
  <2> SUFFICES ASSUME Keys!KeysInit PROVE KeyInv
    BY DEF OrchestratorInit
  <2>1. \A p \in Issuers : turn[p] = "none" /\ making[p] = "no"
    BY DEF Keys!KeysInit, Issuers
  <2>2. \A f \in Keys!Files : file[f] = Absent
    BY DEF Keys!KeysInit, Keys!NoKeys
  <2>3. KeyTypes
    BY DEF Keys!KeysInit, Keys!NoKeys, Keys!Files, KeyTypes, Issuers
  <2>4. OnDisk
    BY <2>2, OrchestratorParameters DEF OnDisk, Keys!Files
  <2>5. ~Keys!Racing
    BY <2>1 DEF Keys!Racing, Issuers
  <2> QED
    BY <2>1, <2>3, <2>4, <2>5 DEF KeyInv, InHand, Keys!Files
<1>2. KeyInv => KeysAgree
  BY DEF KeyInv, InHand, KeysAgree, Keys!KeysAgree, Issuers
<1> QED
  BY <1>1, <1>2, KeyInvStep, PTL DEF OrchestratorSpec

-----------------------------------------------------------------------------
(* The audit trail that the daemon opens, with AuditTrail.tla's names.      *)

CONSTANTS EventTypes, SnapshotEvery, MaxCalls, Null

VARIABLES table, roots, initialized, last_hash, entry_count, recorded

Trail == INSTANCE AuditTrail

\* Once the hash of the last entry has been read, it is the NULL of an empty table.
NothingStored ==
  /\ table = <<>>
  /\ roots = <<>>
  /\ initialized => last_hash = Null

\* The trail that starts empty stays empty: no call of record, in any order with
\* openings and restarts, stores an entry or a Merkle root.
THEOREM TrailStaysEmpty == Trail!Spec => [](table = <<>> /\ roots = <<>>)
<1>1. Trail!Init => NothingStored
  BY DEF Trail!Init, NothingStored
<1>2. NothingStored /\ [Trail!Next]_(Trail!vars) => NothingStored'
  <2> SUFFICES ASSUME NothingStored, [Trail!Next]_(Trail!vars) PROVE NothingStored'
    OBVIOUS
  <2>1. CASE Trail!Initialize
    BY <2>1 DEF NothingStored, Trail!Initialize, Trail!StoredHashes
  <2>2. ASSUME NEW event \in EventTypes, Trail!Record(event)
        PROVE  NothingStored'
    <3>1. PICK c \in Trail!Continuations :
            \/ Trail!RefusedByTable(c.previous, c.count)
            \/ Trail!Stored(event, c.previous, c.count)
      BY <2>2 DEF Trail!Record
    <3>2. c.previous = Null
      BY DEF NothingStored, Trail!Continuations, Trail!StoredHashes
    <3> QED
      BY <3>1, <3>2 DEF NothingStored, Trail!RefusedByTable, Trail!Stored
  <2>3. CASE Trail!Restart
    BY <2>3 DEF NothingStored, Trail!Restart
  <2>4. CASE UNCHANGED Trail!vars
    BY <2>4 DEF NothingStored, Trail!vars
  <2> QED
    BY <2>1, <2>2, <2>3, <2>4 DEF Trail!Next
<1>3. NothingStored => table = <<>> /\ roots = <<>>
  BY DEF NothingStored
<1> QED
  BY <1>1, <1>2, <1>3, PTL DEF Trail!Spec

=============================================================================
