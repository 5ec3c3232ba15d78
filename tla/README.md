# A verification of secure-orchestration-mesh

secure-orchestration-mesh runs an orchestrator (one Python process, one asyncio event loop) to which agents connect
over gRPC or WebSocket, register, receive tasks and report results. This directory holds TLA+ models of its parts and
of how they work together, TLC runs that check them, and TLAPS proofs about them. Source paths below are relative to
the repository.

Contents: [the system](#1-the-system), [the plan](#2-the-plan), [the modules](#3-the-modules), [the
runs](#4-the-runs), [the proofs](#5-the-proofs), [what the models left out](#6-what-is-not-modelled).

## 1. The system

### Components

| Component | State it keeps | Operations | Talks to |
|---|---|---|---|
| **Agent pool and scheduler** `orchestrator/task_scheduler.py` | `_agents` (a record per agent: state, heartbeat, counters, suspicion), `_lock` | register, unregister, heartbeat, mark_offline_stale, dispatch, complete_task, quarantine, update_anomaly_score | called by the gRPC handlers, the WebSocket server, the stale-agent loop |
| **Guardrail** `orchestrator/guardrail.py` | seen sequence numbers and high water mark per session id, metrics buffer | validate_inbound (seven gates), drain_metrics | crypto session, token issuer |
| **Sessions and tokens** `orchestrator/token_issuer.py` | the crypto session of each agent, the RSA key pair | issue, verify, register/get/revoke_session | guardrail, Register handlers |
| **Session cryptography** `agent_sdk/crypto.py` | keys, nonce base, sequence counter | init_for_agent / init_for_orchestrator, encrypt, decrypt, sign, verify | both ends |
| **gRPC server** `orchestrator/server.py` | one coroutine per call or stream | Register, TaskStream, HeartBeatStream, PushPermissionGrant, ReportError, IssueQuarantine, stale-agent loop | everything in the orchestrator |
| **Agent client** `agent_sdk/client.py` | token, crypto session, bounded queue of results | connect, task stream, heartbeat loop, disconnect | gRPC server, executor |
| **Executor, side channel** `agent_sdk/executor.py`, `side_channel.py` | none / none | execute within a permission scope; pad and unpad blocks | client |
| **Audit trail** `orchestrator/audit_trail.py` | SQLite table of hash-chained entries and of Merkle roots; last hash in memory | initialize, record, verify_chain, queries | server, start-up and shutdown |
| **Combined anomaly engine** `anomaly/combined_engine.py` | score history per agent, adaptive thresholds | score, should_quarantine, record_false_positive | detectors, TaskStream |
| **Detectors** `anomaly/*.py` | trained models; SQLite log of metrics | score, train, log | engine |
| **WebSocket server** `orchestrator/websocket_fallback.py` | handler per agent id | connection, frames, dispatch | scheduler, guardrail, tokens |
| **Framework adapters** `orchestrator/crewai_adapter.py`, `langgraph_adapter.py` | futures of pending tasks | connect, execute_task, consume responses | client's queue |
| **LLM chain, incident reports** `llm/*.py` | registered backends; report cache | generate with fallbacks; generate, save | called after an automatic quarantine |
| **Task translator** `translator/slm_bridge.py` | none | translate, validate | LLM chain |
| **Knowledge base self-update** `self_update/crawl4ai_pipeline.py` | SQLite tables of known papers and alerts; a Markdown file | run_cycle, update_knowledge_base | scheduler of jobs |
| **Start-up, configuration, dashboard** `orchestrator/main.py`, `config.py`, `dashboard.py` | wiring only | run | everything |

### How they interact

A `Register` call puts a record in the pool, creates the orchestrator's half of the crypto session, issues a 60-second
token and records an audit event, in that order. A task stream then takes each packet through the guardrail, counts
the result in the pool (`complete_task`), scores the agent, hands the score to the pool (`update_anomaly_score`, which
may quarantine), asks the anomaly engine for its own opinion (`should_quarantine`) and acknowledges. Heartbeats set
the agent's state; a loop marks silent agents offline every ten seconds. All of this is interleaved by the event loop
wherever a coroutine awaits: at the scheduler's lock, at I/O, and between the packets of a stream. A client that
disconnects cancels its handler at its current await.

### What is hard here

* **Interleaving and cancellation.** One lock serialises the pool; coroutines wait for it, are cancelled while they
  wait, and one operation takes it twice.
* **Order of delivery.** Sequence numbers arrive late, repeated and out of order, across reconnections, and the set
  that remembers them is pruned.
* **Time.** Heartbeats race the sweep, tokens expire between two packets.
* **Restart.** The audit chain and the known-papers table are read back after a stop at any point.
* **Partial failure.** The handlers change several components one after another and can fail in the middle.
* **Shutdown.** Services are stopped one after the other while calls and connections still run.

`PROJECT.json` lists every such hazard at its line, with the properties that cover it or the reason none does.

### What makes each component correct

* Scheduler: no call is lost; the lock is always released again; suspicion counts windows in a row; only silent agents
  go offline; silent agents do go offline; a condemned agent is quarantined.
* Guardrail: a number is let through once; none is refused that was not seen or hopelessly late; a packet passes only
  under its own session and a live token, and is credited to an agent that registered recently.
* Audit trail: every event is in the table; the chain verifies after any restart.
* Server and client together: both ends derive the same keys; a quarantine holds results back; an arrival is counted
  once and audited.
* WebSocket server: what dispatch finds in its table can take a task; an agent with one connection is in it.
* Agent client: results go out once, in order, with the numbers they were sealed with; nothing outlives `run`.
* Adapters: every call returns by its deadline; the table of futures holds those of the calls under way; the consumer
  survives what it reads.
* LLM chain and its clients: backends are asked in the documented order, none twice, none left out; a request ends; a
  failing provider costs no report; a report is a JSON and a Markdown file about one incident; a batch keeps its order.
* Knowledge base: no row twice; what has a row is known; a paper marked known is in the file.
* Start-up and shutdown: the audit trail outlives the calls that record to it; key pairs fit; shutdown ends.

## 2. The plan

Most important behaviour first; **bold** is done.

1. **`AgentRecords`, `TaskScheduler`**: the pool and its lock. Runs `scheduler`, `scheduler_condemned`. Proofs of
   every safety property in `TaskSchedulerProofs`.
2. **`ReplayPromise`, `Guardrail`**: the abstract promise of the replay gate, the gates and the window that implements
   it. Runs `guardrail`, `guardrail_reconnect`, `guardrail_duplicate`. Proofs in `GuardrailProofs`.
3. **`AuditTrail`**: the table and its restart. Run `audit`; the finding for every instance in `OrchestratorProofs`.
4. **`Handshake`**: registration as the two `init_for_*` halves and `connect` perform it, with timeouts and repeated
   registrations. Run `handshake`; the finding for every instance in `AgentClientProofs`.
5. **`Mesh`**: composes the pool, sessions, anomaly engine, metrics and audit entries with the server's handlers, step
   by step between awaits. It implements `TaskScheduler`. Run `mesh`; proofs of every safety property and of the
   refinement in `MeshProofs`.
6. **`AgentClient`**, **`Adapter`**: the four coroutines of an agent that runs itself; futures, deadlines and the shared
   queue of one that an adapter drives. Run `agent`, proofs in `AgentClientProofs`, `AdapterProofs`.
7. **`WebsocketServer`**: connections that replace one another. Run `orchestrator`, proofs in `OrchestratorProofs`.
8. **`KnowledgeBase`**: two commits and a file, two processes, crashes. Run `knowledge`, proofs in
   `KnowledgeBaseProofs`.
9. **`LlmProvider`, `IncidentReports`, `Translator`, `LlmClients`**: the fallback chain and its two clients. Run
   `reports`, proofs in `LlmClientsProofs`.
10. **`KeyFiles`, `Orchestrator`**: start, service, shutdown, crash and restart of the daemon. Run `orchestrator`,
    proofs in `OrchestratorProofs`.

What could follow: a pool whose calls are atomic as the abstract specification of `TaskScheduler`, an abstract promise
of quarantine that `Mesh` refines, and reference definitions for the arithmetic of the detectors. `SideChannel` and `PermissionScope` of the first plan were dropped:
the padder is constructed and never used, and the scope check is one conjunct of `Execute` in `AgentClient`.

## 3. The modules

### `AgentRecords`, `TaskScheduler`

`AgentRecords` has the record of one agent and one operator per change an operation makes to it (`Heard`, `Finished`,
`Scored`, ...). Scores are in hundredths (`score > 0.65` is `score > 65`), time in ticks. Fields the scheduler writes
once or never reads are left out.

`TaskScheduler` adds concurrency. A critical section without an await runs in one step of the event loop, so a call
that finds the lock free (`FastPath`) executes its whole body at once (`Enter`). The only await inside a critical
section is `await self.quarantine(...)` in `update_anomaly_score`: it is the disjunct `AwaitQuarantine`, after which
the caller owns `lock` and is in `waiters`. Every other call then joins the queue (`Waits`); `Acquire` is the event
loop resuming the first waiter once the lock is free. `Cancel` is what grpc.aio does to a handler whose client
disconnects: the exception surfaces at the await, the waiter leaves the queue, and `async with` releases the lock if
the call owned it. `MarkOfflineStale` samples the clock when it is called, before it waits, as `mark_offline_stale`
does. `clock` advances only in `Tick`.

| State | Code |
|---|---|
| `agents` | `_agents`, `None` for an agent not in the dictionary |
| `lock`, `waiters` | `_lock`: its owner between two steps, its deque of waiters |
| `pending` | the coroutines suspended in a call, with the call's arguments |
| `streak`, `abandoned` | history only: the row of windows README.md:180 calls suspicious, and whether one of them scored exactly 0.65 (`edge`); an automatic quarantine was cancelled |

The handlers and the operations each of them calls are constants (`Handlers`, `Duties`), so that the theorems hold for
any number of streams and any division of work. `unregister` and `dispatch` have no caller in the repository; they are
public operations of the class and are called by any handler the instance gives them to. The model is of the class
under every legal use of it. In the present server the stream calls `complete_task` and `update_anomaly_score` only
after the guardrail has passed a packet, and `server.py:116` hands the guardrail an empty token, so that no packet
passes; see `Mesh`.

### `ReplayPromise`, `Guardrail`

`ReplayPromise` says what the replay gate promises, without windows: a number is accepted unless it was accepted
before and is still near the newest; it is refused only if it was accepted before or is hopelessly late. That is less
than README.md:124 says, which has every duplicate rejected: finding 5.

`Guardrail` models `validate_inbound` as one step (the method has no await) with one action per way out before the
replay window changes (`RejectForged`, `RejectReplay`), and `Judge` for a packet that is new: its number enters the
window, then the remaining gates decide in their order (`Verdict`). `Kept` and `Remember` are `_check_replay`, pruning
included. A packet is its agent, the session it was signed in and a number; an HMAC is right exactly if that session
is the agent's current one; what decryption and parsing make of the body is a constant of each number. `Register` and
`RevokeSession` are what registration and `revoke_session` do to sessions and tokens. A packet may come with any token
ever issued, or none (`Presentable`): no gate compares the token's agent with the session's, and the metric of a packet
that passes is booked on the token's agent, as `_record_metric` does. `offered` and `joined` are history.

This models the component under its own contract: sessions whose two ends hold the same key, which the gates take for
granted. That `client.py` and `server.py` do not establish such sessions is what `Handshake` shows.

### `AuditTrail`

The table survives `Restart`; `_last_hash` does not and is read back by `Initialize`. A hash is what it is computed
from. The column selected next to `COUNT(*)` is that of any row, as SQLite specifies, and NULL if the table is empty.

### `Mesh`

The handlers of `server.py` over `TaskScheduler`, which it EXTENDS. A handler is a value of `job`: the point where it
is and its local variables. It gives up the event loop where it really waits, for its client, for SQLite or for a lock
that is taken; between two of these it runs alone. `Running(h)` is a handler whose scheduler call has returned, and
`Quiet` says that there is none: every step of somebody else has `Quiet` as its guard, which is what one event loop
means. The handlers call the operations of `TaskScheduler` themselves, `Register(h, a)`, `CompleteTask(h, a, success)`
and so on, with the bounds of the run that belong to them; the moment the lock is granted is `Resume`, a client
that goes away is `Disconnect` (at a lock) or `Break` (elsewhere), and `Break` is also an exception of SQLite.

| State | Code |
|---|---|
| `job` | each handler's frame: `agent_id`, the arrival it is about, the score, the list it drained |
| `session`, `sessions` | `_session_keys`, as the number of the registration that made it |
| `taken`, `buffer` | the arrivals that were handed to the guardrail; `_metrics_buffer` |
| `logged`, `audited` | rows of `behavioral_metrics`; TASK_COMPLETED and TASK_FAILED entries |
| `windows` | the last two scores of `_agent_histories` |
| `badKey`, `lost`, `unaudited`, `alarm` | history only |

A packet is an arrival, first or repeated: the guardrail may pass one number twice (finding 5), and then two arrivals
have a metric, a count and an audit entry each. The guardrail's verdict and the engine's score are inputs. This matters: `server.py:116` hands the guardrail an empty
token, which the token gate refuses, so in the present program nothing after line 122 runs, and
`CombinedAnomalyEngine.score` without features returns the stubs' low scores. The model shows what that path does as
it is written; `Guardrail` shows what the gate does. The stale-agent loop and the clock stay with `TaskScheduler` (no
handler tells IDLE from OFFLINE). The property `UsesPool` is the refinement: every step of `Mesh` is a step of
`TaskScheduler` or a stutter, so what is proved of the pool holds in the server.

### `Handshake`

`Connect`, `Register`, `Connected` are `connect`, the handler and the rest of `connect`; keys and nonces are numbers
never used before, and a derived key is the pair of its inputs. A call may be lost or answered too late.

### `AgentClient`

`run` (connect, read, execute, put), the request iterator, the heartbeat task and `run_agent` with its signal, each as
its own control variable. `queue` is `_pending_results`, `hand` the packet grpc has taken and not written. A task is
what the checks of `TaskExecutor.execute` can tell. The counter goes up by two per result, once in `_sign_and_encrypt`
and once in `encrypt`. `_heartbeat_loop` iterates over a stream-unary call, which raises at once: the heartbeat is a
task that ends after its first call.

### `Adapter`, `AgentQueue`

One machine for both adapters. A call goes from `new` through `connecting`, `putting` and `waiting` to `timed out` or
`raised`; the wrapped tools and graphs differ in how they report that, and in `log`. `Cancel` is the cancellation of the
caller at any of these awaits: CancelledError is no Exception, so `execute_task` ends without touching the table, and
the future stays (`LeftBehind`). Every successful connection adds
a consumer, of which `tracked` is the one `disconnect` will cancel. The adapter's agent is never `run`, so its queue
holds the adapter's own requests (`requests`), and what a consumer makes of one names no future (`Answered`).
`AgentQueue` holds the bound of the queue, which the agent's own `run` has as well. An agent either runs itself or is
driven by an adapter: `MCAgent` extends both modules, chooses once, and the part not taken stays in its initial state,
in which no action with fairness is enabled. The names `AdapterInit`, `AdapterNext` and `AdapterTypeOK` are longer than
elsewhere for that reason alone.

### `WebsocketServer`

One coroutine per connection, `at` its await. Keys are stored (`Register`), the response is sent (`Respond`), the pool
is joined and the handler entered in the table (`EnterTable`), each at another await. `Leave` removes whatever the
table has under the id, which may be a newer connection's handler: `AloneMeansReachable` therefore speaks of agents
with one connection. A frame from an agent changes nothing (`HandleFrame`), because `decrypt` is called without its
sequence number.

### `KeyFiles`, `Orchestrator`

`KeyFiles` is `TokenIssuer.__init__` by several processes: load a key, or find it missing, generate, open (which
empties the file), write. `Orchestrator` INSTANCEs it for the daemon and a `--gen-keys`, EXTENDS `WebsocketServer` and
adds `run` of `main.py`: `phase` is how far it is, `DaemonEnds` is everything a process loses. `TakesLock` is the
self-wait of `TaskScheduler`, seen from here: a call that keeps the pool's lock. The audit trail opens as on a
database that has entries already; on a new one finding 3 ends the start.

### `KnowledgeBase`

One cycle of one process, statement by statement where another process or a crash can come between: `Begin` fetches
and reads the file, `Check` asks the database, `Mark` appends the row and commits the mark, `PapersDone` splices the
rows under the table's head, `Truncate` opens the file for writing, which empties it, and `Write` writes from its
beginning. A content is how many rows each item has, and whether the table's head is there. If another process wrote
since the truncation, what it wrote may be longer: the tail of it stays behind the new text, and as the lengths decide
which rows that is, `Leftovers` is any part of them. `file` and `known` survive a `Crash`, the rest does not. `calm` and
`apart` are history: no crash, no two cycles at once, no file without its table; no process emptied the file while
another was between its truncation and its write.

### `LlmProvider`, `IncidentReports`, `Translator`, `LlmClients`

`LlmProvider` is `generate`: a request has `left` the backends still to try, the first being asked; `asked` and `gaveUp`
are history. `Before` is the documented order, against which `AsksInOrder` holds what was asked. `Hangs` is a call of
ollama under way, which nothing ends if the server does not: finding 10. `IncidentReports`
is the task that an automatic quarantine starts, up to the two files, with the cache shared by all of them; `Kinds`
are the classes of answers its parser tells apart. `_build_markdown` looks for a key the scores of a quarantine event
do not have, so a report that shows its scores leaves an empty Markdown file beside a complete JSON file (`Markdown`).
`Translator` is `translate_batch` with `gather`; `Selected` is its list comprehension, as a recursive function so that
it can be reasoned about. `LlmClients` runs both on one provider, as `main.py` does. A `report_id` from a backend is
taken as it is: `Unusable` stands for those that name no file, with which `open` raises and the task fails (`Save`).

## 4. The runs

| Run | Checks | Shows |
|---|---|---|
| `scheduler` (599 thousand states) | `TypeOK`, `NoCallLost`, `HeldLockIsSelfWait`, `StreakIsCounted`, `ThresholdMeansConsecutive`, `OfflineOnlyWhenSilent`, `SilentAgentsAreSwept`, `EveryCallReturns` | the pool behaves, the one exception being a lock taken for good by an automatic quarantine |
| `scheduler_condemned` | `CondemnedIsQuarantined`, **violated** | the self-wait in `update_anomaly_score` |
| `guardrail` (305 thousand) | `WindowRemembersRecent`, `KeepsPromise`, `CreditedWithinTTL` | the replay gate keeps its promise with any order of packets, two sessions and pruning; nothing passes on credit of an agent that has not registered recently, with any token of two agents |
| `guardrail_reconnect` | `ReplayMeansRepeat`, **violated** | numbers of a new session are refused because of the previous one |
| `guardrail_duplicate` | `DuplicatesAreRefused`, **violated** | a number that was pruned from the window passes again |
| `audit` | `EveryActionIsRecorded`, **violated** | a new database records nothing |
| `mesh` (813 thousand) | `MeshTypeOK`, `SessionsMatchPool`, `MetricsKept`, `CountedIsAudited`, `AlarmIsAnswered`, `QuarantineHoldsBack`, `UsesPool` | the handlers keep pool, keys, metrics, audit entries and engine in step, with calls cut and broken at every await |
| `handshake` | `SessionKeysAgree`, **violated** | the two ends never hold the same key |
| `agent` (53 thousand) | `ResultsInOrder`, `NothingOutlivesRun`, `ResultsAreSent`, `FailureIsNoticed`, `FuturesMatchCalls`, `ConsumerSurvives`, `CallsReturn` | an agent from connect to shutdown, with a full queue, a broken stream and a signal at any point; or an adapter's calls, deadlines, cancelled callers and reconnections. The exception to both is a full queue that nobody empties |
| `knowledge` (1 million) | `NoDuplicateRows`, `RowsAreKnown`, `KnownIsWritten` | two processes, crashes, texts written over each other: no row twice unless two writes met, no row that is not known, and nothing lost while all is calm |
| `reports` (697 thousand) | `AsksInOrder`, `ReportedDespiteProviders`, `FilesAgree`, `BatchKeepsOrder`, `OwnReportsStay`, `RequestsSettle` | two reports and a batch share one chain of three backends, with any failure and any answer |
| `orchestrator` (120 thousand) | `TableEntriesAreReady`, `AloneMeansReachable`, `AuditOutlivesCalls`, `KeysAgree`, `ClosedConnectionsLeave`, `ShutdownCompletes` | the daemon through start, service, crash, restart and shutdown |

What some of these leave open is as much a result as what they show. `KnownIsWritten` and `NoDuplicateRows` exempt the
crashes and overlaps that lose papers and double rows (findings 7 and 8). `CallsReturn` and `FailureIsNoticed` name the
full queue on which a call, or `run`, waits for good; `FuturesMatchCalls` the futures that nothing removes.
`ShutdownCompletes` says that a registration waiting for a lock that is held for good keeps the daemon from stopping.
`ReportedDespiteProviders` says that an unusable answer fails the second incident with the same prompt, from the cache,
where the first got its fallback, and that a `report_id` that is no file name costs the incident its report.
`QuarantineHoldsBack` says nothing of how long a quarantine lasts: the next IDLE heartbeat lifts it.

### Bounds, and why they are enough

* `scheduler`: one agent, because the critical sections of different agents touch different records and the lock is
  the only thing they share, and it is contended here by two handlers and the sweeper. Two handlers are the least that
  allow a third party to be queued behind an owner that waits for itself, with another to be cancelled. `Timeout = 1`,
  `MaxTime = 2`: silence of more than a timeout occurs, and so does a sweep whose sampled time is older than a
  heartbeat. `MaxSuspicion = 3` is one above the threshold: an agent whose quarantine was cancelled is condemned
  again. `MaxTasks = 1`: counters matter only to `dispatch`'s choice, which needs two agents. Scores 30, 65 and 90 lie
  below the cutoff, on it and above it.
* `scheduler_condemned`: two agents, no client disconnects, which favours the code.
* `guardrail`: the code's 10000, 5000 and 100000 become 1, 2 and 4, in the same order of size as far as it matters:
  the window is pruned, what it keeps is less than the drift, and numbers become too late. The numbers are even, as
  the client counts twice per packet, and one of each kind of body is among them. One agent sends three numbers and
  registers twice, which gives two sessions; the other registers once, has a token to lend and sends one number.
  `TTL = 1` and `MaxTime = 2` let tokens expire before and after each registration. The theorems of section 5 remove
  these bounds.
* `audit`: three calls of `record`.
* `mesh`: one agent (handlers about different agents share only the lock and the metrics buffer, which two streams of
  one agent contend for as well), two streams, and a third handler for the calls that return. Three arrivals
  for both streams together: one packet in the hands of each, another that a drain of the other finds. Scores 65 and
  90 are suspicious to the engine (`>=`), only 90 to the pool (`>`). Two sessions: a registration that overtakes
  another. Time stands still, it is the business of `scheduler`.
* `handshake`: one agent, ten fresh keys and nonces: two complete attempts.
* `agent`: a queue of two and four results: it fills up, with one in the reader's hands and one in the sender's; tasks
  that succeed or run over time, all others being results like these. For the adapter three calls of different kinds
  and two connections: a call waits for room while two are in the queue, and a consumer meets requests of an earlier
  connection.
* `knowledge`: two processes, four cycles (overlaps and cycles after them), three papers of which one is irrelevant,
  one alert, fetches of at most two papers that pass the filter, the same one twice included.
* `reports`: two incidents with one prompt, so that the second may find the first's answer, one name an answer may give
  twice, two translations; all three backends are registered, the primary being the last of the chain, so that a
  request has two fallbacks.
* `orchestrator`: two connections of the same agent, of two agents, or without ids; two gRPC calls; one schedule that
  starts the job scheduler and one that does not; two key pairs. With `FollowKeys = FALSE`, `--gen-keys` acts only
  while the daemon is down or at its own keys, and a daemon whose keys were raced for is not followed further: nothing
  after that phase reads the keys, so what is cut off is a product of independent behaviours. The theorems are for
  both values.

Each bound is a guard or a constant set (`MaxTime`, `MaxTasks`, `MaxSuspicion`, `MaxEpoch`, `MaxMetrics`, `MaxCalls`,
`MaxSessions`, `MaxFresh`, `MaxResults`, `MaxConnects`, `MaxCycles`, `MaxFetched`, `MaxFrames`, `MaxPairs`,
`FollowKeys`), never a state constraint, so liveness is checked on complete graphs. Deadlock is checked in
`scheduler`. It is not in the other runs: bounds run out, an agent or a daemon that has stopped stays so, every
request has been answered, and in `scheduler_condemned` everything stops once the lock is taken, which is the finding
itself.

### Fairness

`FairSpec` of `TaskScheduler` asks for weak fairness of two actions. `Acquire`: releasing an asyncio lock schedules
its first waiter, and the event loop runs what is scheduled. `MarkOfflineStale`: `_stale_agent_check` is an endless
loop around a sleep. Nothing is assumed about agents, clients or time: nobody has to call, to disconnect, or to send a
heartbeat, and `Tick` is not fair. `SilentAgentsAreSwept` and `EveryCallReturns` exempt behaviours in which the lock
is eventually held forever. By `HeldLockIsSelfWait` that is only ever the self-wait that `scheduler_condemned` shows;
the liveness properties say that nothing else blocks the pool, neither a critical section that cannot finish nor
newcomers that pass the queue (`FastPath`).

The other modules' assumptions are of the same kind; none obliges a peer, an operator or a backend to succeed.

* `AgentClient`: the shutdown coroutine, the executor (`handler` returns), the reader at the queue, and grpc taking
  and writing results.
* `Adapter`: consumers run, deadlines pass, and a connection attempt fails if it does not succeed (30 seconds). Without a consumer `Consumption` is not enabled,
  and nothing is assumed.
* `LlmClients`: every await of a report or a translation ends, except a call of ollama, which has no timeout (`Hangs`):
  a step that is due for good and does not hang happens. `RequestsSettle` asks for an end only where no call of the
  request hangs for good.
* `Orchestrator`: each step of the shutdown coroutine, and the ends of coroutines whose connection is closed. `Enters`
  is strongly fair: the lock may be taken and released again any number of times before a registration gets it, but
  its queue is served in order.

### Findings

1. `task_scheduler.py:162`: automatic quarantine waits for the lock it holds. The agent is not quarantined, and the
   pool stops until the client of that stream disconnects (`scheduler_condemned`).
2. `guardrail.py:86`: the replay window outlives the session whose numbers it holds (`guardrail_reconnect`).
3. `audit_trail.py:142`: on an empty table the last hash becomes NULL and no entry can be inserted; with the trail
   enabled the orchestrator does not get past its boot record (`audit`). Were the first entry stored, a restart would
   continue from an arbitrary entry rather than the last; `StoredHashes` models that too.
4. `client.py:83`: `connect` sends the public key of one key pair and derives from another, with a salt of its own;
   the nonce of the response arrives after the key is made. README.md:105 promises a shared session secret
   (`handshake`). This is why `Guardrail` and `AgentClient` treat the question which packets verify as settled
   elsewhere.
5. `guardrail.py:175`: with more than 10000 numbers in the window, those 5000 and more below the incoming one are
   forgotten, but only those 100000 below the highest are too late: a number in between passes a second time
   (`guardrail_duplicate`). README.md:124 has duplicates rejected.
6. `task_scheduler.py:159`: a window that scores exactly 0.65 is suspicious by README.md:180 and by the anomaly engine
   (`>=`), and calm for the scheduler (`>`). `StreakIsCounted` is about the documented row and exempts it.
7. `crawl4ai_pipeline.py:362`: a mark is committed before the file is written, so that a crash or an overlap in between
   loses the paper for good. `KnownIsWritten` exempts both.
8. `crawl4ai_pipeline.py:398`: two cycles that have the file open write at its beginning, and the tail of the longer
   text stays behind the shorter one, with rows that both have. `NoDuplicateRows` exempts what follows.
9. `incident_reporter.py:124`: the Markdown of a fallback report is never written, for want of a key;
   incident_reporter.py:4-6 promises JSON and a readable Markdown. `FilesAgree` has it empty for tasks that were cut
   short by it.
10. `ollama_backend.py:35`: the timeout is stored and not used, so a call of the default backend may hang for ever and
    nothing falls back. `RequestsSettle` is conditional on that.

A run that ends in a violation shows each of findings 1 to 5. Findings 6 to 10 are behaviours of passing runs, which
the properties exempt by name; without the exemption TLC finds each of them.

## 5. The proofs

TLC checks the instances above; the theorems hold for all values of the constants that satisfy the assumptions of each
module (types, that `None` and the like are not ordinary members, that some backend is registered). The type
invariants of `Guardrail`, `KnowledgeBase`, `Adapter`, `WebsocketServer`, `AgentClient` and `LlmClients` are proved
and not checked again by TLC.

### `TaskSchedulerProofs`

`TypeOK` is not inductive alone: that `Acquire` serves a request needs the first waiter to be suspended in one.
`QueueInv` is `TypeOK /\ NoCallLost`, which is (`QueueInit`, `QueueStep`). It rests on two facts about any coherent
queue: it stays coherent when a caller joins at the end (`JoinCoherent`) and when one leaves from any position
(`LeaveCoherent`, which covers both waking the first and cancelling any). `StepKinds` then sorts every step into four:
a request is served, an agent is condemned, a call is cancelled, or the pool is left alone. The rest builds on it.

* `TypeCorrect`, `CallsAreNeverLost`: from `QueueInv`.
* `LockIsHeldBySelfWaiters`: `QueueInv /\ HeldLockIsSelfWait` is inductive; no step but the owner's cancellation
  touches its record.
* `HeldLockFreezesPool` is finding 1 for every instance: the run shows one condemned agent that is never quarantined,
  the theorem that from the moment the lock is kept no agent's record changes, until the owner is cancelled.
  `WithoutCancellationNothingMoves` draws the conclusion for servers whose clients stay: the pool never moves again.
* `StreaksAreCounted`, `ThresholdIsConsecutive`: by `CountInv`, which says that the count is not behind the row of
  suspicious windows unless one scored exactly 0.65 (`NotBehind`), and, while no automatic quarantine was cancelled,
  not ahead of it either, and that it reaches the threshold only for the agent whose call holds the lock. Without that last part the invariant is not inductive: a calm window after the threshold would
  leave the count at one with the row at zero.
* `OnlySilentAgentsAreSwept` (an action property): by `SweepsArePast`, no suspended sweep carries a time ahead of the
  clock.

### `GuardrailProofs`

* `TypeCorrect`: `TypeOK` is inductive.
* `WindowIsFaithful`: `TypeOK /\ WindowRemembersRecent` is inductive; a pruned number is far behind the incoming one,
  hence behind the new high water mark (`JudgeKeepsWindow`).
* `GateKeepsPromise`: `Spec => Promise!Spec`, the refinement of `ReplayPromise`. Initial states map to initial states,
  and `PromiseStep` maps each action to `Accept`, `Refuse` or `Rest`; that `Accept` is allowed for a number the pruned
  window has forgotten is `WindowRemembersRecent`.
* `CreditNeedsRecentRegistration`: by `TokensExpire`, no token outlives the last registration of its own agent by more
  than TTL, and a metric is booked on the agent of the token that passed, whoever sent the packet.

### `MeshProofs`

`Mesh` is `TaskScheduler` and what its callers do, so its proofs EXTEND those of `TaskSchedulerProofs`. The inductive
invariant is built in layers, each proved from the ones before it:

* `CallsInv`, which is `QueueInv` of the pool, the types (`ServiceTypes`) and `Coroutines`: a handler that is
  suspended in a call of the pool is at the point that makes such a call, about its own agent; points of a task stream
  belong to task streams; and at most one handler is running (`OneRuns`), which is the event loop. `UsesPool` needs it
  because a call is a step of `TaskScheduler` only for a handler with that duty.
* `SessionInv`: a known agent without keys has a refused key, or the registration that entered it is the running
  handler (`Enters`). `SessionsMatchPool` is what is left of it when nobody runs.
* `FlowInv`: metrics are in one place, all of them are of arrivals the guardrail was given, and the metric of every
  result that is being counted is in one of these places. Without the last two, a metric that is drained could meet a copy of itself.
* `CountedInv`: handlers that wait to count have different arrivals that are not in the trail yet, and the pool has
  counted at most one result more than an agent has entries, in which case the running handler is about to write it.
  That a result has an entry of its own is an argument about sizes, with the theorems of `FiniteSetTheorems`.
* `AlarmInv`: an alarm is the engine's verdict on the last two windows, and has a handler.

Steps are not taken action by action each time. `StepHasShape` shows once that every step moves one handler that the
event loop was free for, and either makes a call to the pool or lets one return (`Asks`), or leaves the pool alone
(`Rests`); `PoolStep` says of the pool what the handlers depend on, namely who is known and how many results are
counted. Each layer then looks at the shapes, and at single actions only where its own variables change.

* `HandlersUsePool`: `MeshSpec => Spec`, the refinement: initial states are initial states of the pool, and every
  step is a step of the pool or leaves its variables alone (`StepUsesPool`).
* `MeshTypes`, `SessionsAndPoolAgree`, `MetricsAreKept`, `ResultsAreAudited`, `AlarmsAreAnswered`: each from its layer.
* `QuarantineIsKept`: a count rises only when a `complete_task` is served (`OnlyResultsCount`). A stream that makes
  the call at once has just passed the check of `Served`, in the same step (`ResultsComeFromStreams`), so on a
  quarantined agent it is one that waited.
* `PoolPromisesHold`: what is proved of the pool alone holds in the server, by the refinement.

### `AgentClientProofs`

* `Typing`: `TypeInv` adds `AtHand` to `TypeOK`: the reader holds a result only while
  it waits to put it, the iterator none while it asks for one, and the counter is twice the number of results. The concatenation
  in `ResultsInOrder` cannot be split without it.
* `ResultsKeepOrder`: each of `Executed`, `Put`, `Take`, `Write` moves one packet across one of the joints of that
  concatenation.
* `RunCleansUp`: `RunInv` ties `run` to the stream: `Finally` runs exactly if there is one.
* `SessionKeysNeverAgree` is finding 4 for every number of agents and attempts, about `Handshake`: by `KeysApart`, the
  secret and the salt of a client's session were generated by `connect`, those of the orchestrator's by it and from
  what was offered, and no number is generated twice.

### `AdapterProofs`

`AdapterInv` is inductive: `AdapterTypeOK`, `FuturesMatchCalls`, `ConsumerSurvives`, and which points a call has reached with
and without a signed request. Without the last part `FuturesAreAccountedFor` cannot tell a caller that was cancelled
while it connected, and left nothing, from one that was cancelled later and left its future (`GoesOnSigned`). The rest
of the work is in the types of a queue that calls join and consumers leave.

### `KnowledgeBaseProofs`

* `RowsStayKnown`: `Inv` says that the rows of the file, and of each cycle's content and new rows (`CycleOK`), are
  known. What a shorter write leaves of a longer text are rows of the file (`LeftRows`).
* `OneRowEach`: `OnceOK` says, while no process emptied the file between another's two steps, that the file and each
  content have one row of an item at most, that content and new rows have none in common, and that the item a cycle is
  about to mark is in neither. It builds on `Inv`: an item in a content or in new rows is known, so `Check` lets nothing
  through that has a row, whoever marks it in between.
* `NothingLostInCalm`: `CalmOK` says that the only active cycle holds all that is known, in its content and its new
  rows; between cycles the file does.

### `OrchestratorProofs`

`EntriesAreReady` and `OneConnectionIsReachable` need two facts about the order of awaits: keys come before the
response (`KeysFirst`), and a connection is among `served` from its entry on (`ServedIsKnown`).
`DaemonEntriesAreReady` and `DaemonAgentIsReachable` reuse the same step: each action of the daemon is a step of the
server, leaves it alone (`ServerSteps`), or resets it (`EndsKeepInv`).

`AuditIsOutlived` rests on `AuditInv`: the trail is open in every phase that may have calls, and calls are only there
until `StopGrpc`. `KeysFit` rests on `KeyInv`: as long as nobody raced, what the files hold and what each issuer has
in hand fit (`OnDisk`, `InHand`), and a process that makes a key is alone with it, which is what not racing means.

`TrailStaysEmpty` is finding 3 for every instance, about `AuditTrail`: once initialised on an empty table the last hash
is NULL, which the table refuses.

### `LlmClientsProofs`

* `ChainIsAskedInOrder`: a request has asked a prefix of `Order` and has the rest left (`Progress`), and one that gave up
  has asked all of it. `OrderOnce`, from facts about joining lists without repetition, says that `Order` names the
  primary first and every registered backend of the chain once; `OrderInChain`, that behind the primary it goes by the
  documented order (`InChain`).
* `ProvidersDoNotMatter`, `FilesMatch`, `OwnReportsAreKept`: `Inv` adds that a request under way belongs to a task
  that waits (`Waiting`), that a file named after an incident was written by its own task, and that whoever wrote a
  file is over (`OwnFiles`). `SavedInv`, `MovedInv` and `TranslatedInv` are the three kinds of step; every action is
  shown to be one of them.
* `BatchIsInOrder`: what `Selected` computes after n rounds is a list of exactly the good ones among the first n, in
  order (`Picks`), for a batch of any length. Induction over n is not open to the prover as a rule with a predicate to
  fill in; the proof takes the least n that fails instead (`LeastElement`, from the well-foundedness of the naturals)
  and finds that the round before it did not fail (`PicksNext`). `BatchInv` then says that no translation is under way
  when a batch has been returned.

### Only model-checked

Every invariant, action property and refinement that a run checks is a theorem as well. Liveness stays with TLC, since
the prover handles neither fairness nor ENABLED: `SilentAgentsAreSwept`, `EveryCallReturns`, `ResultsAreSent`,
`FailureIsNoticed`, `CallsReturn`, `RequestsSettle`, `ClosedConnectionsLeave`, `ShutdownCompletes`. The properties of
the five runs that end in a violation are refuted; for three of them a theorem says what the run shows of one instance
(`HeldLockFreezesPool`, `SessionKeysNeverAgree`, `TrailStaysEmpty`). `ReplayMeansRepeat` and `DuplicatesAreRefused` fail
for some instances only (they take a registration, or enough numbers to prune the window, and a number that comes
again), so there is nothing general to prove.

## 6. What is not modelled

* The detectors' arithmetic, prompts, feeds and their parsing, the relevance filter's text matching: scores, answers
  and fetched papers are inputs. Two versions of one arXiv paper are two papers, as they are to the code.
* Code that nothing in the program calls: `SideChannelPadder`, `PromptCacheManager`, the adaptive thresholds of the
  combined engine and `record_false_positive`, the client's `access_token` after line 140.
* `PushPermissionGrant` and `ReportError`, which change nothing but the audit trail.
* A process that is killed between the two files of one report: the Markdown file is then missing, as it is empty in
  `half saved`.
* A daemon without its WebSocket server, its audit trail or with the dashboard; configuration parsing; HTTP backends;
  generated protobuf code; data generators, the attack simulator and deployment files.
* Cryptographic primitives, taken to be right, and asyncio, grpc and SQLite, modelled as the code uses them: a
  coroutine runs until it awaits something that is not ready, a lock wakes its waiters in order, a commit is one step.
