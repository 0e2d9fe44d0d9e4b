# Termweave in TLA+

Termweave is a terminal client (TUI) and a local server that drive coding
agents (Codex, Claude, Cursor, OpenCode, ...) side by side. The server keeps an
event-sourced record of projects, threads, turns, messages and checkpoints in
SQLite; the clients send it *commands* and watch the *events* it publishes.

This directory models six parts of the system:

1. the orchestration engine, which the rest of the server leans on: it takes
   commands, decides them, stores their events, keeps the projections and answers
   the callers, through store failures, crashes and upgrades;
2. a user's message on its way from the TUI's queue to a turn of the provider;
3. a requested turn on its way to a reply, through the two workers between the
   engine and the providers;
4. the checkpoints of a thread: captured, held as placeholders, reverted, across
   git, files, the provider's conversation and two projections;
5. how a client keeps up with the server over a socket that comes and goes;
6. the server's terminals.

Paths below are relative to the repository, in `apps/server/src` where they name
no app or package.

## 1. Inventory

### Components

| Component | State | Operations | Hard behaviour |
|---|---|---|---|
| **Orchestration engine** `apps/server/src/orchestration/Layers/OrchestrationEngine.ts` | in memory: read model, command queue, one Deferred per call; in SQLite: event log, command receipts | `dispatch`, `processEnvelope` (lookup, decide, append, project, receipt, commit, install, publish, answer), reconciliation after a failure, bootstrap at start | atomicity of five writes; retries of a command id; a crash between any two steps; memory and disk must agree |
| **Decider** `orchestration/decider.ts`, `commandInvariants.ts` | none (pure) | one case per command type | reads only what `projector.ts` keeps |
| **Projector** `orchestration/projector.ts` | the in-memory read model | one case per event type | must tell the same story as the SQL projections |
| **Projection pipeline** `orchestration/Layers/ProjectionPipeline.ts` | nine tables, one cursor each; attachment files | `projectEvent`, `bootstrap` | cursors, bootstrap projector by projector, file deletions inside a transaction |
| **Event store** `persistence/Layers/OrchestrationEventStore.ts` | `orchestration_events` | `append`, `readFromSequence` (with a limit), `readAll` | the default limit of 1000 |
| **Provider command reactor** `orchestration/Layers/ProviderCommandReactor.ts` | cache of handled turn starts, one worker | turns "requested" events into provider calls | handled mark set before the work; queued events die with the process |
| **Provider runtime ingestion** `orchestration/Layers/ProviderRuntimeIngestion.ts` | text buffers, turn bookkeeping, delivery mode | turns provider events into commands | late events of an old turn, one delivery mode for all threads, stale thread snapshot |
| **Checkpoint reactor and store** `orchestration/Layers/CheckpointReactor.ts`, `checkpointing/` | git refs per turn | capture at turn ends, revert | revert over three systems without a transaction |
| **Provider service, directory, adapters** `provider/` | sessions, persisted bindings with resume cursors | start, send, interrupt, stop, recover | recovery after a restart, a provider that changes |
| **Managed providers, maintenance** `provider/makeManagedServerProvider.ts`, `providerMaintenanceCommandCoordinator.ts` | snapshot, enrichment generation, running targets | refresh, enrich, run a maintenance command | late enrichment of an old snapshot |
| **Terminal manager** `terminal/Layers/Manager.ts` | sessions, history, timers, persist queues | open, write, resize, restart, close, evict | eviction while a process is being spawned |
| **Drainable worker** `packages/shared/src/DrainableWorker.ts` | queue, outstanding count | enqueue, drain | a failing `process` ends the loop |
| **WebSocket server, push bus** `wsServer.ts`, `wsServer/pushBus.ts` | client set, push sequence | request routing, welcome, broadcast | events between a client's welcome and its snapshot |
| **Client transport** `packages/client-core/src/wsTransport.ts` | pending requests, outbound queue, reconnect timer | request, reconnect, suspend, dispose | a request whose answer is lost with the socket |
| **TUI** `apps/tui/src/messageQueue.ts`, `ui.tsx` | queued messages per thread | queue, edit, move, pump, reconcile | resending a message that did arrive |
| **Server supervisor** `apps/tui/src/serverSupervisor.ts` | child process, restart timer | start, restart, stop | stop racing a restart |
| Settings, keybindings, git, text generation, diagnostics, telemetry, protocol packages, secrets, deployment | little or external | | behaviour is a file's or another program's |

### How they interact

```
 TUI --request--> WsTransport ==socket==> wsServer --dispatch--> OrchestrationEngine
                                                                  |  decide / append / project / receipt (SQLite)
 TUI <--push-- push bus <--------- events (PubSub) ---------------+
                                    |            |           |
                        ProviderCommandReactor   |    CheckpointReactor --git--> working tree
                                    |            |           |
                             ProviderService     |           +--dispatch--> engine
                                    |            |
                             agent process --runtime events--> ProviderRuntimeIngestion --dispatch--> engine
```

Every arrow into the engine is a `dispatch`, every arrow out of it an event
published after its transaction committed. Reactors and clients are therefore
concurrent *callers* of one queue with one worker: what a caller may assume is
what the engine promises in this model.

### What makes each component correct

* Engine: a command takes effect at most once and wholly; its answer is true
  for good; the read model is the log's replay; subscribers see the log. 
* Decider with projector: a decision is taken on the state the log is in.
* Pipeline: every projector has applied every event while commands are served.
* Reactor and ingestion: one provider turn per requested turn, text in the order
  it was produced, a late event never disturbs the next turn.
* Checkpoints: after a revert, file system, conversation and log agree, or the
  user is told they do not.
* Transport and TUI queue: each queued message is sent until it is known to have
  arrived, and starts one turn.
* Terminal manager: each running process belongs to a session, what it printed
  reaches its history file, what was deleted stays deleted.
* Push bus, transport and TUI: a client that has nothing under way shows what the
  server has recorded.

`PROJECT.json` lists the hazards with the line where each one bites and the
properties that cover it.

## 2. Modules

| Module | What it is |
|---|---|
| `Decider` | the pure operators: `Accepts`, `Decide` (decider.ts, commandInvariants.ts) and `ProjectEvent` (projector.ts), over the part of the read model the decider looks at |
| `OrchestrationEngine` | the engine over its store: one action per store call or step of `processEnvelope`, of startup, and of the environment |
| `CommandLog` | what callers are promised: a state machine without queue, transaction, failure or crash |
| `MCEngine` | a small instance for TLC |
| `EngineRefinement`, `MCEngineRefines` | the refinement mapping from `OrchestrationEngine` to `CommandLog`; its small instance |
| `OrchestrationEngine_proofs` | theorems about the engine's disk, answers and publication |
| `EngineReplay_proofs` | theorems about the engine that look inside the events: replay, projections, stories of threads, the refinement |
| `DataInduction` | induction over numbers as a theorem about sets, for proofs about recursive functions |
| `MessageQueue` | the pure operators of the TUI's queue (messageQueue.ts) and its two decisions: when the head is dispatched, when a dispatched entry is complete or lost |
| `QueuedSend` | one thread's messages: TUI, transport, network and as much of the server as the client can tell apart |
| `QueuedSend_proofs` | theorems about the queue's operators and `QueuedSend` |
| `TurnFlow`, `MCTurn` | command reactor, ingestion and provider sessions: what becomes of requested turns, of the session a thread shows, and of the reply's text |
| `CheckpointFlow`, `MCCheckpoint` | checkpoint reactor and store, the ingestion's placeholders, the two projections of a checkpoint, revert |
| `ClientSync` | push bus, welcome, coalesced snapshot refresh and transport of one client |
| `TurnFlow_proofs` | theorems about `TurnFlow` |
| `CheckpointFlow_proofs` | theorems about `CheckpointFlow` |
| `ClientSync_proofs` | theorems about `ClientSync` |
| `TerminalManager`, `MCTerminal` | the terminal manager with its shells, locks, timers and history files |
| `TerminalManager_proofs` | theorems about `TerminalManager` |

`QueuedSend` does not compose `OrchestrationEngine`: a turn-start request is a
command the engine accepts, appends and answers in one step (`Handle`) or refuses
(`HandleFails`). Every attempt has a command id of its own, so the engine's
receipts never come into play, and what it does inside a command is what
`OrchestrationEngine` is about.

The modules meet at their edges. `CommandLog`, which the engine is checked to
implement, is why `TurnFlow`, `CheckpointFlow` and `ClientSync` may take a
dispatch for one step that records an event and publishes it in order.
`QueuedSend` ends where a turn start is recorded and takes the life of the turn
in outline; `TurnFlow` begins there and has it in detail, for several threads.
`CheckpointFlow` takes turns and their events as `TurnFlow`'s providers tell them
and adds the third worker. `ClientSync` justifies what `QueuedSend` takes for
granted, that a snapshot is shown some time after each event.

### State of the engine

| Variable | In the code |
|---|---|
| `log` | rows of `orchestration_events`; an event's `sequence` is its position |
| `receipts` | `orchestration_command_receipts` |
| `cursor`, `applied` | `projection_state.last_applied_sequence`, and what each projector's tables hold |
| `pc` | the step the process is at: `down`, starting (`bootstrap`, `load`) or serving (`idle` and the steps of `processEnvelope`) |
| `readModel`, `queue`, `cur`, `startSeq` | `readModel`, `commandQueue`, the envelope being processed, `dispatchStartSequence` |
| `tx`, `err` | the open transaction (events to append, appended, the next read model, the receipt) or a reconciliation's replay; the reason of failure |
| `outbox`, `published`, `bootLength` | events still to publish, published since the start, log length at the start |
| `boot` | which projector the bootstrap is at and how many events of the stream it has read |
| `requests`, `answers` | every `dispatch` call and what it has returned |
| `budget` | bounds, not in the code |

### Actions of the engine

| Action | Code (`OrchestrationEngine.ts` unless said) |
|---|---|
| `Restart`, `BootstrapEvent`, `BootstrapNextProjector`, `BootstrapDone` | `projectionPipeline.bootstrap`, `bootstrapProjector`, `readFromSequence` |
| `LoadEvent`, `StartWorker` | fold of `eventStore.readAll()`, fork of the worker |
| `Dispatch` | `dispatch`: a Deferred and a place in the queue |
| `TakeEnvelope`, `AnswerFromReceipt`, `DecideCommand` | receipt lookup, decision |
| `AppendEvent`, `ProjectAppended`, `WriteReceipt`, `Commit` | the body of `sql.withTransaction`, step by step |
| `InstallReadModel`, `PublishEvent`, `AnswerAccepted` | after the commit |
| `StoreFault` | any store call fails; an open transaction rolls back |
| `ReadPersisted`, `ReplayPersisted`, `InstallReplayed`, `ReconcileFault`, `ReconcileDone` | `reconcileReadModelAfterDispatchFailure` |
| `WriteRejectedReceipt`, `AnswerFailed` | the error path; a failed write of the rejected receipt is swallowed |
| `Crash`, `Upgrade` | the process dies; a release adds a projector with an empty table |

A transaction's rows reach the disk variables in `Commit`; until then they are
in `tx`, so a fault or a crash at any of its steps loses all of them, which is
what SQLite does. `Transactional = FALSE` models the other store the
repository knows: the engine's own tests run it over an event store whose
append survives a failed transaction, and the reconciliation exists for it.

### State of `QueuedSend`

| Variable | In the code |
|---|---|
| `queue` | `queuedMessages` of the thread: message, status, `turnRunningSeen`, and for `dispatchedAt` the number of replies older than it |
| `backoff` | entries whose next retry time (`queueRetryRef`) is not reached |
| `composer` | `sendPrompt` between its awaits: the settings, then the turn |
| `view` | the thread in the snapshot the TUI shows: persisted user messages, whether `isThreadSessionActivelyWorking`, replies |
| `state`, `pending`, `outbound` | `WsTransport`'s state, unsettled requests, `outboundQueue` |
| `calls` | what each request asks for |
| `wire`, `answers`, `snapshot` | frames between the two ends |
| `inbox` | requests whose fibers have not reached the engine |
| `turns` | recorded turn starts, each requested, running, done or lost with its process |
| `session`, `active`, `alive` | the thread's recorded session and `activeTurnId`; whether the provider's process runs |
| `written`, `deferred`, `cancelled`, `moved` | messages written, and what the user did with them (history) |
| `budget` | bounds, not in the code |

### Actions of `QueuedSend`

| Action | Code |
|---|---|
| `WriteQueued`, `WriteDirect`, `SendDirect`, `SettingsFail` | `sendPrompt` in `ui.tsx` |
| `CancelQueued`, `MoveQueued` | the queue's keys in `ui.tsx` |
| `Pump`, `BackoffOver` | the queue pump's effect and retry timers |
| `ReadSnapshot`, `ShowSnapshot`, `Expire` | `refresh` and the reconciliation, the valve among it |
| `Open`, `Close`, `Retry`, `Suspend`, `Resume`, `Timeout`, `Answered` | `wsTransport.ts` |
| `Receive`, `Handle`, `HandleFails` | `wsServer.ts`: frames come in order, each is handled in a fiber of its own |
| `StartSession`, `StartTurn`, `FailTurn` | `ProviderCommandReactor.ts`, and the ingestion of `turn.started` |
| `SessionReady`, `EndTurn`, `ProviderExits` | `ProviderRuntimeIngestion.ts`: the session's lifecycle |
| `Crash` | the server's process dies and is started again |

A failed promise is handled where it fails: `Reject` is part of `Close`,
`Suspend`, `Timeout`, `Answered` and `Crash`, because the catch of the pump runs
before the TUI does anything else.

### `TurnFlow`

| Variable | In the code |
|---|---|
| `owner` | the thread of each turn requested (`thread.turn-start-requested`) |
| `shown` | `thread.session` in the read model: status and `activeTurnId` |
| `reply` | the turn's assistant message: text, and whether `streaming` is over |
| `commands` | the queue of `ProviderCommandReactor`'s worker, and what it does between two awaits |
| `bound` | threads with a row in `ProviderSessionDirectory` |
| `provider`, `output` | the adapter's session of each thread: running turn, turns given to it; what the provider has said in each turn |
| `ingestion` | `ProviderRuntimeIngestion`: runtime events, turn starts to read the delivery mode from, the event in hand with the thread read for it, `assistantDeliveryModeRef`, `bufferedAssistantTextByMessageId`, messages open per turn |
| `past`, `budget` | history for the properties; bounds |

| Action | Code |
|---|---|
| `RequestTurn`, `RequestStop` | events of `thread.turn.start`, `.turn.interrupt`, `.session.stop`, `.runtime-mode.set` |
| `TakeStart`, `StartSession`, `Bind`, `Send` | `processTurnStartRequested`, await by await, into `ProviderService.startSession`, `sendTurn` and session recovery |
| `TakeRestart`, `TakeInterrupt`, `TakeStop`, `SetStopped` | the other handlers of the reactor |
| `Speak`, `EndTurn`, `Exit` | what adapters tell (`ClaudeAdapter.ts`, `codexAppServerManager.ts`), and a session that ends by itself |
| `Remark` | what a session tells besides: its state, the start of its thread, an error with or without its turn (`CodexAdapter.ts:1236-1266`) |
| `TakeMode` | the ingestion's handler of turn starts: one delivery mode for all threads |
| `ReadLifecycle`, `ApplyLifecycle` | the seven events that set the session shown (934-1010, 1164-1191): the thread is read, then the session set and messages closed |
| `TakeDelta`, `TakeItem` | text buffered, spilled or streamed; `finalizeAssistantMessage` |
| `Crash` | the process dies with sessions, queues and buffers |

### `CheckpointFlow`

| Variable | In the code |
|---|---|
| `provider`, `files`, `refs` | the adapter's session and conversation; the work tree; `refs/t3/checkpoints/...` |
| `memory`, `database` | `thread.checkpoints` and the active turn in the read model; the rows of `projection_turns` |
| `ingestion` | runtime events of `ProviderRuntimeIngestion`, and the placeholder it has numbered |
| `reactor` | the two streams of `CheckpointReactor`, and what its worker holds between two awaits |
| `past`, `budget` | history for the properties; bounds |

| Action | Code |
|---|---|
| `RequestTurn`, `StartTurn`, `Edit`, `EndTurn`, `RequestRevert` | user and provider |
| `IngestLifecycle`, `IngestDiffRead`, `IngestDiffRecord` | the ingestion's session guard and its placeholder, numbered before an await and recorded after it |
| `TakeBaseline`, `CaptureBaseline` | `ensurePreTurnBaseline...` |
| `TakeCompletion`, `TakePlaceholder`, `CaptureFiles`, `RecordCapture` | `captureCheckpointFrom...`, `captureAndDispatchCheckpoint` |
| `TakeRevert`, `RestoreFiles`, `RollbackConversation`, `DeleteRefs`, `CompleteRevert` | `handleRevertRequested`, await by await, each of which may fail; refs are deleted one by one |
| `CaptureFails`, `TellRefused`, `RevertFails` | the activities that tell of a failure, whose dispatch may fail as well and is then swallowed or only logged |
| `Crash` | the process dies; no worker is fed what it missed |

### `ClientSync`

| Variable | In the code |
|---|---|
| `version` | events recorded, all of them in a snapshot read now |
| `bus`, `admitted` | the push bus's queue; whether the current socket is welcomed and in `clients` |
| `toServer`, `handled`, `toClient` | requests and pushes on the socket; requests in a fiber of their own |
| `socket`, `connection`, `outbound`, `pending`, `lastId` | `WsTransport`: state, socket generation, `outboundQueue`, the one snapshot request open |
| `again`, `timer`, `subscribed`, `greeted`, `view` | `pendingReason` of the coalesced refresh, `refreshTimer`, the listeners, the welcome replayed to them, the version shown |
| `budget` | bounds |

Every action is one callback: `Commit`, `Push`, `Admit`, `Read`, `Answer` of the
server, `Open`, `Close`, `Reconnect`, `Suspend`, `Resume`, `Fail` (timeout or
refusal), `TakePush`, `TakeAnswer` of the transport with all the TUI does in it,
`RetryNow` of the refresh timer, and `Crash`.

### `TerminalManager`

| Variable | In the code |
|---|---|
| `mgr` | the manager: the `sessions` map with its order of use, session objects, shells, kill timers, the poll's timer, histories waiting for their debounce (`pending`), being written (`writing`), and written on although the map has forgotten them (`detached`) |
| `disk` | history files |
| `waiting`, `job` | `threadLocks`: calls queued, and the await the holder is at |
| `checks` | answers the poll in flight waits for |
| `deleted`, `unsaved`, `budget` | history; bounds |

| Action | Code |
|---|---|
| `Request`, `Refused`, `OpenNew`, `Reopen`, `Attach`, `Restart`, `Clear`, `Close` | calls, and their first part under the lock |
| `FlushPending`, `FlushDone`, `ReadHistory`, `Cleaned`, `Spawned`, `DeleteHistory` | what they do after each await |
| `Output`, `Exit`, `Terminate`, `Kill` | shells, and SIGKILL after the grace period |
| `PersistTimer`, `WriteLands`, `DetachedWriteLands` | debounced writes |
| `SpawnedDeaf`, `KillFails`, `ReadFails`, `WriteFails`, `DeleteFails` | a shell whose kill throws, a SIGKILL that throws, and files that cannot be read, written or removed: all but a read are only logged |
| `Poll`, `Answer` | `pollSubprocessActivity` |
| `Dispose` | the server shuts down |

### Abstractions in the engine

* Titles, models, branches, messages and timestamps decide nothing and are left
  out. Turns, sessions and checkpoints are the subject of other modules.
* `Body` gives a command id its command for good. The code does not force a
  client to do so; both clients make a new id per command (`newCommandId`).
* The nine projectors of one event run in the engine's transaction, so their
  rows are written at `Commit`, all with the same cursor; a failure of one of
  them is a `StoreFault` at `project`.
* A command yields one or two events in the code as it is; `ReadLimit >= 2` is
  assumed because the reconciliation reads at most `ReadLimit` events.
* A defect (a thrown exception, not a typed failure) inside `processEnvelope`
  is not modelled: `Effect.catch` does not see it and it would end the worker.
* Reads (`getReadModel`, `readEvents`) change nothing; that a reader may come at
  any moment is why the invariants speak about every state.
* `EngineAssumption` says of the constants what the code says of its commands: a
  project's command names no thread (`packages/contracts`), and the numbers are
  numbers.

### Abstractions in `QueuedSend`

* One thread. Texts, attachments and dispatch settings decide nothing; editing a
  queued text is left out. The user does not change provider, model or mode
  between messages (that would restart the session), and does not interrupt or
  stop a turn.
* The user acts only when the pump has nothing to do (`~PumpDispatches` in
  `User`): React runs the effects of a render before the next key press.
* A frame that was sent before a disconnect is lost or received: `Receive` may come
  before the disconnect, and `Handle` any time after it.
* A reply counts as newer than a dispatch exactly when it is. The code compares the
  server's `createdAt` with the TUI's `dispatchedAt`, two clocks on what may be two
  machines (`HasRun`): the model takes them as synchronised. With a server whose clock
  is behind, a turn that came and went between two snapshots would not be noticed;
  with one that is ahead, an old reply would count.
* Clocks are steps. The valve (120 s) opens only once the request's own promise is
  settled (60 s); a retry delay ends at any time. `seen` is sticky as in the code.
* A snapshot holds the thread as it is when the server reads it. `refresh` runs one
  request at a time; a snapshot equal to the one shown changes nothing.
* `running` of a view is `isThreadSessionActivelyWorking`: a starting session, or a
  running one with its active turn.
* Which providers report `starting` is the constant `ShowsStarting` (Codex does).
  `TurnsSucceed = FALSE` lets a turn be refused, or end without an assistant reply.
* `Patient` restricts the user, not the program: a direct send only when the earlier
  messages are done and shown as done.

### Abstractions in `TurnFlow`

* A dispatch is one step, and the workers' dispatches do not fail, but for the
  reactor's `thread.session.set` (`Bind`): the ingestion logs a failed one and goes on
  with the next event (`processInputSafely`), so after it the thread shows what was
  shown before. Two awaits of a worker are two steps.
* A turn has one reply of numbered pieces. Models, plans, approvals, user input,
  titles, branches and activities are left out. Nothing asks for a turn twice, so
  the cache of handled turn starts (`hasHandledTurnStartRecently`) never strikes.
* A provider runs one turn at a time. What it does with a turn given to it while one
  runs differs: the model holds the turn back until that one ends; Claude ends the
  running one first (`ClaudeAdapter.ts:2962-2966`), which is `EndTurn` and then `Send`.
  OpenCode drops the running one without a word (`OpenCodeAdapter.ts:1196-1216`), and
  its interrupt tells `turn.aborted` (`:1266-1285`), which the ingestion does not handle:
  both leave a turn that never ends, and are not modelled. A prompt that OpenCode
  refuses is (`GivesBack`).
* Whether an adapter ends the turn before it says that a session exited is a choice
  (`Farewell`), because adapters differ. `session.exited` of a session that is closed is
  taken to be told always, and a session that fails to start to tell nothing.
* A session tells a state at any time, by `session.state.changed`; no adapter tells
  "stopped" or "interrupted" with it. Codex tells the start of a session by this event
  too, which is the `session.started` of the model.
* Events of a turn name it, as does an error, or else the error names none; an error of
  a turn that has ended, a completion without its turn (`ClaudeAdapter.ts:1462`), the
  turns Claude starts by itself (`:1898-1940`) and what Codex writes after its process
  has exited are left out.
* A turn start restarts a session that is shown whenever the model likes (`TakeStart`):
  the modes, models and options that decide it (`ProviderCommandReactor.ts:326-392`)
  are not modelled.
* `MaxBacklog` limits how far the provider runs ahead of the ingestion while a
  turn runs, and the turn starts the ingestion has not read; what ends a session
  is told regardless.

### Abstractions in `CheckpointFlow`

* One thread in a git workspace. Files are the set of the edits they hold; commits,
  diffs and paths are left out, so is the limit on checkpoints per thread.
* Whether a provider tells of an edit (`turn.diff.updated`) is a choice.
* The user is at most one turn ahead of the provider, and the provider at most
  `MaxBacklog` runtime events ahead of the ingestion (which may have read one more).
* A git command that fails may have changed the work tree already.
* The checks of a turn start, of a completion or of a revert that read git before they
  write (`isGitRepository`, `hasCheckpointRef`) read in one step with the thread; the
  workspace stays a git repository.
* Where telling of a failure fails with what it tells of, that is one trouble and not
  two: it is the case of a store that takes nothing for a while.

### Abstractions in `ClientSync`

* One client: clients share nothing but the bus. One request at a time, because
  the coalesced refresh is the only one that matters here; all other requests of
  the transport are left out.
* A snapshot is a version number: what is recorded when the server reads it.
* `Push` finds the socket of a welcome by its generation (`connection`).

### Abstractions in `TerminalManager`

* Text is a sequence of numbered lines; sizes, environments, exit codes and events
  to clients are left out, and so are `write` and `resize`, which only pass data
  to a shell, and the reading of history files of an older format.
* A working directory that differs and an environment that differs do the same to
  a session (`openMoved`); an operation may be refused at its start whatever its
  arguments.
* Reading a history file and writing it back cut down to the limit (`readHistory`)
  is one step: no session writes to that file meanwhile. If either fails, so does the
  `open`.
* Whether a shell's `kill` will throw is chosen at the spawn (`SpawnedDeaf`). On Windows
  the server uses node-pty (`serverLayers.ts:56-58`), whose `kill` takes no signal there:
  every shell is then such a shell.
* A write that fails leaves the old file or an empty one, since `writeFile` truncates
  first; a longer text of which only a part was written is left out.
* An exception after the spawn, out of a listener of the manager's events
  (`Manager.ts:661-671`), is left out; so is the order in which two sessions of the same
  millisecond are evicted (`:805-810`): the model has every change at a time of its own.
* `TerminalAssumption` asks that limits are at least one, and that `None`, the mark for
  "no history", is not a history.

## 3. Runs

| Run | Question | Bounds |
|---|---|---|
| `engine` | Do retries, a store fault, a crash and an upgrade leave one whole, ordered, durable history, with read model, projections and subscribers in step? Does the engine implement `CommandLog`, and does every call return or lose its process? | 3 command ids (one with two events), 4 calls, 2 projectors, 1 fault, 1 crash, 1 upgrade |
| `engine_flaky` | Does the reconciliation catch up with a store that kept a failed command's events, and is each decision taken on the state the log is in? | 6 command ids that conflict with each other, 4 calls, 1 fault, 1 crash, `Transactional = FALSE` |
| `engine_upgrade` | *violation:* does the bootstrap bring a new projector up to date? | `ReadLimit = 2`, 4 events |
| `queued_calm` | Is a queued message one turn, in its place, and does the barrier hold until that turn has ended? | 4 messages, 4 requests, 1 move, 1 provider exit, `Patient`, nothing lost |
| `queued_trouble` | Does a queued message survive everything the network, the timers, the provider and the server do? | 2 messages, 3 requests, one each of loss (close, timeout, refusal or failed settings), valve, move, suspend, provider exit, crash; `ShowsStarting` |
| `queued_live` | Does every queued message leave the queue? | 3 messages, 4 requests, 1 loss, any user |
| `queued_twice` | *violation:* does a lost connection leave it at one turn? | 2 messages, 1 loss |
| `queued_stuck` | *violation:* does the valve free a blocked queue? | 2 messages, 1 crash |
| `turns` | Is the session shown the provider's, does each reply arrive whole and in order, is each request answered? | 2 threads (symmetric), 2 turns on either, 2 pieces, 1 interrupt, stop or restart, 1 trouble (exit, failure, crash, or a state or error told), backlog 1, buffer 1; `StopsAlone` |
| `checkpoints` | Do refs, files, conversation and both projections stay in step? | 2 turns, the second interrupted, 2 edits, 1 revert, 1 failure (with or without that of its telling) or crash, backlog 1 |
| `terminals` | Are shells reachable, histories on disk, the map within its limit? | 2 terminals in 2 threads (symmetric), 3 operations, 1 piece of output, 1 poll, 1 dispose, 1 failing kill, read, write or removal, limits of 1; `FaultsAlone` |
| `client_sync` | Does a client miss an update, go back, or stay behind? | 2 events, 2 losses (socket, request or server), 1 suspend |

**Engine.** The bounds let each interesting case happen: an id can be sent while its
first dispatch is queued, running, failed, or answered; the fault may hit any step
of either of a turn start's two events; the crash may come before, inside or after
it, and during startup. A second fault or crash meets a state one of them can
already produce; the theorems of section 5 do not have these bounds.

In `engine`, `ReadLimit` is not smaller than the longest log (four events), as
the code's 1000 is meant to be; `engine_upgrade` shows what happens when it is.
`engine_flaky` allows one fault: a second one, during the reconciliation, makes
the code go on with a stale read model after a warning, by design.
That a refusal is final, and that log and receipts only grow, is part of the
refinement: `CommandLog` settles a command once, and its log only grows.

**Queue.** Four messages let one run, one be dispatched and two wait, so that order,
moves and cancelling in the middle all occur. What `queued_calm` leaves out is left
out because the property is then false, for reasons worth knowing:

* A loss makes `OneTurnPerMessage`, `BarrierHolds` and `CancelledNeverRuns` false:
  a request that failed for the client may still be handled (`queued_twice`).
* A user who is not patient makes `NotOvertaken` and `BarrierHolds` false: a direct
  send does not look at the queue, so a message typed while the head is dispatched
  and its turn has not started passes those that wait.
* A session shown as starting makes `BarrierHolds` false: a session that is starting
  counts as working (`packages/client-core/src/sessionLogic.ts:148`), so after a
  provider exit the next dispatch is seen starting, then ready, and its entry is
  completed while its turn is still to start, against what `messageQueue.ts:41`
  says of the barrier. `queued_calm` therefore has `ShowsStarting = FALSE`, as with
  the providers that report no start.

In `queued_trouble` one of each mishap is enough for all pairs: a loss during the
suspend, the valve after a lost answer, a crash with a request in the inbox.
`NothingLost` and `TypeOK` are also proved, without bounds.

In `queued_live`, `MaxCalls` leaves one request more than there are messages, which
is what the one loss can cost. The valve stays closed there (`MaxExpiries = 0`): when
turns succeed, no entry needs it. When the provider refuses a turn, the message is
sent again after each valve, without end; that is a hazard in `PROJECT.json` and
no run.

**Turns.** Two threads are the least at which a delivery mode strikes another
thread's reply; two turns the least at which a late event, a queued turn, a cut and a
stale active turn occur. The runs of a thread share one reactor and one ingestion, so
the second thread also stands for what delays a worker. One stop and one trouble meet
at every step of both workers, with two restrictions that keep the run within minutes
(the constraint `StopsAlone`): a run with a stop has no error or state that is told, and
one with a stop and a trouble has replies that are buffered and of at most one piece. The
theorems of section 5 have them all together. The properties except what really goes wrong, each
exception a set in `past` that an action fills where the damage is done:

* `stale`: a thread that showed a session when the process died goes on showing it,
  and a turn left active there makes the ingestion ignore every later turn. The same
  becomes of a turn that was told to have started and then given back (`turn.aborted`).
* `disowned`: an error without a turn, such as a fatal line Codex writes to stderr
  (`CodexAdapter.ts:1253-1266`), sets status "error" and no active turn although the
  turn runs on. The thread shows no turn until the next; what that turn still says
  arrives all the same.
* `claimed`: a thread whose session told a state may be shown as running, or waiting,
  without a turn, for so the session said.
* `ignored`: between the start of a session and its showing, a stop finds nothing to
  stop, is recorded as done, and the session then shows up again (`StoppedIsLag` says
  that this time is the only one).
* `switched`: a turn start on any thread that asks for streaming makes pieces of
  another thread's reply overtake what is buffered of it.
* `cut`: a session that ends with its turn takes buffered text with it
  (`clearTurnStateForSession`), also when the reactor starts it anew because the
  thread looks stopped.
* `lost`: the reactor is fed from the live stream of events; a turn requested and not
  sent when the process dies is never sent and nothing says so.

An interrupt names the session and not the turn: `TakeInterrupt` ends whatever turn
runs when the worker gets to it.

**Checkpoints.** Two turns, one of them interrupted (whose capture is a placeholder
by status), two edits, and a revert to either or to the start; with one crash, or one
failure: of a git command of a capture, a restore or a deletion of refs, of the rollback
of the conversation, or of a dispatch of either worker, a dispatch that tells of a
failure among them. Reads of git and of the thread do not fail. The exceptions:

* `untold`, `lost`, `orphaned`: the failure of a capture or a revert is told in an
  activity; when that dispatch fails too, it is swallowed (`CheckpointReactor.ts:572`
  to `:639`, `:720`, `:741`) or logged (`:753-765`). And what a crash finds unfinished, a
  revert half done or a placeholder, nothing takes up again. `NothingLeftOpen` says that
  nothing else is left open, and counts: a revert is recorded, told or lost, once.
* `parted`: a placeholder that comes after its turn's capture is ignored in memory and
  overwrites the row in the database; and two turns that got one count (both workers
  number from a thread read before an await) stay two in memory and one in the
  database.
* `early`: the reactor captures on the placeholder's event, which may come in the
  middle of the turn; the completion then finds a capture and takes none, so the
  checkpoint lacks the rest of the turn's edits. The comment at
  `CheckpointReactor.ts:388` calls that capture "a real git checkpoint"; the one at
  `:342` has the completion skip on it.
* `deleted`: a revert deletes the refs before it is recorded; if that fails, the
  thread lists checkpoints that cannot be restored.
* `calm`: a revert reads the thread once and then awaits git, the provider and git
  again. It is whole if checkpoints and conversation were in step when it began, no
  turn began or edited meanwhile, and no placeholder was recorded with an outdated
  number (`CountsFor`). That last one can happen: the ingestion reads the thread,
  another turn's capture is recorded with the number it chose, and the placeholder
  lands during the revert in place of a capture whose status is "missing" (an
  interrupted turn), with a number the revert keeps.

**Client.** Two events and two losses let an event be pushed between a client's welcome
and its admission, during a refresh, and while the socket is down, with a second loss
at any time after the first; the theorems of section 5 have no bounds.

**Terminals.** Limits of one make eviction and the cap of a history happen with two
terminals. Three operations allow a close with delete, an open and a restart in any
order on one or both, with output, an exit, a poll and the timers between their steps.
The exception `untimely` is a session evicted while an operation holds it or its
history is on its way: `evictInactiveSessionsIfNeeded` takes a session that is
`starting` for an inactive one, so with 128 inactive terminals an open may lose the
session it is spawning a shell for, and that shell is out of reach of `close`. `dispose`
forgets the kill timers, so a shell that ignores SIGTERM outlives the server (the last
disjunct of `NoStrayProcess`). A shell whose `kill` throws is let go of before it is
signalled and not tried again (`Manager.ts:734-777`), nor after a SIGKILL that throws
(`:781-791`): `NoStrayProcess` says that these ("missed") are the only ones. A write or
removal that fails is only logged, so `HistoryReachesDisk` excepts a terminal whose last
write failed (`unsaved`), and counts a history as deleted when its file was removed. The
constraint `FaultsAlone` keeps the run within minutes: a run with a failure has at most two
operations, no poll and no disposal. The theorems of section 5 have them together.

Every property has a mutant in `PROJECT.json`: an operator beside the original
that changes it the way a plausible bug would and that makes the run fail. Those
operators (marked *Mutant* in the modules) are used by nothing else.

### Fairness

`engine`: weak fairness of the worker, whose fiber runs `Effect.forever` and
whose steps are always enabled while it has something to do, and of startup, because
the supervisor (`apps/tui/src/serverSupervisor.ts`, or `deploy/systemd`) starts a
server that exited. Nothing is assumed about callers, faults or crashes.

`queued_live` and `queued_stuck`: weak fairness of each step of client, network and
server. Effects and timers of the TUI run, the valve's among them, the reconnect timer
fires, frames that are not lost arrive, fibers run on, and a turn the provider runs
ends. The user and the rest of the trouble are under no obligation. That `EndTurn` is
fair is the one assumption about the outside: an agent that never ends its turn keeps
the queue waiting, as it should.

`client_sync`: weak fairness of each step of the push bus, the request fibers, the
socket's delivery and opening, the reconnect timer and the refresh timer: sockets that
stay open deliver, fibers run on, timers fire. Commits, losses, suspends and the user's
resume are under no obligation; `KeepsUp` therefore lets a suspended client be behind.

The other runs check safety only.

`CHECK_DEADLOCK FALSE`: once the bounded calls are answered, or the last message's
turn has ended, nothing is left to do, as in the program.

## 4. Findings

**`engine_upgrade`.** `ProjectionPipeline.ts` says it bootstraps "by replaying
persisted events" and "resumes each projector from its stored projection-state
cursor" (`orchestration/Services/ProjectionPipeline.ts:20`, `:22`).
`bootstrapProjector` calls `readFromSequence(cursor)` without a limit, and its
default limit is 1000 events. A projector further behind than that (a release
that adds one to a server with a long history) stays behind after the bootstrap;
the next live event moves its cursor to that event's sequence, and the events in
between are never projected. The trace shows a server serving commands while
projector 1's cursor is at 2 and the log has 4 events.

**`queued_twice`.** `.plans/termweave-vps.md:37` asks for reconnection "without
duplicating messages". The pump makes a new command id for every attempt
(`ui.tsx:10577`), so the engine's receipts, which exist for this, do not recognise
the second one. A socket that closes between the server's receipt of a request and
the arrival of its answer makes the message two turns.

**`queued_stuck`.** `ui.tsx:10510` promises that a stuck dispatch is given up "instead of
blocking the queue forever". The valve does not open while the thread is shown as
running; a session that was running when the server died is read back as running,
and nothing resets it at startup, so the queue waits for a turn that no longer
exists.

## 5. Proofs

### Engine

`OrchestrationEngine_proofs` proves, for every set of command ids and commands,
any number of projectors and any bounds:

| Theorem | Property | Assumes |
|---|---|---|
| `TypeOKHolds` | `TypeOK` | |
| `ReceiptsAlwaysMatchLog` | `ReceiptsMatchLog` | `Transactional` |
| `AtMostOnce` | `AppliedAtMostOnce` | `Transactional` |
| `TurnStartsAreWhole` | `TurnStartIsWhole` | `Transactional` |
| `HistoryNeverChanges` | `HistoryIsImmutable` | `Transactional` |
| `AcceptedAnswersStayTrue` | `AcceptedAnswersAreDurable` | `Transactional` |
| `PublicationFollowsLog` | `PublishedInLogOrder` | `Transactional` |

They also use `NoneAssumption` and `EngineAssumption`, which TLC evaluates in
every run.

The argument is one tower of inductive invariants:

1. `TypeInv` = `TypeOK`, and three facts without which a step would leave the
   types: a request is being processed between `TakeEnvelope` and the answer
   (`CurInv`), something is left to append where `AppendEvent` is enabled
   (`TodoInv`), and answers fit requests (`FitInv`).
2. `PositionInv`: where the in-memory sequence stands relative to the log at each
   step. Between commands they are equal; after the commit the log is ahead by
   the transaction; the transaction's model is ahead of the read model by what it
   has appended. Over a rolled-back store a reconciliation therefore reads
   nothing.
3. `LedgerInv`: what the open transaction holds is what the command's decision
   gave (`Planned`), split into done and still to do (`Splits`), and from the
   decision to the commit the command has no receipt.
4. On `BaseInv` (1 to 3), each property is inductive with a small addition:
   `ReceiptsMatchLog` by itself, `AppliedAtMostOnce` and `TurnStartIsWhole` from
   it, `AnswersInv` for answers, `DeliveryInv` for the outbox.

`EngineReplay_proofs` goes on with what the events say:

| Theorem | Property | Assumes |
|---|---|---|
| `MemoryIsReplay` | `ReadModelIsReplay` | `Transactional` |
| `ProjectorsKeepUp` | `ProjectionsComplete` | `Transactional`; an invariant under `CaughtUpByOneRead` |
| `StoriesArePossible` | `LifecycleRespected` | `Transactional` |
| `EngineImplementsCommandLog` | `ImplementsCommandLog` | `Transactional` |

* `Replay` is a recursive function. `DataInduction` proves, from the library's
  well-founded order of finite sets, that a *set* which has 0 and each successor has
  every number; with it the function is shown to exist (`ReplayExists`), to have one
  value, to start empty and to take one event per entry, and to depend on no entry
  behind the one it replays to. That is all later steps use of it.
* `ReplayInv`: at each step of `processEnvelope`, of loading and of a
  reconciliation, the read model, the transaction's model and the replayed model are
  each the replay of the part of the log they stand for.
* `ProjectionInv`: a projector has applied exactly what its cursor says, the
  projectors a bootstrap is done with are at the end of the log, and so are all of
  them as long as no release added one. `CaughtUpByOneRead` says that none did, or
  that the log still fits one read of the bootstrap; without it the property is
  false, which is the finding of `engine_upgrade`.
* `LifecycleRespected` is inductive only because a decision is taken on the state
  the log is in (`ReplayInv`); `Tells` relates what the read model says of a thread
  to the events of its story.
* The refinement maps `state` to the replay of the log and `settled` to the receipts.
  `WaitInv` is what it needs besides: a request in the queue or in hand waits for its
  answer and is in one place, and a refusal under way is what the decider would still
  say. A commit is the step that takes effect, a written refusal the one that refuses,
  an answer the one that answers; every other step is shown to be invisible.

Only model-checked: liveness (`EveryDispatchSettles`), which needs `ENABLED`, and
the runs with `Transactional = FALSE`, where `ReadModelIsReplay` and
`PublishedInLogOrder` rest on the reconciliation; the theorems above assume a store
that rolls back, as SQLite does.

### Queue

`QueuedSend_proofs` proves, for any number of messages and any bounds:

| Theorem | Property | Assumed of the constants |
|---|---|---|
| `TypeOKHolds` | `TypeOK`, which says among other things that an answer on its way belongs to a promise that is open | nothing |
| `NothingIsLost` | `NothingLost` | nothing |
| `OneTurnEach` | `OneTurnPerMessage` | `NothingFails` |
| `CancelledStaysBack` | `CancelledNeverRuns` | `NothingFails` |
| `FirstComeFirstServed` | `NotOvertaken` | `Patient` |
| `BarrierStands` | `BarrierHolds` | `NothingFails`, `Patient`, `~ShowsStarting` |

`NothingFails` is the part of `queued_calm` that matters: no loss, no valve, no suspend,
no crash. Messages, requests, moves, provider exits and refused turns stay unbounded.
Each assumption is needed where it is made: TLC finds the property violated without it
(section 3 says how), and for `NothingFails` with any one loss, valve, suspend or crash.
`queued_calm` is an instance in which all of them hold.

They rest on `QueuedSendAssumption`, which TLC evaluates in every run, and on one
lemma for each operator of `MessageQueue` (`EnqueueKeeps`, `MarkKeeps`,
`RequeueKeeps`, `MoveKeeps`, `CancelKeeps`, `ReconciledKeeps`): which messages are
still in the queue afterwards.

`NothingLost` is not inductive: `Reconciled` drops an entry because a *view* has
its message, and a view may be old. `ViewTrue`, that a view, shown or on its way,
has only messages that are persisted, closes the gap, and three lemmas carry it:
what is persisted stays so (`PersistedGrows`), a view is what the server had
(`ViewsTravel`), and a step takes a message out of the queue only for the user or
for a view (`QueueKept`).

The other four rest on three invariants, the first and the last for what is left of
`Next` when nothing fails (`CalmSteps`):

* `OnceInv`. `OneTurnPerMessage` is about turns, but what could break it is a second
  *request*. `CalledOnce`: requests and messages correspond one to one, and only
  messages with a request have a turn. `Travels`: a request is in one place until it is
  handled, and its promise is open till then. `Apart`: a message is being composed, or
  waits in the queue, or was taken back, or has its request; an entry waits exactly as
  long as no request was made for it, which is why the pump does not take it twice and
  the cancel key does not take what was sent. The operators of `MessageQueue` are
  followed place by place for it (`MarkPlaces`, `CancelPlaces`, `MovePlaces`,
  `ReconciledPlaces`).
* `Known` and `InOrder`, for all of `Next`: what was not moved comes after all that
  stands before it, and no request was made for a message written after it. Failures do
  not disturb this. A message that goes back to waiting keeps its place, and it is the
  one the pump takes next, for the pump waits for its delay rather than pass it. A
  direct send is harmless because a patient user makes one only while the queue is
  empty, and it stays empty until that send is over.
* `BarrierInv`. A message is *aloft* from the direct send, or the pump's request, to the
  end of its turn. At most one is, and `Flight` says why the pump is held meanwhile: by
  its entry, or, when it was sent directly, by the view. The entry may leave only on
  evidence that its turn has run, so `Flight` also says what views can show: a running
  turn only once it runs, from then on nothing else, and no more replies than there
  were when it was dispatched. `Ground` is what that leaves behind when the turn ends: while
  the pump is free to go, no view on its way shows a running turn, which would let the
  next entry go at once. `Sessions` ties the session to the turn that runs, and
  `ViewsOld` keeps views from counting replies that were not made.

`QueueDrains` is liveness and only model-checked.

### Client

`ClientSync_proofs` proves, for any number of events, losses and suspends:

| Theorem | Property |
|---|---|
| `TypeCorrect` | `TypeOK` |
| `NothingMissed` | `QuietIsFresh` |
| `NeverGoesBack` | `ViewOnlyAdvances` |

They rest on `SyncAssumption` and one invariant, `Inv` (theorem `Invariance`):

* `WiresOK`: what is on a socket and in the push bus's queue fits the socket's state:
  nothing of a closed socket is left, a socket that is not admitted has its welcome
  before it.
* `RequestsOK`: the open request is in exactly one place, the outbound queue, the
  socket, a fiber or an answer on its way, and every number there has been used.
* `VersionsOK`: a snapshot on its way is not older than what is shown, if it answers
  the open request, and not newer than what is recorded.
* `FreshOK`: the reason why nothing is missed. A client that shows less than is
  recorded has something under way that will lead to another snapshot: an event on
  the bus or the socket, a welcome, a request not read yet, one more refresh asked
  for, a timer, or a socket that is not open.

`QuietIsFresh` is `FreshOK` where nothing is under way. `KeepsUp` is liveness and only
model-checked.

### Turns

`TurnFlow_proofs` proves, for any number of threads, turns, stops and troubles, and
any backlog:

| Theorem | Property |
|---|---|
| `TypeCorrect` | `TypeOK` |
| `RequestsGetAnswers` | `RequestsAreAnswered` |
| `LooksStoppedOnlyInLag` | `StoppedIsLag` |
| `FaithfulReplies` | `RepliesAreFaithful` |
| `ArrivingReplies` | `RepliesArrive` |
| `ShownSettles` | `ShownIsTrue` |

They rest on `TurnAssumption` and five invariants:

* `Typed` is `TypeOK` with the types of what it leaves open: the commands in the
  reactor's queue, the events of the providers' stream, the event in hand.
* `Answered`: a turn that was asked for is sent, told as failed, lost in a crash, or
  still with the reactor, in its queue or at hand. Where the workers are idle the
  last is impossible, which is `RequestsAreAnswered`. `TakeMoves`, `ThenMoves` and
  `FailsAnswers` say for each way a step hands the turn on that none is dropped.
* `LagInv`: `StoppedIsLag` is not inductive, because an exit that is still in the
  stream may yet hide a session that has started since. While a session lives, every
  exit the ingestion has still to read is followed by a start (`ExitsFollowed`); a
  live session that looks stopped has its start still to come (`StartToCome`); and a
  stop is shown only when it is done or was ignored (`StopIsDone`). `TellLag` and
  `ConsumeLag` say what telling and reading an event do to the first two.
* `ReplyInv`: what the ingestion has taken of a reply (`Taken`: its text and its
  buffer), followed by what the events still in the stream say of it (`Script`), is
  what the provider has said (`Flows`); or the turn is gone and nothing of it is on its
  way (`Over`). The script has the pieces in order and none missing, its item last, and
  nothing of the turn after its end or after the exit of its session: the ingestion
  closes or drops what it has of a turn at those two, so a piece behind one of them would be lost
  or shown twice. That nothing is behind them needs `Placed`, each turn at one place at
  a time, in the queue, at hand or in one session, and `Untouched`, nothing said of a
  turn that still waits. For `RepliesArrive`, `Closing` keeps for a reply that is begun
  and not cut that it is complete or that its end is still to come (`Due`). The
  `Script...` lemmas say what telling and taking one event do to the script; for each
  way the ingestion takes one (`DeltaReply`, `CompletedReply`, `ClearedReply`,
  `PassedReply`) a lemma carries that to the whole of a reply.
* `ShownInv`: `ShownIsTrue` speaks of a thread whose events are all read, and is not
  inductive, because what the next event does to the shown session depends on every
  event behind it. The events of a thread that are still in the stream are of two
  kinds: those that move its session (`Moves`), its starts and ends, those of its
  turns, and errors that name the turn; and remarks (`Remarks`), a state, a start of
  the thread, an error without a turn. The first form a story (`Chained`): each can
  happen where the one before it left the session (`After`, `Fits`), and the last leaves
  it where the provider has it (`EndsAt`). With none left the thread shows just that, or
  no turn where the running one is disowned (`Near`), and a session that is
  gone as stopped unless its thread is still bound or the reactor is about to show it
  (`Found`, `Settled`); with some, the shown active turn, and none as well, is one for which
  the first of them is not ignored (`Shows`, `StartShows`), and so is the one the
  ingestion has read for the event it holds between its await and its write (`Held`).
  That "none as well" is why a remark that clears the turn does no harm (`FitsShows`);
  `Remarked` says that it was told of a session that lives, and when nothing moves the
  session after it, that its turn is disowned, and `Worded` which statuses may
  go with which turn. `AtHand` says that a session the
  reactor is about to bind runs nothing and has nothing queued, `StoppedHasNone` that a
  thread shown as stopped has no active turn, and
  `LagInv` that an exit is not the last word on a session that lives. Telling an
  event makes the story longer at its end and reading one shorter at its start
  (`Leads`); that nothing else moves the shown session is proved action by
  action. A thread that showed a session when the process died or a turn given back
  (`past.stale`) or whose stop was taken for done too early (`past.ignored`) is left out,
  as in the property.

### Checkpoints

`CheckpointFlow_proofs` proves, for any number of turns, edits, reverts and troubles,
any backlog, and however each turn ends:

| Theorem | Property |
|---|---|
| `TypeCorrect` | `TypeOK` |
| `NoCountTwice` | `CountsDistinct` |
| `CapturesCanBeRestored` | `CapturedHaveRefs` |
| `ProjectionsStayTogether` | `ProjectionsAgree` |
| `NothingStaysOpen` | `NothingLeftOpen` |
| `CapturesHoldEveryEdit` | `CapturesAreComplete` |
| `CalmRevertIsWhole` | `RevertIsWhole` (an action property) |

They rest on `CheckpointAssumption` and one invariant, `Inv` (theorem `InvHolds`):
the first four properties, and what their steps need.

* `Typed` is `TypeOK` with the types of what it leaves open, above all of what the
  reactor's worker holds between two awaits (`WorkOfOp`).
* `EditsBounded`: the edits of a turn never exceed what has been spent of them.
* `RevertInRange`: until the conversation is rolled back, a revert goes to a turn
  that the thread it saw had, so that the number of turns to roll back is a number.
* `RecordHasRef`: what is about to be recorded has its ref. Between `update-ref` and
  the record nothing deletes it, because one worker does both.

The lemma `RecordKeeps` carries the projections: it compares a checkpoint that is
recorded in memory with the row that is written, case by case.

The last three have invariants of their own on top of `Inv`, each of which TLC also
checked on the run's instance:

* `OpenInv`: the reverts asked for are the settled ones, the lost ones, those in the
  reactor's queue and the one under way (`RevertsCounted`, a count of places in a
  queue); a turn has one checkpoint in memory; and a placeholder has an event in the
  queue that will replace it, or its capture is under way, or it is one of the excused
  (`PlaceholdersWatched`): told, untold or orphaned. A crash moves what is pending to the
  lost and the placeholders to the orphaned, and no more than that.
  `NothingLeftOpen` says what this comes to when the queues are empty.
* `TurnsBegun` and `CompleteInv`: what is told, queued, worked on or recorded is about a
  turn that has begun, so a turn that begins now has no capture that could miss its
  edits; and as long as no revert was asked for (by `RevertsCounted` none is then under
  way) the work tree has every edit, and so has every ref written from it.
* `CountsBounded` and `CalmInv`: how far a calm revert has come. The checkpoints it will
  keep are the turns it goes back to, one for one; the count it saw is the length of
  the conversation until it rolls back, and the conversation has its length after
  that; the files are the ref's once they are restored, and the refs it deletes are
  not that one. A placeholder the ingestion records in the middle takes the next
  number, which is above what the revert keeps because no count exceeds the largest
  (`CurrentIsLargest`, by induction over numbers), or the number its turn has.

### Terminals

`TerminalManager_proofs` proves, for any terminals and threads, limits of at least
one and any number of operations, outputs, polls and disposals:

| Theorem | Property |
|---|---|
| `TypesHold` | `TypeOK` |
| `NoProcessStrays` | `NoStrayProcess` |
| `RetentionIsBounded` | `RetentionBound` |
| `FilesCatchUp` | `HistoryReachesDisk` |
| `BusySaysItsOwn` | `BusyIsCurrent` |

They rest on `TerminalAssumption` and one invariant, `Inv` (theorem `InvHolds`), whose
conjuncts TLC also checked on the run's instance:

* `Well`: the manager by itself. The map lists a session once, and one per terminal; a
  session with a shell is in the map or its terminal is named in `untimely`; every
  running shell is some session's; a session that is not running has no shell and
  knows of no child process.
* `Bounded`, `Polled`: the limit on inactive sessions, and that a running session keeps
  the poll going.
* `Fits`: what an operation holds between two awaits is still there. Its session is
  in the map or named in `untimely`, and has no shell where one is about to be
  spawned; where it is about to create a session or to delete a file there is no
  session. This is the part the thread lock is for.
* `HistoryFit`: what a terminal's file will say once every write that was asked for
  has landed (`Latest`) is what its session shows; while an operation reads or deletes
  the file, and while it is deleted, nobody writes it.
* `Escalates`: as long as the manager is not disposed of, a shell that was told to go
  has its kill timer; one whose kill has thrown is not of those (`missed`).

The manager's functions call each other (`close` stops every session of a thread,
each of which may evict others), so each operator of the model has lemmas of its own:
that it keeps the manager `Well`, that it touches no other terminal (`Leaves`), how
session numbers, histories and timers move (`Leads`, `Moves`, `KeepsHistory`,
`Empties`, `Shows`), with an induction over the closed sessions for `Closed`. Steps of
no operation (output, exit, timers, poll, dispose) are then composed by `AloneKeeps`
and `WorksKeep`, steps of one by `StepKeeps`, which needs to look at its own thread
only.

### What is only model-checked

Liveness (`EveryDispatchSettles`, `QueueDrains`, `KeepsUp`), because the prover has no
`ENABLED`; and the engine over a store that does not roll back, with what its runs say
of it. Every invariant a passing run checks over the store the server uses has a
theorem.

## 6. Not modelled

* **Agents and their protocols.** What the programs behind the adapters do is theirs.
  The models have what an adapter tells the server, in which order, and when it ends.
  Section 2 says what `TurnFlow` leaves out of them.
  The Claude adapter's `startSession` replaces a session the thread has without
  stopping it (`ClaudeAdapter.ts:2458`); `TurnFlow` has the adapters that stop it.
* **Git operations, source control, text generation.** They drive `git` and `gh` and
  keep no state of their own between two calls.
* **Managed provider snapshots, maintenance.** A status that is out of date is replaced
  by the next refresh; nothing else depends on it.
* **Server supervisor, SSH tunnels.** Races between processes of the operating system:
  what a process does when it is signalled is not in this code.
* **Settings, keybindings, workspace entries, diagnostics, telemetry, secrets,
  deployment.** A file each, written whole; no two actors.
* **JSON-RPC packages.** One table of pending requests per child process, emptied when
  it ends. `generated` schemas are data.
* **The rest of the TUI.** Rendering, input and layout.
* **Message, activity and plan rows, attachment files.** Rows are written with their
  event in the engine's transaction, which is modelled; what they hold is not. The two
  hazards of `ProjectionPipeline.ts` without a property (attachment files deleted in a
  transaction that may roll back, the order of projectors in a bootstrap after a
  revert) need their contents.

## 7. What could follow

1. The rows a revert keeps, with the bootstrap's order of projectors.
2. Adapters that do not complete every turn they start: Claude's replaced sessions,
   OpenCode's dropped and aborted turns, errors that come after their turn.
3. `QueuedSend` with two clocks.
