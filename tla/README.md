# opslog: TLA+ specifications

Specifications of opslog, from the SDK inside an application to the reader in
front of the console; the TLC runs that model-check them; and TLAPS proofs of
every safety property. `PROJECT.json` maps every definition to the lines it
models; this file explains the whole. Paths are relative to the repository.

## 1. Inventory of the system

opslog is a log pipeline in two halves. An application embeds the **SDK**: a
logger feeds an agent's queue, workers send each signal over client transports.
The **server** has inputs that decode signals and dispatch them through a
pipeline into a queue; one goroutine writes batches to all outputs; a console
follows live and queries what is stored.

```
application -> guards, global agent (Integration)
   -> logger -> queue -> 2 workers (Agent) -> connections (ClientTransport) ~network~>
 inputs (Server) -> decode, normalize (Codec) -> Dispatch -> channel -> loop (Dispatcher)
                      \-> hub -> /api/tail (LiveHub)                      |
 console <- /api/signals <- Query (Search) <------ outputs, files (FileStore)
```

| Component (code) | State | Operations | Hard behaviour | What makes it correct |
|---|---|---|---|---|
| dispatcher (`server/internal/dispatcher`) | channel, batch, context | Dispatch, DispatchBatch, loop, Stop | callers race for the last slot; ticker, batch size and drain flush the same batch; cancellation with signals queued; outputs that fail in part; a Stop that times out | nothing lost, repeated or reordered between queue and outputs; an output's failure stays its own; shutdown drains and ends |
| pipeline, processors | none | Process | a verdict decides early; normalisation changes what was sent | the first processor that does not keep decides; a search by what was sent still finds it |
| server lifecycle (`server/run.go`, `internal/app`) | listeners, sessions | Start, Stop, Run, `/ingest`, `/stream` | SIGTERM ends the dispatcher's context before the inputs stop; one deadline for a chain of waits, some of which ignore it | sources stop before the dispatcher, outputs close last, what was accepted is handled, the process ends |
| inputs tcp, udp, grpc (`internal/input`) | listener, contexts, wait group | Start, handle, Stop | clients that are silent, stay or vanish | Stop ends |
| live hub (`internal/live`), `/api/tail` | map of channels under a RWMutex | Publish, Subscribe, cancel | channels closed while others publish; cancel twice; slow consoles | no send on a closed channel, ingestion never waits, no leak, order kept |
| SDK agent (`sdk/agent`) | queue, in-flight counter, contexts | log, worker, sendOne, fallbackSend, collectLoop, Sync, Close | signals between queue and counter; two workers that drain; transports that fail; signals enqueued after Close | counter exact, reliable signals try everything, what is queued is attempted, nothing is sent after Close, Sync and Close return |
| client transports (`pkg/transport`, `pkg/framer`) | one connection under a mutex; the pool of `http.Client` | Start, ensure / dial, Send, Close | two workers share a connection that one of them resets; a frame is two writes; connections that break unnoticed | frames stay whole, no connection leaks or at most a bounded number, a Send fails only over a connection that is broken |
| integration, panic middleware, policy (`sdk/integration`, `sdk/middleware`, `sdk/policy`) | process-wide agent under a sync.Once and a RWMutex; deferred calls | ConfigFromEnv, Init, Close, Main, Guard, GinRecovery, Recover, Do, the bridge of the standard log | a panic while another defer or goroutine closes the agent; an Init that fails | a panic is reported before its process dies of it, exit delivers, no agent is lost sight of, a request is answered once |
| filesystem output (`internal/output/filesystem`) | hot files, open handles, archives | Write, Close, Archive, ListArchives, Restore, prune, Query | Archive and Restore run beside writes; crash between steps; writes cut short | what was written stays readable, hot or archived; what is listed is there |
| mysql, clickhouse outputs | rows | Write in one transaction, Query in two statements | context cancelled during shutdown; rows written between count and select | all or nothing; an answer holds what was asked for, as far as the output honours it |
| framer, codec, decoders, query types, API parsing | none | pure functions | batches with a bad item; fields missing | nothing of a bad batch is stored; each filter finds what it should |
| console (`internal/web`) | page offset | search, next, previous | rows written between two pages | no old row is passed over |
| configuration, registry, bootstrap, enricher, collectors, formatter, contracts, generated gRPC code | none of interest | fill in or carry data | none | out of scope |

## 2. Modules

| Module | Models |
|---|---|
| `SignalLog` | what the dispatcher promises: one log, every output reads it in order in bounded chunks, in lockstep, with a bounded backlog |
| `Dispatcher` | `dispatcher.go` in full, `pipeline.go` |
| `Server` (extends `Dispatcher`) | `app.go` Start and Stop, `run.go`, sessions of all five inputs |
| `LiveHub` | `hub.go`, `handleTail` |
| `Agent` | `agent.go` in full, the logger |
| `ClientTransport` | the five transports of `pkg/transport`, the length prefix |
| `Integration` | `integration.go`, `config.go`, `panicx`, `opslog4proc`, `opslog4gin`, `policy/level.go` |
| `FileStore` | `filesystem.go` except Query; `/api/archives/restore` |
| `Codec` | pure operators: `codec/json.go`, the decoders, `/ingest`, `normalize.go`, the four filters (three outputs, tail), what each output keeps of a time |
| `Search` (extends `Codec`) | the way from a delivery to a row, the three Query methods, `/api/signals`, the log page of `app.js` |
| `DispatcherProofs`, `ServerProofs`, `LiveHubProofs`, `AgentProofs`, `ClientTransportProofs`, `IntegrationProofs`, `FileStoreProofs`, `SearchProofs` | TLAPS proofs about these modules |
| `MC...` | instances for TLC |

`Agent` is what `Integration` assumes of the agent (its three operations: take a
record, Sync, Close); `ClientTransport` opens up the one step that a Send is in
`Agent`; `FileStore` and the context-aware outputs are the two kinds of Write in
`Dispatcher`. `Search` keeps of the dispatcher a bounded queue that may refuse an
event (`Send`, `Drop` and `Expire` of `Dispatcher`) and lose a batch the output
does not write (`WriteFail`); the order of what remains is what
`DispatcherConserves` proves.

### How state and actions correspond to the code

**Dispatcher.** A caller is a goroutine inside `Dispatch`; `todo[c]` is what it
still has to dispatch. The three outcomes of the `select` are `Send`, `Expire`
and `Drop`, each with the condition under which Go may take that branch: with
room in the channel *and* a done context, both `Send` and `Expire` are
possible; `default` needs neither. `Reject` is the pipeline. `pc` is where the
loop goroutine is: `select` and `drain` are its two select statements, `write`
is inside `flushBatch`, where `wi` is the next output and `resume` the select to
return to. `WriteOK` and `WriteFail` are one `Write` call of one output:
an output in `CtxAware` (mysql, clickhouse) writes all or nothing and refuses
under a cancelled context; any other (filesystem) ignores the context and may
leave a prefix. `StopCall`, `StopFlush` and `StopTimeout` are the steps of
`Stop`. `accepted`, `handled` and `failed` are history variables.

**Server.** It extends `Dispatcher` and drives it: a caller is a session with a
`Kind`. `phase` is where `Run`/`Start`/`Stop` is, `at` the input they are at,
`listening` the open listeners. An HTTP or gRPC session dispatches while it is
`open`; TCP and UDP look at their context (`CheckContext`) and block in a read
(`reading`) that a deadline ends (`ReadFails`). `Sigterm` is the moment
`signal.NotifyContext` ends the context given to `Run`, which is also the parent
of the loop's. A hijacked websocket is not waited for by `Shutdown`;
`InputStopped` is `wg.Wait` or `GracefulStop`, neither of which looks at the
deadline. `publishingDispatcher` composes it with `LiveHub`: a Publish follows
each Dispatch that returned nil; the two modules share nothing else.

**Agent.** `CheckClosed` and `Put` are the two halves of `enqueue`, with Close
possible between them. A worker is in `recv`, `drain`, `got` (it has received a
signal that `inflight` does not count yet) or `send`; `rest` and `fb` are the
targets `sendOne` and `fallbackSend` have left. `mode` and `expired` say which
context a Send gets. A Send over a transport in `Hanging` may never return
(`Hung`): a TCP write has no deadline and ignores its context
(`tcp.go:84-98`). Sync polls in two reads (`PollQueue`, `PollInflight`).

**LiveHub.** `ppc` and `left` are a Publish in the middle of its iteration with
the read lock held; `Unlocked` is the guard of everything that takes the write
lock. `fpc` and `hpc` are a subscriber's forwarder and handler.

**ClientTransport.** `kind` chooses the transport of a behaviour. A connection
is a number and `conn` the field (0 is nil); `wire[c]` is what was written to
it. TCP takes its mutex twice in a Send, once in `ensure` (`TcpEnsure`) and
once over both writes of a frame (`TcpHeader`, `TcpBody`, with `lock` held in
between); websocket and gRPC hold it only for the steps that read or replace
the field (`LoadConn`, `Install`, `Reload`, `Reset`), and `hand[s]` is the local
copy a worker goes on with. An HTTP Send takes an idle connection of the pool or
makes one (`HttpConnect`) and gets an answer or a broken connection, which it
closes (`HttpAnswer`, `HttpFails`). `Crash` is a call through nil. `Break` and
`Heal` are the network, `Reconnect` is a gRPC client that connects anew after
its backoff, whenever that ends; until then its RPCs fail. `late` records the
Sends that fail after `Heal` and the connection each failed over, `broken` the
connections that were cut at that moment.

**Integration.** A process is a goroutine or a request; `defers[p]` is its stack
of deferred calls, run last first. `once` and `pc = "init"` are `once.Do`, in
which other callers wait. `Made` says what a guard is when there is no agent at
the time it is made. `Report`, `ReportSynced` and `Recovered` are `ReportPanic`
and what follows it; a panic that goes on reaches the next deferred call.
`PassesBy` holds the forms that do not recover. `over` is the end of the
process.

**FileStore.** A hot file is the sequence of what was appended to it, cut lines
included; `handle[d]` is the entry of `Output.files`, which is `stale` when the
file has been removed under it. Write holds the mutex over its batch;
`Archive` takes it only to close the handles, and its steps (`ArchiveList` to
`Prune`) and those of Restore (`RestoreOpen` empties the file, `RestoreCopy`
fills it) interleave with writes. `Crash` may come at any step and may cut a
write. `dirty` is the set of days something else touched at the wrong moment,
which `LossBounded` leaves out (section 4 says what happens to them).

**Codec, Search.** A JSON text is its shape, fields and items; a time is a
number of ticks, `Milli` of them a millisecond. A message is the set of the
texts in it that somebody may look for, and three operators say what a keyword
finds: `HasWord` (small letters, filesystem and tail), `HasLike` (MySQL: a
collation, and `Patterns` for the keywords with characters special to LIKE) and
`HasAscii` (ClickHouse). `Keep` is what an output makes of a time. `Receive` is a
delivery over `/ingest`, `/stream` or a text line; its handler then dispatches
the events one at a time (`Dispatch`), each of which may be refused, while the
events of other deliveries come in between. `Write(n)` is one line of the
filesystem or one batch of a database, `WriteFails` a write that fails. A request
is `AskFor` (what `searchLogs` sends; it reads the form anew for each page, so
`Turn` may ask another search), then `ScanDay`... or
`CountRows`/`SelectRows`, then `Respond`; rows of one time are listed in every
order (`sort.Slice` is not stable, SQL orders by time only), so `Pages` is the
set of the pages there may be: a row may be the k-th when fewer than k rows are
newer and at least k are as new.

## 3. Runs

| Run | Instance | What it shows |
|---|---|---|
| `dispatcher` | 2 callers (one uses DispatchBatch), 4 signals of which one is filtered, 2 outputs, queue 2, batch 2 | `Conservation`, `Isolation`, `StopIsFinal`, the refinement of `SignalLog`, `QueuedIsHandled`, `LoopExits` |
| `agent` | 1 application goroutine, 2 workers, 3 transports that may all fail, a Sync, queue 1 | counter, fallback, drain, close, Sync |
| `agent_live` | a collector besides, 2 transports: one that refuses under an ended context, one that fails by itself or never returns | queued signals are tried on every selected transport and Close returns, both unless a Send never returns |
| `live_hub` | 2 publishers, 4 signals, 1 filtered subscriber, capacity 1 | no panic, order, Publish returns, no leak |
| `server` | HTTP, gRPC and websocket sessions | order of shutdown, what was accepted is handled |
| `server_live` | HTTP, TCP and UDP sessions, two inputs | the process exits |
| `client_transport` | each transport, 2 workers or 1, with and without Start, 4 payloads of which one is too large | frames stay whole; no leak and no nil for one worker and for the transports whose mutex allows two, a bounded leak for the others; after the network is back a Send fails only over what was broken |
| `integration` | main in two forms, one other goroutine in six, five configurations | no agent lost sight of, exit delivers, panics are reported, one answer, the process ends |
| `main_loses_panic` (violated) | the same | a panic under `integration.Main` is not reported |
| `recover_loses_panic` (violated) | main as in the docs | a panic under `opslog4proc.Recover` is not recovered |
| `file_store` | 4 signals in 2 batches over 3 days, one old, one expired; a cut write, a crash, 2 archives, a restore | bounded loss, listed archives are there |
| `search` | 4 deliveries (a batch with a bad item, a batch, an event, a line); a queue of 2 that may refuse or lose one; 3 searches; 3 outputs; pages of 2 | nothing of a bad batch is stored, events are found by what was sent, answers hold what was asked for, pages cover the old rows |

**Why these bounds are enough.** A queue of one or two places is full, empty
and in between; three kept signals with batches of two make a full batch, a
partial one flushed by the ticker and a partial one flushed by the drain; two
outputs are the least for isolation and for a first and a last output, one of
each kind (context-aware or not). Two callers race for one slot. Two workers
are the code's number; three transports give the fallback a failure *and* an
alternative. Two publishers hold the read lock together while a subscriber
leaves; subscribers meet nowhere but in a publisher's iteration, which waits for
none of them, so one is enough. One session of each kind suffices because sessions of a kind meet only
in the dispatcher, whose own run has two callers. `MaxConns = 4` is the bound
of `ClientTransport`: four connections let each worker reconnect twice, so that
one can undo the reconnection of the other, leak two connections and have two
of a pool broken; four payloads let one worker fail and fail again. In `Integration` one other goroutine
is enough since goroutines meet only at the global agent, and every pair of
forms occurs. In `FileStore`, `MaxTears`, `MaxCrashes` and `MaxRestores` are 1
and `MaxArchives` 2: the hazards are one event between two steps of another
operation, and a second archive is what may overwrite the first. In `Search`
pages of two and `MaxQueries = 3` requests reach the last page of the rows there
are, a way back or another search while they grow; `MaxLost = 1` event or batch
is lost; a millisecond is two ticks, so that a time may be cut or rounded, and a
minute four. Deadlock checking is off because every system here may
stop: callers run out of signals and goroutines exit.

**Fairness.** `Dispatcher`: the loop goroutine is scheduled and every `Write`
returns, the ticker ticks, and the select of Stop notices a finished loop. No
fairness for callers, cancellation or Stop being called. `Server`: goroutines
of the process are scheduled, the ten seconds of Stop pass, reads of TCP and
UDP have deadlines, and the stream of a client that has vanished ends; clients
that stay owe nothing. `Agent`: goroutines are scheduled and Sync's three seconds pass; every `Send`
returns except one that hangs, which has no fairness at all (the websocket,
gRPC and HTTP transports have time-outs, TCP writes have none); weak fairness
on the choice between a tick and a done context is enough since the rounds are
finite. `LiveHub`: publishers and forwarders are scheduled; `ForwardCancel` and
`TailReturn` have strong fairness because Go's RWMutex lets a waiting writer in
before new readers; handlers have none while they tail, a client may read as
slowly as it likes. `Integration`: goroutines and the agent's workers are
scheduled, its transports being HTTP (with a time-out) and UDP, and the
application's own functions return; that they log or panic is not assumed. `ClientTransport`, `FileStore` and `Search` state safety only.

**The type invariants.** Every module states one. The runs check those of
`Dispatcher`, `Agent` and `Search`, which bound the queues; these and those of
`LiveHub`, `ClientTransport` and `FileStore` are proved. Those of `Server` and
`Integration` describe the state for the reader and hold in the instances above.

## 4. What does not hold

Two findings are stated as runs. In `main_loses_panic` `Main` defers Close
after its guard, so Close runs first; the guard recovers the panic, reports it
to a closed agent and returns, and `Main` returns nil. The crash leaves neither
a record nor an error, where `integration.go:203` says "Main runs fn with Guard
+ Close around it" and `docs/sdk.md` defers them in the other order. In
`recover_loses_panic` a goroutine defers `opslog4proc.Recover`, which calls the
function that calls `recover`; only the deferred function itself can recover, so
the panic goes on and ends the process unreported, where `recover.go:20-22` says
"Recover recovers a panic in the current goroutine, logs it" and
`recover_test.go:38-58` expects it.

The other deviations met while modelling are behaviours of the models above;
where a property stops short of them its comment says so.

- Dispatcher: outputs share one goroutine and a Write has no deadline, so one
  that hangs starves the others (`docs/outputs.md:93` calls them independent).
- Server: SIGTERM drains the dispatcher at once, while requests still finish;
  they are answered 202 and their events stay in the channel. A gRPC stream
  whose client stays connected keeps the process from exiting, since
  `GracefulStop` ignores the deadline. A signal dropped on a full queue is
  published to consoles all the same.
- Agent: Sync may return while a worker holds a signal it does not count yet.
  After cancellation the select may still prefer the queue, and the signal is
  sent under the cancelled context, against `agent.go:168`: `QueuedIsTried`
  says that each selected transport is called, not that one takes the signal.
  A TCP peer that stops reading keeps a worker in its Send, and Close, which
  waits for the workers, never returns then.
- ClientTransport: two workers can drive a TCP or websocket transport into a
  call through nil; a websocket's failed write forgets a connection another
  worker has just made, which leaks (`LeaksBounded` bounds it by the Sends that
  failed), and two workers may go on undoing each other's reconnections; two
  workers that start a gRPC client lazily leak one. After the network is back
  each broken connection of the HTTP pool may fail one more Send, and a gRPC
  client fails all until its backoff ends.
- Integration: a second Close returns while the first is at work. A process
  that dies of a panic whose Sync gave up takes the report with it. After a failed first Init every later one returns nil.
- FileStore: nothing in the server calls `Archive`. Opening a hot file of a day
  that is already packed, even without writing to it, makes the next Archive
  put the new file in the place of the old archive; a write in the middle of
  `Archive` may go to a file that is removed; a crash in the middle of Restore
  leaves an empty hot file that a later Archive packs. An archive whose
  description could not be written is not listed.
- Search: with the SQL outputs a row written between count and select hides
  the last page. Rows of one time may be passed over at the border of two
  pages. MySQL passes over hosts and lists of services, ClickHouse over levels
  and traces besides. A keyword with `%`, `_` or a backslash is a pattern to
  MySQL; ClickHouse finds only letters of ASCII in either case. MySQL rounds a
  time to the millisecond and ClickHouse cuts it off: a search over
  `/api/signals` by the very time an event was sent with, finer than the minutes
  of the console's form, may miss it. A batch answered with a 202 need not be
  stored as a whole, since its events are dispatched one by one and errors and
  drops are passed over. A body `{"events": [...]}` whose list is empty, or
  has a bad item, is stored as one event without content and answered 202.

## 5. Proofs

Every safety property of the passing runs, each invariant and each action or
refinement property, is a theorem of its specification: the run shows it on an
instance, the theorem for every value of the constants. The proofs of `X` are
in `XProofs`; `ServerProofs` extends `DispatcherProofs`.

| Theorem | States | Rests on |
|---|---|---|
| `DispatcherTypes` | `Spec => []TypeOK`, with the sizes of channel and batch | `IInv` |
| `DispatcherConserves` | `Spec => []Conservation` | `IInv` |
| `DispatcherIsolates` | `Spec => []Isolation` | `IInv` |
| `DispatcherStopIsFinal` | `Spec => []StopIsFinal` | `IInv` |
| `DispatcherImplementsLog` | `Spec => ImplementsLog`, the refinement of `SignalLog` | `IInv` |
| `ServerClosesLast` | `ServerSpec => []OutputsClosedLast` | `IInv`, `PhaseInv` |
| `ServerSourcesFirst` | `ServerSpec => []SourcesStopFirst` | `SourceInv` |
| `ServerKeepsAccepted` | `ServerSpec => []ExitKeepsAccepted` | `IInv`, `PhaseInv`, `BeforeInv` |
| `HubTypes`, `HubNoPanic` | `Spec => []TypeOK`, `[]NoPanic` | `HubInv` |
| `HubTailInOrder` | `Spec => []TailInOrder` | `HubInv`, `OrderInv` |
| `AgentTypes`, `AgentInflight` | `Spec => []TypeOK`, `[]InflightExact` | `CountInv` |
| `AgentClosedIsQuiet` | `Spec => []ClosedIsQuiet` | `CountInv`, `StopInv` |
| `AgentReliable` | `Spec => []ReliableTriesAll` | `CountInv`, `ReliableInv` |
| `AgentDrains` | `Spec => []DrainAttemptsAll` | `CountInv`, `DrainInv` |
| `AgentSync` | `Spec => []SyncEmptiesQueue` | `CountInv`, `QueueInv` |
| `TransportTypes` | `Spec => []TypeOK` | `StageInv` |
| `TransportFrames` | `Spec => []WholeFrames` | `StageInv`, `FrameInv` |
| `TransportNeverNil` | `Spec => []NilNeverUsed` | `StageInv`, `KeptInv` |
| `TransportNoOrphan` | `Spec => []NoOrphan` | `StageInv`, `KeptInv`, `OwnedInv` |
| `TransportLeaks` | `Spec => []LeaksBounded` | `StageInv`, `KeptInv`, `UnsentInv`, `LeakInv` |
| `TransportHeals` | `Spec => []HealsSoon` | `StageInv`, `KeptInv`, `HealInv` |
| `IntegrationNoLeak` | `Spec => []NoAgentLeak` | `Types`, `LifeInv` |
| `IntegrationExit` | `Spec => []ExitDelivers` | `Types`, `LifeInv`, `MainInv` |
| `IntegrationPanics` | `Spec => []PanicDelivered` | `LifeInv`, `MainInv`, `PanicInv` |
| `IntegrationAnswers` | `Spec => []AnsweredOnce` | `LifeInv`, `MainInv`, `GinInv` |
| `FileTypes` | `Spec => []TypeOK` | `PackInv` |
| `FileListed` | `Spec => []ListedIsThere` | `PackInv` |
| `FileLoss` | `Spec => []LossBounded` | `LossInv` |
| `SearchTypes` | `Spec => []TypeOK` | `DeliveredInv`, `PagesInv` |
| `SearchBatchIsWhole` | `Spec => []BatchIsWhole` | `DeliveredInv` |
| `SearchFindsByFields` | `Spec => []FoundByItsFields` | `DeliveredInv` |
| `SearchAnswersRight` | `Spec => []AnswerIsRight` | `DeliveredInv`, `PagesInv` |
| `SearchPagesCover` | `Spec => []PagesCoverOld` | `PagesInv` |

### The inductive invariants

**Dispatcher.** `IInv` is the type invariant, `Conservation`, and three parts
that strengthen them. The bound on the batch is not inductive alone: `BatchInv`
says that between writes the batch is shorter than `BatchSize`, not empty
during a write and empty once the goroutine has returned. `StoredInv` (an
output that never failed has stored what it was asked to) gives `Isolation`;
`StopInv` (a Stop that is done has seen the goroutine return) gives
`StopIsFinal`. The refinement shows `Init => Log!Init` and that each step is
`Log!Accept`, `Log!Read` or a stutter; its backlog is bounded by `TypeOK`, its
lockstep by `Conservation`.

**Server.** `ServerDispatches` shows that each of its steps is one of the
dispatcher, leaves the dispatcher alone, or is SIGTERM, so `IInv` carries over.
`PhaseInv` ties the phase of the process to the dispatcher's Stop; `SourceInv`
says which sessions can be left once Stop has gone past input `at`; `BeforeInv`
counts: when the loop has taken its last look at an empty channel, what had
been accepted at SIGTERM is among what left it.

**LiveHub.** `HubInv`: a closed channel is not in the map, and what a publisher
has still to visit is. `OrderInv` orders four stages for each subscriber, what
was written, what is in either channel and what is still to be published
(`StreamAhead`), since `TailInOrder` alone only speaks of the first.

**Agent.** `CountInv` says what a worker holds at each point and adds that a
logger past its test of `closed` still has its signal. `ReliableInv` accounts
for every transport while a signal is tried: untouched, or tried or still in
`fb`. `DrainInv` keeps what is owed in sight (queue, hand or finished) and says
that once a worker has seen the queue empty the rest is in hands. `QueueInv`
says that what Sync found in the queue cannot enter it again.

**ClientTransport.** `StageInv` says where a sender can be for each kind, and
what the field holds there; `HandOf` and `TcpOf` (`KeptInv`) what a sender has
in its hand while no other can take it away; `FrameInv` that the connection in
the field ends in a whole frame whenever the mutex is free. `HealInv` follows
the one failure that found a broken connection: from then on the field, or the
connection about to be installed, is whole, and a connection of the pool that
has failed is closed. `LeakInv` counts: a step that makes a websocket's orphan
also makes a Send fail whose payload had no result yet (`UnsentInv`); and the
orphans of a gRPC transport together with the senders that may still install a
client are fewer than the senders, once there is a client at all.

**Integration.** `LifeInv` is the life of the agent: at most one goroutine in
Init and one in Close, and the agent in the state that they, `ag` or nobody
left it in. `MainInv` keeps main's Close among its deferred calls;
`PanicInv` follows a panic from the guard that awaits it through the report to
a transport; `GinInv` a request.

**FileStore.** `PackInv` says how far Archive is with the file it works on.
`LossBounded` is not inductive, since a torn line may move to an archive and
back, so `LossInv` says for clean days that a hot file beside its archive
equals it (`MirrorInv`), that each stored signal has a line, whole when it was
written (`StoredInv`), and that there are no more torn lines than writes were
cut short (`TornInv`). A signal that cannot be read follows a torn line, which
is an injection of the lost signals into the torn lines.

**Search.** `DeliveredInv` says that each answer, each event in the queue and
each row comes from a delivery by the operators of `Codec`, in the order of
their dispatch, about which the lemmas then speak: who sent what, what
normalisation and the outputs keep, what each filter looks at. `AskInv` says
that the rows found so far include those that were there when the request
began, of the days already read. `PagesInv`
follows the reader: a row that was there at the start and has not been shown
has at least `Edge` newer rows, where `Edge` is the end of the pages the reader
has been to. Rows written meanwhile only push it further down, and turning back
only lowers `Edge`; a reader who has reached the last page has missed none.

Invariants were checked by TLC on the instances of section 3 before they were
proved; each step lemma has one case per action.

### The assumptions

| Assumption | Why the code justifies it |
|---|---|
| `LoadAssumption`, `SizesAssumption` (`Dispatcher`), `HubAssumption`, `AgentAssumption`, `TransportAssumption`, `FileStoreAssumption`, `IntegrationAssumption`, `ServerAssumption` | the types of the constants: sizes are positive because the constructors replace others by defaults, an agent has workers (two), bounds are natural numbers, no input calls DispatchBatch |
| `DispatchedOnce`, `PublishedOnce`, `LoggedOnce`, `SentOnce` | a signal is a pointer made by one decode or one call of the logger, a payload one call of Send: two that look alike are two |
| `SearchAssumption`, `SearchesAssumption`, `DeliveriesAssumption` | the types of deliveries and searches: JSON is one of four shapes, text has words, a page and the queue are not empty, lists in a query are finite, and so is the clock; the console's form gives whole minutes, which are whole milliseconds |
| `TextsAssumption`, `MilliAssumption` | texts that differ in the case of ASCII letters differ in case, and MySQL's default collation (`utf8mb4`, `mysql.go:78`) passes over case; a millisecond is a number of ticks |
| `TracesAssumption` | the names by which two properties know an event again; it restricts which deliveries are told apart, not what the code does with them |

### Only model-checked

Liveness under fairness is out of the prover's reach: `QueuedIsHandled`,
`LoopExits`, `QueuedIsTried`, `CloseReturns`, `PublishReturns`, `NoLeak`,
`TerminationExits` and `ProcessEnds` are left to TLC. So are the type
invariants of `Server` and `Integration` as they stand in the modules; the
proofs use the parts they need (`SourceInv`, `Types`). `MainPanicDelivered` and
`RecoverPanicDelivered` do not hold (section 4).

Three definitions were put in a form that can be reasoned about: `Solo` and
`HealsSoon` say "at most one" with quantifiers and not with a cardinality; a
page of `Search` is characterised by the ranks of its rows (`Pages`) and not by
recursion over lists, with the same states; and `ListedIsThere` no longer makes
an exception of days touched at the wrong moment, as none is needed.

Plan for further proofs: the type invariants of `Server` and `Integration` as
theorems; an abstract specification of the hub (one log per
subscriber from which signals may be dropped) and of the agent (a bag of
signals each attempted once) with `LiveHub` and `Agent` proved to implement
them; the converse bounds of `FileStore`, what a day touched at the wrong
moment may lose.

## 6. Not modelled

- `input/http.go` and `input/websocket.go`: not used by the server, which
  serves both protocols in `app.go`.
- Configuration, registry, bootstrap, and how `app.New` assembles the parts:
  sequential construction before anything runs.
- Enricher, collectors, formatter: they read the operating system and fill in
  data; the agent sees them as hooks and rounds of signals.
- SQL itself: migration, time zones, and of collations more than that they take
  some texts for equal.
- In `ClientTransport`: a TCP write that never returns, which `Agent` has
  (`Hanging`), and connections of the HTTP pool beyond one for each Send under
  way.
- The console except its search page: the tail page keeps a flag per browser
  tab, the other pages show one answer. Overlapping searches of one tab: the
  order of two answers is the browser's.
- Time is abstract: a deadline may pass at any moment. Wording, attributes of
  log records, tokens and TLS are left out.
