# Models of the botnet search and detection system

TLA+ specifications of the traffic monitoring system of this repository, their
TLC runs and their TLAPS proofs. `PROJECT.json` lists the components, the runs,
the hazards and, under `map`, the source lines each definition stands for.

    tlc -workers 2 -config Agent.cfg MCAgent.tla      # a run
    tlapm AgentProofs.tla                             # proofs of one module

## The system

    host                          collector            Kafka            consumers
    eBPF -> agent  --gRPC-->  traffic-collector --> traffic.hosts  --> stats-collector --> ClickHouse
                                                    traffic.packets -> stats-collector ------^   ^
                                                                    -> online-detector ----------+
                                                    traffics.alert <-- online-detector
                                                          |
                                                          +--> app-service backend --WebSocket--> browser
                                        PostgreSQL (users, filters) --^     ^-- ClickHouse (queries)

| part (`src/`) | state | operations | talks to |
|---|---|---|---|
| `monitoring-agent` (Go, eBPF) | perf rings, the reader, `eventCh`, `buf`, the context, kernel filters and XDP programs attached | load, attach, register, `ReadLoop`, `SendLoop`, signal, detach | kernel; collector (`RegisterHost`, `SendPacketBatch`, 5 s deadline each batch) |
| `traffic-collector` (Go) | running handlers, the queues of the kafka-go Writer | the two handlers, `GracefulStop`, `Close` | agents; Kafka topics `traffic.hosts`, `traffic.packets` |
| `stats-collector` (PySpark) | per query: checkpointed offsets, watermark, window state | microbatches of `process_traffic_batch` (nine tables), `write_hosts` | Kafka, ClickHouse |
| `online-detector` (PySpark) | checkpoint and window state of one sliding query | `process_batch`: z-scores of six views; alerts to ClickHouse, then to Kafka | Kafka, ClickHouse |
| `app-service/backend` (FastAPI) | `manager.active`, the consumer task, PostgreSQL rows | `consume_alerts`, `broadcast`, `/ws` handlers, queries, login, saved filters | Kafka, ClickHouse, PostgreSQL, browsers |
| `app-service/frontend` (JS) | `state`, the alert socket and its timer, the topology | refreshes, reconnects, login and logout | backend |
| `clickhouse_sql`, `proto`, `gen` | table engines, message types | none | |

What makes each of them hard, and what makes it correct:

* **Agent.** Four threads of control, a bounded channel with a non-blocking
  send, a batch that is cut by size, ticker or shutdown, calls that time out
  while their handler still runs. Correct: capture order is kept, no event is
  sent twice, events are lost at the known places only, a slow collector does
  not back up into the kernel, a signal always ends the process. Its filters
  outlive a crash in the kernel; its clock offset ages.
* **Traffic collector.** Handlers of calls the client has given up, an
  asynchronous writer that retries, repeats and drops, a two-stage shutdown.
  Correct: a partition keeps the order of publication, duplicates are bounded,
  an orderly stop loses nothing that was answered.
* **Stats collector.** Event time out of order, replay after a restart, nine
  writes without a transaction. Correct: a window is written whole or not at
  all to a table, earlier tables cover later ones, nothing is lost in silence.
* **Online detector.** The same query engine with overlapping windows, two
  sinks that fail independently, statistics over few keys. Correct: an alert
  reaches both sinks or a log line, thresholds that can be reached.
* **Backend.** A list that is changed while a suspended loop iterates over it,
  an auto-commit that is not tied to what was relayed, a task nobody restarts.
  Correct: every alert goes once and in order to who is connected. Host status
  compares a clock with windows that appear minutes late.
* **Frontend.** Answers of overlapping requests in any order, sockets that
  reconnect after logout. Correct: what is shown is the latest answer, one
  socket at most.

## The modules

### `Agent` (with `MCAgent`, `PacketStream`, `AgentProofs`)

From the return of `Attach` (`cmd/agent/main.go:75`) to the exit of main.

| variable | code |
|---|---|
| `captured`, `ring` | what `bpf_perf_event_output` submitted per CPU; the perf rings |
| `reader`, `readLoop`, `hand` | `c.reader`; where `ReadLoop` is; the `evt` it holds |
| `eventCh` | the channel |
| `sendLoop`, `buf` | where `SendLoop` is (`sending`: inside `sendBatch`) and its `buf`, which is reset only when the call has returned |
| `calls`, `handled` | the `SendPacketBatch` calls in the order they are issued, each with its outcome at the client; the order in which the server runs their handlers |
| `cancelled`, `mainPc` | `ctx`; main |
| `lost`, `cut` | history: the events dropped; those of them that a stop gave up |

An event is a record `[cpu, n]`. `CaptureSample` is the kernel;
`ReadLoopStart`, `ReadSample`, `Offer`, `ReadLoopReturns` are `ReadLoop`, and
`CloseReader` its closer goroutine; `RecvEvent`, `Tick`, `StopRequested` are the
branches of `SendLoop`'s select and `RpcOk`, `RpcErr` the return of `sendBatch`.
`ServerHandles` may run for any call at any later time, once.

The context of a call derives from the one main cancels. Once that is cancelled
gRPC fails a new call before anything is sent, so `SendBatch` then issues none
and gives the batch up (`GiveUp`): the last `send()` of `SendLoop` saves
nothing, whatever is in `buf` is lost with each stop, and so is what the channel
still holds. `StopCutsTail` says what is left to be said for a stop: what it
gives up was captured after all that was sent, and each call has returned when
main exits. The mutant is the obvious mend, a context of its own for the last
send alone: a select that has taken another branch after the cancel may have
given up an earlier batch by then.

`PacketStream` is what the agent promises: a stream per CPU of which packets may
be given up before they are sent, but never sent after that, twice, or behind a
later one of their CPU; batches may arrive or not. `StreamKept` is its `Spec`
with `produced <- captured`, `delivered <- SentBatches` (the events of `calls`)
and `dropped <- lost`: `CaptureSample` is a `Produce` (with the loss, if the ring
is full), a full channel and a closed reader are a `Drop`, the issue of a call
is a `Deliver`, and every other step stutters.

Run `Agent` (80 000 states): two CPUs with two samples each, one slot in a ring
and in the channel, batches of two. That fills a ring, fills the channel, fills
a batch and leaves a partial one, and lets two calls overlap at the server.
Bounds are not reached in `Ordered(ring[c])`, which one slot makes trivial;
rings of two slots pass as well, without a full ring.

Fairness: `FairSpec` schedules the reader's goroutines only. `RingsKeepDraining`
is checked under that alone, so that the sender may hang for ever; the other
liveness properties name what else they need, `SenderFairness` (a select takes a
branch that stays ready, a call returns because its context has a deadline) and
`MainFairness`. Nothing is assumed of the server, the signal or traffic.

### `AgentAttach` with `PacketPath` and `MonoClock` (and `MCAgentAttach`, `AgentAttachProofs`)

What comes before and after `Agent`, over several runs of the process, because
the kernel remembers what a run has left.

`PacketPath` is the eBPF code: `EventsOf(program, packet)` is the set of the
event, or no event, that a program makes of a packet, where a packet is what the
parsers branch on: IPv4 or not, the protocol, how much of the headers lies in
the linear part and in the packet, what lies at `ip + ihl * 4` (`l4`: its
transport header or other bytes) and how much must be in reach for a header to
be read there (`l4End`). The parsers look neither at the fragment offset nor at
the lower bound of ihl, and so report other bytes as the ports of a later
fragment, or of a packet with a small ihl, of which the IP header alone may be
enough to read them from. `MonoClock` has the clocks of the kernel, which run,
stand still in a suspend (`mono`) and are set (`wall`), and the agent's offset.

| variable of `AgentAttach` | code |
|---|---|
| `ifindex`, `indices` | the interfaces of the host, by name |
| `hooks` | which run's program is in place at each hook of an interface or of the cgroup |
| `run`, `pc`, `cfg` | which start this is; where main is; its configuration |
| `attached`, `idx`, `closers` | how far `Attach` is, the index it has looked up, `c.closers` |

`Start` is main up to `Attach` with `NewMonoOffset`; `LookUp`, `AttachProgram`,
`AttachReturns`, `AttachFails` are the loops of `attachXDP`, `attachTCBoth`,
`attachTCEgress` and `attachCgroup`, one kernel call each; `Stop`, `RunCloser`,
`Exit` are the deferred `Close`. `ProcessGone` is what the kernel does with the
hooks of a process that ends, with or without `Close`: links go, filters stay.

Runs: `AgentAttach` (987 000 states; two interfaces, each replaced once, two
starts, five configurations that cover each switch of `Attach` and an interface
listed twice, clocks up to 2, every packet the parsers can tell apart, UDP with
other bytes than its header excepted, which is parsed as TCP is) shows that an
agent that runs captures each packet once, what remains in the kernel,
and that times lie in the future only where the clock was set back or ingress
filters stamp with the other clock. Two starts are enough for what one run
leaves to meet the next. `AgentAttach_realtime` is a violation below. Safety
only: nothing obliges anybody to start the agent.

### `TrafficCollector` (with `MCTrafficCollector`, `TrafficCollectorProofs`)

The agents' calls, the handlers, the Writer, main and crashes. `phase`, `next`
and `client` are the two sides of each call, `pending`, `flight`, `attempts` and
`log` the Writer and Kafka per topic and partition, `async` is `cfg.Async`.
A handler publishes one message per step (`Publish`), in the synchronous mode
waits for it (`WaitEnds`), and answers when the loop is through (`Return`). The
key of a message is what the code computes: `ToPacketInfo` leaves `HostId` empty
(`KeyOf`). The Writer is a library, modelled by what the code can observe:
in-order writing by one goroutine per partition, `MaxAttempts` tries, lost
acknowledgements. `Stop`, `CloseProducer`, `Exit` are main; `Crash` is any other
end, after which docker starts it again (`restart: unless-stopped`).

Runs: `TrafficCollector` (248 000 states; one host, a registration and two
batches of one packet, two tries, one crash, both modes) shows what order the
logs keep, that a message is repeated at most `MaxAttempts` times, what an
answer is worth, and that the stop ends. One host is enough for these: hosts
interact only through the queue of a partition, where their handlers interleave
like those of one host after a timeout. `TrafficCollector_partition` (two
hosts) is a violation below.

`required_acks: none`, which the configuration admits, is not modelled: a write
succeeds there without Kafka having it, and `AckedIsSettled` and `StoppedCleanly`
would not hold. The configuration the repository ships has `one`.

Fairness: handlers, the Writer and main go on; a write to Kafka ends one way or
the other. Agents and Kafka's answers are free.

### `WindowedQuery` and `StatsCollector` (with `MCStatsCollector`, `WindowedQueryProofs`, `StatsCollectorProofs`)

`WindowedQuery` is a Spark query as both jobs build it: `Plan` fixes the offsets
of a microbatch, `Admitted` drops late rows, `Emitted` are the rows of the
windows the watermark has passed, `Commit` makes offsets, state and watermark
durable. `StatsCollector` adds the function of the traffic query (`StartBatch`,
`WriteTable`, `WriteFails`: the exception is printed and the rest skipped), the
hosts query, and `Restart`, after which a planned microbatch is run again. A row
is a pair of a window and a message; what the aggregations compute is left out.

Runs: `StatsCollector` (113 000 states): three messages at minutes 0 to 3, one
registration, one restart. That leaves a window open, closes two at once, has
rows late and in time, and replays a microbatch from every table. The nine
tables are written alike; three stand for them, so that a failing write has one
before and one after it. That a microbatch closes several windows, which the
docstring of `process_traffic_batch` does not expect, harms none of the
properties; that each aggregation groups by window is taken from the code, since
a row of the model is a window with a message, and is not put to the test.

Fairness: triggers fire and a microbatch goes on. Traffic is free, so that a
window must be written without any message after the one that closes it.

### `OnlineDetector` (with `MCOnlineDetector`, `OnlineDetectorProofs`)

The second job, also on `WindowedQuery`, with windows that overlap. A message is
a burst of packets of one heavy key; a window also holds `crowd` other keys with
a packet each. `Alerts` is `_detect_view` for the rows of a window: counts by
key, mean and sample deviation, threshold, severity. The score
(count - mean) / deviation is compared with a threshold by cross-multiplying
its square (`ScoreAbove`, with `Spread` for the deviation and `Excess` for the
difference), so that no fraction is rounded. `Report` is what one evaluation
yields, per window of the microbatch; each sink evaluates for itself.
`StartBatch`, `WriteAlerts`, `WriteAlertsFails`, `PublishAlerts`,
`PublishAlertsFails`, `DetectFails` are the tries of `process_batch`; `stored`
and `published` what the sinks hold, `unstored` and `unsent` the windows of
writes that raised.

Run `OnlineDetector` (436 000 states): three bursts of two heavy keys, among 9,
10, 25 or 26 others, at times 0 to 4; windows of three slides; one restart. The
thresholds, severities and `PEER_MIN_KEYS` are those of `config.py`, in halves.
The crowds lie on both sides of where an alert, and a critical one, becomes
possible: a key among n has a score of (n-1)/sqrt(n) at most, so that a window of
ten keys, which `PEER_MIN_KEYS` admits, can raise none, and a critical alert, at
a score of 5, takes 27 keys (`AlertsNeedACrowd`).
Safety only; that closed windows get written is checked of the same query in
`StatsCollector`.

### `AlertRelay` (with `MCAlertRelay`, `AlertRelayProofs`)

The event loop: an action is what a task does between two awaits. `active` is
`manager.active`, `index` the iterator of the `for` in `broadcast`, `target` the
connection whose `send_text` is awaited, `dead` the list. `HandlerDisconnects`
and `HandlerFails` are the two ends of a WebSocket handler, of which only the
first calls `disconnect`. The consumer starts from the committed offset or from
the end, commits at any time, and dies of a message it cannot decode.

`relayed` are the alerts whose broadcast has come to its end. Two kinds never get
that far, and are noted in `missed`: what is in the topic when the consumer starts
without a committed offset (`auto_offset_reset="latest"`), and an alert whose
offset is committed during its broadcast when the backend dies before the end of
it. `PublishedIsRelayed` says that every other alert is broadcast, also what a
task that died, or a restart, has left in the topic, provided there is a task
again and again: one that has died stays dead until the backend is restarted,
and nothing obliges anybody to do that.

Runs: `AlertRelay` (112 000 states; two connections, two alerts, one restart; the
same topic name on both sides), `AlertRelay_reachesall`, `AlertRelay_topics`
(the default names). Fairness: a ready task runs and a `send_text` ends.

### `AlertSocket` (with `MCAlertSocket`, `AlertSocketProofs`)

The sockets of the dashboard. `ws` and `reconnectTimer` are the variables of
`alerts.js` that all sockets share, `link` the state of each socket, `page` and
`submitted` what `main.js` shows and which logins are under way. `SocketEnds` is
`onerror`, which closes whichever socket `ws` is by then, and `onclose`, which
sets the timer anew; `Reconnect` is the timeout. `RenderApp` opens a socket at
every rendering, and `Logout` closes none.

Run `AlertSocket` (5 800 states; three logins, three failures): the sockets never
outnumber the renderings, one is always under way, and once connections stay up
the dashboard is connected for good, although a failing socket may have closed
its healthy successor. Fairness: the browser runs timeouts and delivers events;
a connection that is not refused opens.

### `HostStatus` (with `MCHostStatus`)

`fetch_host_status` over `traffic_stats_by_host`, which the query of
`WindowedQuery` fills. The model takes the best case: hosts send in every
minute, microbatches take no time, nothing fails. `byHost` are the rows,
`status` what the page shows, with the time of the real last activity beside it
(`silent`). Its only run is a violation: even in the best case the latest window
in the table began more than three minutes ago.

## Where the code and its comments disagree

* `TrafficCollector_partition`: the key is said to be the host id; it is always
  empty, so that one partition takes all packets.
* `AlertRelay_reachesall`: an alert is said to go to all clients; when one is
  removed while the loop is suspended, the iterator passes over another.
* `AlertRelay_topics`: the detector publishes to `traffics.alert`, the backend
  subscribes to `traffic.alerts`; nothing sets either, so nothing is relayed.
* `AgentAttach_realtime`: the offset is said to give the real time of an event;
  `tc_cls_ingress` reads another clock, and its events are ahead by the time the
  host was suspended before the agent started.
* `HostStatus`: offline is said to mean more than three minutes without
  activity; hosts that send in every minute are offline too.

## What is proved

Eight modules hold the theorems, `PROJECT.json` lists those a reader should
know of. Each one but `NothingPassedOver` states a property of a run, for every
value of the constants that satisfies the `ASSUME` of its module. A component's
proofs go along one inductive invariant, a conjunction of named parts; the proof that a step keeps a
part has one case per action, and lemmas say what an action moves.

### The agent

From `AgentAssumption` (the capacities are positive, as `main.go:47-50` and
`sender.go:71-74` see to), for every set of CPUs and all capacities.

* `AgentProofs`, `TypeCorrect`: `Spec => []TypeOK`, with the capacities of the
  rings, of `eventCh` and of `buf`. `TypeOK` is inductive because it says that
  `buf` is not full while `SendLoop` is in its select: the event that fills it
  goes out in the same step, and without that the bound of `buf` is not
  preserved by `RecvEvent`. The sequences of calls need the lemma `CallsType`.
* There also `OrderKept`: `Spec => []PipelineOrder`. The inductive
  invariant `OrderInv` adds to `TypeOK` and `PipelineOrder` two facts.
  `CapturedSoFar` (no event in the pipeline has a number above the count of its
  CPU) is why a new sample comes after all others of its CPU; `RingsByCPU` (a
  ring holds the samples of its own CPU) is why the head of one ring cannot be
  behind another. The lemmas `OrderedTail`, `OrderedAppend` and `NewCall` say
  what taking, adding and cutting a batch do to the order. The rings of the TLC
  run have one slot, so that their own order is only seen in the theorem.
* There also `ServerOrder`: `Spec => []InOrderWithoutTimeout`. `SerialInv` says
  that only the last call can be open, while `SendLoop` waits for it, and that
  an answered call has been handled: a call that is handled is then either the
  next one, or some call has failed.
* There also `NothingElseLost`: `Spec => []Accounted`. The invariant `LossInv` adds
  `ControlInv`: while a call is in flight `buf` holds only events that a call
  carries (so the reset of `buf`, also after an error, loses nothing that was
  not sent), the rings of a reader that is not open are empty, and main exits
  only behind both loops.
* There also `StopCosts`: `Spec => []StopCutsTail`. `CutInv` adds to the
  other invariants that nothing is cut before the ctx is cancelled: no call is
  issued after that, so what is cut, behind all calls by the order of the
  pipeline, stays behind them.
* There also `ImplementsStream`: `Spec => StreamKept`, the refinement.
  `StreamInv` joins both invariants with `NothingRevived` (what is lost is in no
  stage); the step of each action maps to a step of `PacketStream` or a stutter.

### Attach and clocks

`AgentAttachProofs`, from `AttachAssumption` and `ClockAssumption`, for every
set of interfaces, every set of configurations and any number of runs.

* `AttachTypeCorrect`: `Attach` does not run past its last place, and a running
  agent has attached all places.
* `TimesAreNotAhead`: `[]NotFromTheFuture`. `OffsetInv` compares each kernel
  clock plus the offset with the wall clock, as long as that was not set back.
* `CloseTakesAll`: `[]NothingLeftBehind`. `HookInv` has three parts: what this
  run has in the kernel is in `closers` or is the program being attached; what
  another run left are TC filters; an interface that is gone has no hooks.
* `PacketsCapturedOnce`: `[]CapturedOnce`. `CapturedOnce` speaks of an agent that
  runs; `CaptureInv` says how `Attach` gets there. `PlacesCovered`: each place it
  is through with has a closer, and if the index of that closer is still the one
  of the interface, all programs of the configuration are in place there.
  `FirstInPlace` says the same of the first of two filters while the second is
  awaited. Both survive an interface that is replaced because of `OldIndices`: an
  interface that comes has a greater index than any that was looked up.
  `OwnAreConfigured`: the run has no other programs in the kernel. That a packet
  then makes one event follows from `OneForDirection` (a configuration has one
  program for a direction it wants and none for the other) and `EventsFacts` (what
  the parsers make of a packet, for each program and packet). With the theorem
  the list of interfaces may have any length and repeat names anywhere; the
  filters an earlier run has left are why a hook must be free.

### The traffic collector

`TrafficCollectorProofs`, from `CollectorAssumption`, for any hosts, partitions,
numbers of calls, batch sizes and tries, and both producers. `CollectorInv` is
the conjunction of

* `CallInv`, how far a handler is by its phase; `SerialInv`, an agent's calls
  but the last have ended for it;
* `OwnInv`, what is in a queue or a log was published by its call and is in its
  partition. With `BatchInjective` (the numbers of two calls do not overlap) a
  message that is published is new to the Writer;
* `PassedInv`, a message its call has passed is in the Writer, a log, reported
  or taken by a crash; `CrashInv`, a crash only takes messages of calls that
  have returned or that it ends; `ExitInv`, no handler behind `GracefulStop`
  and no queue behind `Close`; `SyncInv`, a synchronous handler has at most the
  message it waits for unsettled;
* `RepeatInv`, a message is in one place of the Writer, and its copies in the
  log are at most the tries of the batch that holds it;
* `LogInv`, queue, batch and log each keep the order of publication, and
  everything logged was published before what waits and is not logged. That
  last clause is why a batch logged by an earlier try does no harm;
* `HostInv`, the messages of a host whose calls all got their answer have been
  published with increasing numbers.

`DuplicatesBounded`, `StopLosesNothing`, `AnswersSettle`, `LogsFollowHandlers`
and `AnsweredHostsInOrder` follow from it: all safety invariants of the run.

### The streaming queries

`WindowedQueryProofs` has the lemmas about a query, whatever its function does,
from `QueryAssumption`. `OpenInv`: the state store has no row of a closed window;
`MarkInv`: a watermark follows a message that was read. The main fact is that
the rows a microbatch emits belong to windows that end between the two marks
(`lateMark` and the next watermark), so that no two microbatches emit rows of one
window; `CommitSettles` says where a row that was read is after `Commit`.

`StatsCollectorProofs`, from `StatsAssumption`, for every number of tables,
messages and restarts. `SavedInv` (what a table holds is the planned microbatch
or closed) gives `WindowsWrittenWhole`; `CopyInv` (the planned rows were saved
by earlier runs of the microbatch and by this one to the tables it has passed)
gives `CopiesBounded`; `AheadInv` (the table before the one to be written is a
copy ahead) gives `TablesCovered`; `PassedInv` gives `NothingLostSilently`.

`OnlineDetectorProofs`, from `DetectorAssumption`, for all keys and views.
`ReportInv` (a report is the one of the planned microbatch, or all
its windows are closed) gives `OneVerdict`; `PassedInv` and `ReadInv` (a row that
was read is open, or in the sinks, or was too late) give `SinksIndependent`.

`NoAlertsInSmallWindows`: `[]AlertsNeedACrowd`, for any number and size of bursts,
any crowd, and the thresholds that `ThresholdAssumption` allows (in halves: a
z-score of 3 or more for every view, none below warning, critical from 5;
`config.py:30-44`). The sums of `Excess` and `Spread` run over the heavy keys, as
folds: `SumFacts` has them by induction over the sets of keys, `Cauchy` that the
square of a sum is at most the number of its terms times the sum of the squares.
For the counts of a window, of which those of the crowd are all alike, that gives
Samuelson's inequality (`ScoreBound`): the square of a score among n keys is at
most (n-1)^2/n, which passes 9 between 10 and 11 keys and 25 between 26 and 27.

### The alert relay

`AlertRelayProofs`, from `RelayAssumption` (with finitely many connections), for
any number of them, of alerts and of restarts. `RelayBase` is `TypeOK` with
`OffsetInv` (offsets are those of messages that are in the topic) and `KnownInv` (who is open is in
`active`, which has no repeats), and is inductive.

* `RelayTypeCorrect`, `OpenIsKnown`: `[]TypeOK`, `[]OpenIsActive`.
* `SentOnceInOrder`: `[]SentInOrder`. `OrderInv` bounds what a connection was sent
  by the alert that is being relayed, and says that those the iterator has still
  to reach were not sent it yet: a removal may move members behind the iterator,
  but none ahead of it again.
* `MissesAreRemovals`: `MissesNeedRemovals`, an action property. `MissInv` counts
  the members the iterator has passed over: a removal takes one connection at
  most, other than the removed one, out of those ahead of it (`AheadRemoved`).
* `NothingPassedOver`: `[]NonePassedOver`, the safety half of
  `PublishedIsRelayed`: no alert is behind the consumer, or behind the committed
  offset, that is neither relayed, nor missed, nor being broadcast. `PassedInv`
  adds that a running consumer is at the committed offset or past it, which is
  why a restart can cut no alert but the last committed one.

A broadcast ends with a removal for each element of `dead`, a fold. `FoldRemoves`
says what it leaves of a list without repeats, by induction over the length of
`dead`; the induction is stated with the set of lengths at which it would fail,
which has no least element (`LeastNumber`).

### The sockets of the dashboard

`AlertSocketProofs`, from `SocketAssumption`, for any number of sockets, logins
and failures. `OneSocketPerLogin` is inductive beside `TypeOK` and the
finiteness of the live sockets: one that ends leaves its place to the timeout,
of which there is one at most, and a timeout that fires leaves it to the socket
it creates (`EndLive`, `ConnectLive`).

### Only model-checked

* The liveness properties (`ShutdownCompletes`, `BufferedIsSent`,
  `RingsKeepDraining`, `ReaderFailureStopsSender`, `StopCompletes`,
  `ClosedWindowIsWritten`, `RegistrationIsStored`, `PublishedIsRelayed`,
  `Settles`): fairness and `ENABLED` are beyond the prover.
* The violations, which are counterexamples.

All safety properties of the passing runs are theorems.

## What is not modelled

* The kernel headers and generated code. `vmlinux.h`, 132 062 of the C lines of
  the repository, is the type dump of a kernel and has no code: the share of C
  lines under `map` stays small although `traffic.c` is covered.
* Of the agent: addresses, ports and lengths in an event, the qdisc without
  filters, filters of other programs, read errors of the perf reader and
  undecodable samples, which are logged and change nothing.
* Partial JDBC writes: a write to ClickHouse takes the rows or does not. A
  container that is created anew loses its checkpoints under `/tmp`; the models
  have restarts of a container that keeps them.
* Of the detector: `PEER_TOP_K`, a publication to Kafka of which some alerts are
  written before it fails (`PublishAlertsFails` writes none), and an exception while the query of one view is
  put together. Of the statistics: the rollups other than the base and by host,
  which are sums of the same rows, and the join of host information.
* Of the backend: the queries that read and format, login and saved filters,
  which are single transactions, the e-mail that is never called. Of the
  frontend: rendering, the ping intervals, and the order in which answers of
  overlapping refreshes arrive (listed as a hazard).
* Start-up input and output: configuration and host files, creation of topics.

## What is left

1. `Dashboard`: the answers of overlapping refreshes out of order, and filters
   that change between them.
2. `Rollups`: the aggregations of a window preserve its totals.
