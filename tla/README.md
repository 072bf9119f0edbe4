# Verification of the Elastic Agent shipper

This directory holds a TLA+ model of the shipper, the TLC configurations that
check it and the proofs TLAPS checks. `PROJECT.json` lists components, runs,
mutants, the map from definitions to source lines, hazards, findings and
theorems. Paths below are relative to the repository.

## The system

The shipper sits between the inputs of an Elastic Agent, which publish events
over gRPC, and one output (Elasticsearch, Kafka, Logstash or the console).

```
 inputs --gRPC--> shipperServer --> ServerRunner --> Queue --> output --> backend
                  (handlers)        (queueMutex)    (batches)  (loop, callbacks)
                      ^                  ^                          |
                  InputHandler       startShipper/Close        HealthWatcher
                      ^                  ^                          |
                      +---- clientHandler (run loop) <---- unit state
                                    ^
                              elastic-agent (units)
```

| Component | State | Operations | What makes it correct |
|---|---|---|---|
| `queue/queue.go` | memory queue (libbeat), `doneCount` of each batch | New, Publish, TryPublish, Get, Done, Close, PersistedIndex | the persisted index covers only events an output has sent or discarded, never moves back, reaches every accepted event |
| `publisherserver/server.go` | queue, output, `queueMutex` | Start (no lock), Close (lock held until drained), calls of the handlers | the queue is not closed under a blocked Publish; Close flushes what was read, and returns |
| `grpcserver/server.go` | UUID, init error, one goroutine per call | PublishEvents, PersistedIndex (stream) | replies and streams tell the truth over restarts; every call is answered |
| `grpcserver/inputhandler.go` | grpc server, shipper server, `startMutex` | Start, Stop | serving exactly while there are inputs |
| `controller/` | unit map, log level, where the run loop is | unit added, modified, removed; signal; RunUnmanaged | one output, the latest configuration; every change is dealt with |
| `output/console.go` | loop, WaitGroup | Start, Wait | the output contract (below) |
| `output/elasticsearch/output.go` | loop, bulk indexer, WaitGroup per batch | Start, callbacks, Wait | the output contract; one `wg.Done` per batch |
| `output/elasticsearch/watcher.go` | counters of the last tick, `didFail` | Watch, Fail | outages and recoveries are reported, to the right output |
| `output/kafka/` | attempt (`MsgRef`), success and error workers, breaker | Start, publishEvents, workers, Wait | the output contract; retries lose and repeat nothing |
| `output/logstash/` | current host, connections | Start, Publish, Wait | the output contract; a batch is given up only after all hosts failed |
| `output/kafka/partition.go` | counter and partition of a group, hash of a message | Partition | the partition exists; equal keys go together; round robin is even |
| `monitoring/queuemon.go` | count of full queues seen, per monitor; the diagnostics hook | NewFromConfig, getQueueMetrics, End | the metrics tell the truth about the queue, and the unguarded count errs on one side only |
| `config/`, `queue/config.go`, the outputs' `config.go`, `outputFromConfig` | the configuration given and what was made of it | read, validate, start, back off | what is validated can be started; settings fit together; the output is the one asked for; backoffs are exponential |

**Output contract.** An output takes batches with Get, concludes each event
(sent, or discarded after failure), and reports it with Done once, after it has
been concluded; after the queue is closed, Wait returns when all that was read is
concluded and reported. `OutputStep` in EventQueue states it.

What is hard in this code: handlers take `queueMutex` anew for every call, so a
restart may come between any two; Publish holds it while it blocks; Start takes
no lock; Done comes from many goroutines in any order; the agent client changes
units while a handler reads them; watchers outlive their output; starts fail half
way; a configuration is validated in one place and used in another. `PROJECT.json` has each of these as a hazard at its line.

## Modules

| Module | Models | Built on |
|---|---|---|
| `AckContract` | what clients are promised about indices (abstract) | |
| `EventQueue` | `queue/queue.go`, libbeat's memory queue as external | implements `AckContract` |
| `PublisherServer` | `publisherserver/server.go`, any output that keeps the contract | `EventQueue` |
| `ShipperServer` | `grpcserver/server.go`, clients, streams, and the starts and stops of the controller and of `RunUnmanaged` | `PublisherServer` |
| `OutputLoop` | what all outputs share: the loop, the WaitGroup, Wait | `EventQueue` |
| `ConsoleOutput`, `ElasticsearchOutput`, `KafkaOutput`, `LogstashOutput` | the outputs | `OutputLoop`; each implements `QueueSpec`, the specification with the contract |
| `QueueMonitor` | `monitoring/queuemon.go` | `EventQueue` |
| `Configuration` | `config/config.go`, `queue/config.go`, `output/elasticsearch/config.go`, `output/kafka/config.go`, `outputFromConfig`, the backoffs | |
| `ShipperProcess` | a process from its configuration to the end of its output | `ConsoleOutput`, `QueueMonitor`, `Configuration` |
| `Partitioner` | `output/kafka/partition.go`, sarama and the brokers as external | |
| `HealthWatcher` | `output/elasticsearch/watcher.go` and its starts and restarts | |
| `InputHandler` | `grpcserver/inputhandler.go` | |
| `Controller` | `controller/` with the agent client as external | `InputHandler` |
| `EventQueue_proofs`, `ShipperServer_proofs`, `ElasticsearchOutput_proofs`, `LogstashOutput_proofs`, `Controller_proofs`, `HealthWatcher_proofs` | theorems about the module of that name | |
| `KafkaOutput_proofs` | theorems about `KafkaOutput` and `Partitioner`, the two halves of `output/kafka` | |
| `ShipperProcess_proofs` | theorems about `ConsoleOutput`, `QueueMonitor` and `Configuration`, as `ShipperProcess` composes them | |
| `MC...` | instances for TLC | |

The pieces fit together along refinements: `ShipperServer` is checked and proved
with an output that is only known to keep the contract; each output is checked
and proved to keep it (`KeepsContract`); the queue with such an output implements
`AckContract`, and so does the whole server (`ServerImplementsContract`).

### State and actions

- **EventQueue.** Entries are their ids. `nextID`, `unread`, `oldest` are the
  cursors of the ring buffer; `batches` the WrappedBatches handed out, with their
  `doneCount`. `concluded` is history. `Acknowledge` is libbeat's ack loop:
  completed batches leave in the order they were read.
- **PublisherServer.** `attached` is `r.queue != nil`, `out` is `r.out` and its
  loop, `ctl` where the controller goroutine is. Start is one action per
  assignment a handler can see; `StartFails(stage)` leaves behind what was
  assigned before the error return. Close is `CloseLocked`, then `CloseReturns`
  when Wait does.
- **ShipperServer.** A handler is a program counter per client: check, reset,
  first, blocked, rest. Every call of the publisher is one action that needs
  `queueMutex` free; only Publish keeps it. `Refuse` is the answer to another
  UUID, an empty request or an invalid event. `managed` is chosen at the start:
  with an agent the gRPC endpoint is up throughout and is stopped before the output
  (`Shutdown`, `GracefulStopReturns`); without one it opens after the start and the
  output is closed under the handlers (`Serving`, `UnmanagedShutdown`).
  `StuckQueue` describes the one state in which the server hangs although its
  output keeps the contract, and `Hung` is the stutter that lets deadlock be checked
  around it. Outputs that do not keep it (an Elasticsearch output that skips an
  event, a Kafka output without a broker) hang the server as well: that is in the
  modules of the outputs and, as `hung`, in `Controller`. `delivered` is history
  over all queues.
- **Outputs.** `loop` is where the goroutine is, `cursor` the next event of the
  batch in hand, `wg` the WaitGroup. The backend's library is external: the bulk
  indexer answers once for each event, sarama once for each message, lumberjack
  acknowledges a prefix.
- **QueueMonitor.** A monitor per start of the output, with its own
  `queueLimitCount`. A reader (an HTTP request or the diagnostics hook) takes the
  level, loads the count, stores it, loads it again for the reply: four steps, with
  other readers, Close and restarts between them. `seenFull`, `overlapped` and the
  `room` there was when a level was taken are history.
- **Configuration.** A raw configuration is a record of what validation and start
  look at; 0 is "not given", sizes are megabytes, durations seconds. Settings that
  are only good or bad are a set of `faults`: those Kafka's Validate looks at
  (`KafkaChecked`), those only `makeKafka` trips over (`KafkaUnchecked`: topic
  selector, partitioner, TLS, sarama's own checks, codec) and those a start runs
  into (`StartFaults`). `ReadConfig`
  validates it, `StartConfigured` makes settings and output of it, `RetryRequest`
  is one more attempt of a request with the pause before it.
- **ShipperProcess.** Conjoins the three: the console output reads the queue and
  the monitor watches it in the order `ServerRunner.Start` and `Close` give.
- **Partitioner.** One action per way `MessagePartitioner.Partition` can
  return; the configuration, the hash function and the first round robin value are
  chosen in `Init`. `answer`, `tally`, `placed`, `start` and `begun` are history.
- **HealthWatcher.** One watcher per start of the output (`Generations`). Watch
  is split where others can come between: reading the metrics, the first load of
  `callbackFailCount`, the report, the second load.
- **Controller.** A handler of the run loop is split at each read of
  `unit.Expected()`. The runner is reduced to the outputs started and not closed,
  whether a queue is `attached`, and what would keep Close waiting (`hung`): an
  output that is never done (`OutputHangs`), or a handler that waits in Publish for
  room nobody makes (`QueueFills`, after a failed start or behind such an output).
  Close and GracefulStop are steps of their own, taken when they return.

Left out of the actions: log lines, metrics, the text of messages, and states
that are overwritten by the same handler before anything else can happen (such as
"configuring" in `startShipper`).

## Runs

Passing runs (states are distinct states):

| Run | Checks | Bounds |
|---|---|---|
| `shipper_safety` | persisted index sound; `AckContract` (which has it monotone); blocked Publish never loses its queue; streams and replies true over restarts; Close flushes; shutdown order; the inductive invariant `ServerInv`, with what a reply and a stream mean together (`ConfirmedIsDelivered`) and that waiting closes no circle (`NobodyWaitsInVain`) | 2 clients, 1 stream, capacity 2, 2 requests of up to 2 events, 2 queues, every start fault, with and without an agent; symmetric clients; 859k states |
| `shipper_live` | every request is answered, every Close ends, what is accepted is persisted, a stream hears of all progress, no deadlock, with an output that concludes what it reads; the exception is a queue stuck behind a failed start | 2 clients, 1 stream, capacity 1, 2 queues, a start may fail after the queue was made, with and without an agent; 87k states |
| `console_output` | the output contract, flush on Wait, nothing hangs (with `ConsoleInv`); metrics and count of full queues (`MonitorInv`); from configuration to settings (`ConfigurationInv`); the two backoffs are the same (`BackoffsAgree`) | 4 events in batches of up to 2 from a queue of 3, a restart; 2 readers, 3 questions; 518 configurations, with any two things wrong with a Kafka section, up to 5 retries; 923k states |
| `es_output` | the contract; one `wg.Done` per batch and one place per event (part of `ESInv`, like the flush on Wait and `OnlySkippedHangs`); Wait returns unless an event was skipped | 5 events in batches of up to 3, one of them not serializable, a restart; 9k states |
| `kafka_output` | the contract; retries conserve events, flush on Wait, nothing hangs (`KafkaInv`); Wait returns | 4 events, one that cannot be encoded, one refused; 4k states |
| `logstash_output` | the contract; batches given up only by all hosts; nothing hangs (`LogstashInv`); Wait returns | 3 events, 3 hosts; 63k states |
| `partitioner` | partitions exist, keys stay together, round robin is even | int32 from -4 to 3, up to 3 partitions, groups of 1 or 2, hashes 0, 2, 5 and 7; 422k states |
| `health_watcher` | trackers skip nothing, an outage stands reported (`WatcherInv`); failures without a success since the last tick are reported, and so are recoveries; a degraded unit was found so | an output and a restart, counters to 1; 791k states |
| `controller` | one output at a time, who may hold the lock of the endpoint (`ControllerInv`), latest configuration, endpoint as long as inputs; every change is dealt with unless the loop waits for a lost start lock, for a handler stuck in Publish or for an output that is never done | 2 inputs, 2 configurations, 2 levels, 4 changes, every fault, outputs and queues that hang; 1.66M states |

An invariant whose name ends in `Inv` is a conjunction: the type invariant of its
module and the named parts that hold at every step of it. Each of them is inductive
(`MonitorInv` together with what the process knows of the queue), and proved below.

Why the bounds are enough to be interesting: queues are smaller than the number
of entries, so that they fill up; two queues are a restart with events in flight;
batches of different sizes are open at once, so that they complete out of order;
two clients are needed for one to block with the lock while the other waits;
four unit changes allow to add a unit, modify or stop it, remove it and go on; two
readers can lose a count and a third question shows what is left of it; configurations
have every combination of outputs, every fault, and disk sizes and intervals on both
sides of each limit. The
bounds are `MaxEntries`, `MaxEpochs`, `MaxRequest`, `MaxRequests`, `MaxChanges`,
`MaxReads`, `MaxAttempts`, `Generations`, `MaxCount`, `MaxPartitions`, `MaxGroup` and
`MaxRound`, and appear only in guards of the environment.
Deadlock checking is off where the system may rest because a bound is used up or
because the system is idle; it is on in `shipper_live` and `partitioner`.

Every property has a mutant in `PROJECT.json`: a plausible slip in the code that
makes TLC find the property violated.

### Where the code does not do what it says

Each of these runs ends with a counterexample; the quotes are in `findings`.

| Run | What happens |
|---|---|
| `restart_reuses_indices` | ids start over after a restart, under the same UUID: a persisted index of the new queue covers events the old one dropped |
| `unserializable_event` | an event that cannot be serialized is never done: Wait and Close hang |
| `stop_swallowed` | a stop together with a new log level is ignored |

Other things met while modelling. The models have them as the code does, and the
properties are stated around them:

- After a failed `ServerRunner.Start` the queue stays attached:
  `IsInitialized` is true, though its comment says "attached to a queue and
  running", and events are taken that nobody reads (`publisherserver/server.go:84`).
  Once that queue is full, a handler waits in Publish with `queueMutex`, and every
  other request, a new configuration and the shutdown wait behind it:
  `StuckQueue`, the exception in the liveness properties of the server. For the run
  loop the same is `WaitsForHandlers` (GracefulStop) and `WaitsForRunner` (Close),
  two of the exceptions in `ChangesAreHandled`.
- An output that does not conclude what it has read has the same effect without a
  failed start: Close does not return, the queue fills, and requests are not
  answered. The Elasticsearch output does so after an event it cannot serialize
  (`unserializable_event`) and, with `max_retries: -1`
  (`output/elasticsearch/config.go:127`), for a cluster that stays down; the Kafka
  output for a broker that stays down. The liveness properties of the server assume
  it does not happen, the controller run has it happen.
- `PublishEvents` and `PersistedIndex` clear `initErrMsg` after a check that may
  be stale by then: a handler that saw the old queue wipes the error of the
  restart that failed since (`grpcserver/server.go:112`).
- An unmanaged shipper does not stop its endpoint before it closes the output
  (`controller/run.go:99`): handlers may be cut off, hence `managed` in
  `NoHandlerOutlivesOutput`. If its endpoint cannot be started it returns without
  closing the output; nothing has been accepted by then, and it is no step of the
  model.
- `max_retry_interval` of the disk queue is set from `retry_interval`, through a
  nil pointer if only the former is given (`queue/config.go:116`), and is never used
  itself: given both, the maximum is the interval.
- `makeKafka` returns no client and, but for the codec, no error for a topic selector
  that cannot be built (`output/kafka/kafka.go:34`), an unknown partitioner,
  certificates that cannot be loaded (`output/kafka/config.go:178`) and anything
  sarama's own Validate refuses (`:278`); `Start` then uses the client
  (`output/kafka/output.go:36,40`). The configuration's Validate looks at none of
  these, and at nothing at all in a section that is not enabled
  (`output/kafka/config.go:136`). As `DefaultConfig` of the Kafka output is not used,
  a section without `client_id` or `timeout` is probably such a case. These and the
  nil pointer above are the exceptions in `PanicsAreKnown`, by name.
- `type` counts only for units, where `logstash` is refused although the comment
  in `elastic-agent-shipper.yml:4` lists it; from a file the first section of
  `outputFromConfig` counts (`publisherserver/server.go:174`). `strict_mode` is
  read and never applied.
- The disk queue is full above 90%, where the comment says "90% or more"
  (`monitoring/queuemon.go:241`): at a level of exactly nine tenths, which `Truthful`
  leaves open. Between nine tenths and the limit either answer is allowed, as nobody
  knows how many events still fit.
- "disable retries in sarama library" (`output/kafka/config.go`, above `retryMax`)
  is followed by setting them to `max_retries`: sarama retries within each attempt
  of the shipper's own endless loop.
- The Kafka loop ends without `Client.Close`: a restart leaves a producer and two
  workers behind (`output/kafka/output.go:59`). None of them has an event in hand.
- Publish ignores its context and keeps `queueMutex` while it waits for room
  (`queue/queue.go:76`); a cancelled call ends when the output makes room, so
  that cancellation is no step of the model.
- `callbackFailCount` is loaded twice in a tick; a failure counted in between is
  never compared (`output/elasticsearch/watcher.go:138`). `OutageIsReported`
  excludes that window: of failures that only `Fail` has counted it speaks where the
  watcher waits for its ticker.
- Wait does not wait for the watcher, which may mark the unit of the next output
  degraded (`output/elasticsearch/output.go:177`); hence the "or one before it" in
  `DegradedIsReported` (a part of `WatcherInv`).
- A failed `InputHandler.Start` leaves `srv.server` set, and later inputs
  are reported healthy (`grpcserver/inputhandler.go:57`); `HealthyInputHasEndpoint`
  speaks of the server, not of serving.
- The error return for a socket that cannot be removed keeps `startMutex`
  (`grpcserver/inputhandler.go:82`), and Stop then hangs: `WaitsForLock`, the third
  exception in `ChangesAreHandled`.
- A round robin partitioner that starts at the largest int32 overflows, and a
  group begun with more partitions keeps one that is gone
  (`output/kafka/partition.go:176`): the two exceptions in `PartitionExists`. sarama
  refuses the message, and it is tried again.
- The comment at `output/kafka/partition.go:28` promises the same partition on a
  retry, but every retry makes a new `Message` (`output/kafka/client.go:200`): only
  hashing keeps it.
- A failed output unit is reported healthy by an update of its log level only
  (`controller/controller_client.go:206`).

## Fairness

- Goroutines of the program run: weak fairness of each loop.
- `queueMutex` is a Go mutex. In starvation mode it is handed to the longest
  waiter, so a handler that finds it free again and again gets it: strong fairness
  of a handler's and of the controller's step. Weak fairness would not do, because
  other handlers take the lock in between.
- Tickers fire again and again (streams, watchers).
- External: the bulk indexer and lumberjack have timeouts and a number of retries,
  so every request ends. With `max_retries: -1` the Elasticsearch output has no such
  number, and the fairness says that the cluster is not down for ever. For Kafka
  `SF(Success \/ Reject)` says the same of the broker: the code retries without
  limit, and with a dead broker Wait does not return.
- In `ShipperServer` the output is only known to keep the contract, and
  `WF(OutputRuns)` is the half of it that says that what was read is concluded. In
  `Controller` there is no such assumption.
- No fairness of clients, of the agent, or of failures.

## Assumptions about what is outside

- libbeat's memory queue numbers entries from 0, drops unread entries on Close,
  acknowledges batches in order, and stops acknowledging when closed.
- The agent client hands over one change at a time over an unbuffered channel
  and may change a unit while its previous change is being handled; the agent
  removes a unit only after it was told to stop and has reported that it did.
- The bulk indexer calls back once for every item it has taken. The level of the
  disk queue is any level.
- Units of other states than healthy and stopped are not sent as expectations.

## Proofs

Every safety invariant and every safety action property of the passing runs is a
theorem, for every value of the constants. What is assumed of
them is in a named ASSUME of the module that declares them: sizes, limits and bounds
are natural numbers; capacity, batch size, hosts and partitions are at least one; the
inputs of the controller and the readers of the monitor are finite sets; there are no
more partitions than int32 has room for.

- `EventQueue_proofs`: `QueueInvariant` proves `[]QueueInv` and the safety
  properties follow. The persisted index alone is not inductive: that completed
  batches only hold concluded events needs `DoneIsConcluded` (`doneCount` is at
  most the number of concluded entries of the batch), which is where the counts of
  Done meet the sets of events, by cardinality lemmas (`EntriesCount`,
  `FullCount`, `CountGrows`); that the head batch starts at `oldest` needs
  `BatchesAreContiguous`; that concluded events stay inside what was read needs
  `ReadBeforeConcluded`. There is one lemma per operation (`GetKeeps`,
  `DoneKeeps`, ...), which the server's proof uses again.
  `QueueImplementsContract` is the refinement: Enqueue is Accept, Conclude is
  Conclude, Acknowledge is Persist, New is NewGeneration, all else stutters.
  `ContractIsSound` and `ContractTakesNothingBack` are about the abstract
  specification alone: what a client may conclude holds of whatever implements it,
  so that the contract is worth implementing. Both follow for the queue and the
  server from their refinements.
- `ShipperServer_proofs`: `ServerInvariant` proves `[]ServerInv`. On top of
  `QueueInv` it has `LockInv` (who holds `queueMutex`, and that a queue is
  attached exactly while it is open), `OutInv` (without an output nothing is read
  and not concluded), `ShutdownInv` (the order of the shutdown, with an agent and
  without), `TodoInv`
  (a publishing handler has an event left) and `HistoryInv` (what streams and
  replies say of the current queue is at most what it is at). Frame lemmas
  say which part of the state each group of actions leaves alone.
  `ServerPersistedSound` and `ServerPersistedMonotone` carry the queue's results
  over to the server, and `ServerImplementsContract` is the refinement of the whole.
  `ConfirmedDelivered` is the version of `PersistedCoversReplies` (refuted by
  `restart_reuses_indices`) that is true: a client has to know which queue a reply
  and a stream speak of, and the protocol does not tell it. It follows
  from `AcceptedIndexIsLast` and `StreamsAreSound`, which are part of `ServerInv`.
  `OnlyStuckQueueHangs` looks at every circle of waiting there could be (mutex, room
  in the queue, handlers, an output that keeps the contract) and leaves one, which
  `StuckQueueHangs` shows nothing breaks; that a blocked handler has an output that can read for it is
  `LockInv` with `OutInv`.

- **The four outputs** use the counting lemmas and the lemmas about the operations
  of the queue in `EventQueue_proofs` (`LastDone`: Done for the last batch;
  `OpenBatches`, `OnlyLastOpen`, `BatchesOrdered`: which batches are open). For each
  output X there is `XInvariant`, from which follow `XFlushes` (Wait returns with all
  that was read concluded and counted) and `XKeepsContract` (every step is a step of
  `QueueSpec`: Done is called for what is concluded and not counted yet, on a batch
  that is still in the queue).
  For Wait after a close there is, for each output, the part of "Wait returns" that
  needs no fairness: as long as Wait has not returned something can go on
  (`XNeverHangs`, for Elasticsearch `OnlySkippedHoldsWait`), and every step lowers `Left`, a natural number
  (`XWindsDown`).
  - Console and Logstash take one batch at a time: `SerialInv` says that all before
    the batch in hand is concluded and reported, and of it nothing is. For Logstash
    `RotationInv` describes the hosts tried as a run of `tries` hosts from some start,
    modulo their number; without it "all hosts have failed" does not follow from the
    count of tries (`LogstashGivesUpLast`).
  - Elasticsearch has many batches open. That Done of a callback finds its batch still
    in the queue needs `ProgressInv`, `BatchesOrdered` and the exact count in
    `EventsAccounted`: a batch leaves only when every event is counted. The
    same count shows that an event that was skipped keeps its batch open:
    `OnlySkippedHoldsWait` and `SkippedHangs` prove what the run
    `unserializable_event` found, for every queue and batch, and that there is no
    other cause.
  - Kafka: an attempt moves events between `data`, sarama and `failed`.
    `AttemptsConserveEvents` is about numbers; it is inductive only with
    `PlacesDisjoint` (no event twice) and `AttemptInv` (all of them in the batch in
    hand, none of them concluded), by lemmas about the range of a sequence without
    repetition. The number of attempts has no bound, so there is no
    `KafkaWindsDown`: `KafkaAttemptsProgress` shows that each attempt ends and that
    the next one is made of exactly what is open.
- **Partitioner** (in `KafkaOutput_proofs`). `GroupInv` says where a group's partition
  comes from, which leaves the two exceptions of `PartitionExists` and no other.
  `HashInv`, that keys went where their hash says, gives `SameKeySamePartition`.
  That round robin is even is not inductive: `RoundInv` orders the partitions by when
  their turn comes (`Sooner`) and says that the tally grows along that order by at most
  a group, the current partition counted as of the beginning of its group. The
  overflow of the first increment is `NextInt32`, for every largest int32.
- **`ShipperProcess_proofs`.** `ProcessRunsConsole` shows that a process, seen without
  its monitor and configuration, is a `ConsoleOutput`. `MonitorInvariant`: the
  unguarded count needs `CountsLag` (stored or loaded, it is behind what was seen by
  at least the readers that are still counting) and `OneAtATime` (without overlap one
  reader counts, with what is stored); that full is said of a queue without room and
  not of one with ample room is `DataFacts`, for events and for bytes.
  `ConfigurationInvariant` rests on `StageInv`: what was started had been accepted.
  From there `PanicsKnown` shows that of an enabled Kafka section only what Validate
  does not look at can end in a panic, whatever set of faults it has.
  `BackoffsAgreeAlways` is about what a loop and
  a logarithm compute, for which induction over the number of retries is needed.
  As the library's induction theorems cannot be used, an induction is by the least
  counterexample, an element of a set of natural numbers, and `2^n` is the number
  of subsets of `1..n`, for which `FiniteSetTheorems` has the facts that arithmetic
  lacks (`Powers`, and then `DelayTimeIs` and `KafkaDelayWithin`).
- **`Controller_proofs`.** `LatestConfigRuns` needs to know what a stale read can have
  seen: `StaleReadsInv` ties where the run loop is to what the agent may have done
  since, `SyncInv` says that an output without the latest configuration has a change
  in hand or on offer that will not be taken for one of the log level only, and
  `EndpointInv` who has the endpoint while a handler is at work. `LockInv` says that
  only a failed Start leaves `startMutex` held and that no Start waits for it;
  `LostLockHangs` that it is then never released, which is why `ChangesAreHandled` has
  that exception. `RunnerInv` says what Close can have to wait for, and
  `HungRunnerHangs` that it then waits for good, the two other exceptions.
  `HandlersComeToAnEnd`: a handler does not go round in circles however the agent
  changes the unit under it.
- **`HealthWatcher_proofs`.** `TrackersLag` at every point of a tick; `ReportsRemembered`
  keeps `didFail` of the watcher that degraded the unit, over restarts.
  `OutagesStandReported` is `OutageIsReported` without the time: failures found
  without a success since the last tick are reported before the trackers move on;
  where nothing has ever succeeded the report stands; and there is no report without
  a failure.

Only model-checked:

- liveness (`RequestsAreAnswered`, `CloseCompletes`, `ProgressIsReported`,
  `AcceptedIsPersisted`, `WaitReturnsEventually`, `WaitReturnsUnlessSkipped`,
  `RecoveryIsReported`, `OutageIsReported`, `ChangesAreHandled`): fairness and ENABLED
  are out of the prover's reach. Of `WaitReturnsEventually` for Logstash and
  `WaitReturnsUnlessSkipped` what is left to TLC is that fairness turns a step that
  can be taken and a number that falls into an end; of `CloseCompletes` and
  `RequestsAreAnswered` that the steps which can be taken lead there;
- that the counterexamples of `restart_reuses_indices` and `stop_swallowed` are
  behaviours of the code. What `unserializable_event` shows is also proved.

Only proved, as they say more of every instance than of a small one: `WindsDown`,
`AttemptsProgress`, `SkippedForGood`, `StuckForever`, `LockIsLost`, `RunnerIsLost` and
`HandlersEnd` (action properties) and the two theorems about `AckContract`. TLC was asked about each
before it was proved.

## Not modelled

- The disk queue beyond its settings and its level: it is libbeat's, its persisted
  index is the constant 0 here (`queue/queue.go:114`), and what it keeps over a crash
  cannot be told from this repository.
- Unpacking by go-ucfg, and the values of settings that are only passed on (TLS, SASL,
  paths, log settings). Control depends on whether they can be used at all: that is
  one fault each in `Configuration`, not a model of what go-ucfg, tlscommon or sarama
  accept.
- Encoding of events for a backend: only whether it fails matters to the outputs.
- Command line, version and build scripts (`magefile.go`, `dev-tools`), tests and
  their environments: pure I/O, or not part of the shipper.

## Plan

1. Done: queue, publisher, gRPC service, their composition and proofs; the
   outputs against the contract; Kafka partitioner; health watcher; endpoint and
   controller.
2. Done: failed starts under fairness, unmanaged mode, queue monitor,
   configuration and backoffs, the process they make up.
3. Done: an inductive invariant for every module, and every safety property of the
   runs proved from them; each output proved to implement `QueueSpec`.
4. Done: what a client that follows the protocol may conclude over restarts; who can
   wait for whom, and the safety half of the liveness properties.
5. Next, if the code changes: a measure for the shutdown of the server as a whole,
   and shorter proofs where a lemma can be shared.
