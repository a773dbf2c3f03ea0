# gpu-pipeline in TLA+

A verification project for `gpu-pipeline`, a telemetry pipeline in Go: streamers
publish GPU records to a message broker of the project's own, collectors poll it
and store the records in PostgreSQL, a gateway serves them over HTTP. The
specifications are translated from the code under `src/`; a definition and the
lines it stands for are paired in the `map` of `PROJECT.json`.

The broker carries the system's promises (order, at-least-once, deletion only
after consumption) and all of its shared mutable state, so it comes first here.

## 1. The system

```
 streamer --POST /publish--> Queue -> Topic -> Partition 0..n-1   <- Compactor (timer)
                                       ^  |
                collector --GET /consume--' |
                collector --POST /ack-------'
                    '--> PostgreSQL <-- api-gateway <-- HTTP clients
```

### Components

| component | source | state | operations |
|---|---|---|---|
| Partition | `mq/internal/partition.go` | slice of messages behind an RWMutex; `sync.Map` group -> `*atomic.Int64` | Append, ReadFrom, Get, Commit, Offset, GetMinConsumerOffset, Compact |
| Topic | `mq/internal/topic.go` | partitions, sorted hash ring, partitioner function | Produce, GetPartition, SetPartitioner |
| Queue | `mq/internal/queue.go` | map of topics behind an RWMutex | CreateTopic, Publish, Consume, Ack, CompactTopic, GetPartitionStats |
| Compactor | `mq/internal/compactor.go` | running flag, configuration, done channel, `sync.Once`, one goroutine per Start | Start, Stop, UpdateConfig, the loop |
| ConsumerGroup | `mq/internal/consumer_group.go` | partition -> offset behind an RWMutex; not used by the server | Consume, Commit, Offset |
| HTTP API | `mq/api/handler.go`, `routes.go` | none | one handler per Queue operation |
| Client | `mq/client/client.go` | none | Publish, Consume, Ack: one request each, no retry |
| Collector | `collector/internal/collector.go`, `store.go` | the batch in hand; the rows in the database | poll, insert, ack, for each partition in turn |
| Streamer | `streamer/internal/streamer.go`, `reader.go` | position in its CSV file | publish each record, for ever |
| Gateway | `api-gateway/...` | none (reads the database) | list GPUs, query telemetry |
| Database singletons | `api-gateway/pkg/db/connection.go`, `collector/internal/store.go` | connection, `sync.Once`, error | Connect / InitStore, Close, Reset |

All state of the broker is in memory: a restart of the server is a new queue, and
nothing in the code recovers from one, but the collectors do not notice. Collectors and streamers keep nothing
across restarts either, except through the broker and the database.

### How they interact, and what is hard

* **One partition, many goroutines.** Every HTTP request runs in a goroutine of
  its own. Append, the reads and Compact take the partition's mutex. Commit takes
  it only to check its argument and then works on the `sync.Map` without it, so
  commits interleave with the two Ranges of Compact, one atomic operation at a
  time.
* **A poll is three critical sections and an ack is a fourth.** Consume looks up
  the group's offset, then reads. HandleConsume looks the offset up again to
  number the batch. The collector sends the number back in a later request. Other
  collectors of the group, a restart and a compaction may come between any two.
* **Offsets are relative.** They count from the first *retained* message, so
  Compact has to shift every counter. A number that is outside the partition
  while Compact runs keeps its old meaning.
* **The scheduler's channel is replaced.** Stop closes `done`; UpdateConfig
  closes it and then replaces it and the `sync.Once`, without the mutex, while a
  loop may be compacting and not listening. Start does not replace it.
* **A lock that is taken twice.** ConsumerGroup looks a partition up under its
  RWMutex and stores what was missing under it again, and Consume reads the offset
  twice without it.
* **A table that grows under its readers.** The gateway's answers end at their last
  record, and a client asks on from there while the collector inserts what two
  streamers stamped some time before.
* **Losses.** Client calls are never retried. A response that is lost must bring
  the same batch again; a lost ack likewise.
* **Requests without a caller.** A server goes on with a request whose client has
  died or was cut off, so an ack, an insert or a publication may be carried out when
  the next process of the same collector or streamer has long gone on.
* **Errors and restarts of the collector.** A record that cannot be parsed or
  inserted is logged and acknowledged all the same. A collector that dies within a
  batch gets it again, so rows must survive being inserted twice; and main closes
  the store under a loop that is still running.

### What makes each component correct

* Partition: no message lost or reordered except a trimmed prefix; the prefix is
  behind every registered group; trimming moves no group; counters stay in range;
  the mutex is always given back.
* Consume and ack: a group's offset passes only messages that the group was
  given; a message is deleted only after every group was given it; each poll ends;
  each message arrives.
* Compactor: no channel is closed twice; Stop stops every loop; a running
  compactor has a loop; what is due is compacted.
* Topic: a key always goes to the same partition, in range; a ring with one
  partition more moves keys only to that partition.
* ConsumerGroup: the offset of a partition passes only what was consumed, and the
  messages of a key are given out in their order.
* Pipeline: what the collector acknowledges is in the database, was no record, or
  returned an error (which an ack that overtakes a poll may break, and nothing else);
  a row is never replaced; no message blocks its partition.
* Gateway: what was answered once stays true; a client that asks on from the end of
  its last answer misses nothing; what a streamer publishes comes out.

`PROJECT.json` lists the hazards behind these, each at its line, with the
properties that cover it.

## 2. The modules

| module | what it is |
|---|---|
| `Partition` | one partition with any number of groups and committing goroutines |
| `RetainedLog` | what a partition promises its readers: an append-only log, trimmed at the head |
| `PartitionProofs` | theorems about `Partition` |
| `Delivery` | EXTENDS `Partition` with the collectors, their requests and the ack handler |
| `AtLeastOnce` | what the broker promises a consumer group |
| `DeliveryProofs` | theorems about `Delivery`, EXTENDS `PartitionProofs` |
| `DeliveryFaults` | EXTENDS `Delivery` with restarts of collectors and of the broker |
| `DeliveryFaultsProofs` | theorems about `DeliveryFaults`, EXTENDS `DeliveryProofs` |
| `Compactor` | the scheduler, its loops, its owner and the queue as it sees it |
| `CompactorProofs` | theorems about `Compactor` |
| `Topic` | the two partitioners, and a topic's partitions as logs |
| `ConsumerGroup` | EXTENDS `Topic` with the group in memory and the goroutines that share it |
| `ConsumerGroupProofs` | theorems about `Topic` and `ConsumerGroup` |
| `Pipeline` | streamers, collector and store, over the broker that `AtLeastOnce` describes |
| `TelemetryTable` | what the pipeline promises to those who read the database |
| `PipelineProofs` | theorems about `Pipeline` |
| `Gateway` | EXTENDS `Pipeline` with the API gateway and its clients |
| `GatewayProofs` | theorems about `Gateway`, EXTENDS `PipelineProofs` |
| `Extremes` | lemmas on least and greatest elements, for `ConsumerGroupProofs` and `GatewayProofs` |
| `MC...` | the values the configurations give to constants, and symmetry sets |

### Partition

`messages`, `offsets` and `counter` are the slice, the map and the heap of atomic
counters. The heap matters: two first commits of a group may each allocate a
counter, and a goroutine may hold a pointer to one that has left the map.

| code | actions |
|---|---|
| Append | `AppendMessage` |
| Commit | `CommitCall`, `CommitCheck` (bounds, under the read lock), `CommitLoad` (`offsets.Load`), then `CommitStore` or `CommitRegister` |
| Compact | `CompactLock`; `CompactVisit` and `CompactScanLoad` per group of the first Range; `CompactNothing` (early return) or `CompactCut`; `CompactVisit`, `CompactShiftLoad`, `CompactShiftStore` per group of the second; `CompactUnlock` |
| Offset, ReadFrom | operators |

A message is the number of its Append. `removed` counts what Compact cut,
`start` remembers where each registered group stood when Compact took the lock,
and `dirty` which groups committed since; these are history variables that the
code does not have.

Deliberate choices:

* `Offset` is a map load and an atomic load in the code and one step here: a
  counter that leaves the map in between is overwritten by a commit that is
  concurrent with the read, so the read may be ordered before it.
* `sync.Map.Range` visits what was in the map when it began, and may or may not
  visit what is added meanwhile, in any order; that is its documentation.
* Append is capped at `MaxAppends` successful calls. It is the only bound in the
  module.
* Integers are unbounded. The code computes `start + max` in an `int` without a
  test for overflow; the batch is a small constant here, so this is not covered.

### Delivery

| code | actions |
|---|---|
| Queue.Consume | `PollOffset` (`part.Offset`), `PollRead` (`part.ReadFrom`) |
| HandleConsume after it, and the collector's receipt | `PollRespond`, or `PollLost` |
| collector sends the ack, HandleAck, Queue.Ack | `Ack` (which takes `CommitCall`), or `AckLost` |
| the goroutine of the ack | `Checking`, `Committing` (Partition's steps) |
| the collector has the answer | `AckDone` |
| Publish; HandleCompact and the scheduler | `Publish`; `Compaction`, `Compacting` |

`CompactWhen` is the deployment: compaction disabled, run by the scheduler, or
run by an operator at rest, which is while no collector is in a poll or an ack and when
every group has committed. `MayCompact` and `MayPoll` say so. They are assumptions
about the operation of the system: HandleCompact compacts whenever it is called. `Proc` are the server's goroutines: net/http starts one
per request, and `Free` takes one that is not in use. Which messages a group has
been *given* is history (`delivered`). What the collector does with a message is in
module `Pipeline`.

### DeliveryFaults

| code | actions |
|---|---|
| the collector's process ends while the server runs its ack | `CollectorRestart` (in any other state a restart is a lost call of `Delivery`) |
| the broker's process ends, `mq-server/main.go` runs again | `ServerRestart`: a new partition, an unlocked mutex, no requests; a collector that is processing a batch keeps it |

`misled` is history: the groups that may have been given a wrong offset, because a
compaction ran during one of their polls or acks, two of these ran at once, the
broker restarted under a batch, or a compaction deleted messages before they were in
the map. `SkipsHaveACause` says that no other group has anything wrong with its
offset, and `NeverGoesBack` that none is given again what it has acknowledged: they
are what is left of at-least-once in every deployment, and bound the two findings
about it. After a restart of the broker
the histories (`delivered`, `appended`) count anew, with the new log.

### Compactor

The owner calls Start, Stop and UpdateConfig one after the other, as the server's
`main` (Start, Stop) and the tests do. The two halves of Stop and the five steps
of UpdateConfig that are separated by the mutex, the `sync.Once` and unprotected
assignments are actions. Each loop goroutine has a program counter: it evaluates
`c.done` when it comes to its select (`LoopWait`), then takes a tick or the
closed channel, lists the topics, looks at the length and then the watermark of
each partition, and compacts all partitions of a topic if one is due. Several
loops may exist. A partition is its length and its watermark. A commit is two actions,
`CommitCheck` (against the length, under the read lock) and `CommitStore` (later, and
without a lock), so a compaction may come between them and the watermark may lie
beyond the log. `Trim` is Compact: it clips the watermark to what there is, and leaves
an empty partition, its watermark included, as it is.

Deliberate choices: a ticker may tick at any time, since intervals are real time;
intervals are positive (`time.NewTicker` panics otherwise, a hazard that is
listed and not modelled); reading `running` and `Enabled` after a tick is merged
with the tick; the scheduler's Compact is one step, as module `Partition` has the
detail. Bounds: `Loop` (loops at a time), `MaxChannels` (channels made),
`MaxLength` (messages of each partition), `MaxCommits` (commits between check and store).

### Topic and ConsumerGroup

| code | definitions |
|---|---|
| NewTopicWithReplicas, its partitioner | `Ring`, `Owner` (hashMap keeps the partition added last), `PointFor` (`sort.Search`, and round the circle), `RingLookup` |
| CreateTopic's partitioner | `ModuloPartitioners` |
| Produce | `Produce`, through `Route` |
| ConsumerGroup.Consume | `ConsumeLookup` (read lock), `ConsumeCreate` (write lock), `ConsumeLoad` (first read of `pc.offset`), `ConsumeRead` (ReadFrom), `ConsumeReturn` (second read) |
| ConsumerGroup.Commit | `CommitLookup` or `Rewind` (read lock), `CommitInsert` or `CommitSet` (write lock) |
| ConsumerGroup.Offset | `Offset` |

A hash function is any function to `0..MaxHash`, so points of two partitions, and a
point and a key, may have the same hash. `TopicInit` picks a partitioner that one of
the two kinds can be. `offset` is the heap of PartitionConsumers: the map may be made
to point to another while a goroutine still holds the one it was given. `shared` is
history: the partitions that two goroutines have been busy with at once. On these an
offset can be lost or pass messages that were not returned (the code tests and
creates in two critical sections, and reads the offset twice), so the properties
are about the others, which share only the map. The server does not use this
type. The code reads `pc.offset` without the mutex; a word that another goroutine
writes is the old one or the new one, and each read is an action.

`MinimalMovement` (`mq/README.md:497`, `topic.go:45`) compares the partitioner of a topic
with the one of a ring of one partition more with the same hashes (`Grown`). A topic
that the server creates uses the modulo, which has no such property.

### Pipeline

| code | actions |
|---|---|
| StreamBatch, publishRecord | `Stamp` (timestamp, then the key), `Publish` (the broker has the message, whether the streamer hears of it or not), `PublishFails` |
| any other client of the HTTP API | `PublishOther` |
| Collector.Run, for each partition in turn | `PollRead` (Queue.Consume: offset and messages), then `PollRespond` (HandleConsume: the second look at the offset, the numbering) or `ConsumeFails`; per message `Reject`, `Insert` or `InsertFails`; `Ack` or `AckFails` |
| collector's main | `Signal`, `CloseStore` |
| a process ends and starts again | `CollectorRestart`, `StreamerRestart` |
| a request whose caller is gone is carried out | `AckLands`, `InsertLands`, `PublishLands` |

A message is its number in the order of publication, and `sent` says what it
carries: a GPU, a second and the kind of its payload. `rows` is the table, as the
numbers of the messages its rows were made from; `Key` is what the unique index is
on. `failed` is history: the messages whose insert returned an error.

`late` holds the requests that have no caller any more: net/http and PostgreSQL go on
with a request when its client dies or loses its connection. Where a step gives a
request up (a restart, an ack, insert or publication that fails), `Abandon` lets it
vanish or stay there, to land at any later time, after whatever the next process has
done. So an old ack may set the offset back, which only brings messages again; or it may
move the offset on between the two lookups of a poll (`queue.go:128`,
`handler.go:231`). Then the response is numbered too high and its ack passes messages
that nobody was given, as in `delivery_replicas`, with one collector. `overtaken` is
history: the partitions where that has happened. What is said of acknowledged messages
(`StoredOrFailed`, `FirstWins`) is said of the others. That is as much as the code keeps:
of all orders in which requests may land, this one alone makes a gap.

Deliberate choices:

* The broker is what `AtLeastOnce` promises: a log per partition and a position of
  the one group, which one collector reads. That the real broker is that good with
  one collector per group and compaction at rest is what `Delivery` and
  `DeliveryProofs` show; the two runs of `Delivery` that end in a violation show
  what this excludes. The one thing that `AtLeastOnce` has and this broker has not is
  that a response is numbered from where it was read: here the second lookup is a step
  of its own. Offsets here count from the first message ever published. As the log
  only grows, the first lookup and the read make one step, and so do the check and the
  store of a commit.
* Payloads are bytes to `mq/client`, base64 text in its JSON, and any string to the
  server. So there are three kinds of payload: a valid record; `"bad"`, what
  decodes but is not JSON or not a valid record; `"opaque"`, what does not decode.
  `Readable` is the decoding of a response.
* A failed insert may or may not have reached the table, or may reach it later. An ack
  whose response is lost is an `Ack`; one that is lost on its way, or that lands later,
  is an `AckFails`. The same holds of `Publish` and `PublishFails`. A poll that is given
  up on changes nothing, and is not kept.
* The context of `Run` is cancelled by main's return, so the loop ends with the
  process. A collector without a DSN inserts nothing and only fails.
* A streamer waits for its file before it starts, and ends if it cannot read it;
  the file has at least one record. Its pauses between records are left out.

Bounds: `MaxClock` (seconds), `MaxSent` (messages), `MaxRestarts` (restarts of the
collector, and signals before the first), `MaxLate` (requests without a caller at a time).

`TelemetryTable` is what `Pipeline` implements: a table to which a record that was
published is added if its GPU and second have no row, and which never loses or
changes one. Publication there is of any message.

### Gateway

| code | actions |
|---|---|
| main, db.Connect | `Connect`; `GatewayRestart` (it fails to connect, or ends, and starts again) |
| ListGPUs, GetGPUIDs | `ListGPUs` |
| GetGPUTelemetry: handler, service, repository | `GetGPUTelemetry`, through `Select` (the query) and `Response` (the start and end that were not given are those of the first and last record) |
| a client that polls for what is new | `Follow`: it asks from the end it was given last |

A request is one query, so it sees the table at one moment. The gateway keeps nothing
between requests, and so a request that is refused or fails is left out. `Follow` is
not in the repository: it is the client that an end time in the response invites.
`FollowerMissesNothing` and `EveryRecordServed` need three conditions (`Undisturbed`),
each of which the rest of the system can break: no insert failed (its redelivery would
come later with an older timestamp); the records of the GPU were published in the order
of their timestamps (streamers stamp before they publish, and a publication may land
late); and no ack overtook a poll of its partition (the messages it skips are not
served, or are when the offset is set back). Without them rows are missed.

## 3. What is checked

| run | instance | shows |
|---|---|---|
| `partition_safety` | 2 groups, 2 goroutines, offsets 1 and 2, capacity 2, 3 appends; symmetry | `TypeOK`, `LogIntegrity`, `WatermarkRespected`, `PositionKept`, refinement of `RetainedLog` |
| `delivery_quiet` | 2 collectors, a group each, batch 2, 4 messages, compaction at rest, losses, fairness | `DTypeOK`, `NothingSkipped`, `AckMatchesBatch`, `DeletedWereConsumed`, `CommittedInRange`, refinement of `AtLeastOnce`, `EveryMessageArrives` |
| `delivery_faults` | 1 collector, 2 groups of which one has no collector yet, batch 2, 4 messages, compaction at any time, restarts of the collector and of the broker at any time, fairness | `SkipsHaveACause`, `NeverGoesBack`, `PollsReturn`, `CompactReturns` |
| `compactor_safety` | 2 loops, 2 channels, 2 partitions of which one gets 2 messages, 1 commit between check and store, threshold 1, fairness | `TypeOK`, `CloseOnce`, `EveryLoopHears`, `StopStops`, `DueIsCompacted` |
| `pipeline_delivery` | 1 streamer, which comes round to its record within a second; another client; 2 partitions, batch 2, 2 messages, 2 seconds, 1 restart, failing inserts, 1 request without a caller, fairness | `TypeOK`, `StoredOrFailed`, `FirstWins`, `EveryMessageSettled`, refinement of `TelemetryTable` |
| `group_safety` | 2 partitions of 2 points, hashes 0 to 3, 2 keys, 2 members, batch 2, 2 messages, 1 rewind; symmetry | `TypeOK`, `OffsetTracksConsumed`, `KeyOrder`, `MinimalMovement` |
| `gateway` | 1 streamer, 1 GPU, 1 partition, batch 1, 2 messages, 2 seconds, 1 restart, 1 request without a caller, windows up to the first second, fairness | `GTypeOK`, `AnswersStand`, `FollowerMissesNothing`, `EveryRecordServed` |

Why the bounds are enough to be interesting. In `partition_safety` two commits of
one group can both register a counter; a commit checked against a log of two can
be stored in a log of none or one, so watermarks beyond the tail occur; and three
appends let a second compaction follow the first. In `delivery_quiet` four
messages in batches of two make full, partial and empty batches, before and after
a compaction. In `delivery_faults` one collector is enough for two requests of a
group at once, since it may die over its ack; four messages let a log that was
compacted grow past an acknowledgement in the old numbering; the second group is the
one that has not committed when a compaction deletes messages. In `compactor_safety`
two channels are what it takes for a loop to miss one and find the next; the length
trigger (2 > 1) and the watermark trigger both fire; two messages and a commit let the
partition be trimmed between the check and the store of a watermark that then lies
beyond it, and be trimmed again. The second partition is empty, so that a round goes
through more than one. In `pipeline_delivery` the same GPU comes twice within a second,
or a message is stamped before and published after another; a batch of two is cut by a
restart, has an insert fail, or holds a message that is no record. One request without a
caller is an ack that lands during the next poll or after later acks, an insert that
lands when its message has been passed, or a publication that lands after a later one. In `group_safety` four hashes for four points and
two keys make every order and every collision of points and keys; two messages in
batches of two are a full batch, partial ones and a re-read. In `gateway` two seconds
and a publication that lands late are what it takes to publish out of order; batches of
one make the ack of each message a request of its own, as the trace of an overtaken poll
needs (ack 1 is abandoned, the next poll reads message 1, ack 1 lands, message 2 is
passed unread). Deadlock is checked in
every run: pollers and tickers never stop.

### Runs that end in a violation

Five statements of the documentation do not hold of the code. Each has a run that
exhibits a counterexample.

| run | statement | what happens |
|---|---|---|
| `delivery_replicas` | "At-least-once delivery semantics" (`mq/README.md:26`) | Two collectors A and B of a group, as the manifests deploy them. B reads its batch; A's ack moves the offset; B's response numbers its batch from the new offset, and B's ack passes messages nobody was given. A single collector that restarts over its own ack can do the same (see `SkipsHaveACause`). |
| `delivery_compaction` | "messages are only deleted once ALL consumer groups have consumed them" (`partition.go:228`) | A collector holds a response while Compact renumbers. Its ack, in the old numbering, is in range of a log that has grown; the next Compact deletes messages that were not delivered. |
| `compactor_restart` | "Start begins the background compaction routine. Safe to call multiple times." (`compactor.go:57`) | Start after Stop launches a loop that finds the closed channel and ends; the compactor stays "running" without a loop. |
| `pipeline_opaque` | "Log and skip bad messages, don't break consumer loop" (`AI_DEVELOPMENT_WORKFLOW.md:403`) | A payload that is not base64 text, which the server accepts, makes the client refuse every response that contains it. The collector polls the same batch for ever. |
| `pipeline_shutdown` | "Graceful Shutdown ... Allows in-flight messages to complete" (`collector/README.md:155-158`) | After a signal main closes the store under the running loop. An insert fails, is logged, and its batch is acknowledged. |

Four more observations have no run of their own. A group joins the map with its
first commit, not with its first poll, so Compact may delete what a new group has
still to read: for this reason `Delivery` lets an operator compact at rest only
when every group is in the map. A loop that compacts during UpdateConfig never
sees the channel that was closed and listens, beside the new loop, to the new one
until the next Stop. And the
offset that a Commit stores may exceed the tail when Compact comes between Commit's
check and its store (`partition.go:151` says it must not), which is why
`CommittedInRange` is claimed only without compaction or with compaction at rest. Such
an offset outlives the next compaction, which clips it for the cut and takes only that
much from it. If the partition is empty then, Compact returns early and never touches
it, so the trigger of the scheduler finds the partition due in every round, and frees
nothing, until messages or another commit come. `DueIsCompacted` therefore speaks of
what can be freed (`Freeable`: the watermark, or the length if that is less).

### Fairness

Each conjunct stands for something the runtime or the code gives:

* `WF` of Compacting, OwnerStep, LoopStep: goroutines run, and those steps do not
  block. (Compact waits for nobody once it has the lock.)
* `SF` of `Checking \/ Committing`, and of PollRead: these wait for the read lock, which
  is taken again and again by writers. `sync.RWMutex` lets the waiting readers in when
  a writer unlocks, so none is passed for ever.
* `SF` of PollOffset (with PollRead): the collector's loop has no end
  (`collector.go:49`); with compaction at rest the operator stops it for a while and
  does not do so for ever.
* `SF` of PollRespond, and of Ack with AckDone: the network may lose responses and
  acks any finite number of times. Without this no system with a lossy network
  delivers.
* In `DeliveryFaults`, `SF` of `Proceed`, which is whatever a collector does once it
  polls, a lost call included: that calls succeed is not assumed there.
* `SF` of LoopExit: a `select` with two ready channels picks at random, so a
  closed channel is not ignored for ever.
* In `Pipeline`, `SF` of PollRespond for each partition and of Ack for each partition:
  the loop comes to every partition again, and its requests are not lost for ever.
  `WF` of the loop as a whole (`CollectorStep`). None of the requests without a caller:
  they may land or not. That restarts end is `MaxRestarts`: a collector
  that dies in every batch gets no further, in the code as in the model. The client
  sets no timeout, so a request that never ends is excluded here.
* In `Gateway`, besides, `WF` of Connect and `SF` of Follow: the process is started
  again and reaches its database, and its client gets an answer between restarts,
  which may go on for ever.

No fairness is assumed of publishers, of the owner's calls, of a new compaction,
of losses and restarts, or of any member of a ConsumerGroup.

## 4. What is proved

For all values of the constants, under the named assumptions of the modules:

| theorem | statement |
|---|---|
| `PartitionProofs!TypeCorrect` | `Spec => []TypeOK` |
| `LogIntegrityHolds`, `WatermarkRespectedHolds`, `PositionKeptHolds` | the partition's safety properties |
| `ImplementsRetainedLog` | `Partition` refines `RetainedLog` |
| `DeliveryProofs!DeliveryTypeCorrect` | `DSpec => []DTypeOK` in every deployment |
| `CommittedInRangeHolds` | assuming `CompactWhen = "never"` |
| `SoloCommittedInRangeHolds`, `NothingSkippedHolds`, `AckMatchesBatchHolds`, `DeletedWereConsumedHolds`, `ImplementsAtLeastOnce` | assuming `Solo` |
| `DeliveryRetainsLog`, `DeliveryKeepsPosition` | `DSpec => RetainedSpec`, `DSpec => PositionKept` in every deployment, compaction at any time included |
| `DeliveryFaultsProofs!RestartTypeCorrect`, `RestartKeepsLog` | `RSpec => []DTypeOK`, `RSpec => []LogIntegrity /\ []WatermarkRespected` in every deployment, with restarts |
| `SkipsHaveACauseHolds`, `NeverGoesBackHolds` | `RSpec => []SkipsHaveACause`, `RSpec => NeverGoesBack`, likewise |
| `CompactorProofs!CloseOnceHolds`, `EveryLoopHearsHolds`, `TypeCorrect` | `Spec => []CloseOnce`, `Spec => []EveryLoopHears`, `Spec => []TypeOK` |
| `ConsumerGroupProofs!MinimalMovementHolds` | `MinimalMovement`, for any hashes and numbers of points and partitions |
| `ConsumerGroupProofs!TypeCorrect`, `OffsetTracksConsumedHolds`, `KeyOrderHolds` | the group's properties, for either partitioner |
| `PipelineProofs!TypeCorrect` | `Spec => []TypeOK`, which includes that rows are unique and that no late ack leaves the log |
| `StoredOrFailedHolds`, `FirstWinsHolds` | the pipeline's safety properties, of the partitions that no ack overtook |
| `ImplementsTelemetryTable` | `Pipeline` refines `TelemetryTable` |
| `GatewayProofs!AnswersFit`, `AnswersStandHolds`, `FollowerMissesNothingHolds` | `GSpec => []GTypeOK`, `[]AnswersStand`, `[]FollowerMissesNothing` |
| `GatewayOnlyReads`, `GatewayKeepsTable` | `GSpec => Spec` (of `Pipeline`), and so `GSpec => TableSpec` |

`Solo` says: one collector per group, and compaction off or at rest; restarts over an
ack are not in `Delivery`. Each of the three is needed: `delivery_replicas` drops the
first, `delivery_compaction` the second, and a restart acts as a second collector.

The arguments:

* *Partition.* `TypeOK` is inductive as it stands, given that counters only grow
  in number; it contains the facts the code relies on (pointers are good, `cell`
  is set when it is used). `LogIntegrity` needs only it. `WatermarkRespected` and
  `PositionKept` need to know where each group is in the two Ranges: before it is
  visited in the first its counter is at its start, so once it has been visited
  `minOffset` is at most its offset; in the second its counter is either still to
  be shifted or has been, by what was cut. `PositionKept` follows when the second
  Range is complete.
* *Delivery.* `DInv` joins Partition's invariant, `Linked` (the offsets in flight
  belong to a collector that waits for them), and one conjunct per stage of a
  poll: what `start` and `msgs` are relative to the group's position, and that
  the collector's own request is the only one that can move it. The second lookup
  of the offset then equals the first, which is what `AckMatchesBatch` needs.
  `ImplementsAtLeastOnce` maps a response to Deliver, the store of an ack to
  Acknowledge, and every step of Compact to a stutter, by `PositionKept`'s
  invariant.
* *Delivery with restarts.* `Solo` restricts the deployment; `misled` says instead,
  group by group, what has gone wrong so far, and nothing is assumed of the
  deployment. `RInv` has a part for all (`BaseInv`: types, Partition's invariant, what
  a collector that waits for an ack may be waiting for) and `Good(g)` for each group
  that is not misled. Such a group has one request at a time, and none while Compact
  is at work (`Calm`); so the second lookup of a poll finds what the first found and a
  batch begins where the group is (`Fits`), a Commit stores what its collector was
  given, in the counter that the map holds (`Commits`), and the position stays behind
  what was delivered (`Reached`). Compact knows where the group is (`Tracked`), so it
  moves nothing, because the group is in the map by the time a compaction
  deletes messages. The last is a condition of its own: without it the
  property is false of a group that has not committed yet, which `delivery_faults`
  shows as soon as it has a second group. A step that adds a group to `misled`
  only drops conjuncts. `NeverGoesBack` follows from the same invariant: a store of a
  commit is the only step that moves `Place`, and it moves it to the end of a batch
  that began there.
* *Compactor.* The done channel is closed only if the `sync.Once` has been used,
  except between UpdateConfig's two assignments, when the channel is new. `TypeOK` is
  inductive as it stands: what a loop holds stays in range because topics and
  channels are only added, and Trim cuts by the lesser of the watermark and the length,
  so that neither gets below zero. (That the watermark is within the log is not true,
  and not claimed.)
  `EveryLoopHears` needs to follow the owner through its calls (`StopInv`): a used
  `sync.Once` means a closed channel, UpdateConfig comes to its new channel only with
  the old one closed or with no loop alive, and once it has made one it starts a loop
  on it, so that the compactor runs again. It is the part of `StopStops` that does not
  need fairness: what is left of it is that a loop comes to its `select`.
* *Topic.* Let the ring gain a partition. If the new ring's point for a hash was in the
  old ring it is the old ring's point (least of a larger set), and the owner is the
  old one or the new partition, which comes last; otherwise it is the new
  partition's. Least elements exist by well-foundedness of `<` (`Extremes`).
* *ConsumerGroup.* `Inv` says of a partition that no two members were busy with: its
  consumed messages are a prefix (`Prefix`), its offset is in the log and behind them
  (`Passed`), and the one member that is in a call works on its present state
  (`InStep`), because the PartitionConsumers of different partitions are different
  (`CellInv`) and no member but it can be at this partition without the partition
  becoming shared (`Alone`). `KeyOrder` follows with `LogInv`: a key has one
  partition, in which its messages are in order.
* *Pipeline.* `Inv` adds to `TypeOK`, for each partition that no ack overtook:
  everything behind the loop in its batch, and everything behind the group's offset, has
  been dealt with (`ColInv`, `CommittedInv`, both by `Upto`), and the loop is to
  acknowledge no more than its batch. `StoredOrFailed` follows. For this to last, every
  request without a caller must be as harmless as when it was made (`LateInv`): an ack is
  of an offset behind which all has been dealt with, an insert is of a valid message that
  all of its partition before it precede in the same sense (`Preceded`). Both last,
  because messages stay where they are and nothing that was dealt with comes undone
  (`Grown`, `RequestKept`), so an ack that sets the offset back or on lands well,
  whenever it lands; the second lookup of a poll then finds the offset behind, which
  makes a lower number, or ahead, which is what `overtaken` records. Each partition's log
  holds the messages of its keys in the order of publication (`LogInv`).
  `FirstWins` needs that: an earlier message of the same GPU is earlier in
  the same partition, so when the later one is inserted into a table without their
  key, in time or late, the earlier one has been dealt with and must have failed. The refinement maps
  an accepted message to Publish, an insert that makes a row to Store, and all else
  to stutters.
* *Gateway.* `GInv` adds to that: a row is of a record, and all that is before it in its
  partition has been dealt with, unless the partition was overtaken (`RowInv`); no
  timestamp is of the future, in a publication without a caller neither (`Stamped`),
  so that the seconds of an answer have a greatest; and the follower's end time is
  that of one of its rows. A new row of the followed GPU was published after
  every row that is there, if nothing failed and no poll was overtaken, so it is later in
  time, if publication was in order, and cannot lie before the follower's end (`NewRowIsNew`).

### What is only model-checked

Liveness (`PollsReturn`, `CompactReturns`, `EveryMessageArrives`, `StopStops`,
`DueIsCompacted`, `EveryMessageSettled`, `EveryRecordServed`), which the prover does
not reach, and the violations, which are counterexamples. Every invariant that a
passing run checks, and every action property and refinement, is a theorem too.

## 5. What is not modelled, and what is left

Not modelled for good: argument validation and JSON in the handlers, Health, logging,
generated documentation, Kubernetes and Helm manifests (their replica counts inform
the instances), reading of configuration and of the CSV file. A request that is
refused, or that fails before it reaches the state, changes nothing. `SetPartitioner`
of a topic, and `Reset` and `SetConnection` of the gateway's database singleton, are
called by tests only; `Connect` and `InitStore` are called once by their mains, which
end when they fail. Integers are unbounded: `start + max` in ReadFrom may overflow
an `int` in the code for a batch near the largest, which is outside the model.

Left for later: `Pipeline` over the broker of `AtLeastOnce` by instance, and not by
description; members of a ConsumerGroup on a shared partition, for which no
document of the repository says what they may expect.
