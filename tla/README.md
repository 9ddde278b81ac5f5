# Road condition monitoring in TLA+

A phone on a handlebar or dashboard collects accelerometer, gyroscope and GPS
readings and sends them in batches over MQTT. A proxy puts each batch on the
Kafka topic `monitoring`. `guessr` resamples a batch, cuts it into windows,
predicts the quality of the road for each and puts the points on the topic
`points`. `points_consumer` writes them to ClickHouse in batches, and `api`
serves them to the map of the phone. Beside the pipeline, notebooks train
`guessr`'s models, and three programs record and replay messages. This directory models the parts of that
pipeline whose correctness depends on the order of events, on failures or on
boundaries, checks them with TLC on small instances, and proves the central
facts with TLAPS for all values of the constants.

Paths below are relative to `src/`. `PROJECT.json` gives, for every definition
that stands for code, the file and lines it was translated from.

## 1. Inventory

### Components

| Component | Source | State it keeps | Operations | Modelled in |
|---|---|---|---|---|
| phone: sensor transmitter | `mobile/lib/state/sensor_transmitter.dart`, `mobile/lib/app/app.dart` | three buffers, last update, buffer time | append a reading, flush on a due GPS reading, change the buffer time | `SensorTransmitter` |
| phone: transmission loop | `mobile/lib/features/sensor_transmission.dart` | position of each draining session | send directly, store, drain the store | `SensorTransmission` |
| phone: local store | `mobile/lib/gateway/sensors_local_impl.dart` | data files, `index.json`, list of indexes, index lock | launch, store, load, acknowledge, store again, delete | `SensorsLocal`, abstractly `Outbox` |
| phone: MQTT gateway | `mobile/lib/gateway/sensors_network_impl.dart` | the shared client and its address | send: connect, publish, disconnect; conversion of times | `SensorsNetwork`, `Timestamps` |
| phone: map | `mobile/lib/widgets/map_points.dart`, `map.dart`, `gateway/points_api.dart` | cache per zoom and tile, visible markers, loading flag, filters | load a view, change a filter, move, reopen | `MapPoints`, `PointsApi` |
| phone: GPS subscription, configuration, charts, pages | `mobile/lib/state`, `mobile/lib/widgets` | subscriptions, saved settings, recent readings | - | readings in `SensorTransmitter`; the rest not modelled |
| Kafka consumer of the Python services | `common/python/kafka_consumer.py` | offset, semaphore, worker pool, stop flag | take, acquire, dispatch, commit, call back, stop, crash, rejoin | `KafkaConsumer` |
| Kafka producer of the Python services | `common/python/kafka_producer.py` | the library's buffer | send, deliver, fail, flush, end | `KafkaProducer` |
| guessr: service | `guessr/src/main.py` | consumer and producer | consume, publish the points of a message | `Guessr` |
| guessr: one message | `guessr/src/main.py`, `interpolation.py`, `gps.py` | table of one message | parse, interpolate, cut, speed, predict | `Windows`, `Timestamps` |
| guessr: features, model | `guessr/src/processing.py`, `prediction.py` | none | floating-point arithmetic | which features and which model: `Training` |
| guessr: training | `guessr/pvs_*.ipynb` | converted drives, raw entries, selections, models, scores | convert, cut and label, extract, select, fit, save, score | `Training`, labels in `Windows` |
| points_consumer | `points_consumer/main.go` | channel, batch, timer, context | read, send on the channel, select, send the batch, interrupt, exit | `PointsConsumer`, abstractly `AtMostOnce` |
| api | `api/main.go` | none | one query per request | `PointsApi` |
| monitoring_keeper, monitoring_loader, mobile_imitator | same names | MongoDB documents, a cursor, a pool with MQTT links | store, replay to Kafka, replay to MQTT | `Replay`; the keeper's callback in `KafkaConsumer` |
| brokers, databases, platform runners | `docker-compose.yml`, `kafka/init-topics.sh`, `clickhouse/init.sql`, `mobile/android`, `mobile/ios` | - | - | only as the code sees them |

### How they interact

- *Sensors to transmitter*: providers notify, and the next frame calls
  `updateConfiguration` and the three `append...` in one go. Several readings
  between two frames overwrite each other.
- *Transmitter to transmission*: `transmitSensorRecords` is called and not
  awaited, so direct sends, stores and draining sessions interleave at every
  `await`. Enabling the network starts a session without asking whether the
  last one has ended.
- *Transmission to store*: a load is a stream that holds the index lock while
  its reader awaits the network. Acknowledgements wait for the same lock.
- *Transmission to gateway*: `send` returns true, returns false or raises. The
  three are treated differently and all three are reachable.
- *guessr*: the main thread, the pool's processes and the pool's result handler
  share the semaphore; the offset is committed when a task is dispatched. The
  callback hands points to a producer whose sender thread decides their fate
  later, and tells nobody but a log.
- *points_consumer*: two goroutines share a bounded channel and a context.
- *map*: every `await` of a request may be passed by a frame, a camera move, a
  change of filters or the end of the layer, while `points_consumer` inserts.
- *recordings*: keeper, loader and imitator share one collection, read by
  cursors that are no snapshots and marked document by document.
- *training*: the notebooks share files under fixed names; their kernels run
  side by side and may be stopped and started again at any cell. An image of
  guessr copies `model/` as it is (`guessr.dockerfile`), and the environment
  names the model and the selection of features separately.

### What is hard, and what makes each part correct

| Part | Hard behaviour | Properties |
|---|---|---|
| store | kill between any two system calls, a torn `index.json`, failed passes, marks that outlive them, deletion | `NoLoss`, `SentOnce`, `AckedWereSent`, `IndexedFilesExist`, `CurrentFileKept`, `SessionEnds`, `ImplementsOutbox` |
| gateway | sends that overlap an await, dead clients that stay shared | `OneConnection`, `DeadClientLeaves` |
| transmitter | buffers that join, duplicates, dropped buffers | `SharedAtEdges`, `SeenIsBuffered`, `DropsOnlyBeforeSending` |
| map and api | answers to old filters, changes of zoom, exceptions in a load, borders of tiles, answers cut short | `VisibleIsCache`, `ShownOnce`, `FilterFresh`, `LoadShows` |
| Kafka consumer, guessr's service | commit before processing, rebalances, callbacks that raise, workers that die, an asynchronous producer | `PermitsConserved`, `NothingForgotten`, `WindowOfOne`, `RepeatsBounded`, `AllPublished`, `StopExits`, `AllProcessed` |
| one message in guessr | off-by-one at windows, mixed units, times that lose digits, positions past the data | `PointSecondsMeasured`, `PositionsMeasured`, `SpeedMeasured`, `LabelsInWindow` |
| training | files of the same name written by several notebooks, stale entries | `SelectionFits`, `ScoresOfOwnModel` |
| points_consumer | full channel, cancellation, failed batches, restart | `StoredInOrder`, `PointsAccounted`, `DeliversAtMostOnce`, `PointsSettle`, `EndsOrIsStuck` |
| recordings | asynchronous sends, marks, growing cursors, broken links, kills | `ReplayedInOrder`, `SuccessIsComplete`, `AccessedWasSent`, `AccessedWasPublished`, `LoaderFinishes` |

`PROJECT.json` lists the hazards one by one, each at its line, with the
properties that would catch it or the reason why none does.

## 2. Modules

```
SensorsLocal  <-- SensorTransmission --(refines)--> Outbox
                  ^-- SensorTransmissionProofs
SensorTransmitter <-- SensorTransmitterProofs
SensorsNetwork    <-- PhoneNetworkProofs
PointsApi     <-- MapPoints <-- PhoneNetworkProofs
KafkaConsumer <-- Guessr --(instance)--> KafkaProducer
                  ^-- GuessrProofs
Timestamps    <-- Windows <-- WindowsProofs
Training      <-- TrainingProofs
PointsConsumer --(refines)--> AtMostOnce
                  ^-- PointsConsumerProofs
Replay        --(instance)--> KafkaProducer
                  ^-- ReplayProofs
MC<module>        what TLC needs beside the constants of a .cfg
```

**SensorsLocal / SensorTransmission.** A batch is its number. `indexes` is
`_indexContext.indexes`, `indexJson`/`indexTorn` the file, `lines` what each
data file holds, `lockQ` the queue of `_indexLock`. Dart runs one event at a
time, so code between two awaits is one action, except where it writes files:
there the process may die between two system calls, and the section is a series
of steps (`step`, `after`) which only `Kill` may interrupt. `writeAsStringSync`
truncates and then writes, hence `TruncateIndex` and `WriteIndex`.
`LoadStart`/`ReadLine`/`EndFile` are `loadFromBegin`, `RunAck`/`RunNAck` the two
acknowledgements, `RemoveFirstIndex`/`DeleteDataFile`/`FinalStore` the loop of
`_deleteAckedDataFiles`, `LaunchWithIndex`/`LaunchAfterTornIndex`/
`RegisterDataFile` the constructor. A session is one call of
`transmitLocalSensorRecords`; enabling the network without a receiver's address
starts none (`EnableWithoutReceiver`). `EndPass`, `FailPass` and `SendThrows` are its
three ways out of the `await for`. `lostToKill` accounts for what goes with the
process: direct sends under way, and every data file if the kill found
`index.json` torn, because `_init` then deletes the directory.

**Outbox** says what that amounts to: an outbox that lets go of a batch only once
it was sent; a crash may bring sent batches back and may lose some, which are
accounted for. `SensorTransmission!outbox` is the refinement mapping.

**SensorsNetwork.** A sender is an activity that calls `send` again and again.
`client` names whoever built the shared client, so an overlap shows as a `client`
other than the sender. A send is one action up to its only await and one after
it; the second uses the client shared *by then*, as the code does. A connect
ends connected, not accepted, refused (caught) or with another exception (not
caught); a link breaks first and is noticed later, and a payload published in
between counts as sent without being delivered.

**SensorTransmitter.** A reading is the time it was taken. `TakeReading` is a
sensor event, `FrameBuffers`/`FrameFlushes` what one frame does with the newest
reading of each sensor. `pages` is the history of the buffers that were reset.

**PointsApi / MapPoints.** The world is a square of units, in which tiles and
points have places; degrees grow with them, so comparing one is comparing the
other. `PointsApi` is what the api answers: `Inside` with its strict
comparisons, both bounds of time or none, an error, or rows that end early.
`Format` is the phone's clock without its zone. In `MapPoints` an action is an
event with everything up to the next request. `TilesOf` is the loop over a view,
`PutIfAbsent` what both of its maps are filled with, `Continue` one turn of `_loadPoints`, `Finish` is `_updateVisibleMarkers`.
Markers are kept in a bag, so that a marker shown twice is seen. `Rebuild` is
`didUpdateWidget`, which clears the cache while a request may be under way;
`InsertPoint` is `points_consumer` at work.

**KafkaConsumer.** A message is its offset. `pc` is the main thread, `task` the
pool's processes, `results` what the pool's result handler has not taken. The
constants choose how functions and callbacks may end, which is how the same
module is guessr (`ok` and `raise`) and monitoring_keeper (whose callback raises
always).

**KafkaProducer / Guessr.** The producer is the buffer of kafka-python: `Send`
puts a message into it, `Deliver` and `Fail` are the sender's two outcomes, and
a failure may have stored the message all the same. `Guessr` is the service:
each step is one of `KafkaConsumer` together with what it does to the producer.
`Callback` sends the points of a message, `SendRaises` is a send that raises
before it has taken them, `End` takes the buffer with the process.

**Timestamps / Windows.** Times are microseconds. `Timestamps` has the three
conversions as the code makes them: the phone's (`DateTime.microsecond` is only
the part below a millisecond), guessr's reading (nanoseconds added to
microseconds) and guessr's writing. `Windows` follows one message through
`consumer_func`: a series of readings is its first and last time, `Interpolate`
computes the common range and the lengths of the two `arange`, `Cut` is one
turn of the loop of `get_point_raw_inputs`, `Predict` makes the points.
`SpeedSpan` says between which positions `calculate_speed` measures, `LabelSpan`
which road `pvs_points.ipynb` averages for the label of an entry, since it cuts
a drive of the dataset as guessr cuts a message.

**Training.** An action is a cell of a notebook, except that the cell which
reads the entries lists their directory (`List`) and then reads file by file
(`Extract`), while `pvs_points` may write some of them again. Notebooks run from
the first cell on and may stop after any. `raw` are the numbered files of entries, which
keep those of a longer run before; `selections` and `models` are the files of
`model/`, by name. What a selection or a model contains is determined by the
entries read, the number of features and the exclusions, so that is its value.
`Evaluate(n, m)` scores what is in the file of notebook `m`: `pvs_forest` reads
the one of `pvs_cart`.

**PointsConsumer.** A point is its place in the topic. `reader` and `inserter`
are the two goroutines, `pointsC` the channel, `batch` the ClickHouse batch.
`ReadMessage` commits, as the library's call does. `AppendFails` loses the point
just taken from the channel, `BatchSendFails` may have stored the rows all the
same. `AtMostOnce` is the abstract sink: an item is
taken once, in order, and then delivered once or lost.

**Replay.** A document is its place in the collection, a start of a program is
the time it writes into `time_access`. `KeeperStores` and `KeeperLoses` are what
the keeper does with a message. `Fetch` is a batch of the loader's cursor, which
sees what has been stored since; `LoaderSends` and `LoaderMarks` are one turn of
its loop. `List` is `pool.map` reading its cursor to the end, `TakeChunk`,
`ImitatorPublishes` and `ImitatorMarks` are a process at work. Either program
may end, or be killed, at any point.

Definitions marked "a bug" are variants of an action or helper that a plausible
mistake would produce. No specification uses them; each breaks one property,
which shows that the property depends on the code.

## 3. Runs

| Run | Module | Shows |
|---|---|---|
| `store_clean` | `MCSensorTransmission` | successful sends, no overlap, three launches, kills anywhere: no loss, each batch sent once within a launch, the store implements `Outbox` |
| `store_failures` | `MCSensorTransmission` | sends that fail and raise: only sent lines are acknowledged, the index names existing files, the current file is never deleted, sessions end |
| `store_stale_end` | `MCSensorTransmission` | **violated** `NoLoss`, see section 6 |
| `consumer_guessr` | `MCGuessr` | permits, commits, redelivery and repeated points under rebalance, crash, worker deaths and failing sends; the points of every message are published or lost in a named way; a stop ends the consumer |
| `consumer_keeper` | `MCKafkaConsumer` | **violated** `AllProcessed`, see section 6 |
| `points_settle` | `MCPointsConsumer` | order, at most once, no loss without a fault, every point settles, a cancelled process ends or its reader is stuck |
| `map_filters` | `MCMapPoints` | the layer shows its cache and each point once, the cache is what the filter asks of the api, loads show their view |
| `network_overlap` | `MCSensorsNetwork` | one connection; dead clients leave |
| `buffer_edges` | `MCSensorTransmitter` | buffers join at their edges and lose nothing a frame saw |
| `guessr_windows` | `MCWindows` | whole windows, measured positions and speeds, labels inside their windows, seconds kept |
| `training` | `MCTraining` | selections fit their models; scores are of the notebook's own model |
| `replay` | `MCReplay` | order of replays, truth of `time_access` and of the message of success, the loader ends |

Run one with `tlc -config store_clean.cfg MCSensorTransmission.tla`.

### Bounds, and why they are enough

- *Store*: three batches and a load of two, so that a load is cut short with a
  batch left, and three launches, so that an acknowledgement may cross two older
  data files with a kill before, within and after it; two sessions, one after
  the other. `store_failures` needs two launches for every property but `NoLoss`.
  `store_stale_end` takes loads of one.
- *guessr's service*: three messages for two permits and two workers, so that the
  main thread waits for the semaphore; one message without points; one rebalance
  and one crash, at any step. `consumer_keeper` needs no faults.
- *points_consumer*: five points for a channel of two and a batch of two, so that
  the channel is full while a batch is due; messages of one or two points, so
  that the reader has points in hand; two faults, so that one may hit the
  restart after the other.
- *Map*: two overlapping views of one zoom and one of another; a point between
  two columns of tiles, one between two rows, one inside, one inserted later;
  two filters of different bounds and the Aggregated source; two moves or
  notifications, two changes of filter, one fault and one reopening.
- *Gateway*: two activities, a working address and one without a port, two
  accounts, three faults. Requests repeat without bound.
- *Transmitter*: six readings over three sensors, buffer times of one and two,
  changed at any time: enough for three buffers.
- *guessr*: a window of four samples at a quarter of a second; starts and ends on
  either side of millisecond and second boundaries; every combination of the
  three series, missing ones included, up to several windows.
- *Training*: two drives of one and of two entries, so that a second run of
  `pvs_points` leaves a file of the first; two runs of the notebooks that train,
  two numbers of features, with and without the speed.
- *Replay*: one recorded document and another phone message, two starts of either
  program, batches of two so that the cursor fetches again after it grew, two
  processes, one broken link.

All runs set `CHECK_DEADLOCK FALSE` except `network_overlap`: the bounded inputs
(batches, messages, points, launches, moves, readings, runs of a notebook,
starts of a program) run out, and a message of guessr is finished. Nothing else
may stop; where stopping would be wrong the liveness properties say so. In
`network_overlap` a sender may always send, and deadlock is checked.

### Fairness

- *Store*: weak fairness of the steps of `_init`, of a file-writing section (the
  operating system answers) and of each session's loads, acknowledgements and
  sends (the event loop runs what is ready; connecting times out). A load whose
  session has not received everything yet is not bound to go on: a stream may
  pause its source, which then waits with the index lock in hand. `SessionEnds`
  therefore shows that no session needs the lock to receive. None for the user,
  the sensors, launches or kills.
- *Kafka consumer*: every thread and worker process is scheduled; a process that
  ended without having been asked to is restarted by the container runtime.
  None for publishing, rebalances, crashes, stop. guessr adds the sender thread
  of its producer.
- *points_consumer*: both goroutines are scheduled, `main` returns from `Wait`,
  the container is restarted (`docker-compose.yml`: `restart: unless-stopped`).
  A timer that is due is a step of the inserter. None for faults.
- *Map*: the layer opens, frames are drawn, requests are answered.
- *Replay*: the loader and the sender thread of its producer run. None for phones,
  the keeper, the imitator, or programs that end. `LoaderFinishes` is about a
  collection that grows by a bounded number of documents: the cursor of a loader
  that is slower than phones and imitator would never come to its end.
- *Gateway*: payloads keep coming with the settings in use, connects end within their timeout, a broken
  link is noticed (MQTT's keep-alive).

## 4. Proofs

Each proof module `EXTENDS` the module or modules it is about and proves
`Spec => []IInv` for an inductive `IInv`, and the listed theorems from it. The
assumptions are the `ASSUME`s of the modules, which say that bounds are natural
numbers, capacities are positive and data has the shape the code gives it; TLC
evaluates them in the runs. Nothing else is assumed, beside the conditions that
three theorems of the store state (`Clean`) and one (`~Overlap`).

**`SensorTransmissionProofs`** has four layers, each resting on the ones before.

1. `TypeCorrect`, `CrashConsistent` (`IndexedFilesExist`), `CurrentKept`
   (`CurrentFileKept`), for every number of launches, batches and sessions, every
   `maxCount`, every way sends end, and overlapping sessions. `IndexedFilesExist`
   is not inductive: that deleting a file is safe needs that `index.json` has been
   rewritten without it before (`RemovalOK`) and that no other index names it,
   which needs that data files are listed in the order of launches (`Ordered`).
   `CurrentFileKept` needs that a load only marks files before the last (`LockOK`
   ties the cursor to the list while the lock is held) and that the deletion loop
   stops there.
2. `OnlySentAcknowledged` (`AckedWereSent`), however sends end, under `~Overlap`:
   the network is not enabled again while a session drains. The code gives an
   acknowledgement a number and no lines, so two sessions that drain at once
   would acknowledge each other's. `QueueInv` says who is in the queue of
   `_indexLock` and what its session is doing meanwhile, `PositionInv` that a
   position stays between what is acknowledged and what is pending, that every
   acknowledged line was sent, and what the reader of a file has in hand.
   `PassInv` and `AckInv` are the heart: there is a sequence of places (a file and
   a line of it) which the pass has read, the oldest not acknowledged, in order
   and without a gap; the buffer and the line in hand are its end, the sends have
   taken its beginning, and an acknowledgement of *c* lines is of its first *c*,
   however many files they lie in. That counting in `ackFromBegin` comes to these
   places is a lemma about the cardinality of `Covered`.
3. `NothingLost` (`NoLoss`) and `StoreIsOutbox` (`ImplementsOutbox`, that is
   `outbox!Spec`), under `Clean`: sends succeed and sessions do not overlap. The
   run `store_stale_end` shows that with sends that fail `NoLoss` is false.
   `CleanInv` adds that a file marked `isEnd` is not the current one and has no
   line that is neither pending nor acknowledged (`EndsOK`), so that deleting it
   deletes only lines that were sent, and that `index.json`, when it decodes,
   lists every file of the list in memory, at no later position (`JsonOK`), so
   that a launch finds what a kill left. The refinement has one lemma for every
   way a step maps: a new batch is accepted, `SendReturnsTrue` and a live send
   that ends send, an acknowledgement forgets what was sent, `Kill` is the
   outbox's crash, and the steps that read, wait, write `index.json`, delete
   files or launch stutter, since they hold the same batches before and after.
4. `NothingTwice` (`SentOnce`), under `Clean`. A first launch has one data file,
   whose position is all that a load knows of the passes before. `OnceInv` says
   which lines of it were sent: those up to the position and, in a pass, as many
   more as the session has counted; that the rest of what the reader has handed
   over waits in the stream in order (`Received`); and that between passes nothing
   is pending that is not acknowledged (`DrainOK`). That the head of the stream
   was not sent before also needs that a batch is stored or sent live, not both,
   and is in one line only (`Distinct`).

**`PointsConsumerProofs`**: `TypeCorrect`, `Ordered` (`StoredInOrder`),
`Accounted` (`PointsAccounted`) and `Refinement` (`DeliversAtMostOnce`, that is
`Spec => sink!Spec`). `StoredInOrder` alone is not inductive: the invariant
`OrderOK` says that table, batch, channel and the reader's hand are consecutive
increasing segments of the topic; `ControlOK` ties the batch and the reader's
hand to the places of the goroutines. The refinement maps every action to a
step or a stutter of `AtMostOnce`.

**`PhoneNetworkProofs`** is about two modules that share no variable.

For `SensorsNetwork`: `TypeCorrect` and `NoLeakedConnection`
(`OneConnection`). The two are inductive only together: a send overwrites the
client its activity built before, and the single connection says that this one
is closed by then.

For `MapPoints` with `PointsApi`: `CacheIsShown` (`VisibleIsCache`),
`PointsShownOnce` (`ShownOnce`) and `CacheObeysFilter` (`FilterFresh`), for any
world, views, points and filters, and any numbers of moves, changes, errors and
reopenings. It assumes of the views that their sides are in order and that no
zoom has tiles smaller than the unit of the distances, and that points have
integer places. The first two are inductive only together and with what a load
under way has done (`LoadOK`): its tile is not cached yet, and the layer shows
what is cached for its zoom except the tiles it has inserted itself; a layer
whose zoom is not cached shows nothing (`EmptyOK`). That adding the markers of
those tiles gives the markers of all (`MarkersAdd`) needs that no point lies
inside two tiles of a zoom (`TilesApart`), which is what the strict comparisons of
the api are for. `FilterFresh` needs that a load asks for what the filter says
unless a frame is due or its zoom is no longer cached (`LoadMatches`): a rebuild
clears the cache, so an answer to the older request finds no place and raises.

**`GuessrProofs`** first proves the consumer that guessr and monitoring_keeper
share: `TypeCorrect`, `PermitsKept` (`PermitsConserved`), `CommittedKnown`
(`NothingForgotten`), `OneAhead` (`WindowOfOne`), for any number of messages,
workers, permits, rebalances and crashes, and all outcomes of functions and
callbacks. `TypeOK` bounds `permits` by the limit, which only `PermitsConserved`
explains: a release stays below it because the message that releases held a
permit. `PermitsConserved` counts busy workers, so the steps of the workers rest
on lemmas about the cardinality of that set. `NothingForgotten` needs that
positions up to the current one are known (`PositionKnown`), since a commit makes
them committed; `WindowOfOne` needs where a member's position can be at each place
of the main thread (`PositionOfMember`). A process that is down has nothing in its
pool (`DownIsEmpty`).

`ImplementsConsumer` is `GuessrSpec => Spec`: every step of the service is one of
the consumer or leaves its variables alone. With it the consumer's theorems hold
for the service: `GuessrKeepsPermits`, `GuessrForgetsNothing`, `GuessrOneAhead`.

`RepeatsAreFaults` (`RepeatsBounded`) is about the service alone: the points of a
message are published once, and once more at most for each rebalance and each
crash. The invariant (`GuessrIInv`) counts a message at every place it can be:
published (`Published`), in a worker or among the results (`Inside`), in the main
thread's hand or still to come from the topic (`Ahead`). The sum never exceeds one
more than the faults: a step takes the message from one place to the next or
drops it, and only a rebalance or a restart after a crash takes the position back.

**`ReplayProofs`**: `TypeCorrect`, `OrderKept` (`ReplayedInOrder`), `SuccessTold`
(`SuccessIsComplete`), `MarkedWasSent` (`AccessedWasSent`), `MarkedWasPublished`
(`AccessedWasPublished`), for any number of documents, starts, processes, broken
links and failures. No one of them is inductive. `time_access` is one field that
keeper, loader and imitator all write, so what it tells of one of them needs that
starts have times of their own (`Clocks`). Order needs that topic and buffer
together are in order (`InOrder`) and nothing in them is ahead of the loader
(`NoneAhead`), which sends the next document only after that. Success needs where
the cursor is at every place of the loop (`PlaceOK`) and that what a run has sent
is on the topic, in the buffer or failed (`SentAreAlive`); the loader says it only
with the buffer empty. The imitator's marks need that a chunk is part of the list
the processes were given, and that what a process is about to mark it has
published, on a link that was up or had broken (`ImitatorOK`).

**`SensorTransmitterProofs`**: `ReadingsShared` (`SharedAtEdges`),
`ReadingsBuffered` (`SeenIsBuffered`) and `NothingDropped`
(`DropsOnlyBeforeSending`), for any number of readings and any buffer times. The
invariant adds that successive buffers of a sensor are in order and hold nothing
newer than the sensor's newest reading (`Behind`, `UpTo`), that the readings seen
are those the buffers hold (`Held`), and that once a buffer was sent every sensor
has a newest reading (`SentHasRecords`). Every frame hands that reading over
again, so no later buffer lacks a sensor and none is dropped.

**`WindowsProofs`**: `TypeCorrect`, `SecondsSurvive`, `PointTimesSurvive`,
`PositionsCorrect`, `PointSecondsCorrect`, `BoundariesCorrect`, `SpeedsCorrect`,
`LabelsCorrect`, for every sampling rate, every even window size and all times.
The invariant says what each stage computed: readings are the conversions of the
measured times, samples below `total` are before `maxTime`, entry *i* is
`Entry(i - 1)` and fits, points are the conversions of the entries' times. The
lemmas below it are arithmetic: division of sums and of products, `arange`,
maximum and minimum of the three series. `SecondsSurvive`, `PointTimesSurvive`
(`PointTimesReadBack`: both conversions of guessr make the same mistake of unit)
and `BoundariesCorrect` (`BoundariesCovered`: windows overlap by half, so half a
window of samples is always inside one) are proved and not listed in a run.

**`TrainingProofs`**: `SelectionsFit` (`SelectionFits`) and `ScoresAreOwn`
(`ScoresOfOwnModel`), for any drives, settings and numbers of runs. Neither is
inductive: the first needs that the names of selections and models say what is
in them, that whoever has selected has left a file of that name behind, and that
selections made of the same entries under the same name are equal; the second
that between saving and scoring nobody but the notebook itself writes its file.

### Only model-checked

Liveness under fairness (`SessionEnds`, `AllPublished`, `StopExits`,
`PointsSettle`, `EndsOrIsStuck`, `LoadShows`, `DeadClientLeaves`,
`LoaderFinishes`), which this prover cannot do, and so are the two runs that
expect a violation. Every safety property and every refinement that a passing run
checks is proved. Induction over data is out of the prover's reach as well, and
no module declares a `RECURSIVE` operator.

## 5. Abstractions and what is left out

- A batch, reading, point or message is a number, a tile and a filter a model
  value: values, features, predictions and geometry are data no property is
  about. A topic is one partition, since commits of partitions do not interact.
- A data file is a sequence of whole batches. A kill within an append leaves a
  torn line that this model does not have.
- Data files have unique names; the code names them by the second.
- The MQTT library is connect, publish and a link that may break. QoS 0 is what
  the code asks for.
- Changes of the api address while the map is open are not modelled: they need
  another tab, which ends the layer.
- The map's and the api's degrees are places on a line. That the two projections,
  `fromPointTile` and `_calculateTile`, are inverse up to rounding is arithmetic
  of floating-point numbers.
- Features, correlations, fits and random splits are what determines them.
- A message or document that raises when it is decoded is one that a program
  loses (`KeeperLoses`, `Bad`, `ProcessRaises`, `LoaderEnds`).
- The receiver's address of the store is not a variable: enabling the network
  starts a session or, without an address, none, and a live send ends in any of
  its ways.
- One loader runs at a time. Nothing in its code keeps a second one away, but
  `docker-compose.yml` has one container of it; two that overlap would mix their
  messages on the topic and overwrite each other's `time_access`.
- Fault counters bound how often things fail, not when.

Behaviour that the models show and no run states, because no document of the
repository promises anything else: a camera that moves during a load gets no load
of its new view (`map_points.dart:87`); an exception in a load leaves `loading`
set until the tab is left; buffers are reset without being sent while a sensor
is silent (`sensor_transmitter.dart:79`); the last window of a message is not
used when it ends exactly with the last sample (`interpolation.py:83`); a payload
published on a broken link counts as sent, and one whose shared client was
replaced during the await goes to the address of the other
(`sensors_network_impl.dart:94`); two overlapping sessions (network off and on
during a drain) may acknowledge each other's lines
(`sensors_local_impl.dart:138`); a reader of `points_consumer` that sends on a
full channel after its inserter has failed waits for ever, so the container is
not restarted (`main.go:122`, `EndsOrIsStuck`); readings of one second change
their order, since `DateTime.microsecond` lacks the milliseconds
(`sensors_network_impl.dart:175`); a point exactly on a border of tiles is on no
map (`main.go:194` of the api), and times chosen on the phone are read as UTC;
part of a tile may stay in the cache when the rows of its answer ended early
(`main.go:165` of the api); `pvs_forest.ipynb` scores the model of `pvs_cart`.

## 6. Disagreements

- **`store_stale_end`**: a load whose stream was cancelled by a failed send still
  marks the remaining older files as ended. If a later load stops at `maxCount`
  before reading such a file, its acknowledgement finds the file marked and
  deletes it unread. The slides promise that errors of the network lose nothing.
- **`consumer_keeper`**: `callback_release` passes the result to a callback that
  takes no argument. The `TypeError` ends the pool's result handler before
  `release`, and after `pool_cache_limit` messages the main loop waits for ever.

## 7. Not modelled, and why

- *GPS subscription* (`mobile/lib/state/gps.dart`): a stream of the geolocator
  plugin, subscribed anew when settings change. What it gives the rest is
  readings, which `SensorTransmitter` takes in any order and at any time.
- *Configuration* (`configuration.dart`, `configuration_impl.dart`): read and
  written as a whole. The models take every value of the settings at every
  moment.
- *Chart windows, pages, widgets, notifications, logs*: display; nothing else
  depends on them.
- *Features, haversine and prediction* (`processing.py`, `gps.py`,
  `prediction.py`): stateless floating-point arithmetic over one window.
- *`points_inserter.py` and `examples/*.ipynb`*: a script that predicts recorded
  entries one by one, and experiments that plot; no other part reads their
  results but the table of points.
- *Kafka, MQTT broker and proxy, ClickHouse, MongoDB*: third-party services, as
  the code sees them: they store, answer, fail or repeat.
- *Platform runners*: generated code.
- Torn lines of a data file, and data files of two launches within one second
  (they would share a name): the store of the model has whole records and unique
  names. Both need a model of the contents of files and of the clock, and no
  document of the repository says what should happen.
