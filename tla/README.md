# SiriusScope: TLA+ models

SiriusScope is a Qt application that receives sample blocks from a BCO (a
direction-finding receiver), processes them in a multi-threaded data plane and shows
and records waterfall, spectrum and bearing results. This directory holds TLA+ modules
translated from the C++ sources, the TLC configurations that check them, and theorems
about them checked by TLAPS. Paths below are relative to the repository root.

## 1. Inventory

### 1.1 Components, their state and operations

| Component | State | Operations | Hard part |
|---|---|---|---|
| `SignalBlockPool`, `SignalBlockHandle` (`src/pipeline/signal_block_pool.*`) | free list, move-only handles | acquire, release | handles end up in the queue, in the worker, in a context shared by all stages; the last one returns the block |
| `BoundedBlockQueue` (`bounded_block_queue.h`) | deque, shutdown flag, pushed count | tryPush, pop, shutdown, reset, clear | `clear` leaves the pushed count alone, pop serves after shutdown |
| `DataIngestPipeline` (`data_ingest_pipeline.*`) | running, accepting, next sequence id | start, stop, setAccepting, ingestSamples, flushProcessing, clearQueuedBlocks, configure* | producers that passed the gate before a stop |
| `ProcessingEngine` (`processing_engine.*`) | worker thread, one thread and queue per stage, fan-out contexts, in-flight count, flush condition | start, stop, flush, workerLoop, stageWorkerLoop, submitFanOutContext, completion | no partial fan-out, fallback to the worker, three overload policies, completion counted without a lock, flush across two mutexes |
| `SourceToPipelineBridge` (`source_to_pipeline_bridge.*`) | RX queue, worker, counters, one condition variable | start, stop, submit, flush, clear | overflow policies, wake-ups, discard on stop |
| `BcoAcquisitionSession` (`bco_acquisition_session.*`) | source active, delivery gate | startSource, stopSource, openInput, setAccepting, closeInput, clearInput, flushInput | gate, drain and stop in the right order against callbacks |
| Row queue and snapshot exchanges (`waterfall_row_queue.*`, `snapshot_exchange.h`) | FIFO of rows; latest value | pushRows, drain, publish, latest, reset | published after the aggregator's mutex is released; reset races a block in flight |
| Aggregators (`*_aggregator.*`) | open window, accumulated cells, sequence ids | consume, flush, setConfig | windows, late samples, id resets |
| `ScanController` with recorder and adapters (`src/app/scancontroller.*`, ...) | scan state, session, results; the recorder's sessions; the owner of the recording | select, start, stop, azimuth samples, flush callback, finalization, frames | late callbacks of an aborted scan, roll-back of a partial start, an operator who stops the recording a scan owns |
| `RecordingController`, `WaterfallController` (`src/app/...`) | recording state, live view, history requests | start/stop recording, poll rows, load history | clean-up after each failing step, late history results |
| Band configuration (`bandconfigcontroller.*`) | committed and edited configuration | edit, apply, restore | a failed apply must leave the committed state |
| Result table (`resulttablecontroller.*`, `binary_result_table_storage.*`) | pending keys, worker queue, data and index files | append, reload, readAll | duplicates across the asynchronous write; crash between the two files |
| Waterfall session storage (`binary_waterfall_session_storage.*`) | sessions, write queue, data, index and metadata files | startSession, append, closeSession, rotation, recovery | close and rotation against queued rows |
| Diagnostics (`diagnostic_log_writer.*`, `diagnosticsservice.*`) | bounded log queue | publish, stop | drop-oldest, drain on stop |
| UDP source and generator (`src/hardware/udp`, `modules/bco-generator`) | frame slots, packet numbering | receive, assemble, restart | lost, late and repeated packets |
| Simulated antenna (`simulator_antenna_*`) | position, target, moving, scan command, manual direction | moveToAzimuth, startSectorScan, startManualMove, stop, the azimuth thread's tick | commands between the thread's unlocked reads and its writes |
| Simulated sources (`src/hardware/simulator`) | slots | produce | slot reuse |
| Signal processing (`src/processing`), domain (`src/core`) | accumulators | pure functions | numeric edges |
| QML, shaders, view models | presentation | | |

### 1.2 How they interact

    source callback -> BcoAcquisitionSession gate -> SourceToPipelineBridge RX queue
      -> bridge worker -> DataIngestPipeline::ingestSamples -> pool, input queue
      -> ProcessingEngine worker -> stage queues -> stage threads -> aggregators
      -> WaterfallRowQueue / SnapshotExchange -> controllers on the GUI thread

    ScanController (GUI thread) -> antenna commands -> SimulatorAntennaState
      <- azimuth thread: moves it, queues samples back to the controller
    ScanController -> WaterfallScanRecordingAdapter -> RecordingController
      -> WaterfallController -> the acquisition session and the pipeline above
    ScanController -> scan acquisition recorder; flushProcessingAsync -> finalization

Threads: the source's callback thread, the bridge worker, the engine's worker, one thread
per stage, the azimuth thread, and the GUI thread, which owns start, stop, flush and clear. They share the
queues (each behind its own mutex), the engine's `m_mutex` and `m_stageMutex`, and two
atomics: a context's `remainingStages` and `m_inFlightFanOutBlocks`.

### 1.3 What makes them correct

* Every block taken from the pool returns, once, after its last user.
* Every accepted block is handled exactly once by every stage that may not skip it, and
  counted once, after its last stage.
* A flush that reports success has waited for every block queued before it; one that
  reports a timeout had a reason.
* Stop drains what was accepted, and terminates.
* A scan ends, once, with one outcome, and gives back the recorder's session, the
  recording and the antenna, whatever failed, was stopped or came late.
* A closing input loses nothing it reported as drained; counters add up; order is kept.
* A result is the sum of the samples it stands for, whichever path computed it and wherever
  blocks and flushes cut the stream; a scan reports results of its own recording.
* What was stored survives rotation, failed writes, crashes and restarts as far as the
  storage format document promises; the window shows what the store holds.
* The source generates what was committed; samples arrive in order, once, and what is
  missing is counted, over a network that loses, repeats and delays.

PROJECT.json lists each hazard with its source line and the property that covers it.

## 2. Modules

| Module | Models |
|---|---|
| `FanOutEngine` | pool, input queue, ingest pipeline and processing engine: a producer, the worker, the stage threads and the session's owner |
| `BlockDelivery` | what the block path promises: each block is refused, discarded, or handled once per stage, counted and then returned |
| `SourceBridge` | the RX queue, its worker and the acquisition session around it |
| `WaterfallDelivery` | a waterfall row from its samples to the session storage: aggregator, publication, row queue, the polling controller, start and stop of a recording |
| `ScanSession` | a sector scan: controller, antenna and its thread, recorder, ownership of the recording, flush and finalization |
| `SnapshotDelivery` | a summary from the stage that builds it, through the exchange and the adapters, to the scan that reports it |
| `SampleWindows`, `SpectrumWindows`, `BearingWindows`, `PulseParameters` | the aggregators as pure operators: windows, bins, candidates, pulses |
| `ScanAggregates` | the three aggregators fed with the same blocks, flushed and reset together |
| `BandSettings` | band settings from the operator to the generator, with previews, locks and modes |
| `SessionStore` | what a store of waterfall sessions promises; it is the store in memory |
| `WaterfallStorage` | the store on disk: memory, write queue, writer thread, files, crashes, recovery |
| `WaterfallView` | the waterfall on the screen over `SessionStore`: viewport, wheel, history requests, ring buffer |
| `ResultTable` | scan results on their way to the table and to its files, with failures and crashes |
| `DiagnosticLog` | events on their way to the log file and to the windows |
| `UdpStream` | the UDP source, the generator that serves it, and the network between them |
| `SampleGenerator` | the simulated source's thread and the generation of a batch |
| `MCFanOutEngine`, `MCFanOutLive`, `MCWaterfallDelivery`, `MCEdges`, `MCAnalysis` | instances for TLC, see 2.13 |
| `QueueLemmas` | facts about sequences without repetition used as FIFO queues |
| `FanOutEngineProofs`, `BlockDeliveryProofs`, `SourceBridgeProofs`, `WaterfallDeliveryProofs`, `ScanSessionProofs` | theorems about the module each is named after, see 4 |
| `FileProofs` | theorems about the files: `WaterfallStorage`, `DiagnosticLog`, `ResultTable` |
| `WindowProofs` | theorems about what the windows show: `SnapshotDelivery`, `BandSettings`, `WaterfallView` |

Operators whose comment begins with "Variant" are defective versions of the operator that
follows them (a dropped guard, a missing reset, a swapped order). They are in no
specification; replacing the operator by its variant makes TLC report the property that
is supposed to notice.

### 2.1 FanOutEngine

State. A block is the sequence id it gets in `ingestSamples`. The reference counting of
handles and contexts is `owners[b]`: the token `Worker` stands for the move-only handle on
its way from the producer through the queue into the worker's context pointer, the token
`s` for the copy of the context in the job of stage `s`; when the last token goes, the
block returns to `available`. `pc` says between which synchronisation points each thread
is. `consumed`, `dropped`, `recorded`, `serial` and `cleared` are histories.

Steps. Each action is what a thread does between two acquisitions of a lock or two atomic
operations. `IngestBegin` to `IngestPush` follow `ingestSamples` (the gate is read first,
so a producer may still be on its way after a stop). `WorkerPop` and `WorkerMark` are
separate: between them the block is in no queue and not yet marked. `Submit` is
`submitFanOutContext` under `m_stageMutex`, with the policies of the non-lossless stages;
`SubmitRefused` is the fallback, in which the worker processes the block itself, possibly
before the stages have handled older ones. `Complete`, `Record` and `Leave` are the steps
of `completeFanOutStage`, taken by a stage or by the worker for skipped jobs.
`FlushProbe` and `FlushSucceed` split flush's predicate: the first half is read under
`m_mutex`, the second under `m_stageMutex` with `m_mutex` still held (`MutexFree` keeps
`recordBlockCompleted` and `workerLoop` out meanwhile).

Left out: what a stage computes and publishes (one step records the block), metrics and
diagnostics, and the age criterion of the drop-oldest policy, which becomes a free choice
of how many of the oldest jobs are removed within the depth the policy allows.

### 2.2 BlockDelivery and the refinement

`FanOutEngine!Delivery` instantiates `BlockDelivery`: a block's state is read off
`owners`, `recorded` and `cleared`; `handled` counts its occurrences in `consumed`.
`DeliversBlocks` says that every step of the engine is a step of the contract or a
stutter; TLC checks it on small instances, and it is proved for all (`EngineDelivers`).
`ExactlyOnce` is proved of the contract alone, and the engine inherits it
(`EngineDeliversOnce`).

### 2.3 SourceBridge

`overflowPolicy` is chosen in `Init`, as the constructor does, and no step changes it. A
callback holds the session's delivery mutex from its gate to its `notify_one`, but not
the bridge's mutex in between: `Submit` and `SubmitNotify` are two steps. The condition
variable is the set `waiters`; `notify_one` removes any one of them. `fate` records what
became of each block. `OpenInput(FALSE)` is a start whose thread cannot be created.
`StopSource` waits for a running callback, as `IBcoStreamSource::stop` promises.

### 2.4 WaterfallDelivery

State. A sample of the model is all samples of one block in one time bucket, `<<b, i>>`;
`Span[b]` lists the buckets of block `b`. `openRow` is the aggregator's open row with the
samples folded into it and the number of the configuration it was folded under; `config`
counts the configurations. `hand`, `batch`, `batchConfig` and `batchSource` are the local
variables of a publishing thread: the worker (in Sequential mode or as fallback), the
stage thread, and the user interface thread in a flush. `cursor` is where the thread in the
aggregator stands in its block. `rowQueue`, `nextRowId` and `metrics` are those of
`WaterfallRowQueue`; `appended` are the rows given to `appendRenderRow`, of which the
session storage gets those with a visible frequency (`stored`). `control` is where the user
interface thread is; a controller method that calls the data plane is several steps,
because publishing threads run in between. `lost`, `vanished`, `taken`, `origin`, `sealed`,
`serial` and `timedOut` are histories. `Places` names the places a row can be in.

Steps. `processWaterfallStage` has three critical sections. The first one, under
`m_waterfallMutex`, is the loop over the samples of a block: `Enter`, `FoldSample` for each
sample, and `Consumed`, which copies the configuration; `AggregatorFree` keeps the other
threads out meanwhile. `Allocate` and `Push` are the other two. `Push` is the whole
of `pushRows`: with `DropOldest` the newest `RowCapacity` rows of queue and batch remain,
with `DropNewest` the oldest. `ConfigureQueue` and `StartRecording` are the two steps of
`configureWaterfall` (the row queue is reset before the aggregator gets the new time base),
the second with the rest of `startRecording`. `StopRecording` begins two flushes,
`SourceFailed` (the clean-up of a failed start) one, `FlushLive` (a completed scan) one with
the gate open. A flush waits for `FlushDrained`, closes the open row (`SealRow`), publishes
it like any other thread, and drains one batch (`FlushDrain`); one that times out does
nothing. `discarded` records that `clearQueuedBlocks` threw blocks away, for which every
later flush waits in vain.

Left out: amplitudes and bins inside a row, the live ring buffer, the time-base warning,
and the path before the pipeline, which `SourceBridge` and `FanOutEngine` model.

### 2.5 ScanSession

State. Azimuths are safe coordinates, `0 .. MaxCoord`, one tick of the antenna apart: the
planner (`antenna_motion_planner.cpp`) maps the circle without its blind zone to a segment
and no path leaves it. `state` to `current` are members of `ScanController`; `recorder` and
`closed` those of the acquisition recorder, `owner` the adapter's `m_activeScanSessionId`,
`recording` the recording controller's state between two handlers. `antenna` is
`SimulatorAntennaState`; `worker` and `seen` are the place of the azimuth thread and what
it decided on what it read. `posted` is the event queue with the azimuth samples and the
finalizations, `flushing` the zero timers of `flushProcessingAsync`. `outcomes`, `table`
and `raced` are histories.

Steps. A handler of the user interface thread is one step, unless it commands the antenna
twice, since the azimuth thread runs in between: `StartScan` gives the first command,
`BeginSectorScan` the second, `OpenAcquisition` starts the recording and the recorder's
session; `uiTodo` says which part is due and keeps every other handler out. `Abandon` is
what `stopScan` and `failScan` do to an active scan, in their order: stop the antenna,
close the recorder's session, end the recording, settle. `FinalizeCompletedScan` checks the
id it was queued with. The azimuth thread's tick is four steps: read and decide
(`WorkerRead`), write the position (`WorkerMove`), end the motion if it decided to
(`WorkerSettle`), report (`WorkerPost`). The setters of one antenna command are one step,
and so are the reads of one tick, which leaves out further orders of the same race. Each
command of a scan may be refused, as the interface allows; starting and stopping a
recording may fail. `raced` records that a command of the current scan was given while
the thread was about to end an earlier motion.

Left out: observations, bearing results, signal parameters and the snapshots they come
from, speeds, and the recording's inside, which `WaterfallDelivery` and `SourceBridge`
model.

### 2.6 SnapshotDelivery

A snapshot is `[id, blocks]`: the number its aggregator gave it and the blocks it was made
of. `todo`, `open`, `nextId`, `forced` belong to the aggregators, `held[s]` is what stage
`s` has built under the aggregator's mutex and not yet published, `latest` the exchanges,
`built` the same for the user interface thread. A handler of that thread is the list `gui`
of the steps it still has to take; stages run between two of them, other handlers do not.
`StopSteps` is `RecordingController::stopRecording`, the scan's part is `completeScan`,
the callback and `finalizeCompletedScan` with the adapters' and the controller's sequence
ids. The spectrum stage works as the bearing stage does, but its exchange is never reset;
the instance has bearing and parameters.

The document `display-data-audit.md` lists effects (D03, D04, D05) that the model shows
too; the properties do not claim them away: numbers start again with each recording, and
a window that is flushed while blocks arrive may stay hidden behind the one before it.

### 2.7 The aggregators

`SpectrumWindows`, `BearingWindows` and `PulseParameters` are operators from a state record
and a block to the next state record, one per path of the code: exact windows, incremental
windows with local accumulation, and the fast path for trusted samples. `ScanAggregates`
makes a machine of them. `past` is the history of samples and flushes; its properties say
what it adds up to by definition: a run of samples of one window between two flushes is
one snapshot, with the peak and the count of each cell; a candidate seen by both beams is
one estimate; the pulses of a band are its maximal groups of loud samples.

Notes. The fast path sets the bounds of a block without comparing, which is right because
blocks are sorted (`BlocksAssumption`). The streaming accumulator splits a pulse at a
quiet sample of the other beam; the batch estimator of `signal_parameter_estimator.cpp`
does not, and is not modelled. Left out: the timed path of the bearing aggregator, power
and bearing formulas, the ends of the 64-bit index range, and flushes of one aggregator
alone.

### 2.8 BandSettings

Everything runs in the user interface thread; what is hard is the protocol: previews
change the model that the windows show, an apply may be refused by the hardware, a start
takes previews back and locks, a mode that is refused is set back. A preview of one band
reaches the idle source's configuration when another band is applied, since the
controller sends the bands that are shown; the start sends the committed ones, and
`GeneratesWhatIsCommitted` is therefore about a running source. That the controller shows
the committed settings again when the hardware refuses an apply is modelled and not covered
by a property: a start takes back whatever is only shown, so nothing a running source does
depends on it.

### 2.9 SessionStore and WaterfallStorage

`SessionStore` follows `InMemoryWaterfallSessionStorage`, plus what a process that ends may
lose: `Exit` allows rows to disappear, not to appear. `WaterfallStorage` has the three
users of the disk: the user interface thread (start, append, close, rotation), the writer
(swap the queue, and per row: look up the session, append to `waterfall.bin`, append to
`waterfall.idx`, copy the metadata, write it), and a reader that first reads the index and
later merges the recent rows. Each of them takes a lock per step and keeps none. The next
process scans the directories (`Restart`) and rebuilds an index that is missing or cut
inside a record, in two steps, between which it may crash again. `ActsAsStore` is the
refinement.

The files. `waterfall.bin` is a sequence of records: a row, named by its time; `Torn`, cut
in its header; or the stub `-r` of the row `r`, whose header is whole and whose bins are
cut. An index record names a row and the place where its record begins; one cut short is
`Broken`. Readers use them as the code does: `RowAt` is `readRowAt`, for which a stub with
something behind it is a row, because the bytes that follow complete it; `Parsed` is the
scan of `rebuildIndexFromBin`, which goes on over a completed stub once and stops at what
follows; `Intact` is `readIndexRecords`, which reads nothing behind a damaged record.
`Selected` keeps the newest `maxRows` index records before any row is read, so that those
`readRowAt` refuses are missing from the answer.

What can fail, up to `MaxFailures` times.

* A write. Most rows fit the buffer of `QFile`, so that `write` succeeds and the disk
  refuses at `flush`, whose result `appendRowSync` does not look at (lines 551 and 577).
  `WriteRow` and `WriteIndex` therefore have two ends of a failure: the row is given up (an
  open or a write that failed), or the writer goes on, and an index record is written for a
  row that is not there or not whole, and the metadata after it. In both cases nothing or a
  part of the record is in the file (`BinCut`, `IdxCut`).
* The removal of a session by rotation. `removeRecursively` removes what it can before it
  reports a failure, and the session stays listed: any part of its files may be gone
  (`Without`), and it stays in `sessions`. Rotation ends with it.
* `metadata.json` (`Describe`); it is replaced as a whole, or not.

`failed` has the rows that were lost to one of these, which the code reports (an open or
write), or not at all (a flush), or as a session that cannot be removed. They are exempt
from `StopWritesAll` and `RestartFindsRows` by name, each for itself, so that the properties
claim all the other rows of the session, also those written behind a torn record, and say
that a failure takes the rows it hits and no other. They stay part of what the session
holds for `SessionStore` (`Held`): the bytes may be there, and a repair of the index may
bring such a row back, but never one that was not given to the session.

Simplifications. Creating the files of a new session succeeds. Every record of
`waterfall.bin` has the same size or at least is long enough to complete the stub in
front of it; a header completed by the bytes of the next record is refused. The row that
`RowAt` finds in a completed stub may hold bins of the next record, which the model does
not tell from its own. Records behind a damaged index record are misaligned, and the model
takes it that none of them, read as an index record, falls into a range asked for. `close()` of a file
tries the flush again; when that succeeds the model counts the first as a success. Rows of
one time are one row.

What the model shows and no property forbids: metadata may be written after the session
was closed with older contents; the directory of a session that rotation removed may come
back, without files, when its last metadata is written; a rebuild stops at a torn row;
after a crash `endUtcMs` may be older than the last row; a session that was never
closed, because of a crash, outlives newer closed ones in the rotation; a session whose
removal failed stays listed without rows; and after a failed flush `loadRows` may return
fewer rows than were asked for while older ones could be read, since the record of a row
that is not there counts against `maxRows` (`LoadedRowsComplete` says by how much).

### 2.10 WaterfallView

Extends `SessionStore`. `view` is the viewport, `ring` the ring buffer, `pending`, `working`
and `results` the three places of a history request (waiting, at the worker, answered and
in the event queue); `retuning` a frequency change whose timer runs. The guards of
`applyHistoryLoadResult` decide which answer is taken.

`AppendRenderRow` takes any row from the start of its session on, as `appendRenderRow`
does: after a flush of the live bridge or when the worker has overtaken the stage
(`WaterfallDelivery`), a row may have the time of a stored one or an earlier time. The
controller pushes such a row on top of the ring buffer and moves the viewport back to it,
while `loadHistoryRows` would put it into the slot of its time, once. What the window shows
then differs from the store until the next request, and nothing in the code asks for one.

`raced` names the cases in which a live row leaves the ring buffer different from the
store: a row that came between a request and its answer (D10 of `display-data-audit.md`),
one that came after an answer with a gap, and one that came out of turn (`OutOfTurn`). The
next request repairs all of them. `ViewShowsStore` exempts them until then and claims
everything else: also that the window is right again with the answer to that request,
whatever rows were out of turn before.

The store under the window loses nothing; what a disk may lose is `WaterfallStorage`'s
concern. Rows of one time are one row here, too. `loadHistoryRows` asks for twice as many
rows as the window has lines, so that repeated rows cost lines only when more rows than
that share the window.

### 2.11 ResultTable and DiagnosticLog

`ResultTable` has the controller (keys pending at the worker), the worker's tasks, the
file with its index and metadata, calls posted back, the destructor, crashes and restarts.
As `archive-format.md` says, reading stops at a damaged record, so rows behind a torn one
are in the file but not in the table after a restart; a failed index write leaves a row
in the file that the table does not show until it is reloaded (D11).

A record mostly fits the buffer of `QFile`. `FailAppend` is a failure that `append`
reports: a file that cannot be opened, a record larger than the buffer. `LoseTableData` and
`LoseTableIndex` are the failures at `flush`, whose result `append` ignores (lines 153 and
185): it goes on to the next file and succeeds, the controller shows the row as saved, and
nothing or a part of it is in `result_table.bin`. Nobody is told, and the row disappears
from the table with the next reload. `lost` names these rows, and `ResultsKept` exempts
them, row by row, from "what is shown is in the file" and "what was accepted is queued, in
the file or reported"; of every other row it claims both, and no row is lost or shown
twice because another one failed. A record that was cut and is completed by the bytes of
the next one is refused when it is read, unless the cut is in the text at its end. When
`close()` repeats the flush with success, the model counts the flush as a success. Left
out: the average of azimuths, formatting, quarantine, and `lastError`.

`DiagnosticLog` has publishing threads, whose `publish` is two steps (append to the log
queue, post to the windows), the writer and its stop. A line of the log stands for one
event or for the number it reports as dropped, so that the log can be counted.

### 2.12 UdpStream and SampleGenerator

In `UdpStream` a datagram stays in `requests` or `data` for ever once it was sent, which
lets it be lost, repeated and delayed without an action for it. The source renews its
subscription, changes revisions and is restarted under new stream ids; the generator
serves one stream, ends a lease, retires streams and may be restarted under a new producer
id. `retire()` enters a stream at its Stop and again when the next subscription replaces
it, so that the ring of 64 remembers 32 streams in the worst case. Left out: an exception
in the receive loop, a second peer, metrics, and the unsynchronised accesses of `stop()`.

`SampleGenerator` has the thread of the high-load source (catching up after a lag, bursts,
settings that change between two batches) and the generation of a batch by slots. Pulses
are compared with their definition (`Transmits`), which knows no phases and no searches.
A narrow pulse may hold no sample of its band; a full batch is cut while the next one
starts after it. Left out: metrics, back pressure, indices near 2^64, and a stop from the
callback.

### 2.13 Instances

The parts that do not call each other share a run: `MCEdges` (storage, results, log, UDP,
generator) and `MCAnalysis` (aggregates, snapshots, settings) have the variables of all
their parts, and the initial state picks the part that runs. The modules that theorems are
about (`WaterfallStorage`, `DiagnosticLog` and `ResultTable`, `SnapshotDelivery` and
`BandSettings`) are extended, so that the properties a run checks are the ones the theorems state; while
another part runs they rest in an initial state. The other parts are instances whose
variables are `Off` meanwhile, and their properties speak about their part
(`part = "udp" => ...`). The state graph is the disjoint union of those of the parts. In the same way `MCFanOutEngine` and
`MCFanOutLive` pick one of two setups, that is, values of the constants (`Alone` is the
engine in Sequential mode), and `MCWaterfallDelivery` one of three: a stage the worker
helps out, the worker alone (`Alone`), or the window on the screen (`WaterfallView`).

## 3. Runs

| Run | Question | Bounds | Result |
|---|---|---|---|
| `fanout` | counters, order of service, flush, stop and the refinement of `BlockDelivery` in two setups: a lossless stage (which falls back to the worker) beside one that drops its oldest jobs; the worker alone, with the gate closed at the start | 2 stages, 3 blocks, pool of 2, queues of 1 (input queue of 2 for the worker alone) | holds |
| `fanout_overload` | the same when both stages skip jobs: one drops its oldest, one keeps the newest | 2 stages, 3 blocks, pool of 2, input queue of 1, stage queues of 2, drop depth 2 | holds |
| `fanout_live` | types and pool accounting; blocks settle and return, stop ends | 2 blocks; a latest-only and a lossless stage, or the worker alone | holds |
| `bridge` | the RX queue under both overflow policies: counters, order, flush and close; closing ends; blocks are served if flush is only called with the gate closed | 4 blocks, queue of 2 | holds |
| `rows` | samples, metadata, order and sessions of rows: the worker alone with flushes that may give up and `DropOldest`; a stage and the fallback worker with `DropNewest`, where a stop must settle every sample; and the window: it shows the store, every row can be reached, loading ends | rows: 3 blocks, 2 recordings, row queue of 2, batch of 1; window: 2 sessions, 3 rows, window of 2, 3 requests, 2 frequency ranges | holds |
| `scan_session` | a scan gives back what it holds, ends once, and ends unless a command raced the antenna's thread | 3 coordinates, 2 scans, 1 queued sample | holds |
| `analysis` | results match their samples; a scan reports its own results; the source generates what was committed | 3 blocks of up to 2 samples, 1 flush; 2 blocks, 2 recordings, 2 scans, 1 timeout; 2 bands | holds |
| `edges` | the storage implements `SessionStore` and loses nothing it must keep; the table shows its file; the log accounts for its events; the stream survives its network; batches follow the settings | storage: 2 recordings, 2 rows, 1 failure, 2 exits; table: 2 scans, 2 failures; log: 2 threads, 3 events, queue of 1; UDP: 2 streams, 2 control and 3 data datagrams, 2 producers; generator: 2 bands, 3 batches | holds |
| `rows_lost_at_stop` | no row is thrown away uncounted | 4 blocks, row queue of 3, batch of 1 | violated, see 3.2 |
| `bridge_lost_wakeup` | blocks are served whoever calls flush | 2 blocks | violated, see 3.2 |
| `scan_antenna_stuck` | a scan whose sweep has begun ends | 3 coordinates, 1 scan | violated, see 3.2 |
| `index_rebuild_cut` | an intact `waterfall.bin` can be read after any restart | the storage part of `edges` | violated, see 3.2 |

### 3.1 Why the bounds are enough

`MaxBlocks` is the only bound that is not a constant of the program: the number of blocks
taken from the pool in a behaviour. Three blocks with a pool of two make the pool run
empty, fill the input queue and a stage queue, and leave one block to be submitted while
another waits and a third is on a thread; the engine may be started and stopped any
number of times. For overload two jobs of one stage and a third submission suffice. The
bridge has four blocks so that a queue of two can overflow, be cleared and be refilled in
the second opening of the input. For a scan, three coordinates give sectors that share an end, sectors
the antenna stands in, before or behind, and a path of two ticks; with two scans the
samples, the flush and the finalization of the first meet the second. One sample may wait
in the event queue (finalizations are not bounded): it is already stale when a scan starts. A row queue of two overflows at either end and within a
batch, since a block of two buckets publishes up to two rows: three blocks of which the
first and the third span two buckets, and the second shares one with the first, close more
rows than the queue holds, and one block is of a hidden frequency. Two recordings are needed for
everything that crosses the border between them. The program drains 256 rows at a time
from a queue of 4096 (`waterfallcontroller.h:44`, `waterfall_row_queue.h`); only the
relation of the batch and the queue matters: with a queue of at most two batches nothing
can be left at a stop (`rows`), with a longer one it can (`rows_lost_at_stop`).

In `edges`, two recordings with room for one session make every start rotate; the second
one begins earlier by the clock, so that order by time and order of creation differ. Two
rows and one recent row kept in memory make a row that is only on disk and one that is
only in memory. One failure and two exits are a torn record with a row behind it, a repair,
and a crash in the repair; or a flush that failed unnoticed and the index record of a row
that is not whole; or a removal that failed half-way, after which both sessions stay known.
Two scans share a band at different times; two failures are two of a failed append, a flush
that failed unnoticed, and a crash. A log queue of one overflows at the second event; a third one follows the
report of the drop. Two streams and two producers are one delayed generation of each, and with two
control datagrams the second overtakes the first or a late copy of the first meets the
state the second has left; a datagram can be repeated any number of times without a bound. The pulses of the generator
have periods and widths that do not divide by the slots.

In `analysis`, the sample period (2) does not divide the window (5), so that windows have
different numbers of samples; four samples in three blocks with one flush cut a window and
a pulse at each place. Two recordings, each with a scan aborted and one completed, and one
flush that times out bring every late callback into the next scan. For the window of `rows`, two
rows on the screen over three rows of two sessions, which come in any order and more than
once, scrolls within a session and across the border; three requests are one at the worker, one waiting and one that replaces it.

### 3.2 The violated runs

#### bridge_lost_wakeup

`submit` pushes a block, releases the mutex and calls `notify_one` on the condition
variable on which the worker *and* `flush` wait. If a flush tests its predicate between
the two, the notification may wake the flush, which sees a non-empty queue and sleeps
again, while the worker sleeps on. The block stays in the queue until the next submit,
clear or stop, and the flush times out. `ScanController::completeScan` calls flush with
the source live, so the order can happen there; `closeInput` closes the gate first and is
safe (`ServedUnlessFlushedLive` holds).

#### rows_lost_at_stop

A stop flushes twice and each flush drains one batch. After the session is closed
`pollWaterfallRows` returns at once, so rows that were queued beyond two batches stay in
the row queue, and `configureWaterfall` resets it, with its metrics, when the next
recording starts. They are neither stored nor counted as dropped, although
`docs/architecture/high-load-data-plane.md` section 6 wants waterfall rows "drained or
dropped with explicit overload accounting". It takes a backlog of more than 512 rows at
the moment of the stop, as after a long stall of the user interface thread.

#### scan_antenna_stuck

`SimulatorAntennaAzimuthSource::updateAzimuth` reads the antenna's state under one lock
after another, decides, and then calls `setMoving(false)` or `stop()`. A command of the
user interface thread in between is undone. The shortest case is a scan of a sector at
whose end the antenna stands: `startScan` calls `moveToAzimuth`, whose tick would end at
once, and in the same handler `startSectorScan`; if the thread's tick falls between the
two, its `setMoving(false)` comes after the second command. The antenna never moves, every
further sample shows the start of the path, and the scan stays in "scanning" until the
operator stops it. `tests/app/tst_scan_controller_simulator.cpp:126` requires that the
"simulator path completes sector scan". `SweepsUnlessRaced` shows that without this race
every scan ends its motion.

#### index_rebuild_cut

`rebuildIndexFromBin` truncates `waterfall.idx` and writes its header before it scans
`waterfall.bin`. If the process ends in between, the file has a valid header and fewer
whole records than there are rows, and the next start takes it for valid. The rows behind
are in an intact `waterfall.bin` and cannot be loaded, although
`docs/storage/archive-format.md:259` says that a "missing or corrupted `waterfall.idx` is
recoverable when `waterfall.bin` can be scanned". It takes an index that needs repair and
a crash during the repair; `RestartFindsRows` shows that there is no other way.

### 3.3 Fairness

Threads run: weak fairness of the stage threads, of an ingest that has begun, of flush
and of the joins of stop. The worker and `recordBlockCompleted` need `m_mutex`, which a
repeated flush could hold at every moment the scheduler looks; flush sleeps between two
evaluations and the mutex is free then, hence strong fairness of those steps. No fairness
makes a producer deliver or the owner begin an operation. In `SourceBridge` the worker, a
callback that has begun, and a flush or stop of the owner run. In `WaterfallDelivery` each
of the three threads is weakly fair: the worker, the stage thread, and the user interface
thread as far as it goes on with a flush or a stop it has begun; starting, polling and
stopping are not. The setup whose flushes may give up claims safety only. In
`ScanSession` the event loop handles what is queued, the flush timer fires, and the
azimuth thread runs; the operator does nothing he need not. In `WaterfallView` the history
worker and the event loop run and the retune timer fires. The other modules claim safety
only and state no fairness.

## 4. Proofs

All theorems are for every value of the constants under the named assumptions, which say
no more than that sizes are natural numbers, policies are policies of the code, and the
samples of a source are numbered upwards, bands and rows are finite, the default pulses
are within the sample budget, and placeholders such as `NoEvent` are not values they stand
in for (`EngineAssumption`, `DeliveryAssumption`, `BridgeAssumption`, `SessionAssumption`,
`StorageAssumption`, `LogAssumption`, `BandAssumption`, `DefaultsWithinBudget`,
`SnapshotAssumption`, `ViewAssumption`, `StoreAssumption`, and `TableAssumption`: a scan hands
over finitely many results). Every inductive invariant below
was checked with TLC on small instances before it was proved.

| Theorem | Statement | Inductive invariant |
|---|---|---|
| `FanOutEngineProofs!TypeCorrect` | `Spec => []TypeOK` | `Shape`: types and `Posture`, which ties a thread's place to what it holds (a worker at `submit` has a current block, a stopped stage has an empty queue) |
| `FanOutEngineProofs!PoolAccounted` | `Spec => []PoolAccounting` | `Conserved`: a token is among a block's owners exactly if the program holds the block there (`Ownership`), no block is in two places that share one token (`Uniqueness`), and the free and the lent blocks add up (`PoolCount`) |
| `FanOutEngineProofs!FanOutCounted` | `Spec => []CountersExact` | `Counted`: the counter of a block is the number of stages that still have to finish or skip it, and the flight counter the number of blocks with a context |
| `FanOutEngineProofs!LedgerInvariant` | `Spec => []Ledger` | for each block and stage: waiting, held, owed, handled or skipped, exactly one of them; recorded once and after all stages; and every accepted block is queued, with the worker, fanned out, recorded or cleared (`Fates`) |
| `FanOutEngineProofs!FlushAndStopSound` | `Spec => []FlushAndStopComplete` | `Flushed`: the queue is the end of the accepted blocks (`QueueIsSuffix`), blocks popped, in hand and queued add up (`PopsCounted`), and what a flush knows after each half of its predicate (`FlushKept`) |
| `FanOutEngineProofs!TimeoutIsJustified` | `Spec => FlushTimeoutJustified`, an action property | `Base` and `Flushed` |
| `FanOutEngineProofs!ServedInOrder` | `Spec => []ServiceOrder` | `InOrder`: queue, worker and the queue of each stage are sorted, and what a stage has handled is older, but for blocks the worker served |
| `FanOutEngineProofs!OverloadIsSound` | `Spec => []OverloadSound` | none of its own: counters, flush and order together, for any mixture of the stages' overload policies |
| `FanOutEngineProofs!EngineDelivers` | `Spec => DeliversBlocks`, the refinement of `BlockDelivery` | one lemma per group of actions says which step of the contract it is; uses `Base` and `Ledger` |
| `BlockDeliveryProofs!DeliveredExactlyOnce` | `Spec => []ExactlyOnce` | `DeliveryInv`: what is known of a block while it is still accepted |
| `FanOutEngineProofs!EngineDeliversOnce` | `Spec => []Delivery!ExactlyOnce` of the engine | none of its own: the refinement and the theorem before it |
| `SourceBridgeProofs!BridgeTypeCorrect`, `BridgeConserves`, `DrainedCloseSafe`, `BridgeKeepsOrder` | types, counters, lossless close, order | `Shape` with the session's `Posture`; for order, `Ordered`: handed blocks are older than the worker's, which is older than the queued ones, which are sorted |
| `SourceBridgeProofs!BridgeFlushes` | `Spec => []FlushComplete` | `Traced`: the place of a block can be read off its fate; `AwaitedTraced`: what becomes of the blocks a flush waits for while it waits |
| `WaterfallDeliveryProofs!WaterfallTyped`, `NoSampleLost`, `RowsKeepTheirRecording`, `StoredInOrder` | `Spec => []TypeOK`, `[]SamplesAccounted`, `[]RowsBelong`, `[]StoredInTimeOrder` | `IndInv`, see below |
| `ScanSessionProofs!ScanTypeCorrect`, `ScanHoldsResources`, `ScanEndsOnce` | types, resources, outcomes | `IInv`: `ResourcesFollowScan` itself with `Places` (the metadata's id is the recorder's session, a handler under way has a scan that moves to its start) and `Pending` (a flush or finalization under way is for a scan that was started, and for the active one only while it completes) |
| `FileProofs!StorageTypeOK`, `StorageRowsSurvive` | `Spec => []TypeOK`, `[]RowsSurvive` of the storage | `StorageInv`, see below |
| `FileProofs!StorageActsAsStore` | `Spec => ActsAsStore`, the refinement of `SessionStore` | `StorageInv`; one lemma per step says which step of the store it is |
| `FileProofs!LogIsComplete` | `LogSpec => []LogComplete` | `LogInv`: `Accounted` (lines, the writer's hands, the dropped and the queued events add up to the published ones, and the queue holds the last of them) and `OnTheWay` (what a thread still has to post is behind all it has posted) |
| `FileProofs!TableKeepsResults` | `TableSpec => []ResultsKept` | `TableInv`, see below |
| `WindowProofs!SettingsStayInForce` | `SettingsSpec => []SettingsInForce` | `SettingsInv`: with a source, the windows show the pulses it generates; shown and generated pulses are within the budget; settings are locked exactly while the source runs |
| `WindowProofs!ViewIsFaithful` | `ViewSpec => []ViewShowsStore` | `ViewInv`, see below |
| `WindowProofs!ScanResultsAreOwn` | `Spec => []ScanReportsItsOwn` | `ScanInv`, see below |

### 4.1 Why the invariants are what they are

`Uniqueness` is what makes `PoolAccounting` inductive: without it a stage that drops its
job could give up a token that also stands for a second job. `Pending` is what makes the scan
session's invariants inductive: a finalization for the active scan that came before the
scan was completing would close a recording that has not begun.

The engine's proofs are a tower: `Shape`, then `Conserved`, then `Phases` (which threads
may run while the owner stops the engine) and `Counted`, which together are `Base`; on it
`Ledger`, on that `Flushed` and `InOrder`. A block counts as
finished before the thread that finished it has left, so `Counted` speaks of the stages
that owe something, not of the threads that hold something; and flush reads the two halves
of its predicate at different moments, so `FlushKept` has to say that what the first half
saw still holds at the second: the pops it counted stay counted.

`IndInv` of the waterfall has these parts:

* `ThreadsInTurn`: a batch and a block belong to a thread in turn, and one thread at a time
  is in the aggregator.
* `BlocksInOrder`: the stations of a block (the stage's hands, its queue, the worker's
  hands, the input, the source) are sorted and disjoint. `FoldedOnce`: a sample that is
  still `Pending` there has not been folded. Without the two, a block could be folded twice
  and `SamplesConserved` would not be inductive.
* `EachInOnePlace`, `RowsApart`, `ListedOnce`, `LostCounted`: every row is in one place and
  there once, no two rows share a sample, and what the queue loses is counted.
* `GridKept`, `OwnRecording`, `ClosesSettled`: a row carries the configuration it was folded
  under, and everything on its way belongs to the recording under way; the latter holds over
  a start because a stop whose flushes succeeded leaves nothing behind.
* `IdsGrow` and `TimeInv`: the rows of a recording form one line, from the stored ones
  through the row queue to the batch of the thread that folds, in which time and numbers
  grow, and everything pending comes after all of it. `ServedArrived` says that a block the
  worker served as a fallback has left the source, so that a recording is exempt from the
  order of time only once the fallback has happened in it.

`StorageInv` has to say where a row is at every step of three threads that share no lock,
on a disk that may refuse without their noticing:

* `RowsKept` is its heart. A row in memory is readable, on its way, or known to have
  failed (`Kept`). A session is `Young` (of this process: its newest rows are in memory, and
  nothing is in its file, whole or as a stub, that is not kept) or `Quiet` (found by the
  scan: nobody writes it, its index is whole). A loader reads the index first and merges
  the recent rows later, and `LoadKept` says that a readable row it misses has enough newer
  ones among those the index named, and that what cannot be read yet is in memory,
  whatever the writer did in between.
* `Files`: a file is in a directory; a known session has its directory; a removed one has
  none that the next scan would take for a session, even if the writer was in the middle of
  one of its rows; and the record at `position` is the writer's row, or the row has
  failed. Without the last part an index record could name another row's place.
* `Untouched` and `Forgot`: nothing is on the disk or in memory of a session that was not
  started, and nothing in memory of one that was removed.
* `Described`: `metadata.json` lags behind the memory but never says what was not true.
* `SeenKept` carries what a reader could see over a crash and the scan after it, unless the
  repair itself was cut (`cut`, the case of `index_rebuild_cut`), or a record in
  `waterfall.bin` is damaged.
* `Posture` ties the threads' places to what they hold; no failure is remembered while no
  process runs.

Two facts about the readers carry the proof: a record more at the end of either file takes
nothing from what could be read and adds at most itself, even if it is damaged or completes
a stub (`IndexedMore`, `IndexedEntry`); and the scan of an
undamaged `waterfall.bin` finds all of its rows (`ParsedFacts`).

`TableInv` follows a row from the controller to the table:

* `PendingKept`: the keys of every task and of the worker's job are pending, and no two of
  them share a key. Without the second, a task that ends would take off a key that another
  one still has, and the row could be accepted twice.
* `JobKept`: a row the worker reports as saved is in the file, and while it is at the index
  or the metadata the row in hand is too.
* `CallsKept`: what is posted to the model is in the file, and a reset has a key once.
* `FileShown` is the property at rest, said of every moment: once the model is loaded or a
  reset is on its way, every key that can be read in the file is `Underway` (reported, or
  with the worker) or will be shown (`WillShow`): it is in a posted call with no reset after
  it, or in the table with no reset to come. An append that was posted before a reset needs
  no exception, as the reset read the file after it was written.

That a reset and an append lose and repeat no key rests on lemmas about sorting: a finite
set with a strict total order has an element for every rank (`EveryRankTaken`), so `ByRank`
lists each element once (`ListedByRank`); `Newer` is such an order on rows with distinct
keys.

`ViewInv` connects a request with the viewport it was made for. `InOrder` says that the
numbers of requests grow from the answers over the worker to the waiting one, so that only
the last answer can pass the guards of `applyHistoryLoadResult`; `Answered` that, unless a
live row or a frequency change came between, it holds what the viewport shows; `AtTheEnd`
that a live viewport ends with the store. `InWindow` is then the property itself.

`ScanInv` is two layers. `EngineInv` is about the recording, whoever reads it:

* `Resting` and `StartedAfresh`: no block of the previous recording is on its way when the
  next one starts, and which of the exchanges and aggregators a start has already put back
  at each of its steps (`Ahead` reads that off the steps the handler has left).
* `OwnBlocks`, hence: what can still be read was made of blocks of this recording.
* `Numbered`, `NewestShown`: a number stands for one set of blocks, and at rest the exchange
  holds the newest; without them the controller's comparison of numbers would say nothing
  about blocks. `Accumulated`: the parameters miss no block but those still to come.

The scan's layer says what its sequence ids stand for (`Seen`), and follows a flush from the
handler (`FlushUnderWay`) through the event queue (`FlushesDone`): the blocks a callback
owes are `Carried` by every snapshot still to come and `Exposed` by the latest one, and a
callback of an earlier scan finds that its scan is over. As in the property, what a scan
shows is claimed only as long as no recording has ended with a flush that gave up
(`overrun`).

### 4.2 Only model-checked

* Liveness (`BlocksComeToRest`, `StopReturns`, `NobodyWaitsForEver`, `FlushedStopSettles`,
  `LoadingEnds`, `ScanSettles`, `SweepsUnlessRaced`): fairness and ENABLED are out of the
  prover's reach.
* What a recursive definition or a fold computes for every input: the induction theorems
  of the library cannot be instantiated with the installed provers. This concerns the
  aggregators (2.7) and the generator. For the same reason the loops of the waterfall
  aggregator are steps, not folds.
* `TimelineConnected` speaks of the viewports met by turning the wheel any number of times,
  a fold whose length is not bounded.
* `StreamSound`: what was received is counted and put in order by folds over the blocks
  handed over. `ResultsMatchSamples` and `BatchesSound` compare folds with their
  definitions.
* `NoRowVanishes`, `EveryBlockIsServed`, `ScanSweeps` and `IndexRecoverable` do not hold
  (3.2).

`TypeOK` and `PoolAccounting` of the engine are checked by `fanout_live`, the other safety
properties by `fanout` and `fanout_overload`, and proved for every setup.

## 5. Plan

1. Compositions: bridge and engine as one acquisition path; the view over the store on
   disk instead of `SessionStore`. The store's theorem and `ViewIsFaithful` meet in
   `SessionStore`, but no module puts the two together.
2. The bearing aggregator's timed path, and the batch estimator compared with the streaming
   accumulator.

## 6. Not modelled

* `pipeline_metrics.*` and `pipeline_diagnostics.*`: counters behind one mutex and their
  formatting; nothing in the data plane is decided by them.
* `sample_processor.cpp`, `signal_parameter_estimator.cpp`, `bearing_service.cpp`,
  `spectrum_envelope_processor.cpp`: sequential floating-point functions without state
  between calls. What the aggregators do with samples is modelled, the formulas are data.
* `simulator_bco_sample_source.cpp`, `simulator_bco_control.cpp` and the legacy adapter: the
  application no longer creates them.
* The spectrum envelope worker and the realtime pipeline: the worker keeps the latest
  request only, as the history worker of `WaterfallView` does.
* QML, shaders, view models, colour maps, wiring in the bootstrap, build files.
* Layouts of records, datagrams and JSON: a record is a value, whole or torn.
