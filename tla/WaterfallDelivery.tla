------------------------- MODULE WaterfallDelivery -------------------------
(***************************************************************************)
(* The way of a waterfall row: samples are folded into rows by the          *)
(* WaterfallAggregator, a thread of the ProcessingEngine publishes the      *)
(* closed rows to the bounded WaterfallRowQueue, the user interface thread   *)
(* drains them and appends them to the recording session, and stopping the   *)
(* recording flushes what is on its way.                                    *)
(*                                                                          *)
(* The aggregator is entered under m_waterfallMutex, once to consume and     *)
(* once more to allocate a batch number, and the row queue has a mutex of    *)
(* its own: between the three other threads run.  A thread at "fold" holds   *)
(* m_waterfallMutex and goes through its block sample by sample.             *)
(***************************************************************************)
EXTENDS Integers, FiniteSets, SequencesExt

CONSTANTS
  MaxBlocks,        \* bound: blocks the source delivers
  Span,             \* the time buckets the samples of a block lie in, in order
  Hidden,           \* blocks whose frequencies lie outside the visible range
  StageCapacity,    \* depth of the waterfall stage queue, 0 in Sequential mode
  RowCapacity,      \* WaterfallRowQueueConfig::maxQueuedRows
  OverflowPolicy,   \* WaterfallRowQueueConfig::overflowPolicy
  Batch,            \* WaterfallControllerConfig::maxWaterfallRowsPerUiTick
  MaxSessions,      \* bound: recordings that are started
  FlushMayTimeOut   \* whether flush() is seen to give up

Blocks   == 1..MaxBlocks
Threads  == {"worker", "stage", "ui"}

\* The samples of a source are numbered upwards: no bucket lies before an earlier one.
ASSUME DeliveryAssumption ==
  /\ MaxBlocks \in Nat /\ MaxSessions \in Nat
  /\ DOMAIN Span = Blocks /\ \A b \in Blocks : Span[b] \in Seq(Nat \ {0})
  /\ \A b, c \in Blocks : \A i \in DOMAIN Span[b], j \in DOMAIN Span[c] :
       b < c \/ (b = c /\ i <= j) => Span[b][i] <= Span[c][j]
  /\ Hidden \subseteq Blocks
  /\ StageCapacity \in Nat /\ RowCapacity \in Nat /\ Batch \in Nat
  /\ OverflowPolicy \in {"DropOldest", "DropNewest"}
  /\ FlushMayTimeOut \in BOOLEAN

\* A sample of the model is all samples of one block in one bucket.  A row
\* remembers which samples it holds and which configuration it was folded under.
NoRow == [bucket |-> 0, samples |-> {}, config |-> 0]

VARIABLES
  nextBlock,    \* the next block of the source
  accepting,    \* the gates of the acquisition session and the pipeline
  input,        \* blocks the pipeline has accepted and not yet taken
  discarded,    \* some were cleared: they stay in the count a flush waits for
  stageQueue,   \* jobs of the waterfall stage
  pc,           \* what each thread is about to do
  hand,         \* the block a thread processes
  cursor,       \* the next sample of the thread that folds
  batch,        \* WaterfallAggregationResult::rows of the thread's call
  batchConfig,  \* the configuration copied together with the rows
  batchSource,  \* the number allocated for the batch
  config,       \* the configuration of the aggregator, by its number
  openRow,      \* WaterfallAggregator::m_openRow
  nextSource,   \* m_nextWaterfallSourceSnapshotSequenceId
  rowQueue,     \* WaterfallRowQueue::m_rows
  nextRowId,    \* WaterfallRowQueue::m_nextRowSequenceId
  metrics,      \* WaterfallRowQueue::m_metrics
  reported,     \* rows the diagnostics were told were dropped
  control,      \* where the user interface thread is
  flushesLeft,  \* flushes the stop of the recording has still to make
  session,      \* the number of the last recording
  appended,     \* rows given to appendRenderRow, which stores the visible ones
  lost,         \* history: rows dropped by the row queue
  vanished,     \* history: rows thrown away by a reset
  taken,        \* history: samples the aggregator has folded
  origin,       \* history: the recording in which a block was accepted
  sealed,       \* history: rows closed by a flush
  serial,       \* history: blocks the worker served although there is a stage
  timedOut      \* history: a flush has given up

sourceVars  == <<nextBlock, accepting, input, stageQueue, origin>>
threadVars  == <<pc, hand, batch, batchConfig, batchSource>>
foldVars    == <<cursor, config, openRow, nextSource, taken>>
queueVars   == <<rowQueue, nextRowId, metrics, reported, lost>>
flushVars   == <<timedOut, discarded>>
uiVars      == <<control, flushesLeft, session, flushVars>>

vars == <<sourceVars, threadVars, foldVars, queueVars, uiVars, appended,
          vanished, sealed, serial>>

Init ==
  /\ nextBlock = 1 /\ accepting = FALSE
  /\ input = <<>> /\ stageQueue = <<>>
  /\ origin = [b \in Blocks |-> 0]
  /\ pc = [t \in Threads |-> "idle"]
  /\ hand = [t \in Threads |-> 0]
  /\ batch = [t \in Threads |-> <<>>]
  /\ batchConfig = [t \in Threads |-> 0]
  /\ batchSource = [t \in Threads |-> 0]
  /\ cursor = 0 /\ config = 0 /\ openRow = NoRow /\ nextSource = 1 /\ taken = {}
  /\ rowQueue = <<>> /\ nextRowId = 1
  /\ metrics = [pushed |-> 0, drained |-> 0, dropped |-> 0]
  /\ reported = 0 /\ lost = {}
  /\ control = "idle" /\ flushesLeft = 0 /\ session = 0
  /\ timedOut = FALSE /\ discarded = FALSE
  /\ appended = <<>>
  /\ vanished = {} /\ sealed = {} /\ serial = {}

-----------------------------------------------------------------------------
(* Blocks on their way to a thread (FanOutEngine has the details)            *)

Arrive ==
  /\ accepting /\ control # "starting" /\ nextBlock \in Blocks
  /\ input' = Append(input, nextBlock)
  /\ origin' = [origin EXCEPT ![nextBlock] = session]
  /\ nextBlock' = nextBlock + 1
  /\ UNCHANGED <<accepting, stageQueue, threadVars, foldVars, queueVars, uiVars,
                 appended, vanished, sealed, serial>>

\* A block goes to the stage, or is processed by the worker itself when there
\* is no stage or its queue is full.
WorkerTake ==
  /\ pc["worker"] = "idle" /\ input # <<>>
  /\ input' = Tail(input)
  /\ IF Len(stageQueue) < StageCapacity
       THEN /\ stageQueue' = Append(stageQueue, Head(input))
            /\ UNCHANGED <<pc, hand, serial>>
       ELSE /\ hand' = [hand EXCEPT !["worker"] = Head(input)]
            /\ pc' = [pc EXCEPT !["worker"] = "consume"]
            /\ serial' = IF StageCapacity > 0 THEN serial \union {Head(input)}
                                              ELSE serial
            /\ UNCHANGED stageQueue
  /\ UNCHANGED <<nextBlock, accepting, origin, batch, batchConfig, batchSource,
                 foldVars, queueVars, uiVars, appended, vanished, sealed>>

StageTake ==
  /\ pc["stage"] = "idle" /\ stageQueue # <<>>
  /\ hand' = [hand EXCEPT !["stage"] = Head(stageQueue)]
  /\ stageQueue' = Tail(stageQueue)
  /\ pc' = [pc EXCEPT !["stage"] = "consume"]
  /\ UNCHANGED <<nextBlock, accepting, input, origin, batch, batchConfig,
                 batchSource, foldVars, queueVars, uiVars, appended, vanished,
                 sealed, serial>>

-----------------------------------------------------------------------------
(* WaterfallAggregator and the publishing threads                            *)

\* Nobody holds m_waterfallMutex.
AggregatorFree == \A t \in Threads : pc[t] # "fold"

\* ProcessingEngine::processWaterfallStage takes m_waterfallMutex.
Enter(t) ==
  /\ pc[t] = "consume" /\ AggregatorFree
  /\ cursor' = 1
  /\ pc' = [pc EXCEPT ![t] = "fold"]
  /\ UNCHANGED <<sourceVars, hand, batch, batchConfig, batchSource, config, openRow,
                 nextSource, taken, queueVars, uiVars, appended, vanished, sealed,
                 serial>>

\* WaterfallAggregator::consume, one sample: a row is closed whenever the bucket is
\* another one, be it later or earlier.
FoldSample(t) ==
  LET sample == <<hand[t], cursor>>
      bucket == Span[hand[t]][cursor] IN
  /\ pc[t] = "fold" /\ cursor \in DOMAIN Span[hand[t]]
  /\ IF openRow.bucket = bucket
       THEN /\ openRow' = [openRow EXCEPT !.samples = @ \union {sample}]
            /\ UNCHANGED batch
       ELSE /\ openRow' = [bucket |-> bucket, samples |-> {sample}, config |-> config]
            /\ batch' = IF openRow = NoRow THEN batch
                                           ELSE [batch EXCEPT ![t] = Append(@, openRow)]
  /\ taken' = taken \union {sample}
  /\ cursor' = cursor + 1
  /\ UNCHANGED <<sourceVars, pc, hand, batchConfig, batchSource, config, nextSource,
                 queueVars, uiVars, appended, vanished, sealed, serial>>

\* The configuration is copied under the same lock.
Consumed(t) ==
  /\ pc[t] = "fold" /\ cursor \notin DOMAIN Span[hand[t]]
  /\ batchConfig' = [batchConfig EXCEPT ![t] = config]
  /\ pc' = [pc EXCEPT ![t] = IF batch[t] = <<>> THEN "idle" ELSE "allocate"]
  /\ hand' = [hand EXCEPT ![t] = 0]
  /\ UNCHANGED <<sourceVars, batch, batchSource, foldVars, queueVars, uiVars, appended,
                 vanished, sealed, serial>>

\* Variant: the configuration is read when the rows are published.
AllocateReadsConfig(t) ==
  /\ pc[t] = "allocate" /\ AggregatorFree
  /\ batchSource' = [batchSource EXCEPT ![t] = nextSource]
  /\ batchConfig' = [batchConfig EXCEPT ![t] = config]
  /\ nextSource' = nextSource + 1
  /\ pc' = [pc EXCEPT ![t] = "push"]
  /\ UNCHANGED <<sourceVars, hand, batch, cursor, config, openRow, taken,
                 queueVars, uiVars, appended, vanished, sealed, serial>>

\* publishWaterfallRows, again under m_waterfallMutex.
Allocate(t) ==
  /\ pc[t] = "allocate" /\ AggregatorFree
  /\ batchSource' = [batchSource EXCEPT ![t] = nextSource]
  /\ nextSource' = nextSource + 1
  /\ pc' = [pc EXCEPT ![t] = "push"]
  /\ UNCHANGED <<sourceVars, hand, batch, batchConfig, cursor, config, openRow, taken,
                 queueVars, uiVars, appended, vanished, sealed, serial>>

\* WaterfallRowQueue::makeQueuedRow for the rows of a batch, ids counted from id.
Numbered(rows, id, t) ==
  [i \in DOMAIN rows |->
     [id |-> id + i - 1, source |-> batchSource[t], config |-> batchConfig[t],
      row |-> rows[i]]]

\* The number of rows of a queue that a full queue loses.
Excess(rows) == IF Len(rows) > RowCapacity THEN Len(rows) - RowCapacity ELSE 0

RowsOf(queue) == {queue[i].row : i \in DOMAIN queue}

\* Variant: a full queue takes one more row.
KeptOffByOne(rows) ==
  IF Excess(rows) = 0 THEN rows ELSE SubSeq(rows, Excess(rows), Len(rows))

\* What a push leaves in the queue: the newest rows, or the oldest ones.
Kept(rows) ==
  IF OverflowPolicy = "DropOldest"
    THEN SubSeq(rows, Excess(rows) + 1, Len(rows))
    ELSE SubSeq(rows, 1, Len(rows) - Excess(rows))

\* WaterfallRowQueue::pushRows; DropNewest and a queue without room for a single
\* row give no number to the rows they refuse.
PushCounting(t, reportedRows) ==
  LET all == rowQueue \o Numbered(batch[t], nextRowId, t)
      refused == IF OverflowPolicy = "DropNewest" \/ RowCapacity = 0
                   THEN Excess(all) ELSE 0 IN
  /\ pc[t] = "push"
  /\ rowQueue' = Kept(all)
  /\ nextRowId' = nextRowId + Len(batch[t]) - refused
  /\ metrics' = [metrics EXCEPT !.pushed = @ + Len(batch[t]),
                                !.dropped = @ + Excess(all)]
  /\ reported' = reported + reportedRows
  /\ lost' = lost \union (RowsOf(all) \ RowsOf(Kept(all)))
  /\ pc' = [pc EXCEPT ![t] = "idle"]
  /\ batch' = [batch EXCEPT ![t] = <<>>]
  /\ batchConfig' = [batchConfig EXCEPT ![t] = 0]
  /\ batchSource' = [batchSource EXCEPT ![t] = 0]
  /\ control' = IF t = "ui" THEN "drain" ELSE control
  /\ UNCHANGED <<sourceVars, hand, foldVars, appended, flushesLeft, session,
                 flushVars, vanished, sealed, serial>>

\* Variant: only what is displaced is reported, not what is refused.
PushReportsDisplaced(t) ==
  PushCounting(t, IF OverflowPolicy = "DropOldest"
                    THEN Excess(rowQueue \o batch[t]) ELSE 0)

Push(t) == PushCounting(t, Excess(rowQueue \o batch[t]))

-----------------------------------------------------------------------------
(* WaterfallController, RecordingController                                  *)

\* DataIngestPipeline::configureWaterfall empties the row queue first.
ConfigureQueue ==
  /\ control = "idle" /\ session < MaxSessions
  /\ vanished' = vanished \union RowsOf(rowQueue)
  /\ rowQueue' = <<>> /\ nextRowId' = 1
  /\ metrics' = [pushed |-> 0, drained |-> 0, dropped |-> 0]
  /\ control' = "configure"
  /\ UNCHANGED <<sourceVars, threadVars, foldVars, reported, lost, flushesLeft,
                 session, flushVars, appended, sealed, serial>>

\* Variant: a time base that was set before is kept.
StartRecordingKeepsTimeBase ==
  /\ control = "configure" /\ AggregatorFree
  /\ config' = IF config = 0 THEN 1 ELSE config
  /\ session' = session + 1
  /\ accepting' = TRUE
  /\ control' = "starting"
  /\ UNCHANGED <<nextBlock, input, stageQueue, origin, threadVars, openRow,
                 nextSource, cursor, taken, queueVars, flushesLeft, flushVars, appended,
                 vanished, sealed, serial>>

\* ... and then gives the aggregator its configuration, which discards the open
\* row; WaterfallController::startRecording opens the session and the gates.
StartRecording ==
  /\ control = "configure" /\ AggregatorFree
  /\ config' = config + 1
  /\ vanished' = vanished \union ({openRow} \ {NoRow})
  /\ openRow' = NoRow /\ nextSource' = 1
  /\ session' = session + 1
  /\ accepting' = TRUE
  /\ control' = "starting"
  /\ UNCHANGED <<nextBlock, input, stageQueue, origin, threadVars, cursor, taken,
                 queueVars, flushesLeft, flushVars, appended, sealed, serial>>

SourceStarted ==
  /\ control = "starting"
  /\ control' = "recording"
  /\ UNCHANGED <<sourceVars, threadVars, foldVars, queueVars, flushesLeft, session,
                 flushVars, appended, vanished, sealed, serial>>

\* cleanupAfterFailedStart clears the queued blocks and stops the recording.
SourceFailed ==
  /\ control = "starting"
  /\ accepting' = FALSE /\ input' = <<>>
  /\ discarded' = (discarded \/ input # <<>>)
  /\ control' = "flush" /\ flushesLeft' = 1
  /\ UNCHANGED <<nextBlock, stageQueue, origin, threadVars, foldVars, queueVars,
                 session, timedOut, appended, vanished, sealed, serial>>

Visible(row) == \E sample \in row.samples : sample[1] \notin Hidden

\* WaterfallRowQueue::drain and appendRenderRow for each row of one batch: a row
\* without visible cells is reported and not stored.
Drain(rows) ==
  /\ metrics' = [metrics EXCEPT !.drained = @ + Len(rows)]
  /\ appended' = appended \o [i \in DOMAIN rows |->
                   [session |-> session, id |-> rows[i].id, source |-> rows[i].source,
                    config |-> rows[i].config, row |-> rows[i].row,
                    stored |-> Visible(rows[i].row)]]
  /\ UNCHANGED <<nextRowId, reported, lost>>

\* Variant: the newest rows are drained first.
DrainNewest ==
  LET count == IF Batch < Len(rowQueue) THEN Batch ELSE Len(rowQueue)
      rest  == Len(rowQueue) - count IN
  /\ Drain(SubSeq(rowQueue, rest + 1, Len(rowQueue)))
  /\ rowQueue' = SubSeq(rowQueue, 1, rest)

DrainOldest ==
  LET count == IF Batch < Len(rowQueue) THEN Batch ELSE Len(rowQueue) IN
  /\ Drain(SubSeq(rowQueue, 1, count))
  /\ rowQueue' = SubSeq(rowQueue, count + 1, Len(rowQueue))

\* WaterfallController::pollWaterfallRows on the timer.
Poll ==
  /\ control \in {"recording", "flushed"} /\ rowQueue # <<>>
  /\ DrainOldest
  /\ UNCHANGED <<sourceVars, threadVars, foldVars, uiVars, vanished, sealed, serial>>

\* RecordingController::stopRecording closes the gate and the input, flushes, and
\* has WaterfallController::stopRecording flush once more.
StopRecording ==
  /\ control \in {"recording", "flushed"}
  /\ accepting' = FALSE
  /\ control' = "flush" /\ flushesLeft' = 2
  /\ UNCHANGED <<nextBlock, input, stageQueue, origin, threadVars, foldVars,
                 queueVars, session, flushVars, appended, vanished, sealed,
                 serial>>

\* ScanController::completeScan flushes while samples still arrive, before it
\* has the recording stopped.
FlushLive ==
  /\ control = "recording"
  /\ control' = "flush" /\ flushesLeft' = 1
  /\ UNCHANGED <<sourceVars, threadVars, foldVars, queueVars, session, flushVars,
                 appended, vanished, sealed, serial>>

\* Variant: a thread that publishes what it has consumed is not waited for.
DrainedQueues == input = <<>> /\ stageQueue = <<>>

\* The predicate of ProcessingEngine::flush.
Drained ==
  /\ input = <<>> /\ stageQueue = <<>> /\ ~discarded
  /\ pc["worker"] = "idle" /\ pc["stage"] = "idle"

FlushDrained ==
  /\ control = "flush" /\ Drained
  /\ control' = "seal"
  /\ UNCHANGED <<sourceVars, threadVars, foldVars, queueVars, flushesLeft, session,
                 flushVars, appended, vanished, sealed, serial>>

\* Where the user interface thread goes when a flush is over.
FlushOver ==
  /\ flushesLeft' = flushesLeft - 1
  /\ control' = IF flushesLeft > 1 THEN "flush"
                ELSE IF accepting THEN "flushed" ELSE "close"

\* A flush that fails drains nothing.
FlushTimeout ==
  /\ control = "flush" /\ FlushMayTimeOut /\ ~Drained
  /\ FlushOver
  /\ timedOut' = TRUE
  /\ UNCHANGED <<sourceVars, threadVars, foldVars, queueVars, session, discarded,
                 appended, vanished, sealed, serial>>

\* Variant: the open row is published and stays open.
SealRowKeepsOpen ==
  /\ control = "seal" /\ AggregatorFree /\ openRow # NoRow
  /\ control' = "publish"
  /\ batch' = [batch EXCEPT !["ui"] = <<openRow>>]
  /\ batchConfig' = [batchConfig EXCEPT !["ui"] = config]
  /\ pc' = [pc EXCEPT !["ui"] = "allocate"]
  /\ sealed' = sealed \union {openRow}
  /\ UNCHANGED <<sourceVars, hand, batchSource, foldVars, queueVars, flushesLeft,
                 session, flushVars, appended, vanished, serial>>

\* flushWaterfallRows: WaterfallAggregator::flush under m_waterfallMutex.
SealRow ==
  /\ control = "seal" /\ AggregatorFree
  /\ openRow' = NoRow
  /\ IF openRow = NoRow
       THEN /\ control' = "drain"
            /\ UNCHANGED <<batch, batchConfig, pc, sealed>>
       ELSE /\ control' = "publish"
            /\ batch' = [batch EXCEPT !["ui"] = <<openRow>>]
            /\ batchConfig' = [batchConfig EXCEPT !["ui"] = config]
            /\ pc' = [pc EXCEPT !["ui"] = "allocate"]
            /\ sealed' = sealed \union {openRow}
  /\ UNCHANGED <<sourceVars, hand, batchSource, cursor, config, nextSource, taken,
                 queueVars, flushesLeft, session, flushVars, appended, vanished,
                 serial>>

\* Variant: the batch is not drained after the flush.
FlushDrainSkipped ==
  /\ control = "drain"
  /\ FlushOver
  /\ UNCHANGED <<sourceVars, threadVars, foldVars, queueVars, session, flushVars,
                 appended, vanished, sealed, serial>>

\* WaterfallController::flushProcessing drains one batch after a good flush.
FlushDrain ==
  /\ control = "drain"
  /\ DrainOldest
  /\ FlushOver
  /\ UNCHANGED <<sourceVars, threadVars, foldVars, session, flushVars, vanished,
                 sealed, serial>>

CloseStored ==
  /\ control = "close"
  /\ control' = "idle"
  /\ UNCHANGED <<sourceVars, threadVars, foldVars, queueVars, flushesLeft, session,
                 flushVars, appended, vanished, sealed, serial>>

-----------------------------------------------------------------------------
PublishStep(t) == Enter(t) \/ FoldSample(t) \/ Consumed(t) \/ Allocate(t) \/ Push(t)

FlushStep == FlushDrained \/ FlushTimeout \/ SealRow \/ FlushDrain \/ CloseStored

\* The steps of a thread that it takes by itself.
WorkerStep == WorkerTake \/ PublishStep("worker")
StageStep  == StageTake \/ PublishStep("stage")
UiStep     == FlushStep \/ PublishStep("ui")

Next ==
  \/ Arrive \/ WorkerStep \/ StageStep \/ UiStep
  \/ ConfigureQueue \/ StartRecording \/ SourceStarted \/ SourceFailed
  \/ Poll \/ StopRecording \/ FlushLive

Spec == Init /\ [][Next]_vars

\* Threads that can run do, and the user interface thread goes on with what it
\* has begun; nobody has to start or to stop a recording.
FairSpec == Spec /\ WF_vars(WorkerStep) /\ WF_vars(StageStep) /\ WF_vars(UiStep)

-----------------------------------------------------------------------------
(* Properties                                                                *)

\* Rows of any kind
RowType == [bucket : Nat, samples : SUBSET (Blocks \X Nat), config : Nat]

\* The types of the variables, and that a batch belongs to a thread exactly while
\* the thread folds or publishes it.
TypeOK ==
  /\ nextBlock \in 1..MaxBlocks + 1 /\ accepting \in BOOLEAN
  /\ input \in Seq(Blocks) /\ stageQueue \in Seq(Blocks)
  /\ Len(stageQueue) <= StageCapacity
  /\ pc \in [Threads -> {"idle", "consume", "fold", "allocate", "push"}]
  /\ \A t \in Threads : /\ pc[t] \in {"allocate", "push"} => batch[t] # <<>>
                        /\ batch[t] # <<>> => pc[t] \in {"fold", "allocate", "push"}
                        /\ (hand[t] # 0) <=> (pc[t] \in {"consume", "fold"})
  /\ config \in Nat /\ openRow \in RowType /\ nextSource \in Nat
  /\ Len(rowQueue) <= RowCapacity
  /\ metrics \in [{"pushed", "drained", "dropped"} -> Nat]
  /\ control \in {"idle", "configure", "starting", "recording", "flush", "seal",
                  "publish", "drain", "flushed", "close"}
  /\ session \in 0..MaxSessions

StoredRows == {appended[i].row : i \in {j \in DOMAIN appended : appended[j].stored}}

\* Rows without visible cells, which are warned about and not stored.
Unseen == {appended[i].row : i \in {j \in DOMAIN appended : ~appended[j].stored}}

\* Where a folded sample can be.
Places ==
  [open |-> {openRow} \ {NoRow}, worker |-> ToSet(batch["worker"]),
   stage |-> ToSet(batch["stage"]), ui |-> ToSet(batch["ui"]), queue |-> RowsOf(rowQueue),
   session |-> RowsOf(appended), lost |-> lost, vanished |-> vanished]

AllRows == UNION {Places[p] : p \in DOMAIN Places}

\* WaterfallAggregator, publishWaterfallRows, WaterfallRowQueue, appendRenderRow:
\* no step loses or doubles a sample; every folded sample is in exactly one row
\* and every row in exactly one place, appended or queued at most once.
SamplesConserved ==
  /\ UNION {row.samples : row \in AllRows} = taken
  /\ \A r1, r2 \in AllRows : r1 # r2 => r1.samples \intersect r2.samples = {}
  /\ \A p, q \in DOMAIN Places : p # q => Places[p] \intersect Places[q] = {}
  /\ Cardinality(RowsOf(appended)) = Len(appended)
  /\ Cardinality(RowsOf(rowQueue)) = Len(rowQueue)

\* WaterfallRowQueue::m_metrics and the diagnostics: a dropped row is always
\* accounted for, whichever end of the queue it is dropped at.
DropsAccounted ==
  /\ metrics.pushed = metrics.drained + metrics.dropped + Len(rowQueue)
  /\ reported = Cardinality(lost)

\* processWaterfallStage copies the configuration under the lock it folds under:
\* a queued or stored row carries the frequency grid it was folded on, even when
\* the aggregator was configured anew before the row was published.
MetadataMatchesRow ==
  /\ \A i \in DOMAIN rowQueue : rowQueue[i].config = rowQueue[i].row.config
  /\ \A i \in DOMAIN appended : appended[i].config = appended[i].row.config

\* stopRecording waits for all that is on its way: as long as no flush has given
\* up, a recording is given samples accepted during it only, folded on its time base.
SessionHoldsItsOwn ==
  timedOut \/ \A i \in DOMAIN appended :
    /\ appended[i].row.config = appended[i].session
    /\ \A sample \in appended[i].row.samples : origin[sample[1]] = appended[i].session

\* On the way from the aggregator to the session no sample is lost or doubled, and every
\* row the queue drops is counted and reported (WaterfallAggregator,
\* publishWaterfallRows, WaterfallRowQueue).
SamplesAccounted == SamplesConserved /\ DropsAccounted

\* A row carries the grid it was folded on, and is stored in the recording its samples
\* were accepted in (processWaterfallStage, RecordingController::stopRecording).
RowsBelong == MetadataMatchesRow /\ SessionHoldsItsOwn

\* A recording is given its rows in the order of time, at most one for a bucket,
\* unless a flush closed one of the two early, or the worker overtook the stage
\* during the recording, or a flush had given up.
StoredInTimeOrder ==
  timedOut \/ \A i, j \in DOMAIN appended :
    i < j /\ appended[i].session = appended[j].session =>
      /\ appended[i].id < appended[j].id
      /\ \/ appended[i].row.bucket < appended[j].row.bucket
         \/ {appended[i].row, appended[j].row} \intersect sealed # {}
         \/ \E b \in serial : origin[b] = appended[i].session

\* docs/architecture/high-load-data-plane.md: waterfall rows are timeline data and
\* must be drained or dropped with explicit overload accounting.  No row is
\* thrown away by the start of the next recording unless a flush had given up.
NoRowVanishes == vanished = {} \/ timedOut

\* stopRecording: a recording that is being stopped is closed, and then every block
\* accepted in it has all its samples stored, reported as not visible, or counted as lost.
StopSettlesSamples ==
  (control = "flush" /\ ~accepting)
    ~> /\ control = "idle"
       /\ \A b \in {c \in Blocks : origin[c] = session} : \A i \in DOMAIN Span[b] :
            \E row \in StoredRows \union Unseen \union lost : <<b, i>> \in row.samples

=============================================================================
