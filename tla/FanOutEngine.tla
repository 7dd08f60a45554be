---------------------------- MODULE FanOutEngine ----------------------------
(***************************************************************************)
(* The block path of the data plane: SignalBlockPool, BoundedBlockQueue,    *)
(* DataIngestPipeline and ProcessingEngine, at the grain of the steps its   *)
(* threads take between two synchronisation points.                        *)
(*                                                                         *)
(*   ingest    the thread that calls DataIngestPipeline::ingestSamples      *)
(*   Worker    ProcessingEngine::workerLoop                                *)
(*   1..N      ProcessingEngine::stageWorkerLoop, one thread per stage      *)
(*   control   the owner of the session: start, stop, flush, clear          *)
(*                                                                         *)
(* A block is the sequence id ingestSamples gives it.  What the aggregators *)
(* compute and publish is left out: a stage that handles a block appends    *)
(* its id to consumed[stage].  Metrics and diagnostics are left out.        *)
(***************************************************************************)
EXTENDS Integers, SequencesExt

CONSTANTS
  NumStages,       \* active stages: 3, or 4 with SignalParameter
  Parallel,        \* processingMode = ParallelFanOut
  Policy,          \* overload policy of each stage
  PoolSize,        \* SignalBlockPoolConfig::blockCount
  QueueCapacity,   \* DataIngestPipelineConfig::queueCapacity
  StageCapacity,   \* ProcessingEngineConfig::stageQueueCapacity
  DropDepth,       \* depth budget of a drop-oldest stage queue
  AcceptOnStart,   \* DataIngestPipelineConfig::acceptingOnStart
  MaxBlocks        \* bound of the model: blocks taken from the pool in a run

Stages  == 1..NumStages      \* in the order activeFanOutStages lists them
Worker  == 0
Threads == 0..NumStages
Ids     == 1..MaxBlocks
None    == 0

Policies == {"LosslessRequired", "RealtimeLatestOnly", "BoundedLatencyDropOldest"}

ASSUME EngineAssumption ==
  /\ NumStages \in Nat \ {0}
  /\ Parallel \in BOOLEAN
  /\ Policy \in [Stages -> Policies]
  /\ PoolSize \in Nat
  /\ QueueCapacity \in Nat
  /\ StageCapacity \in Nat
  /\ DropDepth \in Nat \ {0}
  /\ StageCapacity > 0 => DropDepth <= StageCapacity
  /\ AcceptOnStart \in BOOLEAN
  /\ MaxBlocks \in Nat

Lossless == {s \in Stages : Policy[s] = "LosslessRequired"}

VARIABLES
  available,      \* pool: size of m_available
  owners,         \* owners[b]: who keeps block b out of the pool (see below)
  queue,          \* BoundedBlockQueue::m_queue
  closed,         \* BoundedBlockQueue::m_shutdown
  accepted,       \* the blocks pushed since reset(); m_pushedBlocks is its length
  running,        \* DataIngestPipeline::m_running
  accepting,      \* DataIngestPipeline::m_accepting
  nextId,         \* DataIngestPipeline::m_nextSequenceId
  ingestPc,       \* where the ingesting thread is
  ingestBlock,    \* the block it holds
  pc,             \* where the worker and the stage threads are
  hand,           \* the block a thread serves or whose completion it records
  current,        \* the block workerLoop has popped
  serialStage,    \* next stage processBlockSequential calls
  skipped,        \* jobs submitFanOutContext has removed from the stage queues
  skipTodo,       \* those of them it has still to complete
  processing,     \* m_processingBlock
  completedPops,  \* m_completedQueuePops
  inFlight,       \* m_inFlightFanOutBlocks
  stageQueue,     \* m_stageQueues
  stageStop,      \* m_stageStopRequested
  remaining,      \* FanOutBlockContext::remainingStages
  consumed,       \* history: the blocks each aggregator consumed, in order
  dropped,        \* history: the blocks each stage skipped
  recorded,       \* history: how often recordBlockCompleted counted a block
  serial,         \* history: the blocks processBlockSequential handled
  cleared,        \* history: the blocks clear() threw away
  control,        \* where the control thread is
  target          \* targetCompletedQueuePops of the flush in progress

poolVars    == <<available, owners>>
queueVars   == <<queue, closed, accepted>>
ingestVars  == <<nextId, ingestPc, ingestBlock>>
gateVars    == <<running, accepting>>
threadVars  == <<pc, hand>>
workerVars  == <<current, serialStage, skipped, skipTodo>>
engineVars  == <<processing, completedPops, inFlight>>
stageVars   == <<stageQueue, stageStop, remaining>>
historyVars == <<consumed, dropped, recorded, serial, cleared>>
controlVars == <<control, target>>

vars == <<poolVars, queueVars, ingestVars, gateVars, threadVars, workerVars,
          engineVars, stageVars, historyVars, controlVars>>

-----------------------------------------------------------------------------
(***************************************************************************)
(* Ownership.  owners[b] stands for the reference count of the block: the   *)
(* token Worker is the move-only handle on its way from ingestSamples       *)
(* through the queue into the worker's FanOutBlockContext, and the token s   *)
(* is the copy of the context in the job of stage s.  The block goes back    *)
(* to the pool when the last token disappears.                              *)
(***************************************************************************)
Live == {b \in Ids : owners[b] # {}}

\* The holders in `kept` keep what they hold; every block left without an
\* owner is returned (SignalBlockHandle::reset -> SignalBlockPool::release).
ReleaseTo(kept) ==
  /\ owners' = kept
  /\ available' = available + Cardinality({b \in Live : kept[b] = {}})

\* recordBlockCompleted, workerLoop and flush() lock m_mutex; flush() keeps it
\* while it evaluates the second half of its predicate.
MutexFree == control # "probed"

-----------------------------------------------------------------------------
(* DataIngestPipeline::ingestSamples *)

IngestBegin ==
  /\ ingestPc = "idle" /\ nextId \in Ids
  /\ running /\ accepting
  /\ ingestPc' = "admitted"
  /\ UNCHANGED <<poolVars, queueVars, nextId, ingestBlock, gateVars, threadVars,
                 workerVars, engineVars, stageVars, historyVars, controlVars>>

\* SignalBlockPool::acquire finds no block: the input block is dropped.
IngestExhausted ==
  /\ ingestPc = "admitted" /\ available = 0
  /\ ingestPc' = "idle"
  /\ UNCHANGED <<poolVars, queueVars, nextId, ingestBlock, gateVars, threadVars,
                 workerVars, engineVars, stageVars, historyVars, controlVars>>

IngestAcquire ==
  /\ ingestPc = "admitted" /\ available > 0
  /\ available' = available - 1
  /\ owners' = [owners EXCEPT ![nextId] = {Worker}]
  /\ ingestBlock' = nextId
  /\ nextId' = nextId + 1
  /\ ingestPc' = "acquired"
  /\ UNCHANGED <<queueVars, gateVars, threadVars, workerVars, engineVars,
                 stageVars, historyVars, controlVars>>

\* BoundedBlockQueue::tryPush refuses: the handle it was given is destroyed.
IngestRefused ==
  /\ ingestPc = "acquired"
  /\ closed \/ Len(queue) >= QueueCapacity
  /\ ReleaseTo([owners EXCEPT ![ingestBlock] = {}])
  /\ ingestPc' = "idle" /\ ingestBlock' = None
  /\ UNCHANGED <<queueVars, nextId, gateVars, threadVars, workerVars, engineVars,
                 stageVars, historyVars, controlVars>>

IngestPush ==
  /\ ingestPc = "acquired"
  /\ ~closed /\ Len(queue) < QueueCapacity
  /\ queue' = Append(queue, ingestBlock)
  /\ accepted' = Append(accepted, ingestBlock)
  /\ ingestPc' = "idle" /\ ingestBlock' = None
  /\ UNCHANGED <<poolVars, closed, nextId, gateVars, threadVars, workerVars,
                 engineVars, stageVars, historyVars, controlVars>>

-----------------------------------------------------------------------------
(* ProcessingEngine::workerLoop *)

\* Variant: the newest block is served first.
WorkerPopNewest ==
  /\ pc[Worker] = "pop" /\ queue # <<>>
  /\ current' = Last(queue)
  /\ queue' = Front(queue)
  /\ pc' = [pc EXCEPT ![Worker] = "popped"]
  /\ UNCHANGED <<poolVars, closed, accepted, ingestVars, gateVars, hand,
                 serialStage, skipped, skipTodo, engineVars, stageVars,
                 historyVars, controlVars>>

\* BoundedBlockQueue::pop serves what is queued even after shutdown.
WorkerPop ==
  /\ pc[Worker] = "pop" /\ queue # <<>>
  /\ current' = Head(queue)
  /\ queue' = Tail(queue)
  /\ pc' = [pc EXCEPT ![Worker] = "popped"]
  /\ UNCHANGED <<poolVars, closed, accepted, ingestVars, gateVars, hand,
                 serialStage, skipped, skipTodo, engineVars, stageVars,
                 historyVars, controlVars>>

\* Variant: a closed queue ends the worker at once.
WorkerExitAtOnce ==
  /\ pc[Worker] = "pop" /\ closed
  /\ MutexFree
  /\ processing' = FALSE
  /\ pc' = [pc EXCEPT ![Worker] = "exited"]
  /\ UNCHANGED <<poolVars, queueVars, ingestVars, gateVars, hand, workerVars,
                 completedPops, inFlight, stageVars, historyVars, controlVars>>

WorkerExit ==
  /\ pc[Worker] = "pop" /\ queue = <<>> /\ closed
  /\ MutexFree
  /\ processing' = FALSE
  /\ pc' = [pc EXCEPT ![Worker] = "exited"]
  /\ UNCHANGED <<poolVars, queueVars, ingestVars, gateVars, hand, workerVars,
                 completedPops, inFlight, stageVars, historyVars, controlVars>>

\* Marks the block as being processed; in fan-out mode makes its context.
WorkerMark ==
  /\ pc[Worker] = "popped" /\ MutexFree
  /\ processing' = TRUE
  /\ IF Parallel
       THEN /\ remaining' = [remaining EXCEPT ![current] = NumStages]
            /\ inFlight' = inFlight + 1
            /\ pc' = [pc EXCEPT ![Worker] = "submit"]
            /\ UNCHANGED serialStage
       ELSE /\ serialStage' = 1
            /\ pc' = [pc EXCEPT ![Worker] = "serial"]
            /\ UNCHANGED <<remaining, inFlight>>
  /\ UNCHANGED <<poolVars, queueVars, ingestVars, gateVars, hand, current, skipped,
                 skipTodo, completedPops, stageQueue, stageStop, historyVars,
                 controlVars>>

-----------------------------------------------------------------------------
(* ProcessingEngine::submitFanOutContext, under m_stageMutex *)

\* Variant: a full lossless queue takes one more.
CannotSubmitOffByOne ==
  \/ stageStop
  \/ StageCapacity = 0
  \/ \E s \in Lossless : Len(stageQueue[s]) > StageCapacity

CannotSubmit ==
  \/ stageStop
  \/ StageCapacity = 0
  \/ \E s \in Lossless : Len(stageQueue[s]) >= StageCapacity

\* How many of the oldest jobs the policy of stage s removes.  The age of a job
\* is not modelled: a drop-oldest stage may find any number of them too old.
Removes(s, n) ==
  LET depth == Len(stageQueue[s]) IN
  \/ Policy[s] = "LosslessRequired" /\ n = 0
  \/ Policy[s] = "RealtimeLatestOnly" /\ n = depth
  \/ Policy[s] = "BoundedLatencyDropOldest" /\ n <= depth /\ depth - n < DropDepth

\* No stage queue has been touched: the worker processes the block itself.
SubmitRefused ==
  /\ pc[Worker] = "submit" /\ CannotSubmit
  /\ inFlight' = inFlight - 1
  /\ serialStage' = 1
  /\ pc' = [pc EXCEPT ![Worker] = "serial"]
  /\ UNCHANGED <<poolVars, queueVars, ingestVars, gateVars, hand, current, skipped,
                 skipTodo, processing, completedPops, stageVars, historyVars,
                 controlVars>>

\* What the variants of Submit below have in common.
SubmitAs(queues, removed, holders) ==
  /\ pc[Worker] = "submit" /\ ~CannotSubmit
  /\ stageQueue' = queues
  /\ skipped' = removed /\ skipTodo' = removed
  /\ owners' = [owners EXCEPT ![current] = holders]
  /\ pc' = [pc EXCEPT ![Worker] = "skip"]
  /\ UNCHANGED <<available, queueVars, ingestVars, gateVars, hand, current,
                 serialStage, engineVars, stageStop, remaining, historyVars,
                 controlVars>>

\* Variant: a stage that has jobs queued skips the new job instead of them.
SubmitDropsNewest ==
  LET over == {s \in Stages \ Lossless : stageQueue[s] # <<>>} IN
  SubmitAs([s \in Stages |-> IF s \in over THEN stageQueue[s]
                                          ELSE Append(stageQueue[s], current)],
           over \X {current}, Threads)

Submit ==
  /\ pc[Worker] = "submit" /\ ~CannotSubmit
  /\ \E cut \in [Stages -> 0..StageCapacity] :
       /\ \A s \in Stages : Removes(s, cut[s])
       /\ stageQueue' = [s \in Stages |->
            Append(SubSeq(stageQueue[s], cut[s] + 1, Len(stageQueue[s])), current)]
       /\ skipped' = {job \in Stages \X Ids :
                        \E i \in 1..cut[job[1]] : stageQueue[job[1]][i] = job[2]}
  /\ skipTodo' = skipped'
  /\ owners' = [owners EXCEPT ![current] = Threads]
  /\ pc' = [pc EXCEPT ![Worker] = "skip"]
  /\ UNCHANGED <<available, queueVars, ingestVars, gateVars, hand, current,
                 serialStage, engineVars, stageStop, remaining, historyVars,
                 controlVars>>

-----------------------------------------------------------------------------
(* ProcessingEngine::completeFanOutStage, by whichever thread t calls it     *)

\* Variant: the last but one stage records the block.
CompleteEarly(t, b, otherwise) ==
  /\ remaining' = [remaining EXCEPT ![b] = @ - 1]
  /\ IF remaining[b] = 2
       THEN /\ pc' = [pc EXCEPT ![t] = "record"]
            /\ hand' = [hand EXCEPT ![t] = b]
       ELSE /\ pc' = [pc EXCEPT ![t] = otherwise]
            /\ UNCHANGED hand

\* remainingStages.fetch_sub: only the last stage goes on to record the block.
Complete(t, b, otherwise) ==
  /\ remaining' = [remaining EXCEPT ![b] = @ - 1]
  /\ IF remaining[b] = 1
       THEN /\ pc' = [pc EXCEPT ![t] = "record"]
            /\ hand' = [hand EXCEPT ![t] = b]
       ELSE /\ pc' = [pc EXCEPT ![t] = otherwise]
            /\ UNCHANGED hand

Record(t) ==
  /\ pc[t] = "record" /\ MutexFree
  /\ recorded' = [recorded EXCEPT ![hand[t]] = @ + 1]
  /\ pc' = [pc EXCEPT ![t] = "leave"]
  /\ UNCHANGED <<poolVars, queueVars, ingestVars, gateVars, hand, workerVars,
                 engineVars, stageVars, consumed, dropped, serial, cleared,
                 controlVars>>

\* Variant: the worker, recording a skipped block, forgets the counter.
LeaveStagesOnly(t) ==
  /\ pc[t] = "leave"
  /\ inFlight' = IF t = Worker THEN inFlight ELSE inFlight - 1
  /\ pc' = [pc EXCEPT ![t] = IF t = Worker THEN "skip" ELSE "drop"]
  /\ UNCHANGED <<poolVars, queueVars, ingestVars, gateVars, hand, workerVars,
                 processing, completedPops, stageVars, historyVars, controlVars>>

Leave(t) ==
  /\ pc[t] = "leave"
  /\ inFlight' = inFlight - 1
  /\ pc' = [pc EXCEPT ![t] = IF t = Worker THEN "skip" ELSE "drop"]
  /\ UNCHANGED <<poolVars, queueVars, ingestVars, gateVars, hand, workerVars,
                 processing, completedPops, stageVars, historyVars, controlVars>>

\* completeFanOutStageSkipped for one removed job.
WorkerSkip ==
  /\ pc[Worker] = "skip"
  /\ \E job \in skipTodo :
       /\ skipTodo' = skipTodo \ {job}
       /\ dropped' = [dropped EXCEPT ![job[1]] = @ \union {job[2]}]
       /\ Complete(Worker, job[2], "skip")
  /\ UNCHANGED <<poolVars, queueVars, ingestVars, gateVars, current, serialStage,
                 skipped, engineVars, stageQueue, stageStop, consumed, recorded,
                 serial, cleared, controlVars>>

\* processBlockSequential calls the active stages one after the other.
WorkerSerial ==
  /\ pc[Worker] = "serial" /\ serialStage \in Stages
  /\ consumed' = [consumed EXCEPT ![serialStage] = Append(@, current)]
  /\ serial' = serial \union {current}
  /\ serialStage' = serialStage + 1
  /\ UNCHANGED <<poolVars, queueVars, ingestVars, gateVars, threadVars, current,
                 skipped, skipTodo, engineVars, stageVars, dropped, recorded,
                 cleared, controlVars>>

\* Variant: the block is recorded before the last stage has it.
WorkerSerialRecordEarly ==
  /\ pc[Worker] = "serial" /\ serialStage >= NumStages
  /\ MutexFree
  /\ recorded' = [recorded EXCEPT ![current] = @ + 1]
  /\ pc' = [pc EXCEPT ![Worker] = "skip"]
  /\ UNCHANGED <<poolVars, queueVars, ingestVars, gateVars, hand, workerVars,
                 engineVars, stageVars, consumed, dropped, serial, cleared,
                 controlVars>>

WorkerSerialRecord ==
  /\ pc[Worker] = "serial" /\ serialStage \notin Stages
  /\ MutexFree
  /\ recorded' = [recorded EXCEPT ![current] = @ + 1]
  /\ pc' = [pc EXCEPT ![Worker] = "skip"]
  /\ UNCHANGED <<poolVars, queueVars, ingestVars, gateVars, hand, workerVars,
                 engineVars, stageVars, consumed, dropped, serial, cleared,
                 controlVars>>

\* Variant: the references of the removed jobs leak.
WorkerUnwindLeaks ==
  /\ pc[Worker] = "skip" /\ skipTodo = {}
  /\ ReleaseTo([owners EXCEPT ![current] = @ \ {Worker}])
  /\ skipped' = {}
  /\ pc' = [pc EXCEPT ![Worker] = "finish"]
  /\ UNCHANGED <<queueVars, ingestVars, gateVars, hand, current, serialStage,
                 skipTodo, engineVars, stageVars, historyVars, controlVars>>

\* processBlock returns: the removed jobs and the worker's own reference go.
WorkerUnwind ==
  /\ pc[Worker] = "skip" /\ skipTodo = {}
  /\ ReleaseTo([b \in Ids |->
       owners[b] \ ({s \in Stages : <<s, b>> \in skipped}
                      \union IF b = current THEN {Worker} ELSE {})])
  /\ skipped' = {}
  /\ pc' = [pc EXCEPT ![Worker] = "finish"]
  /\ UNCHANGED <<queueVars, ingestVars, gateVars, hand, current, serialStage,
                 skipTodo, engineVars, stageVars, historyVars, controlVars>>

WorkerFinish ==
  /\ pc[Worker] = "finish" /\ MutexFree
  /\ processing' = FALSE
  /\ completedPops' = completedPops + 1
  /\ current' = None
  /\ pc' = [pc EXCEPT ![Worker] = "pop"]
  /\ UNCHANGED <<poolVars, queueVars, ingestVars, gateVars, hand, serialStage,
                 skipped, skipTodo, inFlight, stageVars, historyVars, controlVars>>

-----------------------------------------------------------------------------
(* ProcessingEngine::stageWorkerLoop *)

StagePop(s) ==
  /\ pc[s] = "pop" /\ stageQueue[s] # <<>>
  /\ hand' = [hand EXCEPT ![s] = Head(stageQueue[s])]
  /\ stageQueue' = [stageQueue EXCEPT ![s] = Tail(@)]
  /\ pc' = [pc EXCEPT ![s] = "serve"]
  /\ UNCHANGED <<poolVars, queueVars, ingestVars, gateVars, workerVars, engineVars,
                 stageStop, remaining, historyVars, controlVars>>

\* Variant: a stopped stage leaves its queue behind.
StageExitAtOnce(s) ==
  /\ pc[s] = "pop" /\ stageStop
  /\ pc' = [pc EXCEPT ![s] = "exited"]
  /\ UNCHANGED <<poolVars, queueVars, ingestVars, gateVars, hand, workerVars,
                 engineVars, stageVars, historyVars, controlVars>>

\* A stopped stage first drains its queue.
StageExit(s) ==
  /\ pc[s] = "pop" /\ stageQueue[s] = <<>> /\ stageStop
  /\ pc' = [pc EXCEPT ![s] = "exited"]
  /\ UNCHANGED <<poolVars, queueVars, ingestVars, gateVars, hand, workerVars,
                 engineVars, stageVars, historyVars, controlVars>>

StageServe(s) ==
  /\ pc[s] = "serve"
  /\ consumed' = [consumed EXCEPT ![s] = Append(@, hand[s])]
  /\ pc' = [pc EXCEPT ![s] = "complete"]
  /\ UNCHANGED <<poolVars, queueVars, ingestVars, gateVars, hand, workerVars,
                 engineVars, stageVars, dropped, recorded, serial, cleared,
                 controlVars>>

StageComplete(s) ==
  /\ pc[s] = "complete"
  /\ Complete(s, hand[s], "drop")
  /\ UNCHANGED <<poolVars, queueVars, ingestVars, gateVars, workerVars, engineVars,
                 stageQueue, stageStop, historyVars, controlVars>>

\* Variant: the first stage that is done returns the block.
StageDropReturns(s) ==
  /\ pc[s] = "drop"
  /\ ReleaseTo([owners EXCEPT ![hand[s]] = {}])
  /\ hand' = [hand EXCEPT ![s] = None]
  /\ pc' = [pc EXCEPT ![s] = "pop"]
  /\ UNCHANGED <<queueVars, ingestVars, gateVars, workerVars, engineVars,
                 stageVars, historyVars, controlVars>>

\* The job goes out of scope, and with it this stage's reference.
StageDrop(s) ==
  /\ pc[s] = "drop"
  /\ ReleaseTo([owners EXCEPT ![hand[s]] = @ \ {s}])
  /\ hand' = [hand EXCEPT ![s] = None]
  /\ pc' = [pc EXCEPT ![s] = "pop"]
  /\ UNCHANGED <<queueVars, ingestVars, gateVars, workerVars, engineVars,
                 stageVars, historyVars, controlVars>>

-----------------------------------------------------------------------------
(* The session's owner: DataIngestPipeline::start, stop, clearQueuedBlocks,  *)
(* setAccepting and flushProcessing, called one at a time                    *)

\* BoundedBlockQueue::clear and reset destroy the queued handles.
EmptyQueue ==
  /\ queue' = <<>>
  /\ ReleaseTo([b \in Ids |-> IF b \in ToSet(queue) THEN {} ELSE owners[b]])

Start ==
  /\ control = "stopped"
  /\ EmptyQueue
  /\ closed' = FALSE /\ accepted' = <<>>
  /\ accepting' = AcceptOnStart
  /\ processing' = FALSE /\ completedPops' = 0 /\ inFlight' = 0
  /\ stageQueue' = [s \in Stages |-> <<>>] /\ stageStop' = FALSE
  /\ pc' = [t \in Threads |-> IF Parallel \/ t = Worker THEN "pop" ELSE "exited"]
  /\ running' = TRUE
  /\ control' = "ready"
  /\ UNCHANGED <<ingestVars, hand, workerVars, remaining, historyVars, target>>

SetAccepting(value) ==
  /\ control = "ready" /\ accepting # value
  /\ accepting' = value
  /\ UNCHANGED <<poolVars, queueVars, ingestVars, running, threadVars, workerVars,
                 engineVars, stageVars, historyVars, controlVars>>

Clear ==
  /\ control = "ready" /\ queue # <<>>
  /\ EmptyQueue
  /\ cleared' = cleared \union ToSet(queue)
  /\ UNCHANGED <<closed, accepted, ingestVars, gateVars, threadVars, workerVars,
                 engineVars, stageVars, consumed, dropped, recorded, serial,
                 controlVars>>

\* Variant: stop() closes the gate but not the queue.
StopBeginOpen ==
  /\ control = "ready"
  /\ accepting' = FALSE
  /\ control' = "joinWorker"
  /\ UNCHANGED <<poolVars, queueVars, ingestVars, running, threadVars,
                 workerVars, engineVars, stageVars, historyVars, target>>

StopBegin ==
  /\ control = "ready"
  /\ accepting' = FALSE /\ closed' = TRUE
  /\ control' = "joinWorker"
  /\ UNCHANGED <<poolVars, queue, accepted, ingestVars, running, threadVars,
                 workerVars, engineVars, stageVars, historyVars, target>>

StopStages ==
  /\ control = "joinWorker" /\ pc[Worker] = "exited"
  /\ stageStop' = TRUE
  /\ control' = "joinStages"
  /\ UNCHANGED <<poolVars, queueVars, ingestVars, gateVars, threadVars, workerVars,
                 engineVars, stageQueue, remaining, historyVars, target>>

StopEnd ==
  /\ control = "joinStages" /\ \A s \in Stages : pc[s] = "exited"
  /\ EmptyQueue
  /\ processing' = FALSE
  /\ running' = FALSE
  /\ control' = "stopped"
  /\ UNCHANGED <<closed, accepted, ingestVars, accepting, threadVars, workerVars,
                 completedPops, inFlight, stageVars, historyVars, target>>

FlushBegin ==
  /\ control = "ready"
  /\ target' = Len(accepted)
  /\ control' = "flushing"
  /\ UNCHANGED <<poolVars, queueVars, ingestVars, gateVars, threadVars, workerVars,
                 engineVars, stageVars, historyVars>>

\* Variants: flush() waits for a block too many; it trusts the stage queues.
WorkerSettledOffByOne  == queue = <<>> /\ completedPops > target /\ ~processing
FanOutDrainedQueues    == \A s \in Stages : stageQueue[s] = <<>>

\* The predicate of flush(): its first half reads the input queue and the
\* worker's marks, its second half (fanOutDrained) the fan-out.
WorkerSettled == queue = <<>> /\ completedPops >= target /\ ~processing
FanOutDrained == inFlight = 0 /\ \A s \in Stages : stageQueue[s] = <<>>

FlushGoesTo(place) ==
  /\ control' = place
  /\ UNCHANGED <<poolVars, queueVars, ingestVars, gateVars, threadVars, workerVars,
                 engineVars, stageVars, historyVars, target>>

FlushProbe == control = "flushing" /\ WorkerSettled /\ FlushGoesTo("probed")

FlushSucceed == control = "probed" /\ FanOutDrained /\ FlushGoesTo("flushed")

FlushWaitAgain == control = "probed" /\ ~FanOutDrained /\ FlushGoesTo("flushing")

\* wait_for gives up only if a last evaluation of the predicate fails.
FlushTimeout ==
  /\ \/ control = "flushing" /\ ~WorkerSettled
     \/ control = "probed" /\ ~FanOutDrained
  /\ FlushGoesTo("timedOut")

\* After a success flush() closes the aggregators' open windows; it returns.
FlushReturn == control \in {"flushed", "timedOut"} /\ FlushGoesTo("ready")

-----------------------------------------------------------------------------
Init ==
  /\ available = PoolSize /\ owners = [b \in Ids |-> {}]
  /\ queue = <<>> /\ closed = FALSE /\ accepted = <<>>
  /\ running = FALSE /\ accepting = FALSE
  /\ nextId = 1 /\ ingestPc = "idle" /\ ingestBlock = None
  /\ pc = [t \in Threads |-> "exited"] /\ hand = [t \in Threads |-> None]
  /\ current = None /\ serialStage = 1 /\ skipped = {} /\ skipTodo = {}
  /\ processing = FALSE /\ completedPops = 0 /\ inFlight = 0
  /\ stageQueue = [s \in Stages |-> <<>>] /\ stageStop = FALSE
  /\ remaining = [b \in Ids |-> 0]
  /\ consumed = [s \in Stages |-> <<>>] /\ dropped = [s \in Stages |-> {}]
  /\ recorded = [b \in Ids |-> 0] /\ serial = {} /\ cleared = {}
  /\ control = "stopped" /\ target = 0

IngestStep == IngestExhausted \/ IngestAcquire \/ IngestRefused \/ IngestPush

WorkerStep ==
  \/ WorkerPop \/ WorkerExit \/ WorkerMark
  \/ SubmitRefused \/ Submit \/ WorkerSkip
  \/ WorkerSerial \/ WorkerSerialRecord \/ WorkerUnwind \/ WorkerFinish
  \/ Record(Worker) \/ Leave(Worker)

StageStep(s) ==
  \/ StagePop(s) \/ StageExit(s) \/ StageServe(s) \/ StageComplete(s)
  \/ Record(s) \/ Leave(s) \/ StageDrop(s)

StopStep  == StopStages \/ StopEnd
FlushStep == FlushProbe \/ FlushSucceed \/ FlushWaitAgain \/ FlushTimeout \/ FlushReturn

Next ==
  \/ IngestBegin \/ IngestStep
  \/ WorkerStep
  \/ \E s \in Stages : StageStep(s)
  \/ Start \/ Clear \/ StopBegin \/ StopStep \/ FlushBegin \/ FlushStep
  \/ \E value \in BOOLEAN : SetAccepting(value)

Spec == Init /\ [][Next]_vars

\* Every thread that can take a step takes it in the end: threads are not
\* suspended for ever, and every lock but m_mutex is held inside one step.  A
\* thread that needs m_mutex may find it taken again and again by flush(), but
\* flush() sleeps between two looks at its predicate, so the thread gets it in
\* the end: strong fairness of the worker's steps and of Record.  Nothing forces
\* the producer or the session's owner to begin an operation.
Fairness ==
  /\ WF_vars(IngestStep)
  /\ SF_vars(WorkerStep)
  /\ \A s \in Stages : WF_vars(StageStep(s)) /\ SF_vars(Record(s))
  /\ WF_vars(StopStep)
  /\ WF_vars(FlushStep)

FairSpec == Spec /\ Fairness

-----------------------------------------------------------------------------
(* Properties                                                               *)

PoolTypes    == available \in Nat /\ owners \in [Ids -> SUBSET Threads]
QueueTypes   == /\ queue \in Seq(Ids) /\ Len(queue) <= QueueCapacity
                /\ closed \in BOOLEAN /\ accepted \in Seq(Ids)
GateTypes    == running \in BOOLEAN /\ accepting \in BOOLEAN
IngestTypes  == /\ nextId \in 1..(MaxBlocks + 1) /\ ingestBlock \in Ids \union {None}
                /\ ingestPc \in {"idle", "admitted", "acquired"}
ThreadTypes  == /\ pc \in [Threads -> {"pop", "popped", "submit", "skip", "serial",
                     "finish", "serve", "complete", "record", "leave", "drop", "exited"}]
                /\ hand \in [Threads -> Ids \union {None}]
WorkerTypes  == /\ current \in Ids \union {None} /\ serialStage \in 1..(NumStages + 1)
                /\ skipped \subseteq Stages \X Ids /\ skipTodo \subseteq skipped
EngineTypes  == processing \in BOOLEAN /\ completedPops \in Nat /\ inFlight \in Int
StageTypes   == /\ stageQueue \in [Stages -> Seq(Ids)]
                /\ \A s \in Stages : Len(stageQueue[s]) <= StageCapacity
                /\ stageStop \in BOOLEAN /\ remaining \in [Ids -> Int]
HistoryTypes == /\ consumed \in [Stages -> Seq(Ids)] /\ dropped \in [Stages -> SUBSET Ids]
                /\ recorded \in [Ids -> Nat] /\ serial \subseteq Ids /\ cleared \subseteq Ids
ControlTypes == /\ control \in {"stopped", "ready", "flushing", "probed", "flushed",
                                "timedOut", "joinWorker", "joinStages"}
                /\ target \in Nat

\* The values the variables range over; the input queue and the stage queues
\* never exceed their capacities, whatever the policies do.
TypeOK ==
  /\ PoolTypes /\ QueueTypes /\ GateTypes /\ IngestTypes /\ ThreadTypes
  /\ WorkerTypes /\ EngineTypes /\ StageTypes /\ HistoryTypes /\ ControlTypes

\* The places of the program that refer to block b, as the owners they stand for.
StageHolds(s, b) ==
  b \in ToSet(stageQueue[s]) \/ hand[s] = b \/ <<s, b>> \in skipped
WorkerHolds(b) ==
  b = ingestBlock \/ b \in ToSet(queue) \/ (b = current /\ pc[Worker] # "finish")
Holders(b) ==
  {s \in Stages : StageHolds(s, b)} \union {t \in {Worker} : WorkerHolds(b)}

\* SignalBlockPool: every block the pool has lent is referred to by the
\* ingesting thread, the input queue, the worker or a stage, and no block it
\* has taken back is: none leaks, none is returned twice and none is used after
\* its return, in whatever order the last references of the stages, of the
\* worker and of a clear() disappear.
PoolAccounting ==
  /\ available + Cardinality({b \in Ids : Holders(b) # {}}) = PoolSize
  /\ Live = {b \in Ids : Holders(b) # {}}

\* The two atomic counters of the fan-out never drift from what they stand for,
\* although the stages and the skipping worker decrement them without a common
\* lock: remainingStages is the number of stages that still owe the block a
\* completion, and m_inFlightFanOutBlocks the number of blocks that are owed one
\* or whose last completion is being recorded.
Owes(s, b) ==
  \/ b \in ToSet(stageQueue[s]) \/ <<s, b>> \in skipTodo
  \/ hand[s] = b /\ pc[s] \in {"serve", "complete"}
Submitting(b) == b = current /\ pc[Worker] = "submit"
CountersExact ==
  LET fannedOut == {b \in Ids : Submitting(b) \/ \E s \in Stages : Owes(s, b)}
      finishing == {t \in Threads : pc[t] \in {"record", "leave"}} IN
  /\ \A b \in fannedOut : remaining[b] =
       IF Submitting(b) THEN NumStages ELSE Cardinality({s \in Stages : Owes(s, b)})
  /\ inFlight = Cardinality(fannedOut \union {hand[t] : t \in finishing})

HandledBy(s, b) == b \in ToSet(consumed[s]) \/ (s \notin Lossless /\ b \in dropped[s])
Finished(b)     == recorded[b] = 1 /\ \A s \in Stages : HandledBy(s, b)
Settled(b)      == Finished(b) \/ b \in cleared

\* ProcessingEngine::processBlockParallel: an aggregator sees a newer block
\* before an older one only when the worker processed the newer one itself
\* because a lossless stage queue was full, while the older one was still in
\* that stage's queue or on its thread.
OnlyFallbackReorders ==
  \A s \in Stages : \A i, j \in 1..Len(consumed[s]) :
    i < j /\ consumed[s][i] > consumed[s][j] =>
      Parallel /\ consumed[s][i] \in serial /\ consumed[s][j] \notin serial

\* replacePendingStageJobsLocked and dropOldestStageJobsLocked: a stage that
\* skips a block has a newer one in its queue, on its thread or behind it, so
\* overload never makes it miss the newest block it was given; and it skips
\* only what it has not consumed.
NewestSurvives ==
  \A s \in Stages : \A b \in dropped[s] :
    /\ b \notin ToSet(consumed[s])
    /\ \E newer \in ToSet(consumed[s]) \union ToSet(stageQueue[s]) \union {hand[s]} :
         newer > b

\* What the policies promise the listeners of a stage: the order of its blocks, and the newest.
ServiceOrder == OnlyFallbackReorders /\ NewestSurvives

\* ProcessingEngine::flush: when it reports success every block that had been
\* queued when it was called is finished (or was thrown away by a clear): no
\* block is in the gap between the queue and the mark, in a stage queue, or
\* between a stage's last step and its record.
FlushComplete ==
  control = "flushed" =>
    \A i \in 1..Len(accepted) : i <= target => Settled(accepted[i])

\* ProcessingEngine::flush gives up only while some thread of the engine has a
\* block in hand or in a queue, or after a clear() of this session, whose blocks
\* stay in the count of pushed blocks that flush() waits for.
Busy ==
  \/ queue # <<>> \/ ToSet(accepted) \intersect cleared # {}
  \/ \E t \in Threads : pc[t] \notin {"pop", "exited"}
  \/ \E s \in Stages : stageQueue[s] # <<>>
FlushTimeoutJustified == [][control' = "timedOut" => Busy]_control

\* DataIngestPipeline::stop returns with the queues drained: every block it had
\* accepted is finished, and the pool is whole but for a block in the hands of a
\* producer that passed the gate before the stop.
StopDrains ==
  control = "stopped" =>
    /\ \A i \in 1..Len(accepted) : Settled(accepted[i])
    /\ inFlight = 0 /\ skipped = {}
    /\ available + (IF ingestBlock = None THEN 0 ELSE 1) = PoolSize

\* What flush() and stop() promise their caller.
FlushAndStopComplete == FlushComplete /\ StopDrains

\* Whatever the stages skip, the counters stay exact, the newest block is not missed, and a
\* flush or a stop leaves nothing undone (submitFanOutContext, completeFanOutStageSkipped).
OverloadSound == CountersExact /\ ServiceOrder /\ FlushAndStopComplete

\* Every block accepted by tryPush is finished in the end, or cleared.
EveryBlockSettles == \A b \in Ids : b \in ToSet(accepted) ~> Settled(b)

\* Every block taken from the pool is given back to it in the end, whatever
\* becomes of it.
EveryBlockReturns == \A b \in Ids : b \in Live ~> b \notin Live

\* stop() returns: the joins of the worker and of the stage threads never hang.
StopReturns == control = "joinWorker" ~> control = "stopped"

-----------------------------------------------------------------------------
(* The block path implements BlockDelivery. *)

BlockState(b) ==
  IF b >= nextId THEN "unused"
  ELSE IF b \in Live THEN IF b = ingestBlock THEN "taken" ELSE "accepted"
  ELSE IF recorded[b] > 0 THEN "retired"
  ELSE IF b \in cleared THEN "discarded" ELSE "refused"

Delivery == INSTANCE BlockDelivery WITH
  Blocks  <- Ids,
  MaySkip <- Stages \ Lossless,
  state   <- [b \in Ids |-> BlockState(b)],
  handled <- [s \in Stages |-> [b \in Ids |->
               Cardinality({i \in 1..Len(consumed[s]) : consumed[s][i] = b})]],
  skipped <- dropped,
  counted <- recorded

\* The threads, queues and reference counts of the engine deliver every block
\* as BlockDelivery says: once to every stage, counted once after the last of
\* them, and returned to the pool after that and not before.
DeliversBlocks == Delivery!Spec
=============================================================================
