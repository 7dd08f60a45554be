---------------------------- MODULE SourceBridge ----------------------------
(***************************************************************************)
(* SourceToPipelineBridge inside its BcoAcquisitionSession: the RX queue    *)
(* between the callbacks of a BCO source and the pipeline.                  *)
(*                                                                         *)
(*   source    the thread that calls the delivery callback of the session   *)
(*   worker    SourceToPipelineBridge::workerLoop                          *)
(*   control   the session's owner (WaterfallController, on the GUI thread) *)
(*                                                                         *)
(* The worker and a flush() wait on one condition variable, m_condition;    *)
(* `waiters` holds those asleep on it.  Spurious wake-ups, which C++ allows, *)
(* only repeat the test of a predicate and are left out.  A block is its    *)
(* number; what ingestSamples makes of it is a free choice.                 *)
(***************************************************************************)
EXTENDS Integers, SequencesExt

CONSTANTS
  QueueCapacity,   \* SourceToPipelineBridgeConfig::queueCapacity
  MaxBlocks        \* bound of the model: blocks a source delivers

ASSUME BridgeAssumption ==
  QueueCapacity \in Nat /\ MaxBlocks \in Nat

Ids  == 1..MaxBlocks
None == 0

\* RxOverflowPolicy
Policies == {"DropNewest", "DropOldest"}

VARIABLES
  overflowPolicy, \* m_config.overflowPolicy, which the constructor fixes
  active,         \* BcoAcquisitionSession::m_active: the source is running
  accepting,      \* BcoAcquisitionSession::m_accepting
  nextId,         \* the number of the next block delivered
  notifying,      \* submit() holds m_deliveryMutex, about to call notify_one
  queue,          \* m_queue
  running,        \* m_running
  stopRequested,  \* m_stopRequested
  inProgress,     \* m_ingestInProgress
  worker,         \* where workerLoop is
  hand,           \* the block it ingests
  waiters,        \* the threads asleep on m_condition
  control,        \* where the control thread is
  closing,        \* the flush in progress is the drain of closeInput
  received,       \* m_metrics.receivedBlocks
  lost,           \* m_metrics.droppedBlocks
  ingested,       \* m_metrics.ingestedBlocks
  rejected,       \* m_metrics.rejectedBlocks
  fate,           \* history: what became of each block
  awaited,        \* history: the blocks in the bridge when flush() was called
  carried,        \* history: blocks in progress when clear() reset the metrics
  drained         \* history: the last flush() succeeded

sourceVars  == <<active, accepting, nextId, notifying>>
workerVars  == <<inProgress, worker, hand>>
metricVars  == <<received, lost, ingested, rejected, carried>>
controlVars == <<control, closing, awaited, drained>>

vars == <<overflowPolicy, sourceVars, queue, running, stopRequested, workerVars, waiters,
          metricVars, fate, controlVars>>

Fates == {"none", "queued", "dropped", "cleared", "discarded", "handed"}

\* m_deliveryMutex is held by a callback from its start to its notify_one.
DeliveryFree == ~notifying

\* The blocks in B end as f.
Ending(B, f) == [b \in Ids |-> IF b \in B THEN f ELSE fate[b]]

-----------------------------------------------------------------------------
(* SourceToPipelineBridge::submit, called by the session's callback          *)

Full == Len(queue) >= QueueCapacity

\* The gate of the session is open and the source delivers its next block.
Delivered ==
  /\ active /\ accepting /\ DeliveryFree
  /\ nextId \in Ids
  /\ nextId' = nextId + 1
  /\ received' = received + 1

SubmitRefused ==
  /\ Delivered
  /\ ~running \/ stopRequested \/ (Full /\ (overflowPolicy = "DropNewest" \/ queue = <<>>))
  /\ lost' = lost + 1
  /\ fate' = Ending({nextId}, "dropped")
  /\ UNCHANGED <<active, accepting, notifying, queue, running, stopRequested,
                 workerVars, waiters, ingested, rejected, carried, controlVars>>

\* Variant: the queue is checked after the push.
SubmitLate ==
  /\ Delivered
  /\ running /\ ~stopRequested /\ Len(queue) <= QueueCapacity
  /\ queue' = Append(queue, nextId)
  /\ fate' = Ending({nextId}, "queued")
  /\ notifying' = TRUE
  /\ UNCHANGED <<active, accepting, running, stopRequested, workerVars, waiters,
                 lost, ingested, rejected, carried, controlVars>>

Submit ==
  /\ Delivered
  /\ running /\ ~stopRequested /\ ~Full
  /\ queue' = Append(queue, nextId)
  /\ fate' = Ending({nextId}, "queued")
  /\ notifying' = TRUE
  /\ UNCHANGED <<active, accepting, running, stopRequested, workerVars, waiters,
                 lost, ingested, rejected, carried, controlVars>>

\* Variant: the block that made room is not counted as dropped.
SubmitOverUncounted ==
  /\ Delivered
  /\ running /\ ~stopRequested /\ Full /\ overflowPolicy = "DropOldest" /\ queue # <<>>
  /\ queue' = Append(Tail(queue), nextId)
  /\ fate' = [Ending({nextId}, "queued") EXCEPT ![Head(queue)] = "dropped"]
  /\ notifying' = TRUE
  /\ UNCHANGED <<active, accepting, running, stopRequested, workerVars, waiters,
                 lost, ingested, rejected, carried, controlVars>>

\* A full queue gives up its oldest block for the new one.
SubmitOver ==
  /\ Delivered
  /\ running /\ ~stopRequested /\ Full /\ overflowPolicy = "DropOldest" /\ queue # <<>>
  /\ queue' = Append(Tail(queue), nextId)
  /\ lost' = lost + 1
  /\ fate' = [Ending({nextId}, "queued") EXCEPT ![Head(queue)] = "dropped"]
  /\ notifying' = TRUE
  /\ UNCHANGED <<active, accepting, running, stopRequested, workerVars, waiters,
                 ingested, rejected, carried, controlVars>>

\* Variant: nobody is woken.
SubmitNotifyNobody ==
  /\ notifying
  /\ notifying' = FALSE
  /\ UNCHANGED <<active, accepting, nextId, queue, running, stopRequested,
                 workerVars, waiters, metricVars, fate, controlVars>>

\* notify_one wakes one sleeper, whichever.
SubmitNotify ==
  /\ notifying
  /\ IF waiters = {} THEN UNCHANGED waiters
                     ELSE \E t \in waiters : waiters' = waiters \ {t}
  /\ notifying' = FALSE
  /\ UNCHANGED <<active, accepting, nextId, queue, running, stopRequested,
                 workerVars, metricVars, fate, controlVars>>

-----------------------------------------------------------------------------
(* SourceToPipelineBridge::workerLoop.  A notify_all that follows the release *)
(* of m_mutex is part of the step: a thread that starts to wait in between    *)
(* has seen the new state.                                                   *)

Awake == worker = "loop" /\ "worker" \notin waiters

WorkerWait ==
  /\ Awake /\ queue = <<>> /\ ~stopRequested
  /\ waiters' = waiters \union {"worker"}
  /\ UNCHANGED <<sourceVars, queue, running, stopRequested, workerVars, metricVars,
                 fate, controlVars>>

\* Variant: the block in the worker's hands is not marked as in progress.
WorkerPopUnmarked ==
  /\ Awake /\ queue # <<>>
  /\ hand' = Head(queue) /\ queue' = Tail(queue)
  /\ worker' = "ingest"
  /\ waiters' = {}
  /\ UNCHANGED <<sourceVars, running, stopRequested, inProgress, metricVars, fate,
                 controlVars>>

\* Variant: the newest block first.
WorkerPopNewest ==
  /\ Awake /\ queue # <<>>
  /\ hand' = Last(queue) /\ queue' = Front(queue)
  /\ inProgress' = TRUE /\ worker' = "ingest"
  /\ waiters' = {}
  /\ UNCHANGED <<sourceVars, running, stopRequested, metricVars, fate, controlVars>>

WorkerPop ==
  /\ Awake /\ queue # <<>>
  /\ hand' = Head(queue) /\ queue' = Tail(queue)
  /\ inProgress' = TRUE /\ worker' = "ingest"
  /\ waiters' = {}
  /\ UNCHANGED <<sourceVars, running, stopRequested, metricVars, fate, controlVars>>

\* DataIngestPipeline::ingestSamples returns; the outcome is counted.
WorkerIngest ==
  /\ worker = "ingest"
  /\ \/ ingested' = ingested + 1 /\ UNCHANGED rejected
     \/ rejected' = rejected + 1 /\ UNCHANGED ingested
  /\ fate' = Ending({hand}, "handed")
  /\ hand' = None
  /\ inProgress' = FALSE /\ worker' = "loop"
  /\ waiters' = {}
  /\ UNCHANGED <<sourceVars, queue, running, stopRequested, received, lost, carried,
                 controlVars>>

WorkerExit ==
  /\ Awake /\ queue = <<>> /\ stopRequested
  /\ worker' = "exited"
  /\ UNCHANGED <<sourceVars, queue, running, stopRequested, inProgress, hand,
                 waiters, metricVars, fate, controlVars>>

-----------------------------------------------------------------------------
(* BcoAcquisitionSession, driven by its owner                                *)

\* IBcoStreamSource::start may fail; then nothing has changed.
StartSource ==
  /\ control = "ready" /\ ~active
  /\ active' = TRUE
  /\ UNCHANGED <<accepting, nextId, notifying, queue, running, stopRequested,
                 workerVars, waiters, metricVars, fate, controlVars>>

\* IBcoStreamSource::stop joins the callbacks before it reports success.
StopSource ==
  /\ control = "ready" /\ active /\ DeliveryFree
  /\ active' = FALSE
  /\ UNCHANGED <<accepting, nextId, notifying, queue, running, stopRequested,
                 workerVars, waiters, metricVars, fate, controlVars>>

\* SourceToPipelineBridge::start; `spawned` tells whether std::thread succeeds.
OpenInput(spawned) ==
  /\ control = "ready" /\ ~running
  /\ queue' = <<>>
  /\ received' = 0 /\ lost' = 0 /\ ingested' = 0 /\ rejected' = 0 /\ carried' = 0
  /\ stopRequested' = ~spawned /\ running' = spawned
  /\ inProgress' = FALSE
  /\ worker' = IF spawned THEN "loop" ELSE worker
  /\ UNCHANGED <<sourceVars, hand, waiters, fate, controlVars>>

SetAccepting(value) ==
  /\ control = "ready" /\ DeliveryFree /\ accepting # (value /\ running)
  /\ accepting' = (value /\ running)
  /\ UNCHANGED <<active, nextId, notifying, queue, running, stopRequested,
                 workerVars, waiters, metricVars, fate, controlVars>>

ClearInput ==
  /\ control = "ready" /\ DeliveryFree
  /\ queue # <<>> \/ received > 0
  /\ queue' = <<>>
  /\ received' = 0 /\ lost' = 0 /\ ingested' = 0 /\ rejected' = 0
  /\ carried' = IF inProgress THEN 1 ELSE 0
  /\ fate' = Ending(ToSet(queue), "cleared")
  /\ waiters' = {}
  /\ UNCHANGED <<sourceVars, running, stopRequested, workerVars, controlVars>>

InBridge == ToSet(queue) \union ({hand} \ {None})

\* flushInput; on a closed input there is nothing to wait for.
FlushBegin ==
  /\ control = "ready" /\ running
  /\ control' = "flush" /\ closing' = FALSE
  /\ awaited' = InBridge /\ drained' = FALSE
  /\ UNCHANGED <<sourceVars, queue, running, stopRequested, workerVars, waiters,
                 metricVars, fate>>

\* Variant: closeInput drains before it closes the gate.
CloseInputOpen(drain) ==
  /\ control = "ready" /\ running /\ DeliveryFree
  /\ accepting' = (accepting /\ drain)
  /\ control' = IF drain THEN "flush" ELSE "stop"
  /\ closing' = drain /\ awaited' = InBridge /\ drained' = FALSE
  /\ UNCHANGED <<active, nextId, notifying, queue, running, stopRequested,
                 workerVars, waiters, metricVars, fate>>

\* closeInput: the gate is closed first, then the queue drained, then stopped.
CloseInput(drain) ==
  /\ control = "ready" /\ running /\ DeliveryFree
  /\ accepting' = FALSE
  /\ control' = IF drain THEN "flush" ELSE "stop"
  /\ closing' = drain /\ awaited' = InBridge /\ drained' = FALSE
  /\ UNCHANGED <<active, nextId, notifying, queue, running, stopRequested,
                 workerVars, waiters, metricVars, fate>>

\* The predicate of SourceToPipelineBridge::flush.
Settled == queue = <<>> /\ ~inProgress

FlushWait ==
  /\ control = "flush" /\ "flusher" \notin waiters /\ ~Settled
  /\ waiters' = waiters \union {"flusher"}
  /\ UNCHANGED <<sourceVars, queue, running, stopRequested, workerVars, metricVars,
                 fate, controlVars>>

\* flush() returns: awake, with the predicate true, or at its deadline, when it
\* tests the predicate a last time.
FlushEnd ==
  /\ control = "flush"
  /\ drained' = Settled
  /\ waiters' = waiters \ {"flusher"}
  /\ control' = IF closing THEN "stop" ELSE "ready"
  /\ closing' = FALSE
  /\ UNCHANGED <<sourceVars, queue, running, stopRequested, workerVars, metricVars,
                 fate, awaited>>

\* SourceToPipelineBridge::stop, up to the join of the worker.
StopBegin ==
  /\ control = "stop"
  /\ stopRequested' = TRUE
  /\ lost' = lost + Len(queue)
  /\ fate' = Ending(ToSet(queue), "discarded")
  /\ queue' = <<>>
  /\ waiters' = {}
  /\ control' = "join"
  /\ UNCHANGED <<sourceVars, running, workerVars, received, ingested, rejected,
                 carried, closing, awaited, drained>>

StopEnd ==
  /\ control = "join" /\ worker = "exited"
  /\ running' = FALSE /\ stopRequested' = FALSE /\ inProgress' = FALSE
  /\ waiters' = {}
  /\ control' = "ready"
  /\ UNCHANGED <<sourceVars, queue, worker, hand, metricVars, fate, closing, awaited,
                 drained>>

-----------------------------------------------------------------------------
Init ==
  /\ overflowPolicy \in Policies
  /\ active = FALSE /\ accepting = FALSE /\ nextId = 1 /\ notifying = FALSE
  /\ queue = <<>> /\ running = FALSE /\ stopRequested = FALSE
  /\ inProgress = FALSE /\ worker = "exited" /\ hand = None /\ waiters = {}
  /\ received = 0 /\ lost = 0 /\ ingested = 0 /\ rejected = 0 /\ carried = 0
  /\ fate = [b \in Ids |-> "none"]
  /\ control = "ready" /\ closing = FALSE /\ awaited = {} /\ drained = FALSE

WorkerStep == WorkerWait \/ WorkerPop \/ WorkerIngest \/ WorkerExit
CloseStep  == FlushWait \/ FlushEnd \/ StopBegin \/ StopEnd

Step ==
  \/ SubmitRefused \/ Submit \/ SubmitOver \/ SubmitNotify
  \/ WorkerStep
  \/ StartSource \/ StopSource \/ ClearInput \/ FlushBegin \/ CloseStep
  \/ \E flag \in BOOLEAN : OpenInput(flag) \/ SetAccepting(flag) \/ CloseInput(flag)

\* No step changes the configuration.
Next == Step /\ UNCHANGED overflowPolicy

Spec == Init /\ [][Next]_vars

Fixed(A) == A /\ UNCHANGED overflowPolicy

\* The threads run: the worker, a callback that has begun, and a flush or stop
\* of the owner, which has a deadline or joins.  Nothing makes a source deliver
\* or the owner begin an operation.
Fairness ==
  /\ WF_vars(Fixed(WorkerStep))
  /\ WF_vars(Fixed(SubmitNotify))
  /\ WF_vars(Fixed(FlushEnd))
  /\ WF_vars(Fixed(StopBegin))
  /\ WF_vars(Fixed(StopEnd))

FairSpec == Spec /\ Fairness

-----------------------------------------------------------------------------
(* Properties                                                                *)

SourceTypes  == /\ active \in BOOLEAN /\ accepting \in BOOLEAN /\ notifying \in BOOLEAN
                /\ nextId \in 1..(MaxBlocks + 1)
QueueTypes   == queue \in Seq(Ids) /\ Len(queue) <= QueueCapacity
FlagTypes    == running \in BOOLEAN /\ stopRequested \in BOOLEAN
WorkerTypes  == /\ inProgress \in BOOLEAN /\ worker \in {"loop", "ingest", "exited"}
                /\ hand \in Ids \union {None}
WaiterTypes  == waiters \subseteq {"worker", "flusher"}
MetricTypes  == /\ received \in Nat /\ lost \in Nat /\ ingested \in Nat
                /\ rejected \in Nat /\ carried \in {0, 1}
FateTypes    == fate \in [Ids -> Fates]
ControlTypes == /\ control \in {"ready", "flush", "stop", "join"} /\ closing \in BOOLEAN
                /\ awaited \subseteq Ids /\ drained \in BOOLEAN

\* The values the variables range over; the RX queue respects its capacity
\* under both overflow policies.
TypeOK ==
  /\ SourceTypes /\ QueueTypes /\ FlagTypes /\ WorkerTypes /\ WaiterTypes
  /\ MetricTypes /\ FateTypes /\ ControlTypes /\ overflowPolicy \in Policies

\* The counters closeInput reports add up at every moment: a block received was
\* dropped, ingested or rejected, or is still in the queue or in the worker's
\* hands.  The one exception: the block a clear() finds in the worker's hands is
\* counted when it is ingested although its arrival has been forgotten.
CountersConserved ==
  received + carried =
    lost + ingested + rejected + Len(queue) + (IF hand = None THEN 0 ELSE 1)

\* SourceToPipelineBridge::workerLoop hands blocks to the pipeline in the order
\* of their delivery, however the queue overflows and whatever the owner does.
NoOvertaking ==
  \A b, c \in Ids : c < b /\ fate[b] = "handed" => c \notin InBridge

\* SourceToPipelineBridge::flush: after a success no block that was in the queue
\* or in the worker's hands at the call is still in the bridge, nor was one
\* discarded by a stop.
FlushComplete ==
  drained => \A b \in awaited : fate[b] \in {"handed", "dropped", "cleared"}

\* BcoAcquisitionSession::closeInput(drain): if the drain succeeds, stop() has
\* nothing to discard; no callback slips a block in after the flush.
DrainedCloseIsLossless == control = "stop" /\ drained => InBridge = {}

\* closeInput returns: the join of the worker never hangs.
CloseReturns == control \in {"stop", "join"} ~> control = "ready"

\* "a dedicated bridge worker performs the pipeline ingest call": every block
\* that enters the RX queue leaves it (src/pipeline/README.md:281-285).
EveryBlockIsServed == \A b \in Ids : b \in ToSet(queue) ~> b \notin ToSet(queue)

\* As EveryBlockIsServed, for the owners that call flush() only with the gate
\* closed, as closeInput does.
ServedUnlessFlushedLive ==
  [](control = "flush" => ~accepting) => EveryBlockIsServed

\* Nobody waits for ever on m_condition: the owner gets back from closeInput, and a queued
\* block is served whenever flushes keep to the closed gate.
NobodyWaitsForEver == CloseReturns /\ ServedUnlessFlushedLive
=============================================================================
