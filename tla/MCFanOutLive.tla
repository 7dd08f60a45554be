---------------------------- MODULE MCFanOutLive ----------------------------
(* The instances of FanOutEngine whose liveness TLC checks: with threads, one *)
(* stage keeps the latest job only and the other is lossless and takes one    *)
(* job; or the worker alone, with the gate closed at the start.               *)
EXTENDS FanOutEngine

FirstLatestOnly == [s \in Stages |-> IF s = 1 THEN "RealtimeLatestOnly" ELSE "LosslessRequired"]

VARIABLE setup

Alone == INSTANCE FanOutEngine WITH Parallel <- ~Parallel, AcceptOnStart <- ~AcceptOnStart

LiveInit ==
  \/ setup = "fanout" /\ Init
  \/ setup = "sequential" /\ Alone!Init

LiveNext ==
  /\ \/ setup = "fanout" /\ Next
     \/ setup = "sequential" /\ Alone!Next
  /\ UNCHANGED setup

LiveWorkerStep ==
  \/ setup = "fanout" /\ WorkerStep
  \/ setup = "sequential" /\ Alone!WorkerStep

\* FairSpec in each setup; among the steps its fairness is about, only those of the worker
\* depend on the mode.
LiveSpec ==
  /\ LiveInit /\ [][LiveNext]_<<vars, setup>>
  /\ WF_vars(IngestStep)
  /\ SF_vars(LiveWorkerStep)
  /\ \A s \in Stages : WF_vars(StageStep(s)) /\ SF_vars(Record(s))
  /\ WF_vars(StopStep)
  /\ WF_vars(FlushStep)

\* Every block the pool lends comes to rest: one that tryPush accepted is finished by all
\* stages or thrown away by a clear, and whatever became of a block, the pool has it back in
\* the end (DataIngestPipeline::ingestSamples, ProcessingEngine::completeFanOutStage,
\* SignalBlockHandle::reset).
BlocksComeToRest == EveryBlockSettles /\ EveryBlockReturns
=============================================================================
