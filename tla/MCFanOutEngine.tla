--------------------------- MODULE MCFanOutEngine ---------------------------
(* FanOutEngine for TLC.  With FanOut.cfg the initial state picks one of two   *)
(* setups: a lossless stage beside one that drops its oldest jobs, with queues *)
(* of one job; or the worker alone (processingMode = Sequential).  With        *)
(* FanOutOverload.cfg the stages have the two policies of overload and queues   *)
(* of two.  Liveness is checked with MCFanOutLive.                             *)
EXTENDS FanOutEngine

OneOfEach  == [s \in Stages |-> IF s = 1 THEN "LosslessRequired" ELSE "BoundedLatencyDropOldest"]
Overloaded == [s \in Stages |-> IF s = 1 THEN "BoundedLatencyDropOldest" ELSE "RealtimeLatestOnly"]

VARIABLE setup

\* The properties do not depend on these constants but for the mode, and with either mode
\* OnlyFallbackReorders says the same of a worker that processes every block itself.
Alone == INSTANCE FanOutEngine WITH
  Parallel <- ~Parallel, AcceptOnStart <- ~AcceptOnStart, QueueCapacity <- QueueCapacity + 1

BothInit ==
  \/ setup = "fanout" /\ Init
  \/ setup = "sequential" /\ Alone!Init

BothNext ==
  /\ \/ setup = "fanout" /\ Next
     \/ setup = "sequential" /\ Alone!Next
  /\ UNCHANGED setup

BothSpec == BothInit /\ [][BothNext]_<<vars, setup>>

OverloadInit == setup = "fanout" /\ Init

OverloadSpec == OverloadInit /\ [][BothNext]_<<vars, setup>>
=============================================================================
