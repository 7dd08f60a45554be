------------------------- MODULE SourceBridgeProofs -------------------------
(* What SourceBridge keeps for every capacity, policy and number of blocks.  *)
EXTENDS SourceBridge, QueueLemmas

\* How the threads' places relate: the worker ends only when stop() asks it to,
\* the gate is open only on a running bridge nobody is closing, and a drained
\* bridge stays empty until it is stopped.
Posture ==
  /\ inProgress <=> hand # None
  /\ worker = "ingest" <=> hand # None
  /\ ~running => worker = "exited" /\ queue = <<>> /\ control = "ready"
  /\ running /\ worker = "exited" => control = "join"
  /\ running /\ stopRequested => control = "join" /\ queue = <<>>
  /\ control = "join" => running /\ stopRequested
  /\ accepting => running /\ control \in {"ready", "flush"}
  /\ closing => control = "flush" /\ ~accepting
  /\ control = "stop" /\ drained => queue = <<>> /\ hand = None

\* The blocks in the bridge are in the order of their delivery, and newer than
\* those handed over: first the worker's, then the queued ones.
QueueNewer(q) == hand < nextId /\ \A b \in q : hand < b /\ b < nextId
HandedOlder(q) ==
  \A b \in Ids : fate[b] = "handed" =>
    /\ b < nextId
    /\ hand # None => b < hand
    /\ \A c \in q : b < c
Ordered ==
  /\ Sorted(queue)
  /\ QueueNewer(ToSet(queue))
  /\ HandedOlder(ToSet(queue))

Shape == TypeOK /\ Posture

\* What each step does to the queue, as far as the invariants see it.
LEMMA QueueSteps ==
  ASSUME TypeOK
  PROVE  /\ Len(queue) \in Nat /\ (queue = <<>> <=> Len(queue) = 0)
         /\ <<>> \in Seq(Ids) /\ Len(<<>>) = 0
         /\ ToSet(queue) \subseteq Ids /\ ToSet(<<>>) = {}
         /\ queue = <<>> <=> ToSet(queue) = {}
         /\ nextId \in Ids => /\ Append(queue, nextId) \in Seq(Ids)
                              /\ Len(Append(queue, nextId)) = Len(queue) + 1
                              /\ ToSet(Append(queue, nextId)) = ToSet(queue) \union {nextId}
         /\ queue # <<>> => /\ Head(queue) \in Ids /\ Tail(queue) \in Seq(Ids)
                            /\ Len(Tail(queue)) = Len(queue) - 1
                            /\ ToSet(queue) = {Head(queue)} \union ToSet(Tail(queue))
         /\ queue # <<>> /\ nextId \in Ids =>
              /\ Append(Tail(queue), nextId) \in Seq(Ids)
              /\ Len(Append(Tail(queue), nextId)) = Len(queue)
              /\ ToSet(Append(Tail(queue), nextId)) = ToSet(Tail(queue)) \union {nextId}
<1>1. queue \in Seq(Ids) BY DEF TypeOK, QueueTypes
<1>2. /\ Len(queue) \in Nat /\ (queue = <<>> <=> Len(queue) = 0)
      /\ <<>> \in Seq(Ids) /\ Len(<<>>) = 0
  BY <1>1, LenProperties, EmptySeq
<1>3. /\ ToSet(queue) \subseteq Ids /\ ToSet(<<>>) = {}
      /\ queue = <<>> <=> ToSet(queue) = {}
  BY <1>1, Members, EmptyQueueFacts
<1>4. nextId \in Ids => /\ Append(queue, nextId) \in Seq(Ids)
                        /\ Len(Append(queue, nextId)) = Len(queue) + 1
                        /\ ToSet(Append(queue, nextId)) = ToSet(queue) \union {nextId}
  BY <1>1, PushBack
<1>5. queue # <<>> => /\ Head(queue) \in Ids /\ Tail(queue) \in Seq(Ids)
                      /\ Len(Tail(queue)) = Len(queue) - 1
                      /\ ToSet(queue) = {Head(queue)} \union ToSet(Tail(queue))
  BY <1>1, PopFront
<1>6. queue # <<>> /\ nextId \in Ids =>
        /\ Append(Tail(queue), nextId) \in Seq(Ids)
        /\ Len(Append(Tail(queue), nextId)) = Len(queue)
        /\ ToSet(Append(Tail(queue), nextId)) = ToSet(Tail(queue)) \union {nextId}
  <2> SUFFICES ASSUME queue # <<>>, nextId \in Ids
               PROVE  /\ Append(Tail(queue), nextId) \in Seq(Ids)
                      /\ Len(Append(Tail(queue), nextId)) = Len(queue)
                      /\ ToSet(Append(Tail(queue), nextId)) = ToSet(Tail(queue)) \union {nextId}
    OBVIOUS
  <2>1. Tail(queue) \in Seq(Ids) /\ Len(Tail(queue)) = Len(queue) - 1 BY <1>5
  <2>2. /\ Append(Tail(queue), nextId) \in Seq(Ids)
        /\ Len(Append(Tail(queue), nextId)) = Len(Tail(queue)) + 1
        /\ ToSet(Append(Tail(queue), nextId)) = ToSet(Tail(queue)) \union {nextId}
    <3> DEFINE rest == Tail(queue)
    <3> HIDE DEF rest
    <3>1. rest \in Seq(Ids) BY <2>1 DEF rest
    <3>2. /\ Append(rest, nextId) \in Seq(Ids)
          /\ Len(Append(rest, nextId)) = Len(rest) + 1
          /\ ToSet(Append(rest, nextId)) = ToSet(rest) \union {nextId}
      BY <3>1, PushBack
    <3> QED BY <3>2 DEF rest
  <2> QED BY <1>2, <2>1, <2>2
<1> QED BY <1>2, <1>3, <1>4, <1>5, <1>6

LEMMA ShapeInit == Init => Shape
<1> SUFFICES ASSUME Init PROVE Shape OBVIOUS
<1>1. queue \in Seq(Ids) /\ Len(queue) <= QueueCapacity
  BY BridgeAssumption, EmptySeq DEF Init
<1>2. fate \in [Ids -> Fates] /\ nextId \in 1..(MaxBlocks + 1)
  BY BridgeAssumption DEF Init, Fates
<1>3. TypeOK
  BY <1>1, <1>2 DEF Init, TypeOK, None, SourceTypes, QueueTypes, FlagTypes, WorkerTypes,
                   WaiterTypes, MetricTypes, FateTypes, ControlTypes, Policies
<1>4. Posture BY DEF Init, Posture, None
<1> QED BY <1>3, <1>4 DEF Shape

\* A group of variables a step leaves alone keeps its types.
LEMMA TypeFrame ==
  ASSUME TypeOK
  PROVE  /\ UNCHANGED sourceVars => SourceTypes'
         /\ UNCHANGED queue => QueueTypes'
         /\ UNCHANGED <<running, stopRequested>> => FlagTypes'
         /\ UNCHANGED workerVars => WorkerTypes'
         /\ waiters' \subseteq waiters => WaiterTypes'
         /\ UNCHANGED metricVars => MetricTypes'
         /\ UNCHANGED fate => FateTypes'
         /\ UNCHANGED controlVars => ControlTypes'
         /\ \A B, f : f \in Fates => (fate' = Ending(B, f) => FateTypes')
<1> USE DEF TypeOK
<1>1. UNCHANGED sourceVars => SourceTypes' BY DEF SourceTypes, sourceVars
<1>2. UNCHANGED queue => QueueTypes' BY DEF QueueTypes
<1>3. UNCHANGED <<running, stopRequested>> => FlagTypes' BY DEF FlagTypes
<1>4. UNCHANGED workerVars => WorkerTypes' BY DEF WorkerTypes, workerVars
<1>5. waiters' \subseteq waiters => WaiterTypes' BY DEF WaiterTypes
<1>6. UNCHANGED metricVars => MetricTypes' BY DEF MetricTypes, metricVars
<1>7. UNCHANGED fate => FateTypes' BY DEF FateTypes
<1>8. UNCHANGED controlVars => ControlTypes' BY DEF ControlTypes, controlVars
<1>9. ASSUME NEW B, NEW f, f \in Fates, fate' = Ending(B, f) PROVE FateTypes'
  BY <1>9 DEF FateTypes, Ending
<1> QED BY <1>1, <1>2, <1>3, <1>4, <1>5, <1>6, <1>7, <1>8, <1>9

LEMMA TypeStep == Shape /\ [Next]_vars => TypeOK'
<1> SUFFICES ASSUME Shape, [Next]_vars PROVE TypeOK' OBVIOUS
<1>0. TypeOK /\ Posture BY DEF Shape
<1>p. overflowPolicy' \in Policies BY <1>0 DEF Next, vars, TypeOK
<1> USE <1>0, <1>p, TypeFrame
<1> SUFFICES /\ SourceTypes' /\ QueueTypes' /\ FlagTypes' /\ WorkerTypes' /\ WaiterTypes'
             /\ MetricTypes' /\ FateTypes' /\ ControlTypes'
  BY DEF TypeOK
<1>1. CASE SubmitRefused
  <2>1. SourceTypes' BY <1>1, BridgeAssumption DEF SubmitRefused, SourceTypes, Delivered, Ids, TypeOK
  <2>2. MetricTypes' BY <1>1 DEF SubmitRefused, MetricTypes, Delivered, TypeOK
  <2>3. FateTypes' BY <1>1 DEF SubmitRefused, FateTypes, Fates, TypeOK
  <2> QED BY <1>1, <2>1, <2>2, <2>3 DEF SubmitRefused
<1>2. CASE Submit
  <2>1. SourceTypes' BY <1>2, BridgeAssumption DEF Submit, SourceTypes, Delivered, Ids, TypeOK
  <2>2. QueueTypes' BY <1>2, QueueSteps, BridgeAssumption DEF Submit, QueueTypes, Delivered, Full, TypeOK
  <2>3. MetricTypes' BY <1>2 DEF Submit, MetricTypes, Delivered, TypeOK
  <2>4. FateTypes' BY <1>2 DEF Submit, FateTypes, Fates, TypeOK
  <2> QED BY <1>2, <2>1, <2>2, <2>3, <2>4 DEF Submit
<1>3. CASE SubmitOver
  <2>1. SourceTypes' BY <1>3, BridgeAssumption DEF SubmitOver, SourceTypes, Delivered, Ids, TypeOK
  <2>2. QueueTypes' BY <1>3, QueueSteps DEF SubmitOver, QueueTypes, Delivered, Full, TypeOK
  <2>3. MetricTypes' BY <1>3 DEF SubmitOver, MetricTypes, Delivered, TypeOK
  <2>4. FateTypes' BY <1>3, QueueSteps DEF SubmitOver, FateTypes, Fates, Ending, TypeOK
  <2> QED BY <1>3, <2>1, <2>2, <2>3, <2>4 DEF SubmitOver
<1>4. CASE SubmitNotify
  <2>1. SourceTypes' BY <1>4 DEF SubmitNotify, SourceTypes, TypeOK
  <2>2. WaiterTypes' BY <1>4 DEF SubmitNotify, WaiterTypes, TypeOK
  <2> QED BY <1>4, <2>1, <2>2 DEF SubmitNotify
<1>5. CASE WorkerWait
  <2>1. WaiterTypes' BY <1>5 DEF WorkerWait, WaiterTypes, TypeOK
  <2> QED BY <1>5, <2>1 DEF WorkerWait
<1>6. CASE WorkerPop
  <2>p. /\ Tail(queue) \in Seq(Ids) /\ Len(Tail(queue)) = Len(queue) - 1
        /\ Len(queue) \in Nat
    BY <1>6, QueueSteps DEF WorkerPop
  <2>0. queue' \in Seq(Ids) /\ Len(queue') = Len(queue) - 1 /\ Len(queue) \in Nat
    BY <1>6, <2>p DEF WorkerPop
  <2>1. QueueTypes' BY <2>0, BridgeAssumption DEF QueueTypes, TypeOK
  <2>2. WorkerTypes' BY <1>6, QueueSteps DEF WorkerPop, WorkerTypes, TypeOK
  <2>3. WaiterTypes' BY <1>6 DEF WorkerPop, WaiterTypes, TypeOK
  <2> QED BY <1>6, <2>1, <2>2, <2>3 DEF WorkerPop
<1>7. CASE WorkerIngest
  <2>1. WorkerTypes' BY <1>7 DEF WorkerIngest, WorkerTypes, TypeOK
  <2>2. WaiterTypes' BY <1>7 DEF WorkerIngest, WaiterTypes, TypeOK
  <2>3. MetricTypes' BY <1>7 DEF WorkerIngest, MetricTypes, TypeOK
  <2>4. FateTypes' BY <1>7 DEF WorkerIngest, FateTypes, Fates, TypeOK
  <2> QED BY <1>7, <2>1, <2>2, <2>3, <2>4 DEF WorkerIngest
<1>8. CASE WorkerExit
  <2>1. WorkerTypes' BY <1>8 DEF WorkerExit, WorkerTypes, TypeOK
  <2> QED BY <1>8, <2>1 DEF WorkerExit
<1>9. CASE StartSource
  <2>1. SourceTypes' BY <1>9 DEF StartSource, SourceTypes, TypeOK
  <2> QED BY <1>9, <2>1 DEF StartSource
<1>10. CASE StopSource
  <2>1. SourceTypes' BY <1>10 DEF StopSource, SourceTypes, TypeOK
  <2> QED BY <1>10, <2>1 DEF StopSource
<1>11. CASE ClearInput
  <2>1. QueueTypes' BY <1>11, QueueSteps, BridgeAssumption DEF ClearInput, QueueTypes, TypeOK
  <2>2. MetricTypes' BY <1>11 DEF ClearInput, MetricTypes, TypeOK
  <2>3. WaiterTypes' BY <1>11 DEF ClearInput, WaiterTypes, TypeOK
  <2>4. FateTypes' BY <1>11 DEF ClearInput, FateTypes, Fates, TypeOK
  <2> QED BY <1>11, <2>1, <2>2, <2>3, <2>4 DEF ClearInput
<1>12. CASE FlushBegin
  <2>1. ControlTypes' BY <1>12, QueueSteps DEF FlushBegin, ControlTypes, InBridge, WorkerTypes, None, TypeOK
  <2> QED BY <1>12, <2>1 DEF FlushBegin
<1>13. CASE FlushWait
  <2>1. WaiterTypes' BY <1>13 DEF FlushWait, WaiterTypes, TypeOK
  <2> QED BY <1>13, <2>1 DEF FlushWait
<1>14. CASE FlushEnd
  <2>1. WaiterTypes' BY <1>14 DEF FlushEnd, WaiterTypes, TypeOK
  <2>2. ControlTypes' BY <1>14 DEF FlushEnd, ControlTypes, Settled, WorkerTypes, TypeOK
  <2> QED BY <1>14, <2>1, <2>2 DEF FlushEnd
<1>15. CASE StopBegin
  <2>1. QueueTypes' BY <1>15, QueueSteps, BridgeAssumption DEF StopBegin, QueueTypes, TypeOK
  <2>2. FlagTypes' BY <1>15 DEF StopBegin, FlagTypes, TypeOK
  <2>3. WaiterTypes' BY <1>15 DEF StopBegin, WaiterTypes, TypeOK
  <2>4. MetricTypes' BY <1>15, QueueSteps DEF StopBegin, MetricTypes, TypeOK
  <2>5. FateTypes' BY <1>15 DEF StopBegin, FateTypes, Fates, TypeOK
  <2>6. ControlTypes' BY <1>15 DEF StopBegin, ControlTypes, TypeOK
  <2> QED BY <1>15, <2>1, <2>2, <2>3, <2>4, <2>5, <2>6 DEF StopBegin
<1>16. CASE StopEnd
  <2>1. FlagTypes' BY <1>16 DEF StopEnd, FlagTypes, TypeOK
  <2>2. WorkerTypes' BY <1>16 DEF StopEnd, WorkerTypes, TypeOK
  <2>3. WaiterTypes' BY <1>16 DEF StopEnd, WaiterTypes, TypeOK
  <2>4. ControlTypes' BY <1>16 DEF StopEnd, ControlTypes, TypeOK
  <2> QED BY <1>16, <2>1, <2>2, <2>3, <2>4 DEF StopEnd
<1>17. ASSUME NEW flag \in BOOLEAN, OpenInput(flag) PROVE TypeOK'
  <2>1. QueueTypes' BY <1>17, QueueSteps, BridgeAssumption DEF OpenInput, QueueTypes, TypeOK
  <2>2. FlagTypes' BY <1>17, Zenon DEF OpenInput, FlagTypes, TypeOK
  <2>3. WorkerTypes' BY <1>17 DEF OpenInput, WorkerTypes, TypeOK
  <2>4. MetricTypes' BY <1>17 DEF OpenInput, MetricTypes, TypeOK
  <2> QED BY <1>17, <2>1, <2>2, <2>3, <2>4 DEF OpenInput, TypeOK
<1>18. ASSUME NEW flag \in BOOLEAN, SetAccepting(flag) PROVE TypeOK'
  <2>1. SourceTypes' BY <1>18 DEF SetAccepting, SourceTypes, TypeOK
  <2> QED BY <1>18, <2>1 DEF SetAccepting, TypeOK
<1>19. ASSUME NEW flag \in BOOLEAN, CloseInput(flag) PROVE TypeOK'
  <2>1. SourceTypes' BY <1>19 DEF CloseInput, SourceTypes, TypeOK
  <2>2. ControlTypes' BY <1>19, QueueSteps DEF CloseInput, ControlTypes, InBridge, WorkerTypes, None, TypeOK
  <2> QED BY <1>19, <2>1, <2>2 DEF CloseInput, TypeOK
<1>20. CASE UNCHANGED vars
  <2> QED BY <1>20 DEF vars
<1> QED
  BY <1>1, <1>2, <1>3, <1>4, <1>5, <1>6, <1>7, <1>8, <1>9, <1>10, <1>11, <1>12, <1>13, <1>14, <1>15, <1>16, <1>17, <1>18, <1>19, <1>20
  DEF Next, Step, WorkerStep, CloseStep, TypeOK

LEMMA PostureStep == Shape /\ TypeOK' /\ [Next]_vars => Posture'
<1> SUFFICES ASSUME Shape, TypeOK', [Next]_vars PROVE Posture' OBVIOUS
<1>0. TypeOK /\ Posture BY DEF Shape
<1>r. Len(queue) > 0 <=> queue # <<>> BY <1>0, QueueSteps
<1> USE <1>0 DEF Ids, None
<1>1. CASE SubmitRefused BY <1>1 DEF SubmitRefused, Delivered, Posture, workerVars, controlVars
<1>2. CASE Submit BY <1>2 DEF Submit, Delivered, Posture, workerVars, controlVars
<1>3. CASE SubmitOver BY <1>3 DEF SubmitOver, Delivered, Posture, workerVars, controlVars
<1>4. CASE SubmitNotify BY <1>4 DEF SubmitNotify, Posture, workerVars, controlVars, metricVars
<1>5. CASE WorkerWait BY <1>5 DEF WorkerWait, Posture, sourceVars, workerVars, controlVars
<1>6. CASE WorkerPop
  <2>1. Head(queue) \in Ids BY <1>6, QueueSteps DEF WorkerPop
  <2> QED BY <1>6, <2>1 DEF WorkerPop, Awake, Posture, TypeOK, sourceVars, controlVars
<1>7. CASE WorkerIngest BY <1>7 DEF WorkerIngest, Posture, sourceVars, controlVars
<1>8. CASE WorkerExit BY <1>8 DEF WorkerExit, Awake, Posture, sourceVars, controlVars
<1>9. CASE StartSource \/ StopSource
  BY <1>9 DEF StartSource, StopSource, Posture, workerVars, controlVars
<1>10. CASE ClearInput BY <1>10 DEF ClearInput, Posture, sourceVars, workerVars, controlVars
<1>11. CASE FlushBegin BY <1>11 DEF FlushBegin, Posture, sourceVars, workerVars
<1>12. CASE FlushWait BY <1>12 DEF FlushWait, Posture, sourceVars, workerVars, controlVars
<1>13. CASE FlushEnd BY <1>13 DEF FlushEnd, Settled, Posture, TypeOK, sourceVars, workerVars
<1>14. CASE StopBegin BY <1>14 DEF StopBegin, Posture, sourceVars, workerVars
<1>15. CASE StopEnd BY <1>15 DEF StopEnd, Posture, sourceVars
<1>16. ASSUME NEW flag \in BOOLEAN, OpenInput(flag) PROVE Posture'
  BY <1>16 DEF OpenInput, Posture, sourceVars, controlVars
<1>17. ASSUME NEW flag \in BOOLEAN, SetAccepting(flag) PROVE Posture'
  BY <1>17 DEF SetAccepting, Posture, workerVars, controlVars
<1>18. ASSUME NEW flag \in BOOLEAN, CloseInput(flag) PROVE Posture'
  BY <1>18 DEF CloseInput, Posture, workerVars
<1>19. CASE UNCHANGED vars BY <1>19 DEF vars, Posture, sourceVars, workerVars, controlVars
<1> QED
  BY <1>1, <1>2, <1>3, <1>4, <1>5, <1>6, <1>7, <1>8, <1>9, <1>10, <1>11, <1>12, <1>13,
     <1>14, <1>15, <1>16, <1>17, <1>18, <1>19 DEF Next, Step, WorkerStep, CloseStep

THEOREM ShapeInvariant == Spec => []Shape
<1>1. Shape /\ [Next]_vars => Shape' BY TypeStep, PostureStep DEF Shape
<1> QED BY <1>1, ShapeInit, PTL DEF Spec

\* The queue's capacity holds, and every variable keeps to its values, for every
\* capacity and overflow policy.
THEOREM BridgeTypeCorrect == Spec => []TypeOK
BY ShapeInvariant, PTL DEF Shape

LEMMA ConservedStep == CountersConserved /\ Shape /\ Shape' /\ [Next]_vars => CountersConserved'
<1> SUFFICES ASSUME CountersConserved, Shape, Shape', [Next]_vars
             PROVE  CountersConserved'
  OBVIOUS
<1>0. TypeOK /\ Posture BY DEF Shape
<1>1. /\ received \in Nat /\ lost \in Nat /\ ingested \in Nat /\ rejected \in Nat
      /\ carried \in {0, 1} /\ Len(queue) \in Nat
  BY <1>0, QueueSteps DEF TypeOK, MetricTypes
<1> USE <1>0, <1>1 DEF CountersConserved
<1>2. CASE SubmitRefused BY <1>2 DEF SubmitRefused, Delivered, workerVars
<1>3. CASE Submit
  <2>1. Len(queue') = Len(queue) + 1 BY <1>3, QueueSteps DEF Submit, Delivered
  <2> QED BY <1>3, <2>1 DEF Submit, Delivered, workerVars
<1>4. CASE SubmitOver
  <2>1. Len(queue') = Len(queue) BY <1>4, QueueSteps DEF SubmitOver, Delivered
  <2> QED BY <1>4, <2>1 DEF SubmitOver, Delivered, workerVars
<1>5. CASE WorkerPop
  <2>1. Len(queue') = Len(queue) - 1 /\ hand' \in Ids /\ UNCHANGED metricVars
    BY <1>5, QueueSteps DEF WorkerPop
  <2>2. hand = None /\ hand' # None BY <1>5, <2>1 DEF WorkerPop, Awake, Posture, Ids, None
  <2> QED BY <2>1, <2>2 DEF metricVars
<1>6. CASE WorkerIngest BY <1>6 DEF WorkerIngest, Posture
<1>7. CASE ClearInput BY <1>7, EmptySeq DEF ClearInput, workerVars, Posture
<1>8. CASE StopBegin BY <1>8, EmptySeq DEF StopBegin, workerVars
<1>9. CASE StopEnd BY <1>9 DEF StopEnd, metricVars
<1>10. ASSUME NEW flag \in BOOLEAN, OpenInput(flag) PROVE CountersConserved'
  <2>1. hand = None BY <1>10 DEF OpenInput, Posture
  <2> QED BY <1>10, <2>1, EmptySeq DEF OpenInput
<1>11. CASE UNCHANGED <<queue, workerVars, metricVars>> BY <1>11 DEF workerVars, metricVars
<1>12. CASE WorkerExit BY <1>12 DEF WorkerExit, metricVars
<1> QED
  BY <1>2, <1>3, <1>4, <1>5, <1>6, <1>7, <1>8, <1>9, <1>10, <1>11, <1>12
  DEF Next, Step, WorkerStep, CloseStep, SubmitNotify, WorkerWait, StartSource, StopSource,
      FlushBegin, FlushWait, FlushEnd, SetAccepting, CloseInput, vars

\* The counters of the bridge add up in every reachable state: no path through
\* the two overflow policies, a clear, a stop or a restart loses a block or
\* counts it twice, but for the block that a clear finds in the worker's hands.
THEOREM BridgeConserves == Spec => []CountersConserved
<1>1. Init => CountersConserved
  BY EmptySeq DEF Init, CountersConserved
<1> QED BY <1>1, ConservedStep, ShapeInvariant, PTL DEF Spec

\* A drained close discards nothing: between the success of the drain and the
\* stop the gate is shut, so the bridge stays empty.
THEOREM DrainedCloseSafe == Spec => []DrainedCloseIsLossless
<1>1. Shape => DrainedCloseIsLossless
  BY EmptyQueueFacts DEF Shape, Posture, DrainedCloseIsLossless, InBridge
<1> QED BY <1>1, ShapeInvariant, PTL

\* The steps that hand nothing over and bring nothing in.
LEMMA OrderedFrame ==
  ASSUME Ordered, queue' = queue \/ queue' = <<>>, UNCHANGED <<hand, nextId>>,
         \A b \in Ids : fate'[b] = "handed" => fate[b] = "handed"
  PROVE  Ordered'
<1>1. Sorted(<<>>) /\ ToSet(<<>>) = {} BY EmptyQueueFacts DEF Sorted
<1> QED BY <1>1 DEF Ordered, QueueNewer, HandedOlder

LEMMA OrderedStep == Ordered /\ Shape /\ [Next]_vars => Ordered'
<1> SUFFICES ASSUME Ordered, Shape, [Next]_vars PROVE Ordered' OBVIOUS
<1>0. TypeOK /\ Posture BY DEF Shape
<1>t. /\ queue \in Seq(Ids) /\ nextId \in Nat /\ hand \in Nat
      /\ \A b \in Ids : b \in Nat \ {0}
      /\ fate \in [Ids -> Fates] /\ ToSet(queue) \subseteq Ids
  BY <1>0, QueueSteps, BridgeAssumption
  DEF TypeOK, QueueTypes, SourceTypes, WorkerTypes, FateTypes, Ids, None
<1>1. CASE SubmitRefused
  <2>1. /\ nextId \in Ids /\ nextId' = nextId + 1
        /\ UNCHANGED <<queue, hand>>
    BY <1>1 DEF SubmitRefused, Delivered, workerVars
  <2>2. \A b \in Ids : fate'[b] = "handed" => fate[b] = "handed"
    BY <1>1 DEF SubmitRefused, Ending
  <2> QED BY <1>t, <2>1, <2>2 DEF Ordered, QueueNewer, HandedOlder
<1>2. CASE Submit
  <2>1. /\ nextId \in Ids /\ nextId' = nextId + 1 /\ UNCHANGED hand
        /\ queue' = Append(queue, nextId)
    BY <1>2 DEF Submit, Delivered, workerVars
  <2>f. \A b \in Ids : fate'[b] = "handed" => fate[b] = "handed"
    BY <1>2 DEF Submit, Ending
  <2>2. ToSet(queue') = ToSet(queue) \union {nextId} BY <1>0, <2>1, QueueSteps
  <2>3. Sorted(queue') BY <1>t, <2>1, SortedPush DEF Ordered, QueueNewer, HandedOlder
  <2>8. QueueNewer(ToSet(queue))'
    <3>1. hand' < nextId' BY <1>t, <2>1 DEF Ordered, QueueNewer
    <3>2. ASSUME NEW b \in ToSet(queue') PROVE hand' < b /\ b < nextId'
      <4>1. b \in ToSet(queue) \/ b = nextId BY <2>2
      <4>2. CASE b \in ToSet(queue) BY <1>t, <2>1, <4>2 DEF Ordered, QueueNewer
      <4>3. CASE b = nextId BY <1>t, <2>1, <4>3 DEF Ordered, QueueNewer
      <4> QED BY <4>1, <4>2, <4>3
    <3> QED BY <3>1, <3>2 DEF QueueNewer
  <2>9. HandedOlder(ToSet(queue))' BY <1>t, <2>1, <2>f, <2>2 DEF Ordered, QueueNewer, HandedOlder
  <2> QED BY <2>3, <2>8, <2>9 DEF Ordered
<1>3. CASE SubmitOver
  <2>1. /\ nextId \in Ids /\ nextId' = nextId + 1 /\ UNCHANGED hand
        /\ queue # <<>> /\ queue' = Append(Tail(queue), nextId)
    BY <1>3 DEF SubmitOver, Delivered, workerVars
  <2>2. \A b \in Ids : fate'[b] = "handed" => fate[b] = "handed"
    BY <1>0, <1>3, <1>t, QueueSteps DEF SubmitOver, Ending
  <2>3. /\ ToSet(queue) = {Head(queue)} \union ToSet(Tail(queue))
        /\ ToSet(queue') = ToSet(Tail(queue)) \union {nextId}
        /\ Tail(queue) \in Seq(Ids)
    BY <1>0, <2>1, QueueSteps
  <2>4. Sorted(Tail(queue)) BY <1>t, <2>1, SortedPop DEF Ordered, QueueNewer, HandedOlder
  <2>5. \A b \in ToSet(Tail(queue)) : b < nextId BY <2>3 DEF Ordered, QueueNewer, HandedOlder
  <2>6. Sorted(queue')
    <3> DEFINE rest == Tail(queue)
    <3> HIDE DEF rest
    <3>1. rest \in Seq(Ids) /\ Sorted(rest) /\ \A b \in ToSet(rest) : b < nextId
      BY <2>3, <2>4, <2>5 DEF rest
    <3>2. Ids \in SUBSET Int /\ nextId \in Ids BY <2>1 DEF Ids
    <3>3. Sorted(Append(rest, nextId)) BY <3>1, <3>2, SortedPush
    <3> QED BY <2>1, <3>3 DEF rest
  <2>8. QueueNewer(ToSet(queue))'
    <3>1. hand' < nextId' BY <1>t, <2>1 DEF Ordered, QueueNewer
    <3>2. ASSUME NEW b \in ToSet(queue') PROVE hand' < b /\ b < nextId'
      <4>1. b \in ToSet(queue) \/ b = nextId BY <2>3
      <4>2. CASE b \in ToSet(queue) BY <1>t, <2>1, <4>2 DEF Ordered, QueueNewer
      <4>3. CASE b = nextId BY <1>t, <2>1, <4>3 DEF Ordered, QueueNewer
      <4> QED BY <4>1, <4>2, <4>3
    <3> QED BY <3>1, <3>2 DEF QueueNewer
  <2>9. HandedOlder(ToSet(queue))' BY <1>t, <2>1, <2>2, <2>3 DEF Ordered, QueueNewer, HandedOlder
  <2> QED BY <2>6, <2>8, <2>9 DEF Ordered
<1>4. CASE WorkerPop
  <2>1. /\ queue # <<>> /\ queue' = Tail(queue) /\ hand' = Head(queue)
        /\ UNCHANGED <<fate, nextId>>
    BY <1>4 DEF WorkerPop, sourceVars
  <2>2. /\ ToSet(queue) = {Head(queue)} \union ToSet(Tail(queue)) /\ Head(queue) \in Ids
    BY <1>0, <2>1, QueueSteps
  <2>3. Sorted(Tail(queue)) /\ \A b \in ToSet(Tail(queue)) : Head(queue) < b
    BY <1>t, <2>1, SortedPop DEF Ordered, QueueNewer, HandedOlder
  <2>8. QueueNewer(ToSet(queue))' BY <1>t, <2>1, <2>2, <2>3 DEF Ordered, QueueNewer
  <2>9. HandedOlder(ToSet(queue))' BY <1>t, <2>1, <2>2, <2>3 DEF Ordered, QueueNewer, HandedOlder
  <2> QED BY <2>1, <2>3, <2>8, <2>9 DEF Ordered
<1>5. CASE WorkerIngest
  <2>1. /\ hand # None /\ hand \in Ids /\ hand' = None
        /\ UNCHANGED <<queue, nextId>>
    BY <1>0, <1>5 DEF WorkerIngest, sourceVars, Posture, TypeOK, WorkerTypes
  <2>2. \A b \in Ids : fate'[b] = IF b = hand THEN "handed" ELSE fate[b]
    BY <1>5 DEF WorkerIngest, Ending
  <2>3. None = 0 BY DEF None
  <2>4. QueueNewer(ToSet(queue))'
    BY <1>t, <2>1, <2>3 DEF Ordered, QueueNewer
  <2>5. HandedOlder(ToSet(queue))'
    BY <1>t, <2>1, <2>2, <2>3 DEF Ordered, QueueNewer, HandedOlder
  <2> QED BY <2>1, <2>4, <2>5 DEF Ordered
<1>6. CASE ClearInput
  <2>1. \A b \in Ids : fate'[b] = "handed" => fate[b] = "handed"
    BY <1>6 DEF ClearInput, Ending
  <2> QED BY <1>6, <2>1, OrderedFrame DEF ClearInput, sourceVars, workerVars
<1>7. CASE StopBegin
  <2>1. \A b \in Ids : fate'[b] = "handed" => fate[b] = "handed"
    BY <1>7 DEF StopBegin, Ending
  <2> QED BY <1>7, <2>1, OrderedFrame DEF StopBegin, sourceVars, workerVars
<1>8. ASSUME NEW flag \in BOOLEAN, OpenInput(flag) PROVE Ordered'
  BY <1>8, OrderedFrame DEF OpenInput, sourceVars
<1>9. CASE UNCHANGED <<queue, hand, nextId, fate>> BY <1>9, OrderedFrame
<1> QED
  BY <1>1, <1>2, <1>3, <1>4, <1>5, <1>6, <1>7, <1>8, <1>9
  DEF Next, Step, WorkerStep, CloseStep, SubmitNotify, WorkerWait, WorkerExit, StartSource,
      StopSource, FlushBegin, FlushWait, FlushEnd, StopEnd, SetAccepting, CloseInput, vars,
      sourceVars, workerVars

\* The blocks in the bridge are in order, and those handed over are older.
THEOREM OrderedInvariant == Spec => []Ordered
<1>1. Init => Ordered
  BY EmptyQueueFacts DEF Init, Ordered, QueueNewer, HandedOlder, Sorted, None
<1> QED BY <1>1, OrderedStep, ShapeInvariant, PTL DEF Spec

\* The pipeline sees the blocks in the order of their delivery, whichever of them
\* an overflow, a clear or a stop removes in between.
THEOREM BridgeKeepsOrder == Spec => []NoOvertaking
<1>1. Ordered /\ Shape => NoOvertaking
  <2> SUFFICES ASSUME Ordered, Shape, NEW b \in Ids, NEW c \in Ids,
                      c < b, fate[b] = "handed", c \in InBridge
               PROVE  FALSE
    BY DEF NoOvertaking
  <2>1. c \in ToSet(queue) \/ (c = hand /\ hand # None) BY DEF InBridge
  <2>2. b < c BY <2>1 DEF Ordered, QueueNewer, HandedOlder
  <2>3. b \in Nat /\ c \in Nat BY BridgeAssumption DEF Ids
  <2> QED BY <2>2, <2>3
<1> QED BY <1>1, OrderedInvariant, ShapeInvariant, PTL

\* What a step may do to a block: nothing; take it from the source, or refuse it;
\* or see it out of the bridge, which only a stop does by discarding it.
Stays(b)    == fate'[b] = fate[b] /\ ((b \in InBridge') <=> (b \in InBridge))
Arrives(b)  == /\ b = nextId /\ nextId' = nextId + 1
               /\ \/ fate'[b] = "queued" /\ b \in InBridge'
                  \/ fate'[b] = "dropped" /\ b \notin InBridge'
Leaves(b)   == /\ b \in InBridge /\ b \notin InBridge'
               /\ fate'[b] \in {"handed", "dropped", "cleared"}
Discards(b) == /\ control = "stop" /\ b \in ToSet(queue) /\ b \notin InBridge'
               /\ fate'[b] = "discarded"

\* A block is in one place of the bridge.
LEMMA OnePlace ==
  ASSUME Ordered, Shape
  PROVE  /\ hand \notin ToSet(queue) /\ nextId \notin InBridge
         /\ queue # <<>> => /\ Head(queue) \notin ToSet(Tail(queue))
                            /\ Head(queue) # hand
                            /\ Head(queue) \in ToSet(queue)
<1>0. TypeOK BY DEF Shape
<1>t. /\ queue \in Seq(Ids) /\ nextId \in Nat /\ hand \in Nat
      /\ ToSet(queue) \subseteq Ids /\ \A b \in Ids : b \in Nat \ {0}
  BY <1>0, QueueSteps, BridgeAssumption
  DEF TypeOK, QueueTypes, SourceTypes, WorkerTypes, Ids, None
<1>1. hand \notin ToSet(queue) BY <1>t DEF Ordered, QueueNewer
<1>2. nextId \notin InBridge BY <1>t DEF Ordered, QueueNewer, InBridge
<1>3. ASSUME queue # <<>>
      PROVE  /\ Head(queue) \notin ToSet(Tail(queue)) /\ Head(queue) # hand
             /\ Head(queue) \in ToSet(queue)
  <2>1. \A b \in ToSet(Tail(queue)) : Head(queue) < b
    BY <1>t, <1>3, SortedPop DEF Ordered
  <2>2. Head(queue) \in ToSet(queue) BY <1>0, <1>3, QueueSteps
  <2>3. Head(queue) \in Nat BY <1>t, <2>2
  <2> QED BY <1>1, <2>1, <2>2, <2>3
<1> QED BY <1>1, <1>2, <1>3

LEMMA BlockSteps ==
  ASSUME Ordered, Shape, [Next]_vars
  PROVE  /\ \A b \in Ids : Stays(b) \/ Arrives(b) \/ Leaves(b) \/ Discards(b)
         /\ nextId' = nextId \/ (nextId' = nextId + 1 /\ Arrives(nextId) /\ nextId \in Ids)
<1>0. TypeOK /\ Posture BY DEF Shape
<1>t. fate \in [Ids -> Fates] /\ ToSet(queue) \subseteq Ids
  BY <1>0, QueueSteps DEF TypeOK, FateTypes
<1> USE OnePlace DEF InBridge
<1>1. CASE SubmitRefused
  <2>1. /\ nextId \in Ids /\ nextId' = nextId + 1 /\ UNCHANGED <<queue, hand>>
        /\ \A b \in Ids : fate'[b] = IF b = nextId THEN "dropped" ELSE fate[b]
    BY <1>1 DEF SubmitRefused, Delivered, workerVars, Ending
  <2> QED BY <2>1 DEF Stays, Arrives
<1>2. CASE Submit
  <2>1. /\ nextId \in Ids /\ nextId' = nextId + 1 /\ UNCHANGED hand
        /\ queue' = Append(queue, nextId)
        /\ \A b \in Ids : fate'[b] = IF b = nextId THEN "queued" ELSE fate[b]
    BY <1>2 DEF Submit, Delivered, workerVars, Ending
  <2>2. ToSet(queue') = ToSet(queue) \union {nextId} BY <1>0, <2>1, QueueSteps
  <2> QED BY <2>1, <2>2 DEF Stays, Arrives
<1>3. CASE SubmitOver
  <2>1. /\ nextId \in Ids /\ nextId' = nextId + 1 /\ UNCHANGED hand
        /\ queue # <<>> /\ queue' = Append(Tail(queue), nextId)
    BY <1>3 DEF SubmitOver, Delivered, workerVars
  <2>2. /\ ToSet(queue) = {Head(queue)} \union ToSet(Tail(queue)) /\ Head(queue) \in Ids
        /\ ToSet(queue') = ToSet(Tail(queue)) \union {nextId}
    BY <1>0, <2>1, QueueSteps
  <2>3. \A b \in Ids : fate'[b] = IF b = Head(queue) THEN "dropped"
                                  ELSE IF b = nextId THEN "queued" ELSE fate[b]
    BY <1>3, <2>2 DEF SubmitOver, Ending
  <2>4. Head(queue) # nextId BY <2>1, <2>2
  <2>5. Leaves(Head(queue)) BY <2>1, <2>2, <2>3, <2>4 DEF Leaves
  <2>6. Arrives(nextId) BY <2>1, <2>2, <2>3, <2>4 DEF Arrives
  <2>7. ASSUME NEW b \in Ids, b # Head(queue), b # nextId PROVE Stays(b)
    BY <2>1, <2>2, <2>3, <2>7 DEF Stays
  <2> QED BY <2>1, <2>5, <2>6, <2>7
<1>4. CASE WorkerPop
  <2>1. /\ queue # <<>> /\ queue' = Tail(queue) /\ hand' = Head(queue) /\ hand = None
        /\ UNCHANGED <<fate, nextId>>
    BY <1>0, <1>4 DEF WorkerPop, Awake, Posture, sourceVars
  <2>2. /\ ToSet(queue) = {Head(queue)} \union ToSet(Tail(queue)) /\ Head(queue) \in Ids
    BY <1>0, <2>1, QueueSteps
  <2>3. Head(queue) # None BY <2>2 DEF Ids, None
  <2> QED BY <2>1, <2>2, <2>3 DEF Stays
<1>5. CASE WorkerIngest
  <2>1. /\ hand # None /\ hand \in Ids /\ hand' = None /\ UNCHANGED <<queue, nextId>>
    BY <1>0, <1>5 DEF WorkerIngest, sourceVars, Posture, TypeOK, WorkerTypes
  <2>2. \A b \in Ids : fate'[b] = IF b = hand THEN "handed" ELSE fate[b]
    BY <1>5 DEF WorkerIngest, Ending
  <2> QED BY <2>1, <2>2 DEF Stays, Leaves
<1>6. CASE ClearInput
  <2>1. /\ queue' = <<>> /\ UNCHANGED <<hand, nextId>>
        /\ \A b \in Ids : fate'[b] = IF b \in ToSet(queue) THEN "cleared" ELSE fate[b]
    BY <1>6 DEF ClearInput, Ending, sourceVars, workerVars
  <2>2. ToSet(queue') = {} BY <2>1, EmptyQueueFacts
  <2> QED BY <2>1, <2>2 DEF Stays, Leaves
<1>7. CASE StopBegin
  <2>1. /\ queue' = <<>> /\ UNCHANGED <<hand, nextId>> /\ control = "stop"
        /\ \A b \in Ids : fate'[b] = IF b \in ToSet(queue) THEN "discarded" ELSE fate[b]
    BY <1>7 DEF StopBegin, Ending, sourceVars, workerVars
  <2>2. ToSet(queue') = {} BY <2>1, EmptyQueueFacts
  <2> QED BY <2>1, <2>2 DEF Stays, Discards
<1>8. ASSUME NEW flag \in BOOLEAN, OpenInput(flag)
      PROVE UNCHANGED <<queue, hand, nextId, fate>>
  BY <1>0, <1>8 DEF OpenInput, Posture, sourceVars
<1>9. CASE UNCHANGED <<queue, hand, nextId, fate>> BY <1>9 DEF Stays
<1> QED
  BY <1>1, <1>2, <1>3, <1>4, <1>5, <1>6, <1>7, <1>8, <1>9
  DEF Next, Step, WorkerStep, CloseStep, SubmitNotify, WorkerWait, WorkerExit, StartSource,
      StopSource, FlushBegin, FlushWait, FlushEnd, StopEnd, SetAccepting, CloseInput, vars,
      sourceVars, workerVars

\* The fate of a block tells where it is: a block the source has not delivered has
\* none, and the blocks without an end are those in the queue or in hand.
Traced ==
  \A b \in Ids : /\ (fate[b] = "none") <=> (b >= nextId)
                 /\ (fate[b] = "queued") <=> (b \in InBridge)

\* While flush() waits no block it waits for is discarded, and once it succeeds
\* all of them have their end.
AwaitedTraced ==
  /\ control = "flush" =>
       \A b \in awaited : fate[b] \in {"queued", "handed", "dropped", "cleared"}
  /\ FlushComplete

LEMMA TracedStep == Traced /\ Ordered /\ Shape /\ [Next]_vars => Traced'
<1> SUFFICES ASSUME Traced, Ordered, Shape, [Next]_vars, NEW b \in Ids
             PROVE  /\ (fate'[b] = "none") <=> (b >= nextId')
                    /\ (fate'[b] = "queued") <=> (b \in InBridge')
  BY DEF Traced
<1>1. b \in Nat /\ nextId \in Nat
  BY BridgeAssumption DEF Shape, TypeOK, SourceTypes, Ids
<1>2. /\ (fate[b] = "none") <=> (b >= nextId)
      /\ (fate[b] = "queued") <=> (b \in InBridge)
  BY DEF Traced
<1>3. nextId' = nextId \/ (nextId' = nextId + 1 /\ Arrives(nextId) /\ nextId \in Ids)
  BY BlockSteps
<1>4. CASE Stays(b)
  <2>1. b # nextId \/ nextId' = nextId
    BY <1>1, <1>2, <1>3, <1>4 DEF Stays, Arrives
  <2> QED BY <1>1, <1>2, <1>3, <1>4, <2>1 DEF Stays
<1>5. CASE Arrives(b) BY <1>1, <1>5 DEF Arrives
<1>6. CASE Leaves(b) \/ Discards(b)
  <2>1. b \in InBridge /\ b \notin InBridge' /\ fate'[b] \notin {"none", "queued"}
    BY <1>6 DEF Leaves, Discards, InBridge
  <2>2. b < nextId BY <1>1, <1>2, <2>1
  <2>3. b < nextId' BY <1>1, <1>3, <2>2
  <2> QED BY <1>1, <1>3, <2>1, <2>3
<1> QED BY <1>4, <1>5, <1>6, BlockSteps

\* A block that has its end keeps it, and only a stop discards one.
LEMMA EndsStay ==
  ASSUME Traced, Ordered, Shape, [Next]_vars, NEW b \in Ids
  PROVE  /\ fate[b] \in {"handed", "dropped", "cleared"} => fate'[b] = fate[b]
         /\ fate[b] = "queued" /\ ~(control = "stop" /\ b \in ToSet(queue)) =>
              fate'[b] \in {"queued", "handed", "dropped", "cleared"}
<1>1. b \in Nat /\ nextId \in Nat
  BY BridgeAssumption DEF Shape, TypeOK, SourceTypes, Ids
<1>2. /\ (fate[b] = "none") <=> (b >= nextId)
      /\ (fate[b] = "queued") <=> (b \in InBridge)
  BY DEF Traced
<1>3. Stays(b) \/ Arrives(b) \/ Leaves(b) \/ Discards(b) BY BlockSteps
<1> QED BY <1>1, <1>2, <1>3 DEF Stays, Arrives, Leaves, Discards, InBridge

LEMMA AwaitedStep == AwaitedTraced /\ Traced /\ Ordered /\ Shape /\ [Next]_vars => AwaitedTraced'
<1> SUFFICES ASSUME AwaitedTraced, Traced, Ordered, Shape, [Next]_vars PROVE AwaitedTraced'
  OBVIOUS
<1>0. TypeOK /\ Posture BY DEF Shape
<1>t. awaited \subseteq Ids /\ InBridge \subseteq Ids
  BY <1>0, QueueSteps DEF TypeOK, ControlTypes, WorkerTypes, InBridge
<1>1. CASE FlushBegin
  <2>1. /\ awaited' = InBridge /\ drained' = FALSE /\ UNCHANGED fate
    BY <1>1 DEF FlushBegin
  <2> QED BY <1>t, <2>1 DEF AwaitedTraced, FlushComplete, Traced
<1>2. ASSUME NEW drain \in BOOLEAN, CloseInput(drain) PROVE AwaitedTraced'
  <2>1. /\ awaited' = InBridge /\ drained' = FALSE /\ UNCHANGED fate
    BY <1>2 DEF CloseInput
  <2> QED BY <1>t, <2>1 DEF AwaitedTraced, FlushComplete, Traced
<1>3. CASE FlushEnd
  <2>1. /\ control = "flush" /\ control' # "flush" /\ drained' = Settled
        /\ UNCHANGED <<awaited, fate>>
    BY <1>3 DEF FlushEnd
  <2>2. Settled => InBridge = {}
    BY <1>0, EmptyQueueFacts DEF Settled, InBridge, Posture
  <2>3. Settled => \A b \in awaited : fate[b] \in {"handed", "dropped", "cleared"}
    BY <1>t, <2>1, <2>2 DEF AwaitedTraced, Traced
  <2> QED BY <2>1, <2>3 DEF AwaitedTraced, FlushComplete
<1>4. CASE UNCHANGED <<awaited, drained>> /\ (control' = "flush" => control = "flush")
  <2>1. ASSUME control' = "flush", NEW b \in awaited'
        PROVE  fate'[b] \in {"queued", "handed", "dropped", "cleared"}
    <3>1. control = "flush" /\ b \in awaited /\ b \in Ids BY <1>t, <1>4, <2>1
    <3>2. fate[b] \in {"queued", "handed", "dropped", "cleared"}
      BY <3>1 DEF AwaitedTraced
    <3> QED BY <3>1, <3>2, EndsStay
  <2>2. ASSUME drained', NEW b \in awaited'
        PROVE  fate'[b] \in {"handed", "dropped", "cleared"}
    <3>1. drained /\ b \in awaited /\ b \in Ids BY <1>t, <1>4, <2>2
    <3>2. fate[b] \in {"handed", "dropped", "cleared"}
      BY <3>1 DEF AwaitedTraced, FlushComplete
    <3> QED BY <3>1, <3>2, EndsStay
  <2> QED BY <2>1, <2>2 DEF AwaitedTraced, FlushComplete
<1>5. CASE SubmitRefused \/ Submit \/ SubmitOver \/ SubmitNotify \/ WorkerStep
  BY <1>4, <1>5 DEF SubmitRefused, Submit, SubmitOver, SubmitNotify, WorkerStep, WorkerWait,
                    WorkerPop, WorkerIngest, WorkerExit, controlVars
<1>6. CASE StartSource \/ StopSource \/ ClearInput \/ FlushWait \/ StopBegin \/ StopEnd
  BY <1>4, <1>6 DEF StartSource, StopSource, ClearInput, FlushWait, StopBegin, StopEnd,
                    controlVars
<1>7. ASSUME NEW flag \in BOOLEAN, OpenInput(flag) \/ SetAccepting(flag) PROVE AwaitedTraced'
  BY <1>4, <1>7 DEF OpenInput, SetAccepting, controlVars
<1>8. CASE UNCHANGED vars BY <1>4, <1>8 DEF vars, controlVars
<1> QED
  BY <1>1, <1>2, <1>3, <1>5, <1>6, <1>7, <1>8 DEF Next, Step, CloseStep

\* Where a block is can be read off its fate.
THEOREM TracedInvariant == Spec => []Traced
<1>1. Init => Traced
  BY EmptyQueueFacts, BridgeAssumption DEF Init, Traced, InBridge, Ids
<1> QED BY <1>1, TracedStep, OrderedInvariant, ShapeInvariant, PTL DEF Spec

\* A flush that succeeds has seen every block that was in the bridge at the call
\* out of it, and none of them is lost to a stop afterwards.
THEOREM BridgeFlushes == Spec => []FlushComplete
<1>1. Init => AwaitedTraced BY DEF Init, AwaitedTraced, FlushComplete
<1>2. AwaitedTraced => FlushComplete BY DEF AwaitedTraced
<1> QED
  BY <1>1, <1>2, AwaitedStep, TracedInvariant, OrderedInvariant, ShapeInvariant, PTL DEF Spec
=============================================================================
