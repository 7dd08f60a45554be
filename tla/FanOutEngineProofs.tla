------------------------- MODULE FanOutEngineProofs -------------------------
(***************************************************************************)
(* Proofs about FanOutEngine for every number of stages and blocks, every   *)
(* capacity and every assignment of overload policies.  In four parts: the  *)
(* types and the pool; the counters and the ledger of the blocks; what the  *)
(* owner of the session can rely on, that is flush, stop and the order of   *)
(* service; and that the engine implements BlockDelivery.                   *)
(***************************************************************************)
EXTENDS FanOutEngine, QueueLemmas, FiniteSetTheorems

WorkerPlaces == {"pop", "popped", "submit", "skip", "serial", "finish",
                 "record", "leave", "exited"}
StagePlaces  == {"pop", "serve", "complete", "record", "leave", "drop", "exited"}

\* Where the threads are, and what they hold there.
Posture ==
  /\ ingestPc = "admitted" => nextId \in Ids
  /\ ingestPc = "acquired" => ingestBlock \in Ids /\ nextId = ingestBlock + 1
  /\ ingestPc # "acquired" => ingestBlock = None
  /\ pc[Worker] \in WorkerPlaces
  /\ current = None <=> pc[Worker] \in {"pop", "exited"}
  /\ pc[Worker] \in {"record", "leave"} => hand[Worker] \in Ids
  /\ pc[Worker] \notin {"skip", "record", "leave"} => skipped = {}
  /\ pc[Worker] = "submit" => Parallel
  /\ stageStop \/ control \in {"joinStages", "stopped"} => pc[Worker] = "exited"
  /\ \A s \in Stages :
       /\ pc[s] \in StagePlaces
       /\ hand[s] = None <=> pc[s] \in {"pop", "exited"}
       /\ pc[s] = "exited" => /\ stageQueue[s] = <<>>
                              /\ stageStop \/ ~Parallel \/ control = "stopped"
       /\ control = "stopped" => pc[s] = "exited"

Shape == TypeOK /\ Posture

LEMMA ConstantFacts ==
  /\ Stages \subseteq Threads /\ Worker \in Threads /\ Worker \notin Stages
  /\ Threads = Stages \union {Worker}
  /\ None \notin Ids /\ None \notin Stages /\ Ids \subseteq Nat /\ Stages \subseteq Nat
  /\ IsFiniteSet(Ids) /\ NumStages \in Nat \ {0} /\ MaxBlocks \in Nat
  /\ \A S \in SUBSET Ids : IsFiniteSet(S) /\ Cardinality(S) \in Nat
<1>1. NumStages \in Nat \ {0} /\ MaxBlocks \in Nat
  BY EngineAssumption
<1>2. IsFiniteSet(Ids)
  BY <1>1, FS_Interval DEF Ids
<1>3. \A S \in SUBSET Ids : IsFiniteSet(S) /\ Cardinality(S) \in Nat
  BY <1>2, FS_Subset, FS_CardinalityType
<1> QED BY <1>1, <1>2, <1>3 DEF Stages, Threads, Worker, Ids, None

LEMMA ReleaseTypes ==
  ASSUME PoolTypes, NEW kept \in [Ids -> SUBSET Threads], ReleaseTo(kept)
  PROVE  PoolTypes'
<1> DEFINE gone == {b \in Live : kept[b] = {}}
<1>1. gone \in SUBSET Ids BY DEF Live
<1>2. Cardinality(gone) \in Nat BY <1>1, ConstantFacts
<1> QED BY <1>2 DEF ReleaseTo, PoolTypes

\* A group of variables that a step leaves alone keeps its types.
LEMMA TypeFrame ==
  /\ PoolTypes /\ UNCHANGED poolVars => PoolTypes'
  /\ QueueTypes /\ UNCHANGED queueVars => QueueTypes'
  /\ GateTypes /\ UNCHANGED gateVars => GateTypes'
  /\ IngestTypes /\ UNCHANGED ingestVars => IngestTypes'
  /\ ThreadTypes /\ UNCHANGED threadVars => ThreadTypes'
  /\ WorkerTypes /\ UNCHANGED workerVars => WorkerTypes'
  /\ EngineTypes /\ UNCHANGED engineVars => EngineTypes'
  /\ StageTypes /\ UNCHANGED stageVars => StageTypes'
  /\ HistoryTypes /\ UNCHANGED historyVars => HistoryTypes'
  /\ ControlTypes /\ UNCHANGED controlVars => ControlTypes'
<1>1. PoolTypes /\ UNCHANGED poolVars => PoolTypes' BY DEF PoolTypes, poolVars
<1>2. QueueTypes /\ UNCHANGED queueVars => QueueTypes' BY DEF QueueTypes, queueVars
<1>3. GateTypes /\ UNCHANGED gateVars => GateTypes' BY DEF GateTypes, gateVars
<1>4. IngestTypes /\ UNCHANGED ingestVars => IngestTypes' BY DEF IngestTypes, ingestVars
<1>5. ThreadTypes /\ UNCHANGED threadVars => ThreadTypes' BY DEF ThreadTypes, threadVars
<1>6. WorkerTypes /\ UNCHANGED workerVars => WorkerTypes' BY DEF WorkerTypes, workerVars
<1>7. EngineTypes /\ UNCHANGED engineVars => EngineTypes' BY DEF EngineTypes, engineVars
<1>8. StageTypes /\ UNCHANGED stageVars => StageTypes' BY DEF StageTypes, stageVars
<1>9. HistoryTypes /\ UNCHANGED historyVars => HistoryTypes' BY DEF HistoryTypes, historyVars
<1>10. ControlTypes /\ UNCHANGED controlVars => ControlTypes' BY DEF ControlTypes, controlVars
<1> QED BY <1>1, <1>2, <1>3, <1>4, <1>5, <1>6, <1>7, <1>8, <1>9, <1>10

LEMMA InitShape == Init => Shape
<1> SUFFICES ASSUME Init PROVE Shape OBVIOUS
<1> USE ConstantFacts
<1>0. /\ closed \in BOOLEAN /\ running \in BOOLEAN /\ accepting \in BOOLEAN
      /\ processing \in BOOLEAN /\ stageStop \in BOOLEAN
  BY Zenon DEF Init
<1>1. PoolTypes BY EngineAssumption DEF Init, PoolTypes
<1>2. QueueTypes BY <1>0, EngineAssumption, EmptySeq, LenProperties DEF Init, QueueTypes
<1>3. IngestTypes BY DEF Init, IngestTypes
<1>4. ThreadTypes BY DEF Init, ThreadTypes
<1>5. WorkerTypes BY DEF Init, WorkerTypes
<1>6. StageTypes BY <1>0, EngineAssumption, EmptySeq DEF Init, StageTypes
<1>7. HistoryTypes BY DEF Init, HistoryTypes
<1>8. GateTypes /\ EngineTypes
  BY <1>0 DEF Init, GateTypes, EngineTypes
<1>10. ControlTypes
  BY DEF Init, ControlTypes
<1>9. Posture
  BY DEF Init, Posture, WorkerPlaces, StagePlaces
<1> QED BY <1>1, <1>2, <1>3, <1>4, <1>5, <1>6, <1>7, <1>8, <1>9, <1>10 DEF Shape, TypeOK

LEMMA IngestTyped == Shape /\ (IngestBegin \/ IngestStep) => TypeOK'
<1> SUFFICES ASSUME Shape, IngestBegin \/ IngestStep PROVE TypeOK' OBVIOUS
<1> USE TypeFrame, ConstantFacts DEF Shape, TypeOK
<1>1. CASE IngestBegin
  BY <1>1 DEF IngestBegin, IngestTypes
<1>2. CASE IngestExhausted
  BY <1>2 DEF IngestExhausted, IngestTypes
<1>3. CASE IngestAcquire
  <2>1. nextId \in Ids /\ nextId + 1 \in 1..(MaxBlocks + 1)
    BY <1>3 DEF IngestAcquire, Posture, Ids
  <2>2. PoolTypes' BY <1>3, <2>1 DEF PoolTypes, IngestAcquire
  <2>3. IngestTypes' BY <1>3, <2>1 DEF IngestTypes, IngestAcquire
  <2> QED BY <1>3, <2>2, <2>3 DEF IngestAcquire
<1>4. CASE IngestRefused
  <2>1. PoolTypes' BY <1>4, ReleaseTypes DEF IngestRefused, PoolTypes
  <2>2. IngestTypes' BY <1>4 DEF IngestTypes, IngestRefused
  <2> QED BY <1>4, <2>1, <2>2 DEF IngestRefused
<1>5. CASE IngestPush
  <2>1. ingestBlock \in Ids BY <1>5 DEF IngestPush, Posture
  <2>2. QueueTypes'
    BY <1>5, <2>1, PushBack, EngineAssumption, LenProperties DEF IngestPush, QueueTypes
  <2>3. IngestTypes' BY <1>5 DEF IngestTypes, IngestPush
  <2> QED BY <1>5, <2>2, <2>3 DEF IngestPush
<1> QED BY <1>1, <1>2, <1>3, <1>4, <1>5 DEF IngestStep

\* completeFanOutStage, for the worker and for a stage.
LEMMA CompleteTyped ==
  ASSUME ThreadTypes, StageTypes, NEW t \in Threads, NEW b \in Ids,
         NEW place \in {"skip", "drop"},
         Complete(t, b, place), UNCHANGED <<stageQueue, stageStop>>
  PROVE  ThreadTypes' /\ StageTypes'
<1>1. ThreadTypes'
  <2>1. CASE remaining[b] = 1 BY <2>1 DEF Complete, ThreadTypes
  <2>2. CASE remaining[b] # 1 BY <2>2 DEF Complete, ThreadTypes
  <2> QED BY <2>1, <2>2
<1>2. StageTypes'
  BY DEF Complete, StageTypes
<1> QED BY <1>1, <1>2

LEMMA RecordTyped ==
  ASSUME HistoryTypes, NEW b \in Ids,
         recorded' = [recorded EXCEPT ![b] = @ + 1],
         UNCHANGED <<consumed, dropped, serial, cleared>>
  PROVE  HistoryTypes'
<1>1. recorded[b] + 1 \in Nat BY DEF HistoryTypes
<1>2. recorded' \in [Ids -> Nat] BY <1>1 DEF HistoryTypes
<1> QED BY <1>2 DEF HistoryTypes

LEMMA WorkerTyped == Shape /\ WorkerStep => TypeOK'
<1> SUFFICES ASSUME Shape, WorkerStep PROVE TypeOK' OBVIOUS
<1> USE TypeFrame, ConstantFacts DEF Shape, TypeOK
<1>1. CASE WorkerPop
  <2>1. QueueTypes' /\ Head(queue) \in Ids
    BY <1>1, PopFront, LenProperties, EngineAssumption DEF WorkerPop, QueueTypes
  <2>2. ThreadTypes' BY <1>1 DEF WorkerPop, ThreadTypes
  <2>3. WorkerTypes' BY <1>1, <2>1 DEF WorkerPop, WorkerTypes
  <2> QED BY <1>1, <2>1, <2>2, <2>3 DEF WorkerPop
<1>2. CASE WorkerExit
  <2>1. processing' \in BOOLEAN BY <1>2, Zenon DEF WorkerExit
  <2>2. EngineTypes' BY <1>2, <2>1 DEF WorkerExit, EngineTypes
  <2>3. ThreadTypes' BY <1>2 DEF WorkerExit, ThreadTypes
  <2> QED BY <1>2, <2>2, <2>3 DEF WorkerExit
<1>3. CASE WorkerMark
  <2>1. processing' \in BOOLEAN BY <1>3, Zenon DEF WorkerMark
  <2>2. EngineTypes' BY <1>3, <2>1 DEF WorkerMark, EngineTypes
  <2>3. ThreadTypes' BY <1>3 DEF WorkerMark, ThreadTypes
  <2>4. WorkerTypes' BY <1>3 DEF WorkerMark, WorkerTypes
  <2>5. StageTypes' BY <1>3 DEF WorkerMark, StageTypes
  <2> QED BY <1>3, <2>2, <2>3, <2>4, <2>5 DEF WorkerMark
<1>4. CASE SubmitRefused
  <2>1. EngineTypes' BY <1>4 DEF SubmitRefused, EngineTypes
  <2>2. ThreadTypes' BY <1>4 DEF SubmitRefused, ThreadTypes
  <2>3. WorkerTypes' BY <1>4 DEF SubmitRefused, WorkerTypes
  <2> QED BY <1>4, <2>1, <2>2, <2>3 DEF SubmitRefused
<1>5. CASE Submit
  <2>1. PICK cut \in [Stages -> 0..StageCapacity] :
          /\ \A s \in Stages : Removes(s, cut[s])
          /\ stageQueue' = [s \in Stages |->
               Append(SubSeq(stageQueue[s], cut[s] + 1, Len(stageQueue[s])), current)]
          /\ skipped' = {job \in Stages \X Ids :
                           \E i \in 1..cut[job[1]] : stageQueue[job[1]][i] = job[2]}
    BY <1>5 DEF Submit
  <2>2. current \in Ids BY <1>5 DEF Submit, Posture, WorkerTypes
  <2>3. \A s \in Stages : stageQueue'[s] \in Seq(Ids) /\ Len(stageQueue'[s]) <= StageCapacity
    <3> SUFFICES ASSUME NEW s \in Stages
                 PROVE  stageQueue'[s] \in Seq(Ids) /\ Len(stageQueue'[s]) <= StageCapacity
      OBVIOUS
    <3> DEFINE rest == SubSeq(stageQueue[s], cut[s] + 1, Len(stageQueue[s]))
    <3>1. stageQueue[s] \in Seq(Ids) /\ Len(stageQueue[s]) \in Nat
          /\ Len(stageQueue[s]) <= StageCapacity
      BY LenProperties DEF StageTypes
    <3>2. cut[s] \in 0..Len(stageQueue[s]) /\ Len(stageQueue[s]) - cut[s] < StageCapacity
      BY <1>5, <2>1, <3>1, EngineAssumption
      DEF Submit, CannotSubmit, Removes, Lossless, Policies
    <3>3. rest \in Seq(Ids) /\ Len(rest) = Len(stageQueue[s]) - cut[s]
      BY <3>1, <3>2, CutFront
    <3>4. stageQueue'[s] = Append(rest, current) BY <2>1
    <3> HIDE DEF rest
    <3>5. stageQueue'[s] \in Seq(Ids) /\ Len(stageQueue'[s]) = Len(rest) + 1
      BY <2>2, <3>3, <3>4, PushBack
    <3> QED BY <3>1, <3>2, <3>3, <3>5, EngineAssumption
  <2>4. StageTypes' BY <1>5, <2>1, <2>3 DEF Submit, StageTypes
  <2>5. WorkerTypes' BY <1>5, <2>1 DEF Submit, WorkerTypes
  <2>6. PoolTypes' BY <1>5, <2>2 DEF Submit, PoolTypes
  <2>7. ThreadTypes' BY <1>5 DEF Submit, ThreadTypes
  <2> QED BY <1>5, <2>4, <2>5, <2>6, <2>7 DEF Submit
<1>6. CASE WorkerSkip
  <2>1. PICK job \in skipTodo :
          /\ skipTodo' = skipTodo \ {job}
          /\ dropped' = [dropped EXCEPT ![job[1]] = @ \union {job[2]}]
          /\ Complete(Worker, job[2], "skip")
    BY <1>6 DEF WorkerSkip
  <2>2. job[1] \in Stages /\ job[2] \in Ids BY <2>1 DEF WorkerTypes
  <2>3. ThreadTypes' /\ StageTypes' BY <1>6, <2>1, <2>2, CompleteTyped DEF WorkerSkip
  <2>4. WorkerTypes' BY <1>6, <2>1 DEF WorkerSkip, WorkerTypes
  <2>5. HistoryTypes' BY <1>6, <2>1, <2>2 DEF WorkerSkip, HistoryTypes
  <2> QED BY <1>6, <2>3, <2>4, <2>5 DEF WorkerSkip
<1>7. CASE WorkerSerial
  <2>1. current \in Ids BY <1>7 DEF WorkerSerial, Posture, WorkerTypes
  <2>2. HistoryTypes'
    BY <1>7, <2>1, PushBack DEF WorkerSerial, HistoryTypes
  <2>3. WorkerTypes' BY <1>7 DEF WorkerSerial, WorkerTypes, Stages
  <2> QED BY <1>7, <2>2, <2>3 DEF WorkerSerial
<1>8. CASE WorkerSerialRecord
  <2>1. HistoryTypes'
    <3>1. current \in Ids BY <1>8 DEF WorkerSerialRecord, Posture, WorkerTypes
    <3> QED BY <1>8, <3>1, RecordTyped DEF WorkerSerialRecord
  <2>2. ThreadTypes' BY <1>8 DEF WorkerSerialRecord, ThreadTypes
  <2> QED BY <1>8, <2>1, <2>2 DEF WorkerSerialRecord
<1>9. CASE WorkerUnwind
  <2>1. PoolTypes' BY <1>9, ReleaseTypes DEF WorkerUnwind, PoolTypes
  <2>2. ThreadTypes' BY <1>9 DEF WorkerUnwind, ThreadTypes
  <2>3. WorkerTypes' BY <1>9 DEF WorkerUnwind, WorkerTypes
  <2> QED BY <1>9, <2>1, <2>2, <2>3 DEF WorkerUnwind
<1>10. CASE WorkerFinish
  <2>1. processing' \in BOOLEAN BY <1>10, Zenon DEF WorkerFinish
  <2>2. EngineTypes' BY <1>10, <2>1 DEF WorkerFinish, EngineTypes
  <2>3. ThreadTypes' BY <1>10 DEF WorkerFinish, ThreadTypes
  <2>4. WorkerTypes' BY <1>10 DEF WorkerFinish, WorkerTypes
  <2> QED BY <1>10, <2>2, <2>3, <2>4 DEF WorkerFinish
<1>11. CASE Record(Worker)
  <2>1. ThreadTypes' BY <1>11 DEF Record, ThreadTypes
  <2>2. HistoryTypes'
    <3>1. hand[Worker] \in Ids BY <1>11 DEF Record, Posture
    <3> QED BY <1>11, <3>1, RecordTyped DEF Record
  <2> QED BY <1>11, <2>1, <2>2 DEF Record
<1>12. CASE Leave(Worker)
  <2>1. ThreadTypes' BY <1>12 DEF Leave, ThreadTypes
  <2>2. EngineTypes' BY <1>12 DEF Leave, EngineTypes
  <2> QED BY <1>12, <2>1, <2>2 DEF Leave
<1> QED BY <1>1, <1>2, <1>3, <1>4, <1>5, <1>6, <1>7, <1>8, <1>9, <1>10, <1>11, <1>12
        DEF WorkerStep

LEMMA StageTyped == \A s \in Stages : Shape /\ StageStep(s) => TypeOK'
<1> SUFFICES ASSUME NEW s \in Stages, Shape, StageStep(s) PROVE TypeOK' OBVIOUS
<1> USE TypeFrame, ConstantFacts DEF Shape, TypeOK
<1>1. CASE StagePop(s)
  <2>1. stageQueue[s] \in Seq(Ids) /\ stageQueue[s] # <<>> BY <1>1 DEF StagePop, StageTypes
  <2>2. Head(stageQueue[s]) \in Ids /\ Tail(stageQueue[s]) \in Seq(Ids)
        /\ Len(Tail(stageQueue[s])) = Len(stageQueue[s]) - 1
        /\ Len(stageQueue[s]) \in Nat
    BY <2>1, PopFront, LenProperties
  <2>3. StageTypes' BY <1>1, <2>2, EngineAssumption DEF StagePop, StageTypes
  <2>4. ThreadTypes' BY <1>1, <2>2 DEF StagePop, ThreadTypes
  <2> QED BY <1>1, <2>3, <2>4 DEF StagePop
<1>2. CASE StageExit(s)
  <2>1. ThreadTypes' BY <1>2 DEF StageExit, ThreadTypes
  <2> QED BY <1>2, <2>1 DEF StageExit
<1>3. CASE StageServe(s)
  <2>1. hand[s] \in Ids BY <1>3 DEF StageServe, Posture, ThreadTypes
  <2>2. HistoryTypes' BY <1>3, <2>1, PushBack DEF StageServe, HistoryTypes
  <2>3. ThreadTypes' BY <1>3 DEF StageServe, ThreadTypes
  <2> QED BY <1>3, <2>2, <2>3 DEF StageServe
<1>4. CASE StageComplete(s)
  <2>1. hand[s] \in Ids BY <1>4 DEF StageComplete, Posture, ThreadTypes
  <2>2. ThreadTypes' /\ StageTypes' BY <1>4, <2>1, CompleteTyped DEF StageComplete
  <2> QED BY <1>4, <2>2 DEF StageComplete
<1>5. CASE Record(s)
  <2>1. ThreadTypes' BY <1>5 DEF Record, ThreadTypes
  <2>2. HistoryTypes'
    <3>1. hand[s] \in Ids BY <1>5 DEF Record, Posture, ThreadTypes
    <3> QED BY <1>5, <3>1, RecordTyped DEF Record
  <2> QED BY <1>5, <2>1, <2>2 DEF Record
<1>6. CASE Leave(s)
  <2>1. ThreadTypes' BY <1>6 DEF Leave, ThreadTypes
  <2>2. EngineTypes' BY <1>6 DEF Leave, EngineTypes
  <2> QED BY <1>6, <2>1, <2>2 DEF Leave
<1>7. CASE StageDrop(s)
  <2>1. PoolTypes' BY <1>7, ReleaseTypes DEF StageDrop, PoolTypes
  <2>2. ThreadTypes' BY <1>7 DEF StageDrop, ThreadTypes
  <2> QED BY <1>7, <2>1, <2>2 DEF StageDrop
<1> QED BY <1>1, <1>2, <1>3, <1>4, <1>5, <1>6, <1>7 DEF StageStep

LEMMA EmptyQueueTyped ==
  ASSUME PoolTypes, QueueTypes, EmptyQueue
  PROVE  PoolTypes' /\ queue' \in Seq(Ids) /\ Len(queue') = 0
BY ReleaseTypes, EmptySeq, LenProperties DEF EmptyQueue, PoolTypes

ControlStep ==
  \/ Start \/ Clear \/ StopBegin \/ StopStep \/ FlushBegin \/ FlushStep
  \/ \E value \in BOOLEAN : SetAccepting(value)

LEMMA ControlTyped == Shape /\ ControlStep => TypeOK'
<1> SUFFICES ASSUME Shape, ControlStep PROVE TypeOK' OBVIOUS
<1> USE TypeFrame, ConstantFacts DEF Shape, TypeOK
<1>1. CASE Start
  <2>1. /\ closed' \in BOOLEAN /\ accepting' \in BOOLEAN /\ processing' \in BOOLEAN
        /\ stageStop' \in BOOLEAN /\ running' \in BOOLEAN
    BY <1>1, EngineAssumption, Zenon DEF Start
  <2>2. PoolTypes' /\ queue' \in Seq(Ids) /\ Len(queue') = 0
    BY <1>1, EmptyQueueTyped DEF Start
  <2>3. QueueTypes'
    BY <1>1, <2>1, <2>2, EmptySeq, EngineAssumption DEF Start, QueueTypes
  <2>4. GateTypes' /\ EngineTypes'
    BY <1>1, <2>1 DEF Start, GateTypes, EngineTypes
  <2>5. stageQueue' \in [Stages -> Seq(Ids)]
        /\ \A s \in Stages : Len(stageQueue'[s]) <= StageCapacity
    BY <1>1, EmptySeq, EngineAssumption DEF Start
  <2>6. StageTypes' BY <1>1, <2>1, <2>5 DEF Start, StageTypes
  <2>7. ThreadTypes' BY <1>1 DEF Start, ThreadTypes
  <2>8. ControlTypes' BY <1>1 DEF Start, ControlTypes
  <2> QED BY <1>1, <2>2, <2>3, <2>4, <2>6, <2>7, <2>8 DEF Start
<1>2. CASE Clear
  <2>1. PoolTypes' /\ queue' \in Seq(Ids) /\ Len(queue') = 0
    BY <1>2, EmptyQueueTyped DEF Clear
  <2>2. QueueTypes' BY <1>2, <2>1, EngineAssumption DEF Clear, QueueTypes
  <2>3. ToSet(queue) \subseteq Ids BY Members DEF QueueTypes
  <2>4. HistoryTypes' BY <1>2, <2>3 DEF Clear, HistoryTypes
  <2> QED BY <1>2, <2>1, <2>2, <2>4 DEF Clear
<1>3. CASE StopBegin
  <2>1. closed' \in BOOLEAN /\ accepting' \in BOOLEAN BY <1>3, Zenon DEF StopBegin
  <2>2. QueueTypes' /\ GateTypes' BY <1>3, <2>1 DEF StopBegin, QueueTypes, GateTypes
  <2>3. ControlTypes' BY <1>3 DEF StopBegin, ControlTypes
  <2> QED BY <1>3, <2>2, <2>3 DEF StopBegin
<1>4. CASE StopStages
  <2>1. stageStop' \in BOOLEAN BY <1>4, Zenon DEF StopStages
  <2>2. StageTypes' BY <1>4, <2>1 DEF StopStages, StageTypes
  <2>3. ControlTypes' BY <1>4 DEF StopStages, ControlTypes
  <2> QED BY <1>4, <2>2, <2>3 DEF StopStages
<1>5. CASE StopEnd
  <2>1. processing' \in BOOLEAN /\ running' \in BOOLEAN BY <1>5, Zenon DEF StopEnd
  <2>2. PoolTypes' /\ queue' \in Seq(Ids) /\ Len(queue') = 0
    BY <1>5, EmptyQueueTyped DEF StopEnd
  <2>3. QueueTypes' BY <1>5, <2>2, EngineAssumption DEF StopEnd, QueueTypes
  <2>4. GateTypes' /\ EngineTypes' BY <1>5, <2>1 DEF StopEnd, GateTypes, EngineTypes
  <2>5. ControlTypes' BY <1>5 DEF StopEnd, ControlTypes
  <2> QED BY <1>5, <2>2, <2>3, <2>4, <2>5 DEF StopEnd
<1>6. CASE FlushBegin
  <2>1. Len(accepted) \in Nat BY LenProperties DEF QueueTypes
  <2>2. ControlTypes' BY <1>6, <2>1 DEF FlushBegin, ControlTypes
  <2> QED BY <1>6, <2>2 DEF FlushBegin
<1>7. CASE FlushStep
  <2>1. PICK place \in {"ready", "flushing", "probed", "flushed", "timedOut"} : FlushGoesTo(place)
    BY <1>7 DEF FlushStep, FlushProbe, FlushSucceed, FlushWaitAgain, FlushTimeout, FlushReturn
  <2>2. ControlTypes' BY <2>1 DEF FlushGoesTo, ControlTypes
  <2> QED BY <2>1, <2>2 DEF FlushGoesTo
<1>8. ASSUME NEW value \in BOOLEAN, SetAccepting(value) PROVE TypeOK'
  <2>1. accepting' \in BOOLEAN BY <1>8, Zenon DEF SetAccepting
  <2>2. GateTypes' BY <1>8, <2>1 DEF SetAccepting, GateTypes
  <2> QED BY <1>8, <2>2 DEF SetAccepting
<1> QED BY <1>1, <1>2, <1>3, <1>4, <1>5, <1>6, <1>7, <1>8 DEF ControlStep, StopStep

-----------------------------------------------------------------------------
LEMMA IngestPosture == Shape /\ (IngestBegin \/ IngestStep) => Posture'
<1> SUFFICES ASSUME Shape, IngestBegin \/ IngestStep PROVE Posture' OBVIOUS
<1> USE ConstantFacts DEF Shape, poolVars, queueVars, ingestVars, gateVars, threadVars,
        workerVars, engineVars, stageVars, historyVars, controlVars
<1>1. CASE IngestBegin
  BY <1>1 DEF Posture, IngestBegin
<1>2. CASE IngestExhausted
  BY <1>2 DEF Posture, IngestExhausted
<1>3. CASE IngestAcquire
  BY <1>3 DEF Posture, IngestAcquire
<1>4. CASE IngestRefused
  BY <1>4 DEF Posture, IngestRefused
<1>5. CASE IngestPush
  BY <1>5 DEF Posture, IngestPush
<1> QED BY <1>1, <1>2, <1>3, <1>4, <1>5 DEF IngestStep

LEMMA WorkerPosture == Shape /\ WorkerStep => Posture'
<1> SUFFICES ASSUME Shape, WorkerStep PROVE Posture' OBVIOUS
<1> USE ConstantFacts DEF Shape, Posture, WorkerPlaces, ThreadTypes,
        poolVars, queueVars, ingestVars, gateVars, threadVars,
        workerVars, engineVars, stageVars, historyVars, controlVars
<1>0. ThreadTypes /\ QueueTypes /\ WorkerTypes /\ StageTypes BY DEF TypeOK
<1>1. CASE WorkerPop
  <2>1. Head(queue) \in Ids BY <1>0, <1>1, PopFront DEF WorkerPop, QueueTypes
  <2> QED BY <1>0, <1>1, <2>1 DEF WorkerPop
<1>2. CASE WorkerExit
  BY <1>0, <1>2 DEF WorkerExit
<1>3. CASE WorkerMark
  BY <1>0, <1>3 DEF WorkerMark
<1>4. CASE SubmitRefused
  BY <1>0, <1>4 DEF SubmitRefused
<1>5. CASE Submit
  <2>1. \A s \in Stages : pc[s] # "exited"
    BY <1>5 DEF Submit, CannotSubmit
  <2> QED BY <1>0, <1>5, <2>1 DEF Submit
<1>6. CASE WorkerSkip
  <2>1. PICK job \in skipTodo : Complete(Worker, job[2], "skip")
    BY <1>6 DEF WorkerSkip
  <2>2. job[2] \in Ids BY <1>0, <2>1 DEF WorkerTypes
  <2>3. /\ pc'[Worker] \in {"skip", "record"}
        /\ pc'[Worker] = "record" => hand'[Worker] \in Ids
        /\ \A s \in Stages : pc'[s] = pc[s] /\ hand'[s] = hand[s]
    BY <1>0, <2>1, <2>2 DEF Complete
  <2> QED BY <1>0, <1>6, <2>3 DEF WorkerSkip
<1>7. CASE WorkerSerial
  BY <1>0, <1>7 DEF WorkerSerial
<1>8. CASE WorkerSerialRecord
  BY <1>0, <1>8 DEF WorkerSerialRecord
<1>9. CASE WorkerUnwind
  BY <1>0, <1>9 DEF WorkerUnwind
<1>10. CASE WorkerFinish
  BY <1>0, <1>10 DEF WorkerFinish
<1>11. CASE Record(Worker)
  BY <1>0, <1>11 DEF Record
<1>12. CASE Leave(Worker)
  BY <1>0, <1>12 DEF Leave
<1> QED BY <1>1, <1>2, <1>3, <1>4, <1>5, <1>6, <1>7, <1>8, <1>9, <1>10, <1>11, <1>12
        DEF WorkerStep

LEMMA StagePosture == \A s \in Stages : Shape /\ StageStep(s) => Posture'
<1> SUFFICES ASSUME NEW s \in Stages, Shape, StageStep(s) PROVE Posture' OBVIOUS
<1> USE ConstantFacts DEF Shape, Posture, StagePlaces, ThreadTypes,
        poolVars, queueVars, ingestVars, gateVars, threadVars,
        workerVars, engineVars, stageVars, historyVars, controlVars
<1>0. ThreadTypes /\ StageTypes BY DEF TypeOK
<1>1. CASE StagePop(s)
  <2>1. Head(stageQueue[s]) \in Ids
    BY <1>0, <1>1, PopFront DEF StagePop, StageTypes
  <2> QED BY <1>0, <1>1, <2>1 DEF StagePop, StageTypes
<1>2. CASE StageExit(s)
  BY <1>0, <1>2 DEF StageExit
<1>3. CASE StageServe(s)
  BY <1>0, <1>3 DEF StageServe
<1>4. CASE StageComplete(s)
  <2>1. hand[s] \in Ids BY <1>0, <1>4 DEF StageComplete
  <2>2. /\ pc'[s] \in {"drop", "record"} /\ hand' = hand
        /\ \A t \in Threads \ {s} : pc'[t] = pc[t]
    BY <1>0, <1>4 DEF StageComplete, Complete
  <2> QED BY <1>0, <1>4, <2>1, <2>2 DEF StageComplete
<1>5. CASE Record(s)
  BY <1>0, <1>5 DEF Record
<1>6. CASE Leave(s)
  BY <1>0, <1>6 DEF Leave
<1>7. CASE StageDrop(s)
  BY <1>0, <1>7 DEF StageDrop
<1> QED BY <1>1, <1>2, <1>3, <1>4, <1>5, <1>6, <1>7 DEF StageStep

LEMMA ControlPosture == Shape /\ ControlStep => Posture'
<1> SUFFICES ASSUME Shape, ControlStep PROVE Posture' OBVIOUS
<1> USE ConstantFacts DEF Shape, Posture, WorkerPlaces, StagePlaces, ThreadTypes,
        poolVars, queueVars, ingestVars, gateVars, threadVars,
        workerVars, engineVars, stageVars, historyVars, controlVars
<1>0. ThreadTypes /\ StageTypes /\ ControlTypes BY DEF TypeOK
<1>1. CASE Start
  BY <1>0, <1>1 DEF Start
<1>2. CASE Clear
  BY <1>0, <1>2 DEF Clear
<1>3. CASE StopBegin
  BY <1>0, <1>3 DEF StopBegin
<1>4. CASE StopStages
  BY <1>0, <1>4 DEF StopStages
<1>5. CASE StopEnd
  BY <1>0, <1>5 DEF StopEnd
<1>6. CASE FlushBegin
  BY <1>0, <1>6 DEF FlushBegin
<1>7. CASE FlushStep
  <2>1. PICK place \in {"ready", "flushing", "probed", "flushed", "timedOut"} :
          FlushGoesTo(place) /\ control # "stopped"
    BY <1>7 DEF FlushStep, FlushProbe, FlushSucceed, FlushWaitAgain, FlushTimeout, FlushReturn
  <2> QED BY <1>0, <2>1 DEF FlushGoesTo
<1>8. ASSUME NEW value \in BOOLEAN, SetAccepting(value) PROVE Posture'
  BY <1>0, <1>8 DEF SetAccepting
<1> QED BY <1>1, <1>2, <1>3, <1>4, <1>5, <1>6, <1>7, <1>8 DEF ControlStep, StopStep

LEMMA NextSteps ==
  Next <=> \/ IngestBegin \/ IngestStep \/ WorkerStep \/ ControlStep
           \/ \E s \in Stages : StageStep(s)
BY DEF Next, ControlStep

LEMMA NextShape == Shape /\ [Next]_vars => Shape'
<1> SUFFICES ASSUME Shape, [Next]_vars PROVE Shape' OBVIOUS
<1>1. CASE UNCHANGED vars
  <2>1. TypeOK' BY <1>1, TypeFrame DEF Shape, TypeOK, vars
  <2>2. Posture'
    BY <1>1 DEF Shape, Posture, vars, ingestVars, threadVars, workerVars, stageVars, controlVars
  <2> QED BY <2>1, <2>2 DEF Shape
<1>2. CASE Next
  BY <1>2, NextSteps, IngestTyped, WorkerTyped, StageTyped, ControlTyped,
     IngestPosture, WorkerPosture, StagePosture, ControlPosture DEF Shape
<1> QED BY <1>1, <1>2

THEOREM ShapeInvariant == Spec => []Shape
BY InitShape, NextShape, PTL DEF Spec

\* Every variable keeps its type, and the input queue and each stage queue stay
\* within their capacities, for every choice of policies and capacities.
THEOREM TypeCorrect == Spec => []TypeOK
BY ShapeInvariant, PTL DEF Shape

-----------------------------------------------------------------------------
(* The pool accounting.  The invariant that carries it says that the         *)
(* reference counts are the places that refer to a block (Ownership), and    *)
(* that no place refers to a block in a way that would make one move drop    *)
(* two references (Uniqueness).                                              *)

Ownership ==
  \A b \in Ids : /\ Worker \in owners[b] <=> WorkerHolds(b)
                 /\ \A s \in Stages : s \in owners[b] <=> StageHolds(s, b)

HasCurrent(b) == b = current /\ pc[Worker] # "finish"

\* Not yet handed to the stages.
Unshared(b) ==
  \/ b = ingestBlock \/ b \in ToSet(queue)
  \/ b = current /\ pc[Worker] \in {"popped", "submit"}

Uniqueness ==
  /\ \A b \in Ids : b >= nextId => ~WorkerHolds(b) /\ \A s \in Stages : ~StageHolds(s, b)
  /\ \A b \in Ids : Unshared(b) => \A s \in Stages : ~StageHolds(s, b)
  /\ IsInjective(queue)
  /\ \A b \in ToSet(queue) : b # ingestBlock /\ ~HasCurrent(b)
  /\ \A b \in Ids : ~(b = ingestBlock /\ HasCurrent(b))
  /\ \A s \in Stages :
       /\ IsInjective(stageQueue[s])
       /\ hand[s] \notin ToSet(stageQueue[s])
       /\ \A b \in Ids : <<s, b>> \in skipped => b \notin ToSet(stageQueue[s]) /\ b # hand[s]

PoolCount == available + Cardinality(Live) = PoolSize

Conserved == Ownership /\ Uniqueness /\ PoolCount

\* Dropping references returns exactly the blocks that lose their last one.
LEMMA ReleaseCounts ==
  ASSUME PoolTypes, PoolCount, NEW kept \in [Ids -> SUBSET Threads],
         \A b \in Ids : kept[b] \subseteq owners[b], ReleaseTo(kept)
  PROVE  PoolCount'
<1> DEFINE gone == {b \in Live : kept[b] = {}}
<1>1. Live \in SUBSET Ids /\ gone \in SUBSET Ids /\ gone \subseteq Live
  BY DEF Live
<1>2. Live' = Live \ gone
  BY DEF Live, ReleaseTo
<1>3. Cardinality(Live \ gone) = Cardinality(Live) - Cardinality(Live \intersect gone)
  BY <1>1, ConstantFacts, FS_Difference
<1>4. Live \intersect gone = gone
  BY <1>1
<1>5. Cardinality(Live) \in Nat /\ Cardinality(gone) \in Nat
  BY <1>1, ConstantFacts
<1>6. available' = available + Cardinality(gone)
  BY DEF ReleaseTo
<1> HIDE DEF gone
<1>7. Cardinality(Live') = Cardinality(Live) - Cardinality(gone)
  BY <1>2, <1>3, <1>4
<1>8. available \in Nat /\ available + Cardinality(Live) = PoolSize
  BY DEF PoolCount, PoolTypes
<1>9. available' + Cardinality(Live') = PoolSize
  BY <1>5, <1>6, <1>7, <1>8
<1> QED BY <1>9 DEF PoolCount

\* A step that moves no block keeps the invariant.
LEMMA ConservedFrame ==
  ASSUME Conserved, Shape, Shape',
         UNCHANGED <<poolVars, queue, nextId, ingestBlock, current, skipped, stageQueue>>,
         \A s \in Stages : hand'[s] = hand[s],
         pc'[Worker] = "finish" <=> pc[Worker] = "finish",
         pc'[Worker] \in {"popped", "submit"} => pc[Worker] \in {"popped", "submit"}
  PROVE  Conserved'
<1>1. PoolCount'
  BY DEF Conserved, PoolCount, Live, poolVars
<1>2. \A b \in Ids : /\ WorkerHolds(b)' <=> WorkerHolds(b)
                     /\ HasCurrent(b)' <=> HasCurrent(b)
                     /\ Unshared(b)' => Unshared(b)
                     /\ \A s \in Stages : StageHolds(s, b)' <=> StageHolds(s, b)
  BY DEF WorkerHolds, HasCurrent, Unshared, StageHolds
<1>3. Ownership'
  BY <1>2 DEF Conserved, Ownership, poolVars
<1>4. ToSet(queue) \subseteq Ids /\ queue' = queue
  BY Members DEF Shape, TypeOK, QueueTypes
<1>5. Uniqueness'
  BY <1>2, <1>4 DEF Conserved, Uniqueness
<1> QED BY <1>1, <1>3, <1>5 DEF Conserved

LEMMA InitConserved == Init => Conserved
<1> SUFFICES ASSUME Init PROVE Conserved OBVIOUS
<1> USE ConstantFacts, EmptyQueueFacts
<1>1. \A b \in Ids : /\ ~WorkerHolds(b) /\ ~Unshared(b) /\ owners[b] = {}
                     /\ \A s \in Stages : ~StageHolds(s, b)
  BY DEF Init, WorkerHolds, Unshared, StageHolds
<1>2. Ownership
  BY <1>1 DEF Ownership
<1>3. Uniqueness
  BY <1>1 DEF Init, Uniqueness, WorkerHolds, HasCurrent
<1>4. Live = {} /\ available = PoolSize
  BY <1>1 DEF Init, Live
<1>5. PoolCount
  BY <1>4, FS_EmptySet, EngineAssumption DEF PoolCount
<1> QED BY <1>2, <1>3, <1>5 DEF Conserved

LEMMA IngestConserved ==
  Conserved /\ Shape /\ Shape' /\ (IngestBegin \/ IngestStep) => Conserved'
<1> SUFFICES ASSUME Conserved, Shape, Shape', IngestBegin \/ IngestStep PROVE Conserved'
  OBVIOUS
<1> USE ConstantFacts
<1>0. /\ PoolTypes /\ QueueTypes /\ ToSet(queue) \subseteq Ids
      /\ PoolTypes' /\ current \in Ids \union {None} /\ StageTypes
  BY Members DEF Shape, TypeOK, QueueTypes, WorkerTypes
<1>1. CASE IngestBegin
  BY <1>1, ConservedFrame DEF IngestBegin, threadVars, workerVars, stageVars, queueVars
<1>2. CASE IngestExhausted
  BY <1>2, ConservedFrame DEF IngestExhausted, threadVars, workerVars, stageVars, queueVars
<1>3. CASE IngestAcquire
  <2>1. nextId \in Ids /\ ingestBlock = None /\ ingestBlock' = nextId /\ nextId' = nextId + 1
    BY <1>3 DEF IngestAcquire, Shape, Posture
  <2>2. /\ queue' = queue /\ current' = current /\ pc' = pc /\ hand' = hand
        /\ stageQueue' = stageQueue /\ skipped' = skipped
    BY <1>3 DEF IngestAcquire, queueVars, threadVars, workerVars, stageVars
  <2>3. /\ ~WorkerHolds(nextId) /\ \A s \in Stages : ~StageHolds(s, nextId)
        /\ owners[nextId] = {}
    <3>1. nextId >= nextId BY <2>1
    <3>2. ~WorkerHolds(nextId) /\ \A s \in Stages : ~StageHolds(s, nextId)
      BY <2>1, <3>1 DEF Conserved, Uniqueness
    <3>3. owners[nextId] \subseteq Stages \union {Worker} BY <2>1, <1>0 DEF PoolTypes
    <3>4. \A t \in Stages \union {Worker} : t \notin owners[nextId]
      BY <2>1, <3>2 DEF Conserved, Ownership
    <3> QED BY <3>2, <3>3, <3>4
  <2>4. owners' = [owners EXCEPT ![nextId] = {Worker}] /\ available' = available - 1
    BY <1>3 DEF IngestAcquire
  <2>5. \A b \in Ids : /\ WorkerHolds(b)' <=> WorkerHolds(b) \/ b = nextId
                       /\ HasCurrent(b)' <=> HasCurrent(b)
                       /\ Unshared(b)' <=> Unshared(b) \/ b = nextId
                       /\ \A s \in Stages : StageHolds(s, b)' <=> StageHolds(s, b)
    BY <2>1, <2>2 DEF WorkerHolds, HasCurrent, Unshared, StageHolds
  <2>6. Ownership'
    BY <2>1, <2>3, <2>4, <2>5, <1>0 DEF Conserved, Ownership, PoolTypes
  <2>7. nextId \notin ToSet(queue) /\ ~HasCurrent(nextId)
    BY <2>3 DEF WorkerHolds, HasCurrent
  <2>8. Uniqueness'
    <3>1. \A b \in Ids : b >= nextId' => ~WorkerHolds(b)' /\ \A s \in Stages : ~StageHolds(s, b)'
      BY <2>1, <2>5 DEF Conserved, Uniqueness
    <3>2. \A b \in Ids : Unshared(b)' => \A s \in Stages : ~StageHolds(s, b)'
      BY <2>3, <2>5 DEF Conserved, Uniqueness
    <3>3. /\ \A b \in ToSet(queue') : b # ingestBlock' /\ ~HasCurrent(b)'
          /\ \A b \in Ids : ~(b = ingestBlock' /\ HasCurrent(b)')
      BY <2>1, <2>2, <2>5, <2>7, <1>0 DEF Conserved, Uniqueness
    <3> QED BY <3>1, <3>2, <3>3, <2>2 DEF Conserved, Uniqueness
  <2>9. PoolCount'
    <3>1. Live' = Live \union {nextId} /\ nextId \notin Live
      BY <2>1, <2>3, <2>4, <1>0 DEF Live, PoolTypes
    <3>2. Live \in SUBSET Ids BY DEF Live
    <3>3. Cardinality(Live') = Cardinality(Live) + 1 /\ Cardinality(Live) \in Nat
      BY <3>1, <3>2, FS_AddElement
    <3> QED BY <3>3, <2>4, <1>0, EngineAssumption DEF Conserved, PoolCount, PoolTypes
  <2> QED BY <2>6, <2>8, <2>9 DEF Conserved
<1>4. CASE IngestRefused
  <2>1. ingestBlock \in Ids /\ ingestBlock' = None
    BY <1>4 DEF IngestRefused, Shape, Posture
  <2>2. /\ queue' = queue /\ current' = current /\ pc' = pc /\ hand' = hand
        /\ stageQueue' = stageQueue /\ skipped' = skipped /\ nextId' = nextId
    BY <1>4 DEF IngestRefused, queueVars, threadVars, workerVars, stageVars
  <2>3. \A s \in Stages : ~StageHolds(s, ingestBlock)
    BY <2>1 DEF Conserved, Uniqueness, Unshared
  <2>4. owners' = [owners EXCEPT ![ingestBlock] = {}]
    BY <1>4 DEF IngestRefused, ReleaseTo
  <2>5. ingestBlock \notin ToSet(queue) /\ ~HasCurrent(ingestBlock)
    BY <2>1, <1>0 DEF Conserved, Uniqueness
  <2>6. \A b \in Ids : /\ WorkerHolds(b)' <=> WorkerHolds(b) /\ b # ingestBlock
                       /\ HasCurrent(b)' <=> HasCurrent(b)
                       /\ Unshared(b)' => Unshared(b)
                       /\ \A s \in Stages : StageHolds(s, b)' <=> StageHolds(s, b)
    BY <2>1, <2>2, <2>5 DEF WorkerHolds, HasCurrent, Unshared, StageHolds
  <2>7. Ownership'
    BY <2>1, <2>3, <2>4, <2>6, <1>0 DEF Conserved, Ownership, PoolTypes
  <2>8. Uniqueness'
    BY <2>1, <2>2, <2>6, <1>0 DEF Conserved, Uniqueness
  <2>9. PoolCount'
    <3>1. [owners EXCEPT ![ingestBlock] = {}] \in [Ids -> SUBSET Threads]
          /\ \A b \in Ids : [owners EXCEPT ![ingestBlock] = {}][b] \subseteq owners[b]
      BY <1>0, <2>1 DEF PoolTypes
    <3> QED BY <3>1, <1>0, <1>4, ReleaseCounts DEF Conserved, IngestRefused
  <2> QED BY <2>7, <2>8, <2>9 DEF Conserved
<1>5. CASE IngestPush
  <2>1. ingestBlock \in Ids /\ ingestBlock' = None /\ nextId' = nextId
    BY <1>5 DEF IngestPush, Shape, Posture
  <2>2. /\ current' = current /\ pc' = pc /\ hand' = hand
        /\ stageQueue' = stageQueue /\ skipped' = skipped /\ UNCHANGED poolVars
    BY <1>5 DEF IngestPush, threadVars, workerVars, stageVars
  <2>3. ingestBlock \notin ToSet(queue) /\ ~HasCurrent(ingestBlock)
    BY <2>1, <1>0 DEF Conserved, Uniqueness
  <2>4. /\ ToSet(queue') = ToSet(queue) \union {ingestBlock}
        /\ IsInjective(queue')
    BY <1>5, <2>1, <2>3, <1>0, PushBack DEF IngestPush, QueueTypes, Conserved, Uniqueness
  <2>5. \A b \in Ids : /\ WorkerHolds(b)' <=> WorkerHolds(b)
                       /\ HasCurrent(b)' <=> HasCurrent(b)
                       /\ Unshared(b)' <=> Unshared(b)
                       /\ \A s \in Stages : StageHolds(s, b)' <=> StageHolds(s, b)
    BY <2>1, <2>2, <2>4 DEF WorkerHolds, HasCurrent, Unshared, StageHolds
  <2>6. Ownership'
    BY <2>2, <2>5 DEF Conserved, Ownership, poolVars
  <2>7. Uniqueness'
    BY <2>1, <2>2, <2>3, <2>4, <2>5, <1>0 DEF Conserved, Uniqueness
  <2>8. PoolCount'
    BY <2>2 DEF Conserved, PoolCount, Live, poolVars
  <2> QED BY <2>6, <2>7, <2>8 DEF Conserved
<1> QED BY <1>1, <1>2, <1>3, <1>4, <1>5 DEF IngestStep

LEMMA WorkerPopConserved == Conserved /\ Shape /\ Shape' /\ WorkerPop => Conserved'
<1> SUFFICES ASSUME Conserved, Shape, Shape', WorkerPop PROVE Conserved' OBVIOUS
<1> USE ConstantFacts
<1>1. /\ QueueTypes /\ ThreadTypes /\ ToSet(queue) \subseteq Ids /\ current = None
      /\ pc[Worker] = "pop" /\ pc'[Worker] = "popped"
  BY Members DEF Shape, Posture, TypeOK, QueueTypes, ThreadTypes, WorkerPop
<1>2. /\ hand' = hand /\ stageQueue' = stageQueue /\ skipped' = skipped
      /\ nextId' = nextId /\ ingestBlock' = ingestBlock /\ UNCHANGED poolVars
  BY DEF WorkerPop, ingestVars, stageVars
<1>3. /\ current' \in Ids /\ ToSet(queue) = {current'} \union ToSet(queue')
      /\ current' \notin ToSet(queue') /\ IsInjective(queue')
  BY <1>1, PopFront DEF WorkerPop, QueueTypes, Conserved, Uniqueness
<1>4. \A b \in Ids : /\ WorkerHolds(b)' <=> WorkerHolds(b)
                     /\ HasCurrent(b)' <=> b = current'
                     /\ Unshared(b)' <=> Unshared(b)
                     /\ \A s \in Stages : StageHolds(s, b)' <=> StageHolds(s, b)
  BY <1>1, <1>2, <1>3 DEF WorkerHolds, HasCurrent, Unshared, StageHolds
<1>5. Ownership'
  BY <1>2, <1>4 DEF Conserved, Ownership, poolVars
<1>6. current' # ingestBlock
  BY <1>3, <1>1 DEF Conserved, Uniqueness
<1>7. Uniqueness'
  <2>1. \A b \in Ids : b >= nextId' => ~WorkerHolds(b)' /\ \A s \in Stages : ~StageHolds(s, b)'
    BY <1>2, <1>4 DEF Conserved, Uniqueness
  <2>2. \A b \in Ids : Unshared(b)' => \A s \in Stages : ~StageHolds(s, b)'
    BY <1>4 DEF Conserved, Uniqueness
  <2>3. \A b \in ToSet(queue') : b # ingestBlock' /\ ~HasCurrent(b)'
    <3>1. \A b \in ToSet(queue') : b \in ToSet(queue) /\ b \in Ids /\ b # current'
      BY <1>1, <1>3
    <3>2. \A b \in ToSet(queue) : b # ingestBlock BY DEF Conserved, Uniqueness
    <3> QED BY <1>2, <1>4, <3>1, <3>2
  <2>4. \A b \in Ids : ~(b = ingestBlock' /\ HasCurrent(b)')
    BY <1>2, <1>4, <1>6
  <2> QED BY <1>2, <1>3, <2>1, <2>2, <2>3, <2>4 DEF Conserved, Uniqueness
<1>8. PoolCount'
  BY <1>2 DEF Conserved, PoolCount, Live, poolVars
<1> QED BY <1>5, <1>7, <1>8 DEF Conserved

\* The jobs a submission removes from the queue of a stage are its oldest ones.
LEMMA SubmitCut ==
  ASSUME Shape, Submit
  PROVE  \E cut \in [Stages -> Nat] : \A s \in Stages :
           /\ cut[s] \in 0..Len(stageQueue[s]) /\ Removes(s, cut[s])
           /\ stageQueue'[s] =
                Append(SubSeq(stageQueue[s], cut[s] + 1, Len(stageQueue[s])), current)
           /\ \A b \in Ids :
                <<s, b>> \in skipped' <=> \E i \in 1..cut[s] : stageQueue[s][i] = b
<1>1. PICK cut \in [Stages -> 0..StageCapacity] :
        /\ \A s \in Stages : Removes(s, cut[s])
        /\ stageQueue' = [s \in Stages |->
             Append(SubSeq(stageQueue[s], cut[s] + 1, Len(stageQueue[s])), current)]
        /\ skipped' = {job \in Stages \X Ids :
                         \E i \in 1..cut[job[1]] : stageQueue[job[1]][i] = job[2]}
  BY DEF Submit
<1>2. ASSUME NEW s \in Stages
      PROVE  /\ cut[s] \in 0..Len(stageQueue[s]) /\ cut[s] \in Nat
             /\ \A b \in Ids :
                  <<s, b>> \in skipped' <=> \E i \in 1..cut[s] : stageQueue[s][i] = b
  <2>1. Len(stageQueue[s]) \in Nat
    BY LenProperties DEF Shape, TypeOK, StageTypes
  <2>2. cut[s] \in 0..Len(stageQueue[s])
    BY <1>1, <2>1, EngineAssumption DEF Removes, Policies
  <2>3. \A b \in Ids : <<s, b>> \in skipped' <=> \E i \in 1..cut[s] : stageQueue[s][i] = b
    BY <1>1
  <2> QED BY <2>1, <2>2, <2>3
<1>3. cut \in [Stages -> Nat] BY <1>2
<1> WITNESS cut \in [Stages -> Nat]
<1> QED BY <1>1, <1>2

\* What the submission does to the queues of the stages.
LEMMA SubmittedQueues ==
  ASSUME Shape, Uniqueness, Submit
  PROVE  \A s \in Stages :
           /\ IsInjective(stageQueue'[s]) /\ hand[s] \notin ToSet(stageQueue'[s])
           /\ \A b \in Ids : <<s, b>> \in skipped' =>
                b \in ToSet(stageQueue[s]) /\ b \notin ToSet(stageQueue'[s])
           /\ \A b \in Ids : (b \in ToSet(stageQueue'[s]) \/ <<s, b>> \in skipped') <=>
                (b \in ToSet(stageQueue[s]) \/ b = current)
<1> SUFFICES ASSUME NEW s \in Stages
    PROVE  /\ IsInjective(stageQueue'[s]) /\ hand[s] \notin ToSet(stageQueue'[s])
           /\ \A b \in Ids : <<s, b>> \in skipped' =>
                b \in ToSet(stageQueue[s]) /\ b \notin ToSet(stageQueue'[s])
           /\ \A b \in Ids : (b \in ToSet(stageQueue'[s]) \/ <<s, b>> \in skipped') <=>
                (b \in ToSet(stageQueue[s]) \/ b = current)
  OBVIOUS
<1> USE ConstantFacts
<1>1. PICK cut \in [Stages -> Nat] :
        /\ cut[s] \in 0..Len(stageQueue[s])
        /\ stageQueue'[s] =
             Append(SubSeq(stageQueue[s], cut[s] + 1, Len(stageQueue[s])), current)
        /\ \A b \in Ids :
             <<s, b>> \in skipped' <=> \E i \in 1..cut[s] : stageQueue[s][i] = b
  BY SubmitCut
<1> DEFINE q == stageQueue[s]
           rest == SubSeq(q, cut[s] + 1, Len(q))
           gone == {q[i] : i \in 1..cut[s]}
<1>2. current \in Ids /\ ~StageHolds(s, current)
  BY DEF Submit, Shape, Posture, TypeOK, WorkerTypes, Uniqueness, Unshared
<1>3. /\ q \in Seq(Ids) /\ IsInjective(q) /\ hand[s] \notin ToSet(q)
      /\ current \notin ToSet(q) /\ current # hand[s]
  BY <1>2 DEF Shape, TypeOK, StageTypes, Uniqueness, StageHolds
<1>4. /\ rest \in Seq(Ids) /\ ToSet(q) = gone \union ToSet(rest)
      /\ gone \intersect ToSet(rest) = {} /\ IsInjective(rest)
  BY <1>1, <1>3, CutFront
<1>5. (\A b \in Ids : <<s, b>> \in skipped' <=> b \in gone) /\ stageQueue'[s] = Append(rest, current)
  BY <1>1
<1> HIDE DEF q, rest, gone
<1>6. /\ ToSet(stageQueue'[s]) = ToSet(rest) \union {current}
      /\ IsInjective(stageQueue'[s])
  BY <1>2, <1>3, <1>4, <1>5, PushBack
<1> QED BY <1>3, <1>4, <1>5, <1>6 DEF q

LEMMA SubmitConserved == Conserved /\ Shape /\ Shape' /\ Submit => Conserved'
<1> SUFFICES ASSUME Conserved, Shape, Shape', Submit PROVE Conserved' OBVIOUS
<1> USE ConstantFacts
<1>1. /\ QueueTypes /\ ThreadTypes /\ StageTypes /\ PoolTypes /\ ToSet(queue) \subseteq Ids
      /\ current \in Ids /\ pc[Worker] = "submit" /\ pc'[Worker] = "skip" /\ skipped = {}
  BY Members DEF Shape, Posture, TypeOK, QueueTypes, ThreadTypes, WorkerTypes, Submit
<1>2. /\ hand' = hand /\ queue' = queue /\ current' = current
      /\ nextId' = nextId /\ ingestBlock' = ingestBlock /\ available' = available
      /\ owners' = [owners EXCEPT ![current] = Threads]
  BY DEF Submit, ingestVars, queueVars
<1>4. /\ \A s \in Stages : ~StageHolds(s, current)
      /\ WorkerHolds(current) /\ HasCurrent(current)
      /\ current \notin ToSet(queue) /\ current # ingestBlock
  BY <1>1 DEF Conserved, Uniqueness, Unshared, WorkerHolds, HasCurrent
<1>5. \A s \in Stages :
        /\ IsInjective(stageQueue'[s]) /\ hand[s] \notin ToSet(stageQueue'[s])
        /\ \A b \in Ids : <<s, b>> \in skipped' =>
             b \in ToSet(stageQueue[s]) /\ b \notin ToSet(stageQueue'[s])
        /\ \A b \in Ids : (b \in ToSet(stageQueue'[s]) \/ <<s, b>> \in skipped') <=>
             (b \in ToSet(stageQueue[s]) \/ b = current)
  BY SubmittedQueues DEF Conserved
<1>6. \A b \in Ids : /\ WorkerHolds(b)' <=> WorkerHolds(b)
                     /\ HasCurrent(b)' <=> HasCurrent(b)
                     /\ Unshared(b)' <=> Unshared(b) /\ b # current
                     /\ \A s \in Stages : StageHolds(s, b)' <=> StageHolds(s, b) \/ b = current
  BY <1>1, <1>2, <1>4, <1>5 DEF WorkerHolds, HasCurrent, Unshared, StageHolds
<1>7. Ownership'
  BY <1>1, <1>2, <1>4, <1>6 DEF Conserved, Ownership, PoolTypes
<1>8. Uniqueness'
  <2>1. \A b \in Ids : b >= nextId' => ~WorkerHolds(b)' /\ \A s \in Stages : ~StageHolds(s, b)'
    <3>1. ~(current >= nextId) BY <1>1, <1>4 DEF Conserved, Uniqueness
    <3> QED BY <1>1, <1>2, <1>6, <3>1 DEF Conserved, Uniqueness
  <2>2. \A b \in Ids : Unshared(b)' => \A s \in Stages : ~StageHolds(s, b)'
    BY <1>6 DEF Conserved, Uniqueness
  <2>3. \A s \in Stages : \A b \in Ids : <<s, b>> \in skipped' => b # hand'[s]
    BY <1>2, <1>5 DEF Conserved, Uniqueness
  <2> QED BY <1>1, <1>2, <1>5, <1>6, <2>1, <2>2, <2>3 DEF Conserved, Uniqueness
<1>9. PoolCount'
  <2>1. current \in Live /\ owners'[current] # {}
    BY <1>1, <1>2, <1>4 DEF Conserved, Ownership, Live, PoolTypes
  <2>2. Live' = Live BY <2>1, <1>1, <1>2 DEF Live, PoolTypes
  <2> QED BY <2>2, <1>2 DEF Conserved, PoolCount
<1> QED BY <1>7, <1>8, <1>9 DEF Conserved

LEMMA UnwindConserved == Conserved /\ Shape /\ Shape' /\ WorkerUnwind => Conserved'
<1> SUFFICES ASSUME Conserved, Shape, Shape', WorkerUnwind PROVE Conserved' OBVIOUS
<1> USE ConstantFacts
<1> DEFINE kept == [b \in Ids |->
             owners[b] \ ({s \in Stages : <<s, b>> \in skipped}
                            \union IF b = current THEN {Worker} ELSE {})]
<1>1. /\ QueueTypes /\ ThreadTypes /\ PoolTypes /\ ToSet(queue) \subseteq Ids
      /\ pc[Worker] = "skip" /\ pc'[Worker] = "finish" /\ skipped' = {} /\ current \in Ids
  BY Members DEF Shape, Posture, TypeOK, QueueTypes, ThreadTypes, WorkerTypes, WorkerUnwind
<1>2. /\ hand' = hand /\ queue' = queue /\ current' = current /\ stageQueue' = stageQueue
      /\ nextId' = nextId /\ ingestBlock' = ingestBlock
      /\ owners' = kept /\ ReleaseTo(kept)
  BY DEF WorkerUnwind, ReleaseTo, ingestVars, queueVars, stageVars
<1>3. current \notin ToSet(queue) /\ current # ingestBlock
  BY <1>1 DEF Conserved, Uniqueness, HasCurrent
<1>4. \A b \in Ids : /\ WorkerHolds(b)' <=> WorkerHolds(b) /\ b # current
                     /\ ~HasCurrent(b)'
                     /\ Unshared(b)' => Unshared(b)
                     /\ \A s \in Stages : StageHolds(s, b)' <=>
                          StageHolds(s, b) /\ <<s, b>> \notin skipped
  BY <1>1, <1>2, <1>3 DEF WorkerHolds, HasCurrent, Unshared, StageHolds, Conserved, Uniqueness
<1>5. Ownership'
  <2>1. \A b \in Ids : kept[b] = owners[b] \ ({s \in Stages : <<s, b>> \in skipped}
                                      \union IF b = current THEN {Worker} ELSE {})
    OBVIOUS
  <2> HIDE DEF kept
  <2> QED BY <1>2, <1>4, <2>1 DEF Conserved, Ownership
<1>6. Uniqueness'
  BY <1>1, <1>2, <1>4 DEF Conserved, Uniqueness
<1>7. PoolCount'
  <2>1. kept \in [Ids -> SUBSET Threads] /\ \A b \in Ids : kept[b] \subseteq owners[b]
    BY <1>1 DEF PoolTypes
  <2> HIDE DEF kept
  <2> QED BY <1>1, <1>2, <2>1, ReleaseCounts DEF Conserved
<1> QED BY <1>5, <1>6, <1>7 DEF Conserved

LEMMA FinishConserved == Conserved /\ Shape /\ Shape' /\ WorkerFinish => Conserved'
<1> SUFFICES ASSUME Conserved, Shape, Shape', WorkerFinish PROVE Conserved' OBVIOUS
<1> USE ConstantFacts
<1>1. /\ QueueTypes /\ ThreadTypes /\ ToSet(queue) \subseteq Ids
      /\ pc[Worker] = "finish" /\ pc'[Worker] = "pop" /\ current' = None
  BY Members DEF Shape, TypeOK, QueueTypes, ThreadTypes, WorkerFinish
<1>2. /\ hand' = hand /\ queue' = queue /\ stageQueue' = stageQueue /\ skipped' = skipped
      /\ nextId' = nextId /\ ingestBlock' = ingestBlock /\ UNCHANGED poolVars
  BY DEF WorkerFinish, ingestVars, queueVars, stageVars
<1>3. \A b \in Ids : /\ WorkerHolds(b)' <=> WorkerHolds(b)
                     /\ ~HasCurrent(b)'
                     /\ Unshared(b)' => Unshared(b)
                     /\ \A s \in Stages : StageHolds(s, b)' <=> StageHolds(s, b)
  BY <1>1, <1>2 DEF WorkerHolds, HasCurrent, Unshared, StageHolds
<1>4. Ownership'
  BY <1>2, <1>3 DEF Conserved, Ownership, poolVars
<1>5. Uniqueness'
  BY <1>1, <1>2, <1>3 DEF Conserved, Uniqueness
<1>6. PoolCount'
  BY <1>2 DEF Conserved, PoolCount, Live, poolVars
<1> QED BY <1>4, <1>5, <1>6 DEF Conserved

LEMMA WorkerConserved == Conserved /\ Shape /\ Shape' /\ WorkerStep => Conserved'
<1> SUFFICES ASSUME Conserved, Shape, Shape', WorkerStep PROVE Conserved' OBVIOUS
<1> USE ConstantFacts
<1>0. ThreadTypes BY DEF Shape, TypeOK
<1> USE DEF queueVars, ingestVars, workerVars, stageVars, ThreadTypes
<1>1. CASE WorkerExit
  BY <1>0, <1>1, ConservedFrame DEF WorkerExit
<1>2. CASE WorkerMark
  BY <1>0, <1>2, ConservedFrame DEF WorkerMark
<1>3. CASE SubmitRefused
  BY <1>0, <1>3, ConservedFrame DEF SubmitRefused
<1>4. CASE WorkerSkip
  <2>1. PICK job \in skipTodo : Complete(Worker, job[2], "skip")
    BY <1>4 DEF WorkerSkip
  <2>2. /\ pc[Worker] = "skip" /\ pc'[Worker] \in {"skip", "record"}
        /\ \A s \in Stages : hand'[s] = hand[s]
    BY <1>0, <1>4, <2>1 DEF WorkerSkip, Complete
  <2> QED BY <1>4, <2>2, ConservedFrame DEF WorkerSkip
<1>5. CASE WorkerSerial
  BY <1>0, <1>5, ConservedFrame DEF WorkerSerial, threadVars
<1>6. CASE WorkerSerialRecord
  BY <1>0, <1>6, ConservedFrame DEF WorkerSerialRecord
<1>7. CASE Record(Worker)
  BY <1>0, <1>7, ConservedFrame DEF Record
<1>8. CASE Leave(Worker)
  BY <1>0, <1>8, ConservedFrame DEF Leave
<1> QED BY <1>1, <1>2, <1>3, <1>4, <1>5, <1>6, <1>7, <1>8, WorkerPopConserved,
           SubmitConserved, UnwindConserved, FinishConserved DEF WorkerStep

LEMMA StagePopConserved ==
  \A s \in Stages : Conserved /\ Shape /\ Shape' /\ StagePop(s) => Conserved'
<1> SUFFICES ASSUME NEW s \in Stages, Conserved, Shape, Shape', StagePop(s) PROVE Conserved'
  OBVIOUS
<1> USE ConstantFacts
<1>1. /\ QueueTypes /\ ThreadTypes /\ StageTypes /\ ToSet(queue) \subseteq Ids
      /\ pc[s] = "pop" /\ hand[s] = None /\ pc'[Worker] = pc[Worker]
  BY Members DEF Shape, Posture, TypeOK, QueueTypes, ThreadTypes, StagePop
<1>2. /\ queue' = queue /\ skipped' = skipped /\ current' = current
      /\ nextId' = nextId /\ ingestBlock' = ingestBlock /\ UNCHANGED poolVars
  BY DEF StagePop, ingestVars, queueVars, workerVars
<1>3. \A r \in Stages : r # s => hand'[r] = hand[r] /\ stageQueue'[r] = stageQueue[r]
  BY <1>1 DEF StagePop, ThreadTypes, StageTypes
<1>4. /\ hand'[s] \in Ids /\ ToSet(stageQueue[s]) = {hand'[s]} \union ToSet(stageQueue'[s])
      /\ hand'[s] \notin ToSet(stageQueue'[s]) /\ IsInjective(stageQueue'[s])
  <2>1. /\ stageQueue[s] \in Seq(Ids) /\ stageQueue[s] # <<>> /\ IsInjective(stageQueue[s])
        /\ hand'[s] = Head(stageQueue[s]) /\ stageQueue'[s] = Tail(stageQueue[s])
    BY <1>1 DEF StagePop, StageTypes, ThreadTypes, Conserved, Uniqueness
  <2> QED BY <2>1, PopFront
<1>5. \A b \in Ids : /\ WorkerHolds(b)' <=> WorkerHolds(b)
                     /\ HasCurrent(b)' <=> HasCurrent(b)
                     /\ Unshared(b)' <=> Unshared(b)
                     /\ \A r \in Stages : StageHolds(r, b)' <=> StageHolds(r, b)
  <2>1. \A b \in Ids : StageHolds(s, b)' <=> StageHolds(s, b)
    BY <1>1, <1>2, <1>4 DEF StageHolds
  <2>2. \A b \in Ids, r \in Stages : r # s => (StageHolds(r, b)' <=> StageHolds(r, b))
    BY <1>2, <1>3 DEF StageHolds
  <2> QED BY <1>1, <1>2, <2>1, <2>2 DEF WorkerHolds, HasCurrent, Unshared
<1>6. Ownership'
  BY <1>2, <1>5 DEF Conserved, Ownership, poolVars
<1>7. Uniqueness'
  <2>1. \A b \in Ids : <<s, b>> \in skipped => b \notin ToSet(stageQueue'[s]) /\ b # hand'[s]
    BY <1>4 DEF Conserved, Uniqueness
  <2> QED BY <1>1, <1>2, <1>3, <1>4, <1>5, <2>1 DEF Conserved, Uniqueness
<1>8. PoolCount'
  BY <1>2 DEF Conserved, PoolCount, Live, poolVars
<1> QED BY <1>6, <1>7, <1>8 DEF Conserved

LEMMA StageDropConserved ==
  \A s \in Stages : Conserved /\ Shape /\ Shape' /\ StageDrop(s) => Conserved'
<1> SUFFICES ASSUME NEW s \in Stages, Conserved, Shape, Shape', StageDrop(s) PROVE Conserved'
  OBVIOUS
<1> USE ConstantFacts
<1> DEFINE kept == [owners EXCEPT ![hand[s]] = @ \ {s}]
<1>1. /\ QueueTypes /\ ThreadTypes /\ PoolTypes /\ ToSet(queue) \subseteq Ids
      /\ pc[s] = "drop" /\ hand[s] \in Ids /\ pc'[Worker] = pc[Worker]
  <2>1. QueueTypes /\ ThreadTypes /\ PoolTypes BY DEF Shape, TypeOK
  <2>2. ToSet(queue) \subseteq Ids BY <2>1, Members DEF QueueTypes
  <2>3. pc[s] = "drop" BY DEF StageDrop
  <2>4. hand[s] \in Ids BY <2>1, <2>3 DEF Shape, Posture, ThreadTypes
  <2>5. pc'[Worker] = pc[Worker] BY <2>1 DEF StageDrop, ThreadTypes
  <2> QED BY <2>1, <2>2, <2>3, <2>4, <2>5
<1>2. /\ queue' = queue /\ skipped' = skipped /\ current' = current /\ stageQueue' = stageQueue
      /\ nextId' = nextId /\ ingestBlock' = ingestBlock
      /\ owners' = kept /\ ReleaseTo(kept)
  BY DEF StageDrop, ReleaseTo, ingestVars, queueVars, workerVars, stageVars
<1>3. hand'[s] = None /\ \A r \in Stages : r # s => hand'[r] = hand[r]
  BY <1>1 DEF StageDrop, ThreadTypes
<1>4. \A b \in Ids : /\ WorkerHolds(b)' <=> WorkerHolds(b)
                     /\ HasCurrent(b)' <=> HasCurrent(b)
                     /\ Unshared(b)' <=> Unshared(b)
                     /\ \A r \in Stages : StageHolds(r, b)' <=>
                          StageHolds(r, b) /\ ~(r = s /\ b = hand[s])
  <2>1. \A b \in Ids : StageHolds(s, b)' <=> StageHolds(s, b) /\ b # hand[s]
    BY <1>1, <1>2, <1>3 DEF StageHolds, Conserved, Uniqueness
  <2>2. \A b \in Ids, r \in Stages : r # s => (StageHolds(r, b)' <=> StageHolds(r, b))
    BY <1>2, <1>3 DEF StageHolds
  <2> QED BY <1>1, <1>2, <2>1, <2>2 DEF WorkerHolds, HasCurrent, Unshared
<1>5. Ownership'
  <2>1. \A b \in Ids : kept[b] = IF b = hand[s] THEN owners[b] \ {s} ELSE owners[b]
    BY <1>1 DEF PoolTypes
  <2> HIDE DEF kept
  <2>2. \A b \in Ids, t \in Threads :
          t \in owners'[b] <=> t \in owners[b] /\ ~(t = s /\ b = hand[s])
    BY <1>2, <2>1
  <2>3. \A b \in Ids : Worker \in owners'[b] <=> WorkerHolds(b)'
    BY <1>4, <2>2 DEF Conserved, Ownership
  <2>4. \A b \in Ids, r \in Stages : r \in owners'[b] <=> StageHolds(r, b)'
    BY <1>4, <2>2 DEF Conserved, Ownership
  <2> QED BY <2>3, <2>4 DEF Ownership
<1>6. Uniqueness'
  <2>1. \A r \in Stages : hand'[r] = hand[r] \/ hand'[r] \notin Ids
    BY <1>3
  <2>2. \A r \in Stages : ToSet(stageQueue[r]) \subseteq Ids
    BY Members DEF Shape, TypeOK, StageTypes
  <2> QED BY <1>1, <1>2, <1>4, <2>1, <2>2 DEF Conserved, Uniqueness
<1>7. PoolCount'
  <2>1. kept \in [Ids -> SUBSET Threads] /\ \A b \in Ids : kept[b] \subseteq owners[b]
    BY <1>1 DEF PoolTypes
  <2> HIDE DEF kept
  <2> QED BY <1>1, <1>2, <2>1, ReleaseCounts DEF Conserved
<1> QED BY <1>5, <1>6, <1>7 DEF Conserved

LEMMA StageConserved ==
  \A s \in Stages : Conserved /\ Shape /\ Shape' /\ StageStep(s) => Conserved'
<1> SUFFICES ASSUME NEW s \in Stages, Conserved, Shape, Shape', StageStep(s) PROVE Conserved'
  OBVIOUS
<1> USE ConstantFacts
<1>0. ThreadTypes BY DEF Shape, TypeOK
<1> USE DEF queueVars, ingestVars, workerVars, stageVars, ThreadTypes
<1>1. CASE StageExit(s)
  BY <1>0, <1>1, ConservedFrame DEF StageExit
<1>2. CASE StageServe(s)
  BY <1>0, <1>2, ConservedFrame DEF StageServe
<1>3. CASE StageComplete(s)
  <2>1. pc'[Worker] = pc[Worker] /\ hand' = hand
    BY <1>0, <1>3 DEF StageComplete, Complete
  <2> QED BY <1>3, <2>1, ConservedFrame DEF StageComplete
<1>4. CASE Record(s)
  BY <1>0, <1>4, ConservedFrame DEF Record
<1>5. CASE Leave(s)
  BY <1>0, <1>5, ConservedFrame DEF Leave
<1> QED BY <1>1, <1>2, <1>3, <1>4, <1>5, StagePopConserved, StageDropConserved DEF StageStep

\* clear(), reset() and stop() give back the queued blocks and nothing else.
LEMMA EmptyQueueConserved ==
  ASSUME Conserved, Shape, Shape', EmptyQueue,
         UNCHANGED <<nextId, ingestBlock, current, skipped, stageQueue, hand>>,
         pc'[Worker] = pc[Worker] \/ (current = None /\ pc'[Worker] = "pop")
  PROVE  Conserved'
<1> USE ConstantFacts
<1> DEFINE kept == [b \in Ids |-> IF b \in ToSet(queue) THEN {} ELSE owners[b]]
<1>1. /\ QueueTypes /\ PoolTypes /\ ToSet(queue) \subseteq Ids
      /\ current \in Ids \union {None}
  BY Members DEF Shape, TypeOK, QueueTypes, WorkerTypes
<1>2. queue' = <<>> /\ ToSet(queue') = {} /\ IsInjective(queue')
      /\ owners' = kept /\ ReleaseTo(kept)
  BY EmptyQueueFacts DEF EmptyQueue, ReleaseTo
<1>3. \A b \in Ids : /\ WorkerHolds(b)' <=> WorkerHolds(b) /\ b \notin ToSet(queue)
                     /\ HasCurrent(b)' <=> HasCurrent(b)
                     /\ Unshared(b)' => Unshared(b)
                     /\ \A s \in Stages : StageHolds(s, b)' <=> StageHolds(s, b)
  BY <1>1, <1>2 DEF WorkerHolds, HasCurrent, Unshared, StageHolds, Conserved, Uniqueness
<1>4. Ownership'
  <2>1. \A b \in Ids : b \in ToSet(queue) => \A s \in Stages : ~StageHolds(s, b)
    BY DEF Conserved, Uniqueness, Unshared
  <2>2. \A b \in Ids : kept[b] = IF b \in ToSet(queue) THEN {} ELSE owners[b]
    OBVIOUS
  <2> HIDE DEF kept
  <2> QED BY <1>2, <1>3, <2>1, <2>2 DEF Conserved, Ownership
<1>5. Uniqueness'
  BY <1>2, <1>3 DEF Conserved, Uniqueness
<1>6. PoolCount'
  <2>1. kept \in [Ids -> SUBSET Threads] /\ \A b \in Ids : kept[b] \subseteq owners[b]
    BY <1>1 DEF PoolTypes
  <2> HIDE DEF kept
  <2> QED BY <1>1, <1>2, <2>1, ReleaseCounts DEF Conserved
<1> QED BY <1>4, <1>5, <1>6 DEF Conserved

LEMMA ControlConserved == Conserved /\ Shape /\ Shape' /\ ControlStep => Conserved'
<1> SUFFICES ASSUME Conserved, Shape, Shape', ControlStep PROVE Conserved' OBVIOUS
<1> USE ConstantFacts
<1>0. ThreadTypes /\ StageTypes BY DEF Shape, TypeOK
<1> USE DEF queueVars, ingestVars, threadVars, workerVars, stageVars
<1>1. CASE Start
  <2>1. control = "stopped" /\ pc'[Worker] = "pop" BY <1>1 DEF Start
  <2>2. current = None BY <2>1 DEF Shape, Posture
  <2>3. \A s \in Stages : stageQueue[s] = <<>> BY <2>1 DEF Shape, Posture
  <2>4. stageQueue' = stageQueue BY <1>0, <1>1, <2>3 DEF Start, StageTypes
  <2> QED BY <1>1, <2>1, <2>2, <2>4, EmptyQueueConserved DEF Start
<1>2. CASE Clear
  BY <1>2, EmptyQueueConserved DEF Clear
<1>3. CASE StopBegin
  BY <1>3, ConservedFrame DEF StopBegin
<1>4. CASE StopStages
  BY <1>4, ConservedFrame DEF StopStages
<1>5. CASE StopEnd
  BY <1>5, EmptyQueueConserved DEF StopEnd
<1>6. CASE FlushBegin
  BY <1>6, ConservedFrame DEF FlushBegin
<1>7. CASE FlushStep
  <2>1. \E place \in {"ready", "flushing", "probed", "flushed", "timedOut"} : FlushGoesTo(place)
    BY <1>7 DEF FlushStep, FlushProbe, FlushSucceed, FlushWaitAgain, FlushTimeout, FlushReturn
  <2> QED BY <2>1, ConservedFrame DEF FlushGoesTo
<1>8. ASSUME NEW value \in BOOLEAN, SetAccepting(value) PROVE Conserved'
  BY <1>8, ConservedFrame DEF SetAccepting
<1> QED BY <1>1, <1>2, <1>3, <1>4, <1>5, <1>6, <1>7, <1>8 DEF ControlStep, StopStep

LEMMA NextConserved == Conserved /\ Shape /\ Shape' /\ [Next]_vars => Conserved'
<1> SUFFICES ASSUME Conserved, Shape, Shape', [Next]_vars PROVE Conserved' OBVIOUS
<1>1. CASE UNCHANGED vars
  BY <1>1, ConservedFrame
  DEF vars, queueVars, ingestVars, threadVars, workerVars, stageVars
<1>2. CASE Next
  BY <1>2, NextSteps, IngestConserved, WorkerConserved, StageConserved, ControlConserved
<1> QED BY <1>1, <1>2

THEOREM ConservedInvariant == Spec => []Conserved
BY ShapeInvariant, InitConserved, NextConserved, PTL DEF Spec

LEMMA ConservedAccounts == Shape /\ Conserved => PoolAccounting
<1> SUFFICES ASSUME Shape, Conserved PROVE PoolAccounting OBVIOUS
<1>1. \A b \in Ids : owners[b] = Holders(b)
  <2> SUFFICES ASSUME NEW b \in Ids PROVE owners[b] = Holders(b) OBVIOUS
  <2>1. owners[b] \subseteq Stages \union {Worker}
    BY ConstantFacts DEF Shape, TypeOK, PoolTypes
  <2>2. Holders(b) \subseteq Stages \union {Worker} BY DEF Holders
  <2>3. Worker \in owners[b] <=> Worker \in Holders(b)
    BY ConstantFacts DEF Conserved, Ownership, Holders
  <2>4. \A s \in Stages : s \in owners[b] <=> s \in Holders(b)
    BY ConstantFacts DEF Conserved, Ownership, Holders
  <2> QED BY <2>1, <2>2, <2>3, <2>4
<1>2. Live = {b \in Ids : Holders(b) # {}}
  BY <1>1 DEF Live
<1> QED BY <1>2 DEF Conserved, PoolCount, PoolAccounting

\* However the ingesting thread, the worker, the stages and the owner's calls
\* interleave, the pool's free blocks and the blocks something still refers to
\* add up to the pool: none leaks, none is returned twice, none is returned
\* while a stage can still read it.
THEOREM PoolAccounted == Spec => []PoolAccounting
BY ShapeInvariant, ConservedInvariant, ConservedAccounts, PTL

-----------------------------------------------------------------------------
(***************************************************************************)
(* What FanOutEngine promises about the blocks, for every value of the      *)
(* constants: the counters of the fan-out are exact, every block is handled *)
(* as BlockDelivery says, flush and stop leave nothing undone, and overload *)
(* neither reorders a stage nor makes it miss the newest block.             *)
(***************************************************************************)

\* What stage s still has to do with block b, and what has been done with it.
Waits(s, b) ==
  \/ b \in ToSet(stageQueue[s]) \/ <<s, b>> \in skipTodo
  \/ hand[s] = b /\ pc[s] = "serve"
Did(s, b)       == b \in ToSet(consumed[s]) \/ b \in dropped[s]
Untouched(b)    == recorded[b] = 0 /\ b \notin serial /\ \A s \in Stages : ~Did(s, b)
Finishing(t, b) == hand[t] = b /\ pc[t] \in {"record", "leave"}
Records(t, b)   == hand[t] = b /\ pc[t] = "record"
Recording(b)    == \E t \in Threads : Records(t, b)
InSerial(b)     == b = current /\ pc[Worker] = "serial"
FannedOut(b)    == Submitting(b) \/ \E s \in Stages : Owes(s, b)

\* A job of a stage is its stage and its block.
LEMMA PairParts ==
  ASSUME NEW S, NEW T, NEW p \in S \X T
  PROVE  p = <<p[1], p[2]>> /\ p[1] \in S /\ p[2] \in T
OBVIOUS

LEMMA SkipStep ==
  ASSUME Shape, WorkerSkip
  PROVE  \E s \in Stages, b \in Ids :
           /\ <<s, b>> \in skipTodo /\ skipTodo' = skipTodo \ {<<s, b>>}
           /\ dropped' = [dropped EXCEPT ![s] = @ \union {b}]
           /\ Complete(Worker, b, "skip")
<1>1. PICK job \in skipTodo :
        /\ skipTodo' = skipTodo \ {job}
        /\ dropped' = [dropped EXCEPT ![job[1]] = @ \union {job[2]}]
        /\ Complete(Worker, job[2], "skip")
  BY DEF WorkerSkip
<1>2. job \in Stages \X Ids BY DEF Shape, TypeOK, WorkerTypes
<1>3. job = <<job[1], job[2]>> /\ job[1] \in Stages /\ job[2] \in Ids BY <1>2, PairParts
<1> QED BY <1>1, <1>3

LEMMA CompleteStep ==
  ASSUME ThreadTypes, StageTypes, NEW t \in Threads, NEW b \in Ids, NEW place,
         Complete(t, b, place)
  PROVE  /\ \A u \in Threads : u # t => pc'[u] = pc[u] /\ hand'[u] = hand[u]
         /\ remaining[b] = 1 => pc'[t] = "record" /\ hand'[t] = b
         /\ remaining[b] # 1 => pc'[t] = place /\ hand'[t] = hand[t]
         /\ remaining'[b] = remaining[b] - 1
         /\ \A c \in Ids : c # b => remaining'[c] = remaining[c]
<1>1. CASE remaining[b] = 1 BY <1>1 DEF Complete, ThreadTypes, StageTypes
<1>2. CASE remaining[b] # 1 BY <1>2 DEF Complete, ThreadTypes, StageTypes
<1> QED BY <1>1, <1>2

\* What the owner's calls and the modes say about the places of the threads.
Phases ==
  /\ running <=> control # "stopped"
  /\ control \in {"joinWorker", "joinStages"} => closed
  /\ pc[Worker] = "exited" => queue = <<>>
  /\ pc[Worker] = "exited" /\ ~closed => control = "stopped" /\ ingestPc = "idle"
  /\ processing <=> pc[Worker] \in {"submit", "serial", "skip", "record", "leave", "finish"}
  /\ ~Parallel => \A s \in Stages : pc[s] = "exited"
  /\ pc[Worker] \in {"record", "leave"} =>
       \E s \in Stages : <<s, hand[Worker]>> \in skipped \ skipTodo

LEMMA InitPhases == Init => Phases
<1> SUFFICES ASSUME Init PROVE Phases OBVIOUS
<1> USE ConstantFacts
<1> QED BY DEF Init, Phases

LEMMA WorkerPhases == Phases /\ Shape /\ WorkerStep => Phases'
<1> SUFFICES ASSUME Phases, Shape, WorkerStep PROVE Phases' OBVIOUS
<1> USE ConstantFacts DEF Phases, ThreadTypes, poolVars, queueVars, ingestVars, gateVars,
        threadVars, workerVars, engineVars, stageVars, historyVars, controlVars
<1>0. ThreadTypes /\ WorkerTypes /\ StageTypes /\ Posture BY DEF Shape, TypeOK
<1>1. CASE WorkerPop BY <1>0, <1>1 DEF WorkerPop
<1>2. CASE WorkerExit BY <1>0, <1>2 DEF WorkerExit, Posture
<1>3. CASE WorkerMark BY <1>0, <1>3 DEF WorkerMark
<1>4. CASE SubmitRefused BY <1>0, <1>4 DEF SubmitRefused
<1>5. CASE Submit BY <1>0, <1>5 DEF Submit
<1>6. CASE WorkerSkip
  <2>1. PICK s \in Stages, b \in Ids :
          /\ <<s, b>> \in skipTodo /\ skipTodo' = skipTodo \ {<<s, b>>}
          /\ Complete(Worker, b, "skip")
    BY <1>6, SkipStep
  <2>2. <<s, b>> \in skipped /\ skipped' = skipped /\ pc[Worker] = "skip"
    BY <1>0, <1>6, <2>1 DEF WorkerTypes, WorkerSkip
  <2>3. /\ pc'[Worker] = "skip" \/ (pc'[Worker] = "record" /\ hand'[Worker] = b)
        /\ \A r \in Stages : pc'[r] = pc[r]
    BY <1>0, <2>1, CompleteStep
  <2>4. pc'[Worker] \in {"record", "leave"} =>
          \E r \in Stages : <<r, hand'[Worker]>> \in skipped' \ skipTodo'
    BY <2>1, <2>2, <2>3
  <2> QED BY <1>0, <1>6, <2>2, <2>3, <2>4 DEF WorkerSkip
<1>7. CASE WorkerSerial BY <1>0, <1>7 DEF WorkerSerial
<1>8. CASE WorkerSerialRecord BY <1>0, <1>8 DEF WorkerSerialRecord
<1>9. CASE WorkerUnwind BY <1>0, <1>9 DEF WorkerUnwind
<1>10. CASE WorkerFinish BY <1>0, <1>10 DEF WorkerFinish
<1>11. CASE Record(Worker) BY <1>0, <1>11 DEF Record
<1>12. CASE Leave(Worker) BY <1>0, <1>12 DEF Leave
<1> QED BY <1>1, <1>2, <1>3, <1>4, <1>5, <1>6, <1>7, <1>8, <1>9, <1>10, <1>11, <1>12
        DEF WorkerStep

LEMMA NextPhases == Phases /\ Shape /\ [Next]_vars => Phases'
<1> SUFFICES ASSUME Phases, Shape, [Next]_vars PROVE Phases' OBVIOUS
<1> USE ConstantFacts DEF Phases, ThreadTypes, poolVars, queueVars, ingestVars, gateVars,
        threadVars, workerVars, engineVars, stageVars, historyVars, controlVars
<1>0. ThreadTypes /\ WorkerTypes /\ StageTypes /\ Posture BY DEF Shape, TypeOK
<1>1. CASE UNCHANGED vars BY <1>0, <1>1 DEF vars
<1>2. CASE IngestBegin \/ IngestStep
  BY <1>0, <1>2 DEF Posture, IngestBegin, IngestStep, IngestExhausted, IngestAcquire,
                    IngestRefused, IngestPush
<1>3. ASSUME NEW s \in Stages, StageStep(s) PROVE Phases'
  <2>1. StagePop(s) \/ StageExit(s) \/ StageServe(s) \/ StageComplete(s)
           \/ Record(s) \/ Leave(s) \/ StageDrop(s)
    BY <1>3 DEF StageStep
  <2>2. /\ UNCHANGED <<gateVars, control, queueVars, ingestPc, processing, skipped, skipTodo>>
        /\ pc'[Worker] = pc[Worker] /\ hand'[Worker] = hand[Worker]
        /\ pc[s] # "exited" /\ \A r \in Stages : r # s => pc'[r] = pc[r]
        /\ s \in Stages
    BY <1>0, <2>1 DEF StagePop, StageExit, StageServe, StageComplete, Complete, Record,
                      Leave, StageDrop
  <2> QED BY <1>0, <2>2
<1>4. CASE ControlStep
  <2>1. CASE Start BY <1>0, <2>1 DEF Start, EmptyQueue, Posture
  <2>2. CASE Clear BY <1>0, <2>2 DEF Clear, EmptyQueue
  <2>3. CASE StopBegin BY <1>0, <2>3 DEF StopBegin
  <2>4. CASE StopStages BY <1>0, <2>4 DEF StopStages
  <2>5. CASE StopEnd BY <1>0, <2>5 DEF StopEnd, EmptyQueue, Posture
  <2>6. CASE FlushBegin BY <1>0, <2>6 DEF FlushBegin
  <2>7. CASE FlushStep
    BY <1>0, <2>7 DEF FlushStep, FlushProbe, FlushSucceed, FlushWaitAgain, FlushTimeout,
                      FlushReturn, FlushGoesTo
  <2>8. ASSUME NEW value \in BOOLEAN, SetAccepting(value) PROVE Phases'
    BY <1>0, <2>8 DEF SetAccepting
  <2> QED BY <1>4, <2>1, <2>2, <2>3, <2>4, <2>5, <2>6, <2>7, <2>8 DEF ControlStep, StopStep
<1> QED BY <1>1, <1>2, <1>3, <1>4, NextSteps, WorkerPhases

-----------------------------------------------------------------------------
(* What the steps do to Waits, Owes, Did, Submitting, Finishing and Records.  *)

SameDuties ==
  /\ \A s \in Stages, b \in Ids :
       (Waits(s, b)' <=> Waits(s, b)) /\ (Owes(s, b)' <=> Owes(s, b))
  /\ \A t \in Threads, b \in Ids :
       (Finishing(t, b)' <=> Finishing(t, b)) /\ (Records(t, b)' <=> Records(t, b))
SameDeeds == UNCHANGED <<consumed, dropped, serial>>
SameSubmission == \A b \in Ids : Submitting(b)' <=> Submitting(b)
SameWork == SameDuties /\ SameDeeds /\ SameSubmission

\* The steps of no consequence for what is owed and done.
Aside ==
  \/ IngestBegin \/ IngestStep \/ ControlStep \/ UNCHANGED vars
  \/ WorkerPop \/ WorkerExit \/ WorkerUnwind \/ WorkerFinish \/ WorkerSerialRecord
  \/ \E s \in Stages : StagePop(s) \/ StageExit(s) \/ StageDrop(s)

LEMMA AsideWork == Shape /\ Aside => SameWork /\ UNCHANGED remaining
<1> SUFFICES ASSUME Shape, Aside PROVE SameWork /\ UNCHANGED remaining OBVIOUS
<1> USE ConstantFacts
    DEF SameWork, SameDuties, SameDeeds, SameSubmission, Waits, Owes, Submitting, Finishing,
        Records, ThreadTypes, threadVars, workerVars, stageVars, historyVars
<1>0. ThreadTypes /\ WorkerTypes /\ StageTypes BY DEF Shape, TypeOK
<1>1. CASE UNCHANGED vars BY <1>1 DEF vars
<1>2. CASE IngestBegin \/ IngestStep
  BY <1>2 DEF IngestBegin, IngestStep, IngestExhausted, IngestAcquire, IngestRefused, IngestPush
<1>3. CASE WorkerPop BY <1>0, <1>3 DEF WorkerPop
<1>4. CASE WorkerExit BY <1>0, <1>4 DEF WorkerExit
<1>5. CASE WorkerUnwind BY <1>0, <1>5 DEF WorkerUnwind
<1>6. CASE WorkerFinish BY <1>0, <1>6 DEF WorkerFinish
<1>7. CASE WorkerSerialRecord BY <1>0, <1>7 DEF WorkerSerialRecord
<1>8. ASSUME NEW s \in Stages, StagePop(s) PROVE SameWork /\ UNCHANGED remaining
  <2>1. /\ stageQueue[s] \in Seq(Ids) /\ stageQueue[s] # <<>>
        /\ hand'[s] = Head(stageQueue[s]) /\ stageQueue'[s] = Tail(stageQueue[s])
        /\ pc[s] = "pop" /\ pc'[s] = "serve"
        /\ \A r \in Stages : r # s => stageQueue'[r] = stageQueue[r]
        /\ \A r \in Threads : r # s => pc'[r] = pc[r] /\ hand'[r] = hand[r]
    BY <1>0, <1>8 DEF StagePop, StageTypes
  <2>2. ToSet(stageQueue[s]) = {hand'[s]} \union ToSet(stageQueue'[s])
    BY <2>1, PopFront
  <2>3. UNCHANGED <<consumed, dropped, serial, skipped, skipTodo, current, remaining>>
    BY <1>8 DEF StagePop
  <2> QED BY <2>1, <2>2, <2>3
<1>9. ASSUME NEW s \in Stages, StageExit(s) PROVE SameWork /\ UNCHANGED remaining
  BY <1>0, <1>9 DEF StageExit
<1>10. ASSUME NEW s \in Stages, StageDrop(s) PROVE SameWork /\ UNCHANGED remaining
  BY <1>0, <1>10 DEF StageDrop
<1>11. CASE ControlStep
  <2>1. CASE Start
    <3>1. \A s \in Stages : stageQueue[s] = <<>> /\ hand[s] = None
      BY <2>1 DEF Start, Shape, Posture
    <3>2. stageQueue' = stageQueue BY <1>0, <2>1, <3>1 DEF Start, StageTypes
    <3>3. \A t \in Threads : pc[t] = "exited" /\ pc'[t] \in {"pop", "exited"}
      BY <2>1 DEF Start, Shape, Posture
    <3> QED BY <1>0, <2>1, <3>2, <3>3 DEF Start
  <2>2. CASE Clear BY <1>0, <2>2 DEF Clear
  <2>3. CASE StopBegin \/ StopStep \/ FlushBegin
    BY <2>3 DEF StopBegin, StopStep, StopStages, StopEnd, FlushBegin
  <2>4. CASE FlushStep
    BY <2>4 DEF FlushStep, FlushProbe, FlushSucceed, FlushWaitAgain, FlushTimeout,
                FlushReturn, FlushGoesTo
  <2>5. ASSUME NEW value \in BOOLEAN, SetAccepting(value) PROVE SameWork /\ UNCHANGED remaining
    BY <2>5 DEF SetAccepting
  <2> QED BY <1>11, <2>1, <2>2, <2>3, <2>4, <2>5 DEF ControlStep
<1> QED BY <1>1, <1>2, <1>3, <1>4, <1>5, <1>6, <1>7, <1>8, <1>9, <1>10, <1>11 DEF Aside

LEMMA MarkWork ==
  ASSUME Shape, WorkerMark
  PROVE  /\ SameDuties /\ SameDeeds /\ current \in Ids
         /\ \A b \in Ids : ~Submitting(b)
         /\ \A b \in Ids : Submitting(b)' <=> Parallel /\ b = current
         /\ ~Parallel => UNCHANGED <<remaining, inFlight>>
         /\ Parallel => /\ inFlight' = inFlight + 1 /\ remaining'[current] = NumStages
                        /\ \A b \in Ids : b # current => remaining'[b] = remaining[b]
<1> USE ConstantFacts
    DEF SameDuties, SameDeeds, Waits, Owes, Submitting, Finishing,
        Records, ThreadTypes, threadVars, workerVars, stageVars, historyVars
<1>0. ThreadTypes /\ WorkerTypes /\ StageTypes /\ Posture BY DEF Shape, TypeOK
<1>1. current \in Ids BY <1>0 DEF WorkerMark, Posture, WorkerTypes
<1> QED BY <1>0, <1>1 DEF WorkerMark, StageTypes

LEMMA RefusedWork ==
  ASSUME Shape, SubmitRefused
  PROVE  /\ SameDuties /\ SameDeeds /\ UNCHANGED remaining /\ inFlight' = inFlight - 1
         /\ current \in Ids /\ Submitting(current) /\ \A b \in Ids : ~Submitting(b)'
<1> USE ConstantFacts
    DEF SameDuties, SameDeeds, Waits, Owes, Submitting, Finishing,
        Records, ThreadTypes, threadVars, workerVars, stageVars, historyVars
<1>0. ThreadTypes /\ WorkerTypes /\ StageTypes /\ Posture BY DEF Shape, TypeOK
<1> QED BY <1>0 DEF SubmitRefused, Posture, WorkerTypes

LEMMA SerialWork ==
  ASSUME Shape, WorkerSerial
  PROVE  /\ SameDuties /\ SameSubmission /\ UNCHANGED remaining /\ current \in Ids
         /\ serialStage \in Stages
         /\ consumed'[serialStage] = Append(consumed[serialStage], current)
         /\ \A s \in Stages : s # serialStage => consumed'[s] = consumed[s]
         /\ \A s \in Stages, b \in Ids :
              Did(s, b)' <=> Did(s, b) \/ (s = serialStage /\ b = current)
<1>0. ThreadTypes /\ WorkerTypes /\ StageTypes /\ HistoryTypes /\ Posture BY DEF Shape, TypeOK
<1>1. /\ current \in Ids /\ serialStage \in Stages
      /\ consumed'[serialStage] = Append(consumed[serialStage], current)
      /\ \A s \in Stages : s # serialStage => consumed'[s] = consumed[s]
      /\ UNCHANGED <<threadVars, current, skipped, skipTodo, stageVars, dropped>>
  BY <1>0, ConstantFacts DEF WorkerSerial, Posture, WorkerTypes, HistoryTypes
<1>2. ToSet(consumed'[serialStage]) = ToSet(consumed[serialStage]) \union {current}
  BY <1>0, <1>1, PushBack DEF HistoryTypes
<1>3. \A s \in Stages, b \in Ids :
         Did(s, b)' <=> Did(s, b) \/ (s = serialStage /\ b = current)
  BY <1>1, <1>2 DEF Did
<1>4. SameDuties /\ SameSubmission /\ UNCHANGED remaining
  BY <1>1 DEF SameDuties, SameSubmission, Waits, Owes, Submitting, Finishing, Records,
              threadVars, stageVars
<1> QED BY <1>1, <1>3, <1>4

LEMMA ServeWork ==
  ASSUME Shape, Uniqueness, NEW s \in Stages, StageServe(s)
  PROVE  /\ SameSubmission /\ UNCHANGED remaining /\ hand[s] \in Ids /\ Waits(s, hand[s])
         /\ consumed'[s] = Append(consumed[s], hand[s])
         /\ \A r \in Stages : r # s => consumed'[r] = consumed[r]
         /\ \A r \in Stages, b \in Ids :
              /\ Owes(r, b)' <=> Owes(r, b)
              /\ Waits(r, b)' <=> Waits(r, b) /\ ~(r = s /\ b = hand[s])
              /\ Did(r, b)' <=> Did(r, b) \/ (r = s /\ b = hand[s])
         /\ \A t \in Threads, b \in Ids :
              (Finishing(t, b)' <=> Finishing(t, b)) /\ (Records(t, b)' <=> Records(t, b))
<1> USE ConstantFacts
<1>0. ThreadTypes /\ WorkerTypes /\ StageTypes /\ HistoryTypes /\ Posture BY DEF Shape, TypeOK
<1>1. /\ hand[s] \in Ids /\ pc[s] = "serve" /\ pc'[s] = "complete"
      /\ \A t \in Threads : t # s => pc'[t] = pc[t]
      /\ consumed'[s] = Append(consumed[s], hand[s])
      /\ \A r \in Stages : r # s => consumed'[r] = consumed[r]
      /\ UNCHANGED <<hand, current, skipped, skipTodo, stageVars, dropped>>
  BY <1>0 DEF StageServe, Posture, ThreadTypes, HistoryTypes, workerVars
<1>2. ToSet(consumed'[s]) = ToSet(consumed[s]) \union {hand[s]}
  BY <1>0, <1>1, PushBack DEF HistoryTypes
<1>3. \A r \in Stages, b \in Ids : Did(r, b)' <=> Did(r, b) \/ (r = s /\ b = hand[s])
  BY <1>1, <1>2 DEF Did
<1>4. hand[s] \notin ToSet(stageQueue[s]) /\ <<s, hand[s]>> \notin skipTodo
  BY <1>0, <1>1 DEF Uniqueness, WorkerTypes
<1>5. \A r \in Stages, b \in Ids :
         /\ Owes(r, b)' <=> Owes(r, b)
         /\ Waits(r, b)' <=> Waits(r, b) /\ ~(r = s /\ b = hand[s])
  BY <1>1, <1>4 DEF Owes, Waits, stageVars
<1>6. \A t \in Threads, b \in Ids :
         (Finishing(t, b)' <=> Finishing(t, b)) /\ (Records(t, b)' <=> Records(t, b))
  BY <1>1 DEF Finishing, Records
<1>7. SameSubmission /\ UNCHANGED remaining
  BY <1>1 DEF SameSubmission, Submitting, stageVars
<1>8. Waits(s, hand[s]) BY <1>1 DEF Waits
<1> QED BY <1>1, <1>3, <1>5, <1>6, <1>7, <1>8

\* What completeFanOutStage, called by thread t for stage s and block b, does to the work.
Relieves(t, s, b) ==
  /\ SameSubmission /\ Owes(s, b) /\ ~Submitting(b)
  /\ \A r \in Stages, c \in Ids : Owes(r, c)' <=> (Owes(r, c) /\ ~(r = s /\ c = b))
  /\ \A u \in Threads, c \in Ids :
       /\ Finishing(u, c)' <=> (Finishing(u, c) \/ (u = t /\ c = b /\ remaining[b] = 1))
       /\ Records(u, c)' <=> (Records(u, c) \/ (u = t /\ c = b /\ remaining[b] = 1))
  /\ remaining'[b] = remaining[b] - 1
  /\ \A c \in Ids : c # b => remaining'[c] = remaining[c]
  /\ inFlight' = inFlight

LEMMA SkipWork ==
  ASSUME Shape, Uniqueness, WorkerSkip
  PROVE  \E s \in Stages, b \in Ids :
           /\ Relieves(Worker, s, b) /\ <<s, b>> \in skipTodo /\ consumed' = consumed
           /\ dropped' = [dropped EXCEPT ![s] = @ \union {b}]
           /\ \A r \in Stages, c \in Ids :
                /\ Waits(r, c)' <=> (Waits(r, c) /\ ~(r = s /\ c = b))
                /\ Did(r, c)' <=> (Did(r, c) \/ (r = s /\ c = b))
<1> USE ConstantFacts
<1>0. ThreadTypes /\ WorkerTypes /\ StageTypes /\ HistoryTypes BY DEF Shape, TypeOK
<1>1. PICK s \in Stages, b \in Ids :
        /\ <<s, b>> \in skipTodo /\ skipTodo' = skipTodo \ {<<s, b>>}
        /\ dropped' = [dropped EXCEPT ![s] = @ \union {b}]
        /\ Complete(Worker, b, "skip")
  BY SkipStep
<1>2. /\ UNCHANGED <<current, skipped, inFlight, stageQueue, consumed>>
      /\ pc[Worker] = "skip"
  BY DEF WorkerSkip, engineVars
<1>3. /\ \A u \in Stages : pc'[u] = pc[u] /\ hand'[u] = hand[u]
      /\ remaining[b] = 1 => pc'[Worker] = "record" /\ hand'[Worker] = b
      /\ remaining[b] # 1 => pc'[Worker] = "skip"
      /\ remaining'[b] = remaining[b] - 1
      /\ \A c \in Ids : c # b => remaining'[c] = remaining[c]
  BY <1>0, <1>1, CompleteStep
<1>4. b \notin ToSet(stageQueue[s]) /\ b # hand[s]
  BY <1>0, <1>1 DEF WorkerTypes, Uniqueness
<1>5. \A r \in Stages, c \in Ids :
        <<r, c>> \in skipTodo' <=> (<<r, c>> \in skipTodo /\ ~(r = s /\ c = b))
  BY <1>1
<1>6. \A r \in Stages, c \in Ids :
        /\ Owes(r, c)' <=> (Owes(r, c) /\ ~(r = s /\ c = b))
        /\ Waits(r, c)' <=> (Waits(r, c) /\ ~(r = s /\ c = b))
  BY <1>2, <1>3, <1>4, <1>5 DEF Owes, Waits
<1>7. \A r \in Stages, c \in Ids : Did(r, c)' <=> (Did(r, c) \/ (r = s /\ c = b))
  BY <1>0, <1>1, <1>2 DEF Did, HistoryTypes
<1>8. \A u \in Threads, c \in Ids :
        /\ Finishing(u, c)' <=> (Finishing(u, c) \/ (u = Worker /\ c = b /\ remaining[b] = 1))
        /\ Records(u, c)' <=> (Records(u, c) \/ (u = Worker /\ c = b /\ remaining[b] = 1))
  BY <1>2, <1>3 DEF Finishing, Records
<1>9. SameSubmission /\ Owes(s, b) /\ ~Submitting(b)
  BY <1>1, <1>2, <1>3 DEF SameSubmission, Submitting, Owes
<1>10. Relieves(Worker, s, b)
  BY <1>2, <1>3, <1>6, <1>8, <1>9 DEF Relieves
<1> WITNESS s \in Stages, b \in Ids
<1> QED BY <1>1, <1>2, <1>6, <1>7, <1>10

LEMMA CompleteWork ==
  ASSUME Shape, Uniqueness, NEW s \in Stages, StageComplete(s)
  PROVE  /\ hand[s] \in Ids /\ Relieves(s, s, hand[s]) /\ SameDeeds
         /\ \A r \in Stages, b \in Ids : Waits(r, b)' <=> Waits(r, b)
<1> USE ConstantFacts
<1> DEFINE b == hand[s]
<1>0. ThreadTypes /\ WorkerTypes /\ StageTypes BY DEF Shape, TypeOK
<1>1. b \in Ids /\ pc[s] = "complete"
  BY <1>0 DEF StageComplete, Shape, Posture, ThreadTypes
<1>2. /\ UNCHANGED <<current, skipped, skipTodo, inFlight, stageQueue, consumed, dropped, serial>>
      /\ Complete(s, b, "drop")
  BY DEF StageComplete, engineVars, workerVars, historyVars
<1> HIDE DEF b
<1>3. /\ \A u \in Threads : u # s => pc'[u] = pc[u] /\ hand'[u] = hand[u]
      /\ remaining[b] = 1 => pc'[s] = "record" /\ hand'[s] = b
      /\ remaining[b] # 1 => pc'[s] = "drop" /\ hand'[s] = hand[s]
      /\ remaining'[b] = remaining[b] - 1
      /\ \A c \in Ids : c # b => remaining'[c] = remaining[c]
  BY <1>0, <1>1, <1>2, CompleteStep
<1>4. b \notin ToSet(stageQueue[s]) /\ <<s, b>> \notin skipTodo /\ hand[s] = b
  BY <1>0, <1>1 DEF WorkerTypes, Uniqueness, b
<1>5. ~Submitting(b)
  BY <1>1, <1>4 DEF Uniqueness, Unshared, Submitting, StageHolds
<1>6. \A r \in Stages, c \in Ids :
        /\ Owes(r, c)' <=> (Owes(r, c) /\ ~(r = s /\ c = b))
        /\ Waits(r, c)' <=> Waits(r, c)
  BY <1>1, <1>2, <1>3, <1>4 DEF Owes, Waits
<1>7. \A u \in Threads, c \in Ids :
        /\ Finishing(u, c)' <=> (Finishing(u, c) \/ (u = s /\ c = b /\ remaining[b] = 1))
        /\ Records(u, c)' <=> (Records(u, c) \/ (u = s /\ c = b /\ remaining[b] = 1))
  BY <1>1, <1>3 DEF Finishing, Records
<1>8. SameSubmission /\ SameDeeds /\ Owes(s, b)
  BY <1>1, <1>2, <1>3, <1>4 DEF SameSubmission, Submitting, SameDeeds, Owes
<1>9. Relieves(s, s, b)
  BY <1>2, <1>3, <1>5, <1>6, <1>7, <1>8 DEF Relieves
<1> QED BY <1>1, <1>6, <1>8, <1>9 DEF b

LEMMA RecordWork ==
  ASSUME Shape, NEW t \in Threads, Record(t)
  PROVE  /\ SameDeeds /\ SameSubmission /\ UNCHANGED <<remaining, inFlight>>
         /\ hand[t] \in Ids /\ Records(t, hand[t])
         /\ recorded'[hand[t]] = recorded[hand[t]] + 1
         /\ \A b \in Ids : b # hand[t] => recorded'[b] = recorded[b]
         /\ \A s \in Stages, b \in Ids :
              (Waits(s, b)' <=> Waits(s, b)) /\ (Owes(s, b)' <=> Owes(s, b))
         /\ \A u \in Threads, b \in Ids :
              /\ Finishing(u, b)' <=> Finishing(u, b)
              /\ Records(u, b)' <=> (Records(u, b) /\ u # t)
<1> USE ConstantFacts
<1>0. ThreadTypes /\ HistoryTypes BY DEF Shape, TypeOK
<1>1. hand[t] \in Ids
  BY <1>0 DEF Record, Shape, Posture, ThreadTypes
<1>2. /\ UNCHANGED <<hand, current, skipTodo, stageQueue, consumed, dropped, serial, remaining, inFlight>>
      /\ pc[t] = "record" /\ pc'[t] = "leave"
      /\ \A u \in Threads : u # t => pc'[u] = pc[u]
      /\ recorded'[hand[t]] = recorded[hand[t]] + 1
      /\ \A b \in Ids : b # hand[t] => recorded'[b] = recorded[b]
  BY <1>0, <1>1 DEF Record, ThreadTypes, HistoryTypes, workerVars, engineVars, stageVars
<1>3. SameDeeds /\ SameSubmission
  BY <1>2 DEF SameDeeds, SameSubmission, Submitting
<1>4. \A s \in Stages, b \in Ids :
        (Waits(s, b)' <=> Waits(s, b)) /\ (Owes(s, b)' <=> Owes(s, b))
  BY <1>2 DEF Waits, Owes
<1>5. \A u \in Threads, b \in Ids :
        /\ Finishing(u, b)' <=> Finishing(u, b)
        /\ Records(u, b)' <=> (Records(u, b) /\ u # t)
  BY <1>2 DEF Finishing, Records
<1> QED BY <1>1, <1>2, <1>3, <1>4, <1>5 DEF Records

LEMMA LeaveWork ==
  ASSUME Shape, NEW t \in Threads, Leave(t)
  PROVE  /\ SameDeeds /\ SameSubmission /\ UNCHANGED remaining /\ inFlight' = inFlight - 1
         /\ hand[t] \in Ids /\ Finishing(t, hand[t])
         /\ \A s \in Stages, b \in Ids :
              (Waits(s, b)' <=> Waits(s, b)) /\ (Owes(s, b)' <=> Owes(s, b))
         /\ \A u \in Threads, b \in Ids :
              /\ Finishing(u, b)' <=> (Finishing(u, b) /\ u # t)
              /\ Records(u, b)' <=> Records(u, b)
<1> USE ConstantFacts
<1>0. ThreadTypes BY DEF Shape, TypeOK
<1>1. hand[t] \in Ids
  BY <1>0 DEF Leave, Shape, Posture, ThreadTypes
<1>2. /\ UNCHANGED <<hand, current, skipTodo, stageQueue, consumed, dropped, serial, remaining>>
      /\ pc[t] = "leave" /\ pc'[t] \in {"skip", "drop"} /\ inFlight' = inFlight - 1
      /\ \A u \in Threads : u # t => pc'[u] = pc[u]
  BY <1>0 DEF Leave, ThreadTypes, workerVars, stageVars, historyVars
<1>3. SameDeeds /\ SameSubmission
  BY <1>2 DEF SameDeeds, SameSubmission, Submitting
<1>4. \A s \in Stages, b \in Ids :
        (Waits(s, b)' <=> Waits(s, b)) /\ (Owes(s, b)' <=> Owes(s, b))
  BY <1>2 DEF Waits, Owes
<1>5. \A u \in Threads, b \in Ids :
        /\ Finishing(u, b)' <=> (Finishing(u, b) /\ u # t)
        /\ Records(u, b)' <=> Records(u, b)
  BY <1>2 DEF Finishing, Records
<1> QED BY <1>1, <1>2, <1>3, <1>4, <1>5 DEF Finishing

LEMMA SubmitWork ==
  ASSUME Shape, Uniqueness, Submit
  PROVE  /\ SameDeeds /\ UNCHANGED <<remaining, inFlight>>
         /\ current \in Ids /\ Submitting(current) /\ \A b \in Ids : ~Submitting(b)'
         /\ \A s \in Stages, b \in Ids :
              /\ Waits(s, b)' <=> (Waits(s, b) \/ b = current)
              /\ Owes(s, b)' <=> (Owes(s, b) \/ b = current)
         /\ \A t \in Threads, b \in Ids :
              (Finishing(t, b)' <=> Finishing(t, b)) /\ (Records(t, b)' <=> Records(t, b))
<1> USE ConstantFacts
<1>0. ThreadTypes /\ WorkerTypes BY DEF Shape, TypeOK
<1>1. /\ current \in Ids /\ pc[Worker] = "submit" /\ skipTodo = {} /\ current' = current
      /\ UNCHANGED <<hand, consumed, dropped, serial, remaining, inFlight>> /\ skipTodo' = skipped'
      /\ pc'[Worker] = "skip" /\ \A s \in Stages : pc'[s] = pc[s]
  BY <1>0 DEF Shape, Posture, ThreadTypes, WorkerTypes, Submit, engineVars, historyVars
<1>2. \A s \in Stages, b \in Ids :
        (b \in ToSet(stageQueue'[s]) \/ <<s, b>> \in skipTodo') <=>
          (b \in ToSet(stageQueue[s]) \/ b = current)
  BY <1>1, SubmittedQueues
<1>3. \A s \in Stages, b \in Ids :
        /\ Waits(s, b)' <=> (Waits(s, b) \/ b = current)
        /\ Owes(s, b)' <=> (Owes(s, b) \/ b = current)
  BY <1>1, <1>2 DEF Waits, Owes
<1>4. \A t \in Threads, b \in Ids :
        (Finishing(t, b)' <=> Finishing(t, b)) /\ (Records(t, b)' <=> Records(t, b))
  BY <1>1 DEF Finishing, Records
<1>5. SameDeeds /\ Submitting(current) /\ \A b \in Ids : ~Submitting(b)'
  BY <1>1 DEF SameDeeds, Submitting
<1> QED BY <1>1, <1>3, <1>4, <1>5

-----------------------------------------------------------------------------
(* The counters of the fan-out. *)

Owing(b)   == {s \in Stages : Owes(s, b)}
InProgress == {b \in Ids : FannedOut(b) \/ \E t \in Threads : Finishing(t, b)}

\* Besides what CountersExact says of the counters: only one thread sees the last
\* completion of a block, and nothing is owed for the block any more when it does.
Counted ==
  /\ \A b \in Ids : Submitting(b) => remaining[b] = NumStages
  /\ \A b \in Ids : FannedOut(b) /\ ~Submitting(b) => remaining[b] = Cardinality(Owing(b))
  /\ inFlight = Cardinality(InProgress)
  /\ \A b \in Ids, t, u \in Threads : Finishing(t, b) /\ Finishing(u, b) => t = u
  /\ \A b \in Ids, t \in Threads : Finishing(t, b) => ~FannedOut(b)

LEMMA CountFacts ==
  /\ \A b \in Ids : IsFiniteSet(Owing(b)) /\ Cardinality(Owing(b)) \in Nat
  /\ IsFiniteSet(Stages) /\ Cardinality(Stages) = NumStages
  /\ IsFiniteSet(InProgress) /\ Cardinality(InProgress) \in Nat
<1>1. IsFiniteSet(Stages) /\ Cardinality(Stages) = NumStages
  BY EngineAssumption, FS_Interval DEF Stages
<1>2. ASSUME NEW b \in Ids PROVE IsFiniteSet(Owing(b)) /\ Cardinality(Owing(b)) \in Nat
  <2>1. Owing(b) \subseteq Stages BY DEF Owing
  <2> QED BY <1>1, <2>1, FS_Subset, FS_CardinalityType
<1>3. InProgress \in SUBSET Ids BY DEF InProgress
<1> QED BY <1>1, <1>2, <1>3, ConstantFacts

\* What a place owes or finishes, it holds.
LEMMA WorkIsHeld ==
  ASSUME Shape, NEW b \in Ids, NEW s \in Stages
  PROVE  /\ Owes(s, b) => StageHolds(s, b)
         /\ Waits(s, b) => StageHolds(s, b) /\ Owes(s, b)
         /\ Finishing(s, b) => StageHolds(s, b)
BY DEF Shape, TypeOK, WorkerTypes, Owes, Waits, Finishing, StageHolds

LEMMA UnsharedIsFree ==
  ASSUME Shape, Uniqueness, NEW b \in Ids, Unshared(b)
  PROVE  /\ \A s \in Stages : ~Owes(s, b) /\ ~Waits(s, b) /\ ~Finishing(s, b)
         /\ pc[Worker] \in {"popped", "submit"} => ~Finishing(Worker, b)
<1>1. \A s \in Stages : ~StageHolds(s, b) BY DEF Uniqueness
<1> QED BY <1>1, WorkIsHeld DEF Finishing

\* A step that leaves the work alone keeps the counters exact.
LEMMA CountedFrame ==
  ASSUME Counted, SameSubmission, UNCHANGED <<remaining, inFlight>>,
         \A s \in Stages, b \in Ids : Owes(s, b)' <=> Owes(s, b),
         \A t \in Threads, b \in Ids : Finishing(t, b)' <=> Finishing(t, b)
  PROVE  Counted'
<1>1. \A b \in Ids : (FannedOut(b)' <=> FannedOut(b)) /\ (Submitting(b)' <=> Submitting(b))
  BY DEF FannedOut, SameSubmission
<1>2. \A b \in Ids : Owing(b)' = Owing(b) BY DEF Owing
<1>3. InProgress' = InProgress BY <1>1 DEF InProgress
<1> QED BY <1>1, <1>2, <1>3 DEF Counted

LEMMA InitCounted == Init => Counted
<1> SUFFICES ASSUME Init PROVE Counted OBVIOUS
<1> USE ConstantFacts, EmptyQueueFacts
<1>1. \A b \in Ids : ~FannedOut(b) /\ \A t \in Threads : ~Finishing(t, b)
  BY DEF Init, FannedOut, Submitting, Owes, Finishing
<1>2. InProgress = {} BY <1>1 DEF InProgress
<1>3. Cardinality(InProgress) = 0 BY <1>2, FS_EmptySet
<1> QED BY <1>1, <1>3 DEF Init, Counted, FannedOut

LEMMA RelievesCounted ==
  ASSUME Shape, Counted, NEW t \in Threads, NEW s \in Stages, NEW b \in Ids,
         Relieves(t, s, b), \A c \in Ids : ~Finishing(t, c)
  PROVE  Counted'
<1> USE ConstantFacts
<1>1. /\ FannedOut(b) /\ ~Submitting(b) /\ \A u \in Threads : ~Finishing(u, b)
      /\ remaining[b] = Cardinality(Owing(b)) /\ s \in Owing(b)
  BY DEF Relieves, FannedOut, Counted, Owing
<1>2. Owing(b)' = Owing(b) \ {s} BY DEF Owing, Relieves
<1>3. /\ Cardinality(Owing(b)') = Cardinality(Owing(b)) - 1
      /\ Cardinality(Owing(b)) \in Nat /\ Cardinality(Owing(b)') \in Nat
      /\ Cardinality(Owing(b)') = 0 <=> Owing(b)' = {}
  <2>1. IsFiniteSet(Owing(b)) BY CountFacts
  <2>2. /\ IsFiniteSet(Owing(b) \ {s})
        /\ Cardinality(Owing(b) \ {s}) = Cardinality(Owing(b)) - 1
    BY <1>1, <2>1, FS_RemoveElement
  <2> QED BY <1>2, <2>1, <2>2, FS_CardinalityType, FS_EmptySet
<1>4. /\ ~Submitting(b)' /\ (FannedOut(b)' <=> remaining[b] # 1)
      /\ remaining'[b] = Cardinality(Owing(b)')
  <2>1. FannedOut(b)' <=> Owing(b)' # {}
    BY <1>1 DEF FannedOut, Owing, Relieves, SameSubmission
  <2> QED BY <1>1, <1>3, <2>1 DEF Relieves, SameSubmission
<1>5. \A c \in Ids : c # b =>
        /\ Owing(c)' = Owing(c) /\ (FannedOut(c)' <=> FannedOut(c))
        /\ (Submitting(c)' <=> Submitting(c)) /\ remaining'[c] = remaining[c]
        /\ \A u \in Threads : Finishing(u, c)' <=> Finishing(u, c)
  BY DEF Relieves, Owing, FannedOut, SameSubmission
<1>6. \A u \in Threads : Finishing(u, b)' <=> (u = t /\ remaining[b] = 1)
  BY <1>1 DEF Relieves
<1>7. InProgress' = InProgress
  <2>1. b \in InProgress /\ b \in InProgress' BY <1>1, <1>4, <1>6 DEF InProgress
  <2>2. \A c \in Ids : c # b => (c \in InProgress' <=> c \in InProgress)
    BY <1>5 DEF InProgress
  <2>3. InProgress \subseteq Ids /\ InProgress' \subseteq Ids BY DEF InProgress
  <2>4. \A c \in Ids : c \in InProgress' <=> c \in InProgress BY <2>1, <2>2
  <2> QED BY <2>3, <2>4, Zenon
<1>8. inFlight' = inFlight BY DEF Relieves
<1>9. \A c \in Ids : Submitting(c)' => remaining'[c] = NumStages
  BY <1>4, <1>5 DEF Counted
<1>10. \A c \in Ids : FannedOut(c)' /\ ~Submitting(c)' => remaining'[c] = Cardinality(Owing(c)')
  <2> SUFFICES ASSUME NEW c \in Ids, FannedOut(c)', ~Submitting(c)'
               PROVE  remaining'[c] = Cardinality(Owing(c)')
    OBVIOUS
  <2>1. CASE c = b BY <2>1, <1>4
  <2>2. CASE c # b
    <3>1. Owing(c)' = Owing(c) /\ FannedOut(c) /\ ~Submitting(c) /\ remaining'[c] = remaining[c]
      BY <1>5, <2>2
    <3> QED BY <3>1 DEF Counted
  <2> QED BY <2>1, <2>2
<1>11. \A c \in Ids, u, v \in Threads : Finishing(u, c)' /\ Finishing(v, c)' => u = v
  BY <1>5, <1>6 DEF Counted
<1>12. \A c \in Ids, u \in Threads : Finishing(u, c)' => ~FannedOut(c)'
  BY <1>4, <1>5, <1>6 DEF Counted
<1> QED BY <1>7, <1>8, <1>9, <1>10, <1>11, <1>12 DEF Counted

LEMMA AsideCounted == Shape /\ Counted /\ Aside => Counted'
<1> SUFFICES ASSUME Shape, Counted, Aside PROVE Counted' OBVIOUS
<1> USE ConstantFacts
<1>1. SameWork /\ UNCHANGED remaining BY AsideWork
<1>2. CASE Start
  <2>1. \A b \in Ids : ~FannedOut(b) /\ \A t \in Threads : ~Finishing(t, b)
    <3>1. /\ \A t \in Threads : pc[t] = "exited"
          /\ \A s \in Stages : stageQueue[s] = <<>>
          /\ skipTodo = {}
      BY <1>2 DEF Start, Shape, Posture, TypeOK, WorkerTypes
    <3> QED BY <3>1, EmptyQueueFacts DEF FannedOut, Submitting, Owes, Finishing
  <2>2. InProgress = {} BY <2>1 DEF InProgress
  <2>3. inFlight = 0 BY <2>2, FS_EmptySet DEF Counted
  <2>4. inFlight' = 0 BY <1>2 DEF Start
  <2> QED BY <1>1, <2>3, <2>4, CountedFrame DEF SameWork, SameDuties
<1>3. CASE ~Start
  <2>1. inFlight' = inFlight
    <3>1. CASE IngestBegin \/ IngestStep
      BY <3>1 DEF IngestBegin, IngestStep, IngestExhausted, IngestAcquire, IngestRefused,
                  IngestPush, engineVars
    <3>2. CASE WorkerPop \/ WorkerExit \/ WorkerUnwind \/ WorkerFinish \/ WorkerSerialRecord
      BY <3>2 DEF WorkerPop, WorkerExit, WorkerUnwind, WorkerFinish, WorkerSerialRecord, engineVars
    <3>3. CASE \E s \in Stages : StagePop(s) \/ StageExit(s) \/ StageDrop(s)
      BY <3>3 DEF StagePop, StageExit, StageDrop, engineVars
    <3>4. CASE Clear \/ StopBegin \/ StopStep \/ FlushBegin
      BY <3>4 DEF Clear, StopBegin, StopStep, StopStages, StopEnd, FlushBegin, engineVars
    <3>5. CASE FlushStep \/ \E value \in BOOLEAN : SetAccepting(value)
      BY <3>5 DEF FlushStep, FlushProbe, FlushSucceed, FlushWaitAgain, FlushTimeout, FlushReturn,
                  FlushGoesTo, SetAccepting, engineVars
    <3>6. CASE UNCHANGED vars BY <3>6 DEF vars, engineVars
    <3> QED BY <1>3, <3>1, <3>2, <3>3, <3>4, <3>5, <3>6 DEF Aside, ControlStep
  <2> QED BY <1>1, <2>1, CountedFrame DEF SameWork, SameDuties
<1> QED BY <1>2, <1>3

LEMMA MarkCounted == Shape /\ Uniqueness /\ Counted /\ WorkerMark => Counted'
<1> SUFFICES ASSUME Shape, Uniqueness, Counted, WorkerMark PROVE Counted' OBVIOUS
<1> USE ConstantFacts
<1>1. CASE ~Parallel
  <2>1. SameSubmission /\ UNCHANGED <<remaining, inFlight>>
    BY <1>1, MarkWork DEF SameSubmission
  <2> QED BY <1>1, <2>1, MarkWork, CountedFrame DEF SameDuties
<1>2. CASE Parallel
  <2>1. /\ current \in Ids /\ inFlight' = inFlight + 1 /\ remaining'[current] = NumStages
        /\ \A b \in Ids : b # current => remaining'[b] = remaining[b]
        /\ \A b \in Ids : ~Submitting(b) /\ (Submitting(b)' <=> b = current)
        /\ \A s \in Stages, b \in Ids : Owes(s, b)' <=> Owes(s, b)
        /\ \A t \in Threads, b \in Ids : Finishing(t, b)' <=> Finishing(t, b)
    BY <1>2, MarkWork DEF SameDuties
  <2>2. /\ \A s \in Stages : ~Owes(s, current)
        /\ \A t \in Threads : ~Finishing(t, current)
    BY <2>1, UnsharedIsFree DEF Unshared, WorkerMark
  <2>3. \A b \in Ids : Owing(b)' = Owing(b) BY <2>1 DEF Owing
  <2>4. \A b \in Ids : FannedOut(b)' <=> (FannedOut(b) \/ b = current)
    BY <2>1 DEF FannedOut
  <2>5. InProgress' = InProgress \union {current} /\ current \notin InProgress
    BY <2>1, <2>2, <2>4 DEF InProgress, FannedOut
  <2>6. Cardinality(InProgress') = Cardinality(InProgress) + 1
    BY <2>5, CountFacts, FS_AddElement
  <2>7. \A b \in Ids : b # current =>
          (FannedOut(b)' => FannedOut(b)) /\ ~Submitting(b)' /\ ~Submitting(b)
    BY <2>1, <2>4
  <2>8. \A b \in Ids : FannedOut(b)' /\ ~Submitting(b)' => remaining'[b] = Cardinality(Owing(b)')
    BY <2>1, <2>3, <2>7 DEF Counted
  <2> QED BY <2>1, <2>2, <2>4, <2>6, <2>8 DEF Counted
<1> QED BY <1>1, <1>2

LEMMA RefusedCounted == Shape /\ Uniqueness /\ Counted /\ SubmitRefused => Counted'
<1> SUFFICES ASSUME Shape, Uniqueness, Counted, SubmitRefused PROVE Counted' OBVIOUS
<1> USE ConstantFacts
<1>1. /\ current \in Ids /\ inFlight' = inFlight - 1 /\ UNCHANGED remaining
      /\ Submitting(current) /\ \A b \in Ids : ~Submitting(b)'
      /\ \A s \in Stages, b \in Ids : Owes(s, b)' <=> Owes(s, b)
      /\ \A t \in Threads, b \in Ids : Finishing(t, b)' <=> Finishing(t, b)
  BY RefusedWork DEF SameDuties
<1>2. /\ \A s \in Stages : ~Owes(s, current)
      /\ \A t \in Threads : ~Finishing(t, current)
  BY <1>1, UnsharedIsFree DEF Unshared, SubmitRefused
<1>3. \A b \in Ids : Owing(b)' = Owing(b) BY <1>1 DEF Owing
<1>4. \A b \in Ids : (FannedOut(b)' <=> (FannedOut(b) /\ b # current)) /\ (Submitting(b) => b = current)
  BY <1>1, <1>2 DEF FannedOut, Submitting
<1>5. InProgress' = InProgress \ {current} /\ current \in InProgress
  <2>1. \A b \in Ids : b \in InProgress' <=> (b \in InProgress /\ b # current)
    BY <1>1, <1>2, <1>4 DEF InProgress
  <2>2. current \in InProgress BY <1>1 DEF InProgress, FannedOut
  <2>3. InProgress \subseteq Ids /\ InProgress' \subseteq Ids BY DEF InProgress
  <2> QED BY <2>1, <2>2, <2>3, Zenon
<1>6. Cardinality(InProgress') = Cardinality(InProgress) - 1
  BY <1>5, CountFacts, FS_RemoveElement
<1>7. \A b \in Ids : FannedOut(b)' /\ ~Submitting(b)' => remaining'[b] = Cardinality(Owing(b)')
  BY <1>1, <1>3, <1>4 DEF Counted
<1> QED BY <1>1, <1>4, <1>6, <1>7 DEF Counted

LEMMA SubmitCounted == Shape /\ Uniqueness /\ Counted /\ Submit => Counted'
<1> SUFFICES ASSUME Shape, Uniqueness, Counted, Submit PROVE Counted' OBVIOUS
<1> USE ConstantFacts
<1>1. /\ current \in Ids /\ UNCHANGED <<remaining, inFlight>>
      /\ Submitting(current) /\ \A b \in Ids : ~Submitting(b)'
      /\ \A s \in Stages, b \in Ids : Owes(s, b)' <=> (Owes(s, b) \/ b = current)
      /\ \A t \in Threads, b \in Ids : Finishing(t, b)' <=> Finishing(t, b)
  BY SubmitWork
<1>2. \A b \in Ids : Owing(b)' = IF b = current THEN Stages ELSE Owing(b)
  BY <1>1 DEF Owing
<1>3. \E s \in Stages : TRUE BY EngineAssumption DEF Stages
<1>4. \A b \in Ids : (FannedOut(b)' <=> FannedOut(b)) /\ (Submitting(b) => b = current)
  BY <1>1, <1>3 DEF FannedOut, Submitting
<1>5. InProgress' = InProgress BY <1>1, <1>4 DEF InProgress
<1>6. \A b \in Ids : FannedOut(b)' /\ ~Submitting(b)' => remaining'[b] = Cardinality(Owing(b)')
  <2>1. \A b \in Ids : b = current => remaining'[b] = Cardinality(Owing(b)')
    <3>1. remaining[current] = NumStages BY <1>1 DEF Counted
    <3> QED BY <1>1, <1>2, <3>1, CountFacts
  <2>2. \A b \in Ids : FannedOut(b) /\ b # current => remaining'[b] = Cardinality(Owing(b)')
    <3> SUFFICES ASSUME NEW b \in Ids, FannedOut(b), b # current
                 PROVE  remaining'[b] = Cardinality(Owing(b)')
      OBVIOUS
    <3>1. remaining[b] = Cardinality(Owing(b)) BY <1>4 DEF Counted
    <3> QED BY <1>1, <1>2, <3>1
  <2> QED BY <1>4, <2>1, <2>2
<1> QED BY <1>1, <1>4, <1>5, <1>6 DEF Counted

LEMMA LeaveCounted ==
  \A t \in Threads : Shape /\ Counted /\ Leave(t) => Counted'
<1> SUFFICES ASSUME NEW t \in Threads, Shape, Counted, Leave(t) PROVE Counted' OBVIOUS
<1> USE ConstantFacts
<1>0. PICK b \in Ids : b = hand[t] BY LeaveWork
<1>1. /\ SameSubmission /\ UNCHANGED remaining /\ inFlight' = inFlight - 1
      /\ Finishing(t, b)
      /\ \A s \in Stages, c \in Ids : Owes(s, c)' <=> Owes(s, c)
      /\ \A u \in Threads, c \in Ids : Finishing(u, c)' <=> (Finishing(u, c) /\ u # t)
  BY <1>0, LeaveWork
<1>2. \A c \in Ids : Finishing(t, c) => c = b BY <1>0 DEF Finishing
<1>3. \A u \in Threads : ~Finishing(u, b)'
  <2>1. \A u \in Threads : Finishing(u, b) => u = t BY <1>1 DEF Counted
  <2> QED BY <1>1, <2>1
<1>4. \A c \in Ids : /\ Owing(c)' = Owing(c) /\ (FannedOut(c)' <=> FannedOut(c))
                     /\ Submitting(c)' <=> Submitting(c)
  BY <1>1 DEF Owing, FannedOut, SameSubmission
<1>5. InProgress' = InProgress \ {b} /\ b \in InProgress
  <2>1. b \in InProgress /\ b \notin InProgress'
    BY <1>1, <1>3, <1>4 DEF InProgress, Counted
  <2>2. \A c \in Ids : c # b => (c \in InProgress' <=> c \in InProgress)
    BY <1>1, <1>2, <1>4 DEF InProgress
  <2>3. InProgress \subseteq Ids /\ InProgress' \subseteq Ids BY DEF InProgress
  <2>4. \A c \in Ids : c \in InProgress' <=> c \in InProgress \ {b} BY <2>1, <2>2
  <2> QED BY <2>1, <2>3, <2>4, Zenon
<1>6. Cardinality(InProgress') = Cardinality(InProgress) - 1
  BY <1>5, CountFacts, FS_RemoveElement
<1> QED BY <1>1, <1>4, <1>6 DEF Counted

\* The steps that are not set aside, one by one.
LEMMA WorkSteps ==
  ASSUME Next
  PROVE  \/ Aside \/ WorkerMark \/ SubmitRefused \/ Submit \/ WorkerSkip \/ WorkerSerial
         \/ \E s \in Stages : StageServe(s) \/ StageComplete(s)
         \/ \E t \in Threads : Record(t) \/ Leave(t)
<1>1. CASE IngestBegin \/ IngestStep \/ ControlStep BY <1>1 DEF Aside
<1>2. CASE WorkerStep BY <1>2, ConstantFacts DEF WorkerStep, Aside
<1>3. ASSUME NEW s \in Stages, StageStep(s)
      PROVE  \/ StageServe(s) \/ StageComplete(s) \/ Record(s) \/ Leave(s)
             \/ StagePop(s) \/ StageExit(s) \/ StageDrop(s)
  BY <1>3 DEF StageStep
<1>4. \A s \in Stages : s \in Threads BY ConstantFacts
<1> QED BY <1>1, <1>2, <1>3, <1>4, NextSteps DEF Aside

LEMMA NextCounted == Shape /\ Uniqueness /\ Counted /\ [Next]_vars => Counted'
<1> SUFFICES ASSUME Shape, Uniqueness, Counted, [Next]_vars PROVE Counted' OBVIOUS
<1> USE ConstantFacts
<1>1. CASE Aside BY <1>1, AsideCounted
<1>2. CASE WorkerMark BY <1>2, MarkCounted
<1>3. CASE SubmitRefused BY <1>3, RefusedCounted
<1>4. CASE Submit BY <1>4, SubmitCounted
<1>5. CASE WorkerSkip
  <2>1. PICK s \in Stages, b \in Ids : Relieves(Worker, s, b) BY <1>5, SkipWork
  <2>2. \A c \in Ids : ~Finishing(Worker, c) BY <1>5 DEF WorkerSkip, Finishing
  <2> QED BY <2>1, <2>2, RelievesCounted
<1>6. CASE WorkerSerial
  <2>1. inFlight' = inFlight BY <1>6 DEF WorkerSerial, engineVars
  <2> QED BY <1>6, <2>1, SerialWork, CountedFrame DEF SameDuties
<1>7. ASSUME NEW s \in Stages, StageServe(s) PROVE Counted'
  <2>1. inFlight' = inFlight BY <1>7 DEF StageServe, engineVars
  <2> QED BY <1>7, <2>1, ServeWork, CountedFrame
<1>8. ASSUME NEW s \in Stages, StageComplete(s) PROVE Counted'
  <2>1. hand[s] \in Ids /\ Relieves(s, s, hand[s]) BY <1>8, CompleteWork
  <2>2. \A c \in Ids : ~Finishing(s, c) BY <1>8 DEF StageComplete, Finishing
  <2> QED BY <2>1, <2>2, RelievesCounted
<1>9. ASSUME NEW t \in Threads, Record(t) PROVE Counted'
  BY <1>9, RecordWork, CountedFrame
<1>10. ASSUME NEW t \in Threads, Leave(t) PROVE Counted'
  BY <1>10, LeaveCounted
<1>11. UNCHANGED vars => Aside BY DEF Aside
<1> QED BY <1>1, <1>2, <1>3, <1>4, <1>5, <1>6, <1>7, <1>8, <1>9, <1>10, <1>11, WorkSteps

THEOREM CountedInvariant == Spec => []Counted
<1>1. Conserved => Uniqueness BY DEF Conserved
<1> QED BY <1>1, ShapeInvariant, ConservedInvariant, InitCounted, NextCounted, PTL DEF Spec

LEMMA CountedIsExact == Shape /\ Counted => CountersExact
<1> SUFFICES ASSUME Shape, Counted PROVE CountersExact OBVIOUS
<1> USE ConstantFacts
<1> DEFINE fannedOut == {b \in Ids : Submitting(b) \/ \E s \in Stages : Owes(s, b)}
           finishing == {t \in Threads : pc[t] \in {"record", "leave"}}
<1>1. \A b \in fannedOut : remaining[b] =
        IF Submitting(b) THEN NumStages ELSE Cardinality({s \in Stages : Owes(s, b)})
  BY DEF Counted, FannedOut, Owing
<1>2. \A t \in finishing : hand[t] \in Ids
  BY DEF Shape, Posture, TypeOK, ThreadTypes
<1>3. fannedOut \union {hand[t] : t \in finishing} = InProgress
  BY <1>2 DEF InProgress, FannedOut, Finishing
<1> QED BY <1>1, <1>3 DEF Counted, CountersExact

\* The two counters of the fan-out never drift from what they stand for, for any number
\* of stages, any policies and any interleaving of the stages with the skipping worker
\* (FanOutBlockContext::remainingStages, m_inFlightFanOutBlocks).
THEOREM FanOutCounted == Spec => []CountersExact
BY ShapeInvariant, CountedInvariant, CountedIsExact, PTL

-----------------------------------------------------------------------------
(* What a step can do to the deeds and duties of a stage towards a block.     *)

DeedMove(s, b) ==
  /\ b \in ToSet(consumed[s]) => b \in ToSet(consumed'[s])
  /\ b \in dropped[s] => b \in dropped'[s]
  /\ b \in serial => b \in serial'
  /\ b \in ToSet(consumed'[s]) => \/ b \in ToSet(consumed[s])
                                  \/ Waits(s, b) /\ ~Waits(s, b)'
                                  \/ InSerial(b) /\ s = serialStage /\ WorkerSerial
  /\ b \in dropped'[s] => \/ b \in dropped[s]
                          \/ Waits(s, b) /\ ~Waits(s, b)' /\ <<s, b>> \in skipTodo
  /\ b \in serial' => b \in serial \/ (InSerial(b) /\ WorkerSerial)
  /\ consumed' = consumed \/ dropped' = dropped

DutyMove(s, b) ==
  /\ Waits(s, b)' => Waits(s, b) \/ (Submit /\ b = current)
  /\ Waits(s, b) => Waits(s, b)' \/ Did(s, b)'
  /\ Owes(s, b)' => Owes(s, b) \/ (Submit /\ b = current)
  /\ Owes(s, b) => Owes(s, b)' \/ Did(s, b)' \/ (StageHolds(s, b) /\ ~Waits(s, b))
  /\ Submit => (Waits(s, b)' <=> (Waits(s, b) \/ b = current))
  /\ Submit => (Owes(s, b)' <=> (Owes(s, b) \/ b = current))

LEMMA SameDeedsMove ==
  ASSUME SameDeeds, NEW s \in Stages, NEW b \in Ids PROVE DeedMove(s, b)
BY DEF SameDeeds, DeedMove

LEMMA DeedMoves ==
  ASSUME Shape, Uniqueness, [Next]_vars, NEW s \in Stages, NEW b \in Ids
  PROVE  DeedMove(s, b)
<1> USE ConstantFacts
<1>0. HistoryTypes BY DEF Shape, TypeOK
<1>1. CASE Aside BY <1>1, AsideWork, SameDeedsMove DEF SameWork
<1>2. CASE WorkerMark BY <1>2, MarkWork, SameDeedsMove
<1>3. CASE SubmitRefused BY <1>3, RefusedWork, SameDeedsMove
<1>4. CASE Submit BY <1>4, SubmitWork, SameDeedsMove
<1>5. CASE WorkerSkip
  <2>1. PICK r \in Stages, c \in Ids :
          /\ <<r, c>> \in skipTodo /\ consumed' = consumed
          /\ dropped' = [dropped EXCEPT ![r] = @ \union {c}]
          /\ \A q \in Stages, d \in Ids :
               Waits(q, d)' <=> (Waits(q, d) /\ ~(q = r /\ d = c))
    BY <1>5, SkipWork
  <2>2. serial' = serial BY <1>5 DEF WorkerSkip
  <2>3. Waits(r, c) /\ ~Waits(r, c)' BY <2>1 DEF Waits
  <2>4. \A q \in Stages : dropped'[q] = IF q = r THEN dropped[q] \union {c} ELSE dropped[q]
    BY <1>0, <2>1 DEF HistoryTypes
  <2> QED BY <2>1, <2>2, <2>3, <2>4 DEF DeedMove
<1>6. CASE WorkerSerial
  <2>1. /\ current \in Ids /\ serialStage \in Stages
        /\ consumed'[serialStage] = Append(consumed[serialStage], current)
        /\ \A r \in Stages : r # serialStage => consumed'[r] = consumed[r]
    BY <1>6, SerialWork
  <2>2. /\ dropped' = dropped /\ serial' = serial \union {current} /\ InSerial(current)
    BY <1>6 DEF WorkerSerial, InSerial
  <2>3. ToSet(consumed'[serialStage]) = ToSet(consumed[serialStage]) \union {current}
    <3>1. consumed[serialStage] \in Seq(Ids) BY <1>0, <2>1 DEF HistoryTypes
    <3> QED BY <2>1, <3>1, PushBack
  <2> QED BY <1>6, <2>1, <2>2, <2>3 DEF DeedMove, InSerial
<1>7. ASSUME NEW r \in Stages, StageServe(r) PROVE DeedMove(s, b)
  <2>1. /\ hand[r] \in Ids /\ Waits(r, hand[r])
        /\ consumed'[r] = Append(consumed[r], hand[r])
        /\ \A q \in Stages : q # r => consumed'[q] = consumed[q]
        /\ \A q \in Stages, d \in Ids :
             Waits(q, d)' <=> (Waits(q, d) /\ ~(q = r /\ d = hand[r]))
    BY <1>7, ServeWork
  <2>2. dropped' = dropped /\ serial' = serial BY <1>7 DEF StageServe
  <2>3. ToSet(consumed'[r]) = ToSet(consumed[r]) \union {hand[r]}
    <3>1. consumed[r] \in Seq(Ids) BY <1>0 DEF HistoryTypes
    <3>2. ToSet(Append(consumed[r], hand[r])) = ToSet(consumed[r]) \union {hand[r]}
      BY <2>1, <3>1, PushBack
    <3> QED BY <2>1, <3>2
  <2>4. CASE s = r
    <3>1. b \in ToSet(consumed'[s]) => b \in ToSet(consumed[s]) \/ b = hand[r] BY <2>3, <2>4
    <3>2. b = hand[r] => Waits(s, b) /\ ~Waits(s, b)' BY <2>1, <2>4
    <3> QED BY <2>2, <2>3, <2>4, <3>1, <3>2 DEF DeedMove
  <2>5. CASE s # r
    <3>1. consumed'[s] = consumed[s] BY <2>1, <2>5
    <3> QED BY <2>2, <3>1 DEF DeedMove
  <2> QED BY <2>4, <2>5
<1>8. ASSUME NEW r \in Stages, StageComplete(r) PROVE DeedMove(s, b)
  BY <1>8, CompleteWork, SameDeedsMove
<1>9. ASSUME NEW t \in Threads, Record(t) \/ Leave(t) PROVE DeedMove(s, b)
  BY <1>9, RecordWork, LeaveWork, SameDeedsMove
<1>10. UNCHANGED vars => Aside BY DEF Aside
<1> QED BY <1>1, <1>2, <1>3, <1>4, <1>5, <1>6, <1>7, <1>8, <1>9, <1>10, WorkSteps

LEMMA SameDutiesMove ==
  ASSUME NEW s \in Stages, NEW b \in Ids, ~Submit,
         Waits(s, b)' <=> Waits(s, b), Owes(s, b)' <=> Owes(s, b)
  PROVE  DutyMove(s, b)
BY DEF DutyMove

LEMMA DutyMoves ==
  ASSUME Shape, Uniqueness, [Next]_vars, NEW s \in Stages, NEW b \in Ids
  PROVE  DutyMove(s, b)
<1> USE ConstantFacts
<1>1. CASE Submit BY <1>1, SubmitWork DEF DutyMove
<1>2. CASE Aside /\ ~Submit BY <1>2, AsideWork, SameDutiesMove DEF SameWork, SameDuties
<1>3. CASE WorkerMark /\ ~Submit BY <1>3, MarkWork, SameDutiesMove DEF SameDuties
<1>4. CASE SubmitRefused /\ ~Submit BY <1>4, RefusedWork, SameDutiesMove DEF SameDuties
<1>5. CASE WorkerSkip /\ ~Submit
  <2>1. PICK r \in Stages, c \in Ids :
          /\ Relieves(Worker, r, c)
          /\ \A q \in Stages, d \in Ids :
               /\ Waits(q, d)' <=> (Waits(q, d) /\ ~(q = r /\ d = c))
               /\ Did(q, d)' <=> (Did(q, d) \/ (q = r /\ d = c))
    BY <1>5, SkipWork
  <2>2. Owes(s, b)' <=> (Owes(s, b) /\ ~(s = r /\ b = c)) BY <2>1 DEF Relieves
  <2> QED BY <1>5, <2>1, <2>2 DEF DutyMove
<1>6. CASE WorkerSerial /\ ~Submit BY <1>6, SerialWork, SameDutiesMove DEF SameDuties
<1>7. ASSUME NEW r \in Stages, StageServe(r), ~Submit PROVE DutyMove(s, b)
  BY <1>7, ServeWork DEF DutyMove
<1>8. ASSUME NEW r \in Stages, StageComplete(r), ~Submit PROVE DutyMove(s, b)
  <2>1. /\ hand[r] \in Ids /\ Relieves(r, r, hand[r])
        /\ Waits(s, b)' <=> Waits(s, b)
    BY <1>8, CompleteWork
  <2>2. Owes(s, b)' <=> (Owes(s, b) /\ ~(s = r /\ b = hand[r])) BY <2>1 DEF Relieves
  <2>3. StageHolds(r, hand[r]) /\ ~Waits(r, hand[r])
    <3>1. /\ pc[r] = "complete" /\ hand[r] \notin ToSet(stageQueue[r])
          /\ <<r, hand[r]>> \notin skipTodo
      BY <1>8, <2>1 DEF StageComplete, Shape, TypeOK, WorkerTypes, Uniqueness
    <3> QED BY <3>1 DEF StageHolds, Waits
  <2> QED BY <1>8, <2>1, <2>2, <2>3 DEF DutyMove
<1>9. ASSUME NEW t \in Threads, Record(t) \/ Leave(t), ~Submit PROVE DutyMove(s, b)
  BY <1>9, RecordWork, LeaveWork, SameDutiesMove
<1>10. UNCHANGED vars => Aside BY DEF Aside
<1> QED BY <1>1, <1>2, <1>3, <1>4, <1>5, <1>6, <1>7, <1>8, <1>9, <1>10, WorkSteps

-----------------------------------------------------------------------------
(* What each party leaves alone, and what a step can do to the life of a block. *)

LEMMA IngestFrame ==
  IngestBegin \/ IngestStep =>
    UNCHANGED <<closed, gateVars, threadVars, workerVars, engineVars, stageVars,
                historyVars, controlVars>>
BY DEF IngestBegin, IngestStep, IngestExhausted, IngestAcquire, IngestRefused, IngestPush, queueVars

LEMMA WorkerFrame ==
  WorkerStep => UNCHANGED <<closed, accepted, ingestVars, gateVars, controlVars, cleared, stageStop>>
<1>1. WorkerPop \/ WorkerExit \/ WorkerMark \/ SubmitRefused =>
        UNCHANGED <<closed, accepted, ingestVars, gateVars, controlVars, cleared, stageStop>>
  BY DEF WorkerPop, WorkerExit, WorkerMark, SubmitRefused, queueVars, historyVars, stageVars
<1>2. Submit \/ WorkerSkip \/ WorkerSerial \/ WorkerSerialRecord =>
        UNCHANGED <<closed, accepted, ingestVars, gateVars, controlVars, cleared, stageStop>>
  BY DEF Submit, WorkerSkip, WorkerSerial, WorkerSerialRecord, queueVars, historyVars, stageVars
<1>3. WorkerUnwind \/ WorkerFinish \/ Record(Worker) \/ Leave(Worker) =>
        UNCHANGED <<closed, accepted, ingestVars, gateVars, controlVars, cleared, stageStop>>
  BY DEF WorkerUnwind, WorkerFinish, Record, Leave, queueVars, historyVars, stageVars
<1> QED BY <1>1, <1>2, <1>3 DEF WorkerStep

LEMMA StageFrame ==
  ASSUME Shape, NEW s \in Stages, StageStep(s)
  PROVE  /\ UNCHANGED <<queueVars, ingestVars, gateVars, workerVars, controlVars,
                        processing, completedPops, serial, cleared, stageStop>>
         /\ \A t \in Threads : t # s => pc'[t] = pc[t] /\ hand'[t] = hand[t]
         /\ \A r \in Stages : r # s => stageQueue'[r] = stageQueue[r] /\ consumed'[r] = consumed[r]
<1> USE ConstantFacts DEF engineVars, stageVars, historyVars, ThreadTypes, StageTypes, HistoryTypes
<1>0. ThreadTypes /\ StageTypes /\ HistoryTypes BY DEF Shape, TypeOK
<1>1. CASE StagePop(s) BY <1>0, <1>1 DEF StagePop
<1>2. CASE StageExit(s) BY <1>0, <1>2 DEF StageExit
<1>3. CASE StageServe(s) BY <1>0, <1>3 DEF StageServe
<1>4. CASE StageComplete(s) BY <1>0, <1>4 DEF StageComplete, Complete
<1>5. CASE Record(s) BY <1>0, <1>5 DEF Record
<1>6. CASE Leave(s) BY <1>0, <1>6 DEF Leave
<1>7. CASE StageDrop(s) BY <1>0, <1>7 DEF StageDrop
<1> QED BY <1>1, <1>2, <1>3, <1>4, <1>5, <1>6, <1>7 DEF StageStep

LEMMA ControlFrame ==
  ControlStep => /\ UNCHANGED <<ingestVars, hand, workerVars, remaining, consumed, dropped,
                                recorded, serial>>
                 /\ UNCHANGED <<queue, owners, cleared>> \/ (EmptyQueue /\ (cleared' = cleared \/ Clear))
                 /\ UNCHANGED <<pc, stageQueue, accepted, completedPops>> \/ Start
<1>1. CASE Start BY <1>1 DEF Start, historyVars
<1>2. CASE Clear BY <1>2 DEF Clear, threadVars, workerVars, stageVars, engineVars
<1>3. CASE StopBegin BY <1>3 DEF StopBegin, poolVars, threadVars, workerVars, stageVars, engineVars, historyVars
<1>4. CASE StopStages
  BY <1>4 DEF StopStages, poolVars, queueVars, threadVars, workerVars, engineVars, historyVars
<1>5. CASE StopEnd BY <1>5 DEF StopEnd, threadVars, workerVars, stageVars, historyVars
<1>6. CASE FlushBegin
  BY <1>6 DEF FlushBegin, poolVars, queueVars, threadVars, workerVars, stageVars, engineVars, historyVars
<1>7. CASE FlushStep
  BY <1>7 DEF FlushStep, FlushProbe, FlushSucceed, FlushWaitAgain, FlushTimeout, FlushReturn,
              FlushGoesTo, poolVars, queueVars, threadVars, workerVars, stageVars, engineVars, historyVars
<1>8. ASSUME NEW value \in BOOLEAN, SetAccepting(value)
      PROVE UNCHANGED <<ingestVars, poolVars, queueVars, threadVars, workerVars, stageVars, engineVars, historyVars>>
  BY <1>8 DEF SetAccepting
<1> QED BY <1>1, <1>2, <1>3, <1>4, <1>5, <1>6, <1>7, <1>8
        DEF ControlStep, StopStep, poolVars, queueVars, threadVars, stageVars, engineVars, historyVars

LEMMA OwnersMove ==
  ASSUME Shape, [Next]_vars, NEW b \in Ids, NEW t \in owners'[b]
  PROVE  t \in owners[b] \/ (IngestAcquire /\ b = nextId) \/ (Submit /\ b = current)
<1> USE ConstantFacts DEF PoolTypes, poolVars
<1>0. PoolTypes /\ ThreadTypes BY DEF Shape, TypeOK
<1>1. CASE UNCHANGED vars BY <1>1 DEF vars
<1>2. CASE IngestBegin \/ IngestStep
  <2>1. CASE IngestAcquire BY <1>0, <2>1 DEF IngestAcquire
  <2>2. CASE IngestRefused BY <1>0, <2>2 DEF IngestRefused, ReleaseTo
  <2>3. CASE IngestBegin \/ IngestExhausted \/ IngestPush
    BY <2>3 DEF IngestBegin, IngestExhausted, IngestPush
  <2> QED BY <1>2, <2>1, <2>2, <2>3 DEF IngestStep
<1>3. CASE WorkerStep
  <2>1. CASE WorkerUnwind
    <3>1. owners' = [c \in Ids |-> owners[c] \ ({s \in Stages : <<s, c>> \in skipped}
                                      \union IF c = current THEN {Worker} ELSE {})]
      BY <2>1 DEF WorkerUnwind, ReleaseTo
    <3> QED BY <3>1
  <2>2. CASE Submit BY <1>0, <2>2 DEF Submit
  <2>3. CASE WorkerPop \/ WorkerExit \/ WorkerMark \/ SubmitRefused \/ WorkerSkip \/ WorkerFinish
    BY <2>3 DEF WorkerPop, WorkerExit, WorkerMark, SubmitRefused, WorkerSkip, WorkerFinish
  <2>4. CASE WorkerSerial \/ WorkerSerialRecord \/ Record(Worker) \/ Leave(Worker)
    BY <2>4 DEF WorkerSerial, WorkerSerialRecord, Record, Leave
  <2> QED BY <1>3, <2>1, <2>2, <2>3, <2>4 DEF WorkerStep
<1>4. ASSUME NEW s \in Stages, StageStep(s) PROVE t \in owners[b]
  <2>1. CASE StageDrop(s)
    <3>1. hand[s] \in Ids BY <2>1 DEF StageDrop, Shape, TypeOK, ThreadTypes, Posture
    <3> QED BY <1>0, <2>1, <3>1 DEF StageDrop, ReleaseTo
  <2>2. CASE ~StageDrop(s)
    BY <1>4, <2>2 DEF StageStep, StagePop, StageExit, StageServe, StageComplete, Record, Leave
  <2> QED BY <2>1, <2>2
<1>5. CASE ControlStep
  BY <1>5, ControlFrame DEF EmptyQueue, ReleaseTo
<1> QED BY <1>1, <1>2, <1>3, <1>4, <1>5, NextSteps

LEMMA HoldMoves ==
  ASSUME Shape, Conserved, Conserved', [Next]_vars, NEW b \in Ids
  PROVE  /\ \A s \in Stages : StageHolds(s, b)' => StageHolds(s, b) \/ (Submit /\ b = current)
         /\ b \in Live' => b \in Live \/ (IngestAcquire /\ b = nextId)
<1> USE ConstantFacts
<1>1. \A s \in Stages : /\ StageHolds(s, b)' <=> s \in owners'[b]
                        /\ StageHolds(s, b) <=> s \in owners[b]
  BY DEF Conserved, Ownership
<1>2. \A s \in Stages : StageHolds(s, b)' => StageHolds(s, b) \/ (Submit /\ b = current)
  <2> SUFFICES ASSUME NEW s \in Stages, s \in owners'[b], s \notin owners[b]
               PROVE  Submit /\ b = current
    BY <1>1
  <2>1. CASE IngestAcquire /\ b = nextId
    <3>1. owners'[b] = {Worker} BY <2>1 DEF IngestAcquire, Shape, TypeOK, PoolTypes
    <3> QED BY <3>1
  <2> QED BY <2>1, OwnersMove
<1>3. b \in Live' => b \in Live \/ (IngestAcquire /\ b = nextId)
  <2>1. CASE Submit /\ b = current
    <3>1. WorkerHolds(b) BY <2>1 DEF Submit, WorkerHolds
    <3> QED BY <3>1 DEF Conserved, Ownership, Live
  <2> QED BY <2>1, OwnersMove DEF Live
<1> QED BY <1>2, <1>3

PlaceMove(b) ==
  /\ Unshared(b)' => Unshared(b) \/ (IngestAcquire /\ b = nextId)
  /\ InSerial(b)' => \/ InSerial(b) /\ serialStage' = serialStage /\ ~WorkerSerial
                     \/ InSerial(b) /\ serialStage' = serialStage + 1 /\ WorkerSerial
                     \/ b = current /\ pc[Worker] \in {"popped", "submit"} /\ serialStage' = 1
  /\ nextId' = nextId \/ nextId' = nextId + 1
  /\ b \in cleared => b \in cleared'
  /\ b \in cleared' => b \in cleared \/ (Clear /\ b \in ToSet(queue))

\* The worker and the ingesting thread leave the block where it is.
LEMMA PlaceFrame ==
  ASSUME Shape, NEW b \in Ids, ~WorkerSerial,
         UNCHANGED <<ingestVars, current, serialStage, cleared>>,
         queue' = queue \/ queue' = <<>>,
         pc'[Worker] \in {"popped", "submit", "serial"} => pc'[Worker] = pc[Worker]
  PROVE  PlaceMove(b)
<1>1. nextId \in Nat BY ConstantFacts DEF Shape, TypeOK, IngestTypes
<1>2. nextId' = nextId /\ ingestBlock' = ingestBlock BY DEF ingestVars
<1>3. ToSet(queue') = ToSet(queue) \/ ToSet(queue') = {} BY EmptyQueueFacts
<1> QED BY <1>1, <1>2, <1>3 DEF PlaceMove, Unshared, InSerial

LEMMA PlaceMoves ==
  ASSUME Shape, [Next]_vars, NEW b \in Ids PROVE PlaceMove(b)
<1> USE ConstantFacts
<1>0. /\ ThreadTypes /\ QueueTypes /\ nextId \in Nat
      /\ ToSet(queue) \subseteq Ids /\ serialStage \in Nat
  BY Members DEF Shape, TypeOK, IngestTypes, QueueTypes, WorkerTypes
<1>1. CASE UNCHANGED vars BY <1>0, <1>1 DEF vars, PlaceMove, Unshared, InSerial, ingestVars,
                              queueVars, workerVars, threadVars, historyVars, WorkerSerial
<1>2. CASE IngestBegin \/ IngestStep
  <2>1. UNCHANGED <<pc, current, serialStage, cleared>> /\ ~WorkerSerial
    BY <1>0, <1>2, IngestFrame DEF threadVars, workerVars, historyVars, WorkerSerial
  <2>2. CASE IngestBegin \/ IngestExhausted
    BY <1>0, <2>1, <2>2 DEF IngestBegin, IngestExhausted, PlaceMove, Unshared, InSerial, queueVars
  <2>3. CASE IngestAcquire
    BY <2>1, <2>3 DEF IngestAcquire, PlaceMove, Unshared, InSerial, queueVars
  <2>4. CASE IngestRefused
    BY <1>0, <2>1, <2>4 DEF IngestRefused, PlaceMove, Unshared, InSerial, queueVars
  <2>5. CASE IngestPush
    <3>1. ingestBlock \in Ids BY <2>5 DEF IngestPush, Shape, Posture
    <3>2. queue \in Seq(Ids) BY <1>0 DEF QueueTypes
    <3>3. ToSet(queue') = ToSet(queue) \union {ingestBlock}
      BY <2>5, <3>1, <3>2, PushBack DEF IngestPush
    <3> QED BY <1>0, <2>1, <2>5, <3>3 DEF IngestPush, PlaceMove, Unshared, InSerial
  <2> QED BY <1>2, <2>2, <2>3, <2>4, <2>5 DEF IngestStep
<1>3. CASE WorkerStep
  <2>0. UNCHANGED <<ingestVars, cleared>> BY <1>3, WorkerFrame
  <2>1. CASE WorkerPop
    <3>1. queue \in Seq(Ids) /\ queue # <<>> BY <1>0, <2>1 DEF QueueTypes, WorkerPop
    <3>2. /\ ToSet(queue) = {current'} \union ToSet(queue') /\ pc'[Worker] = "popped"
          /\ serialStage' = serialStage /\ ~WorkerSerial
      BY <1>0, <2>1, <3>1, PopFront DEF WorkerPop, WorkerSerial, ThreadTypes
    <3> QED BY <1>0, <2>0, <3>2 DEF PlaceMove, Unshared, InSerial, ingestVars
  <2>2. CASE WorkerMark
    BY <1>0, <2>0, <2>2 DEF WorkerMark, WorkerSerial, ThreadTypes, PlaceMove, Unshared, InSerial,
                            ingestVars, queueVars
  <2>3. CASE SubmitRefused
    BY <1>0, <2>0, <2>3 DEF SubmitRefused, WorkerSerial, ThreadTypes, PlaceMove, Unshared, InSerial,
                            ingestVars, queueVars
  <2>4. CASE WorkerSerial
    BY <1>0, <2>0, <2>4 DEF WorkerSerial, PlaceMove, Unshared, InSerial,
                            ingestVars, queueVars, threadVars
  <2>5. CASE WorkerExit \/ Submit \/ WorkerUnwind \/ WorkerSerialRecord
    <3>1. /\ UNCHANGED <<queue, current, serialStage>> /\ ~WorkerSerial
          /\ pc'[Worker] \notin {"popped", "submit", "serial"}
      BY <1>0, <2>5 DEF WorkerExit, Submit, WorkerUnwind, WorkerSerialRecord, WorkerSerial,
                        ThreadTypes, queueVars, workerVars
    <3> QED BY <2>0, <3>1, PlaceFrame
  <2>6. CASE Record(Worker) \/ Leave(Worker)
    <3>1. /\ UNCHANGED <<queue, current, serialStage>> /\ ~WorkerSerial
          /\ pc'[Worker] \notin {"popped", "submit", "serial"}
      BY <1>0, <2>6 DEF Record, Leave, WorkerSerial, ThreadTypes, queueVars, workerVars
    <3> QED BY <2>0, <3>1, PlaceFrame
  <2>7. CASE WorkerSkip
    <3>0. PICK c \in Ids : Complete(Worker, c, "skip") BY <2>7, SkipStep
    <3>1. pc'[Worker] \in {"skip", "record"}
      BY <1>0, <3>0, CompleteStep DEF Shape, TypeOK
    <3>2. UNCHANGED <<queue, current, serialStage>> /\ ~WorkerSerial
      BY <2>7 DEF WorkerSkip, WorkerSerial, queueVars
    <3> QED BY <2>0, <3>1, <3>2, PlaceFrame
  <2>8. CASE WorkerFinish
    <3>1. /\ UNCHANGED queue /\ current' = None /\ ~WorkerSerial
          /\ pc'[Worker] = "pop"
      BY <1>0, <2>8 DEF WorkerFinish, WorkerSerial, ThreadTypes, queueVars
    <3> QED BY <1>0, <2>0, <3>1 DEF PlaceMove, Unshared, InSerial, ingestVars
  <2> QED BY <1>3, <2>1, <2>2, <2>3, <2>4, <2>5, <2>6, <2>7, <2>8 DEF WorkerStep
<1>4. ASSUME NEW s \in Stages, StageStep(s) PROVE PlaceMove(b)
  <2>1. /\ UNCHANGED <<queueVars, ingestVars, workerVars, cleared>> /\ pc'[Worker] = pc[Worker]
    BY <1>4, StageFrame
  <2>2. serialStage' # serialStage + 1
    <3>1. serialStage \in Nat BY DEF Shape, TypeOK, WorkerTypes
    <3> QED BY <2>1, <3>1 DEF workerVars
  <2> QED BY <2>1, <2>2, PlaceFrame DEF queueVars, workerVars, WorkerSerial
<1>5. CASE ControlStep
  <2>1. /\ UNCHANGED <<ingestVars, workerVars, serial>> /\ (queue' = queue \/ queue' = <<>>)
        /\ pc'[Worker] \in {"popped", "submit", "serial"} => pc'[Worker] = pc[Worker]
    BY <1>5, ControlFrame DEF EmptyQueue, Start
  <2>2. serialStage' # serialStage + 1
    <3>1. serialStage \in Nat BY DEF Shape, TypeOK, WorkerTypes
    <3> QED BY <2>1, <3>1 DEF workerVars
  <2>3. ~WorkerSerial BY <2>2 DEF WorkerSerial
  <2>4. CASE ~Clear
    <3>1. cleared' = cleared BY <1>5, <2>4, ControlFrame
    <3> QED BY <2>1, <2>3, <3>1, PlaceFrame DEF workerVars
  <2>5. CASE Clear
    <3>1. /\ cleared' = cleared \union ToSet(queue) /\ pc' = pc /\ ToSet(queue') = {}
      BY <2>5, EmptyQueueFacts DEF Clear, EmptyQueue, threadVars
    <3> QED BY <1>0, <2>1, <2>3, <2>5, <3>1 DEF PlaceMove, Unshared, InSerial, ingestVars, workerVars
  <2> QED BY <2>4, <2>5
<1> QED BY <1>1, <1>2, <1>3, <1>4, <1>5, NextSteps

RecordMove(b) ==
  /\ \/ recorded'[b] = recorded[b]
     \/ /\ recorded'[b] = recorded[b] + 1
        /\ \/ \E t \in Threads : Record(t) /\ hand[t] = b
           \/ WorkerSerialRecord /\ b = current /\ \A s \in Stages : s < serialStage
  /\ Submitting(b)' => Submitting(b) \/ (WorkerMark /\ b = current)
  /\ Recording(b)' => Recording(b) \/ (~Submitting(b) /\ \E s \in Stages : Owes(s, b))
  /\ Submitting(b) => \/ Submitting(b)'
                      \/ (SubmitRefused /\ b = current) \/ (Submit /\ b = current)
  /\ Recording(b) => Recording(b)' \/ \E t \in Threads : Record(t) /\ hand[t] = b
  /\ (~Submitting(b) /\ \E s \in Stages : Owes(s, b)) =>
       Recording(b)' \/ \E s \in Stages : Owes(s, b)'

LEMMA SerialRecordStep ==
  ASSUME Shape, WorkerSerialRecord
  PROVE  /\ current \in Ids /\ recorded'[current] = recorded[current] + 1
         /\ \A b \in Ids : b # current => recorded'[b] = recorded[b]
         /\ \A s \in Stages : s < serialStage
BY ConstantFacts, EngineAssumption
   DEF WorkerSerialRecord, Shape, Posture, TypeOK, WorkerTypes, HistoryTypes, Stages

LEMMA RelievesRecords ==
  ASSUME Shape, Counted, NEW t \in Threads, NEW s \in Stages, NEW c \in Ids, NEW b \in Ids,
         Relieves(t, s, c), recorded' = recorded
  PROVE  RecordMove(b)
<1>1. /\ Submitting(b)' <=> Submitting(b)
      /\ Recording(b)' <=> (Recording(b) \/ (b = c /\ remaining[c] = 1))
      /\ b = c => Owes(s, b) /\ ~Submitting(b)
  BY DEF Relieves, SameSubmission, Recording
<1>2. ASSUME ~Submitting(b), \E r \in Stages : Owes(r, b), ~Recording(b)'
      PROVE  \E r \in Stages : Owes(r, b)'
  <2>1. CASE b # c BY <1>2, <2>1 DEF Relieves
  <2>2. CASE b = c
    <3>1. remaining[b] # 1 /\ remaining[b] = Cardinality(Owing(b)) /\ s \in Owing(b)
      BY <1>1, <1>2, <2>2 DEF Counted, FannedOut, Owing
    <3>2. Owing(b) # {s}
      <4>1. Cardinality({s}) = 1 BY FS_Singleton
      <4> QED BY <3>1, <4>1
    <3>3. PICK r \in Owing(b) : r # s BY <3>1, <3>2
    <3>4. r \in Stages /\ Owes(r, b)' BY <3>3, <2>2 DEF Owing, Relieves
    <3> QED BY <3>4
  <2> QED BY <2>1, <2>2
<1> QED BY <1>1, <1>2 DEF RecordMove

\* Nothing is recorded, completed or submitted.
LEMMA RecordFrame ==
  ASSUME NEW b \in Ids, recorded'[b] = recorded[b],
         Submitting(b)' <=> Submitting(b),
         Recording(b)' <=> Recording(b),
         \A s \in Stages : Owes(s, b)' <=> Owes(s, b)
  PROVE  RecordMove(b)
BY DEF RecordMove

LEMMA RecordMoves ==
  ASSUME Shape, Uniqueness, Counted, [Next]_vars, NEW b \in Ids
  PROVE  RecordMove(b)
<1> USE ConstantFacts
<1>1. CASE Aside /\ ~WorkerSerialRecord
  <2>1. SameWork BY <1>1, AsideWork
  <2>2. /\ Submitting(b)' <=> Submitting(b)
        /\ Recording(b)' <=> Recording(b)
        /\ \A s \in Stages : Owes(s, b)' <=> Owes(s, b)
    BY <2>1 DEF SameWork, SameDuties, SameSubmission, Recording
  <2>3. recorded' = recorded
    <3>1. CASE IngestBegin \/ IngestStep BY <3>1, IngestFrame DEF historyVars
    <3>2. CASE ControlStep BY <3>2, ControlFrame
    <3>3. CASE WorkerPop \/ WorkerExit \/ WorkerUnwind \/ WorkerFinish \/ UNCHANGED vars
      BY <3>3 DEF WorkerPop, WorkerExit, WorkerUnwind, WorkerFinish, vars, historyVars
    <3>4. CASE \E s \in Stages : StagePop(s) \/ StageExit(s) \/ StageDrop(s)
      BY <3>4 DEF StagePop, StageExit, StageDrop, historyVars
    <3> QED BY <1>1, <3>1, <3>2, <3>3, <3>4 DEF Aside
  <2> QED BY <2>2, <2>3, RecordFrame
<1>2. CASE WorkerSerialRecord
  <2>1. SameWork BY <1>2, AsideWork DEF Aside
  <2>2. /\ Submitting(b)' <=> Submitting(b)
        /\ Recording(b)' <=> Recording(b)
        /\ \A s \in Stages : Owes(s, b)' <=> Owes(s, b)
    BY <2>1 DEF SameWork, SameDuties, SameSubmission, Recording
  <2> QED BY <1>2, <2>2, SerialRecordStep DEF RecordMove
<1>3. CASE WorkerMark
  <2>1. recorded' = recorded BY <1>3 DEF WorkerMark, historyVars
  <2>2. /\ Submitting(b)' => b = current
        /\ ~Submitting(b)
        /\ Recording(b)' <=> Recording(b)
        /\ \A s \in Stages : Owes(s, b)' <=> Owes(s, b)
    BY <1>3, MarkWork DEF SameDuties, Recording
  <2> QED BY <1>3, <2>1, <2>2 DEF RecordMove
<1>4. CASE SubmitRefused
  <2>1. recorded' = recorded BY <1>4 DEF SubmitRefused, historyVars
  <2>2. /\ ~Submitting(b)'
        /\ Submitting(b) => b = current
        /\ Recording(b)' <=> Recording(b)
        /\ \A s \in Stages : Owes(s, b)' <=> Owes(s, b)
    BY <1>4, RefusedWork DEF SameDuties, Recording, Submitting
  <2> QED BY <1>4, <2>1, <2>2 DEF RecordMove
<1>5. CASE Submit
  <2>1. recorded' = recorded BY <1>5 DEF Submit, historyVars
  <2>2. /\ ~Submitting(b)'
        /\ Submitting(b) => b = current
        /\ Recording(b)' <=> Recording(b)
        /\ \A s \in Stages : Owes(s, b)' <=> (Owes(s, b) \/ b = current)
    BY <1>5, SubmitWork DEF Recording, Submitting
  <2> QED BY <1>5, <2>1, <2>2 DEF RecordMove
<1>6. CASE WorkerSkip
  <2>1. recorded' = recorded BY <1>6 DEF WorkerSkip
  <2>2. PICK s \in Stages, c \in Ids : Relieves(Worker, s, c) BY <1>6, SkipWork
  <2> QED BY <2>1, <2>2, RelievesRecords
<1>7. CASE WorkerSerial
  <2>1. recorded' = recorded BY <1>7 DEF WorkerSerial
  <2> QED BY <1>7, <2>1, SerialWork, RecordFrame DEF SameDuties, SameSubmission, Recording
<1>8. ASSUME NEW s \in Stages, StageServe(s) PROVE RecordMove(b)
  <2>1. recorded' = recorded BY <1>8 DEF StageServe
  <2> QED BY <1>8, <2>1, ServeWork, RecordFrame DEF SameSubmission, Recording
<1>9. ASSUME NEW s \in Stages, StageComplete(s) PROVE RecordMove(b)
  <2>1. recorded' = recorded BY <1>9 DEF StageComplete, historyVars
  <2>2. PICK c \in Ids : c = hand[s] /\ Relieves(s, s, c) BY <1>9, CompleteWork
  <2> QED BY <2>1, <2>2, RelievesRecords
<1>10. ASSUME NEW t \in Threads, Record(t) PROVE RecordMove(b)
  <2>1. /\ hand[t] \in Ids /\ SameSubmission
        /\ recorded'[hand[t]] = recorded[hand[t]] + 1
        /\ \A c \in Ids : c # hand[t] => recorded'[c] = recorded[c]
        /\ \A s \in Stages : Owes(s, b)' <=> Owes(s, b)
        /\ \A u \in Threads : Records(u, b)' <=> (Records(u, b) /\ u # t)
    BY <1>10, RecordWork
  <2>2. Recording(b)' => Recording(b) BY <2>1 DEF Recording
  <2>3. Recording(b) => Recording(b)' \/ hand[t] = b
    BY <2>1 DEF Recording, Records
  <2> QED BY <1>10, <2>1, <2>2, <2>3 DEF RecordMove, SameSubmission
<1>11. ASSUME NEW t \in Threads, Leave(t) PROVE RecordMove(b)
  <2>1. recorded' = recorded BY <1>11 DEF Leave, historyVars
  <2> QED BY <1>11, <2>1, LeaveWork, RecordFrame DEF SameSubmission, Recording
<1>12. UNCHANGED vars => Aside BY DEF Aside
<1> QED BY <1>1, <1>2, <1>3, <1>4, <1>5, <1>6, <1>7, <1>8, <1>9, <1>10, <1>11, <1>12, WorkSteps

LEMMA UnsharedMoves ==
  ASSUME Shape, Phases, [Next]_vars, NEW b \in Ids, Unshared(b)
  PROVE  \/ Unshared(b)' \/ InSerial(b)' \/ b \in cleared'
         \/ (IngestRefused /\ b = ingestBlock) \/ (Submit /\ b = current)
<1> USE ConstantFacts
<1>0. ThreadTypes /\ QueueTypes /\ queue \in Seq(Ids) BY DEF Shape, TypeOK, QueueTypes
<1>1. CASE UNCHANGED vars
  BY <1>1 DEF vars, Unshared, ingestVars, queueVars, workerVars, threadVars
<1>2. CASE IngestBegin \/ IngestStep
  <2>1. pc' = pc /\ current' = current BY <1>2, IngestFrame DEF threadVars, workerVars
  <2>2. CASE IngestBegin \/ IngestExhausted
    BY <2>1, <2>2 DEF IngestBegin, IngestExhausted, Unshared, queueVars
  <2>3. CASE IngestAcquire
    <3>1. b # ingestBlock BY <2>3 DEF IngestAcquire, Shape, Posture
    <3> QED BY <2>1, <2>3, <3>1 DEF IngestAcquire, Unshared, queueVars
  <2>4. CASE IngestRefused BY <2>1, <2>4 DEF IngestRefused, Unshared, queueVars
  <2>5. CASE IngestPush
    <3>1. ingestBlock \in Ids BY <2>5 DEF IngestPush, Shape, Posture
    <3>2. ToSet(queue') = ToSet(queue) \union {ingestBlock}
      BY <1>0, <2>5, <3>1, PushBack DEF IngestPush
    <3> QED BY <2>1, <3>2 DEF Unshared
  <2> QED BY <1>2, <2>2, <2>3, <2>4, <2>5 DEF IngestStep
<1>3. CASE WorkerStep
  <2>0. UNCHANGED ingestVars BY <1>3, WorkerFrame
  <2>1. CASE WorkerPop
    <3>1. ToSet(queue) = {current'} \union ToSet(queue') /\ pc'[Worker] = "popped"
      BY <1>0, <2>1, PopFront DEF WorkerPop, ThreadTypes
    <3>2. pc[Worker] = "pop" BY <2>1 DEF WorkerPop
    <3> QED BY <2>0, <3>1, <3>2 DEF Unshared, ingestVars
  <2>2. CASE WorkerMark \/ SubmitRefused
    BY <1>0, <2>0, <2>2 DEF WorkerMark, SubmitRefused, Unshared, InSerial, ThreadTypes,
                            ingestVars, queueVars
  <2>3. CASE Submit
    BY <2>0, <2>3 DEF Submit, Unshared, ingestVars, queueVars
  <2>4. CASE ~WorkerPop /\ ~WorkerMark /\ ~SubmitRefused /\ ~Submit
    <3>1. queue' = queue /\ pc[Worker] \notin {"popped", "submit"}
      BY <1>3, <2>4 DEF WorkerStep, WorkerExit, WorkerSkip, WorkerSerial, WorkerSerialRecord,
                        WorkerUnwind, WorkerFinish, Record, Leave, queueVars
    <3> QED BY <2>0, <3>1 DEF Unshared, ingestVars
  <2> QED BY <2>1, <2>2, <2>3, <2>4
<1>4. ASSUME NEW s \in Stages, StageStep(s) PROVE Unshared(b)'
  <2>1. UNCHANGED <<queueVars, ingestVars, workerVars>> /\ pc'[Worker] = pc[Worker]
    BY <1>4, StageFrame
  <2> QED BY <2>1 DEF Unshared, queueVars, ingestVars, workerVars
<1>5. CASE ControlStep
  <2>1. UNCHANGED <<ingestVars, workerVars>> BY <1>5, ControlFrame
  <2>2. CASE Start \/ StopEnd
    <3>1. pc[Worker] = "exited" BY <2>2 DEF Start, StopEnd, Shape, Posture
    <3>2. ToSet(queue) = {} BY <3>1, EmptyQueueFacts DEF Phases
    <3> QED BY <2>1, <3>1, <3>2 DEF Unshared, ingestVars
  <2>3. CASE Clear
    <3>1. cleared' = cleared \union ToSet(queue) /\ pc' = pc
      BY <2>3 DEF Clear, threadVars
    <3> QED BY <2>1, <3>1 DEF Unshared, ingestVars, workerVars
  <2>4. CASE ~Start /\ ~StopEnd /\ ~Clear
    <3>1. queue' = queue /\ pc' = pc
      BY <1>5, <2>4 DEF ControlStep, StopStep, StopBegin, StopStages, FlushBegin, FlushStep,
           FlushProbe, FlushSucceed, FlushWaitAgain, FlushTimeout, FlushReturn, FlushGoesTo,
           SetAccepting, queueVars, threadVars
    <3> QED BY <2>1, <3>1 DEF Unshared, ingestVars, workerVars
  <2> QED BY <2>2, <2>3, <2>4
<1> QED BY <1>1, <1>2, <1>3, <1>4, <1>5, NextSteps

LEMMA InSerialMoves ==
  ASSUME Shape, [Next]_vars, NEW b \in Ids, InSerial(b)
  PROVE  InSerial(b)' \/ (WorkerSerialRecord /\ b = current)
<1> USE ConstantFacts
<1>1. CASE UNCHANGED vars BY <1>1 DEF vars, InSerial, workerVars, threadVars
<1>2. CASE IngestBegin \/ IngestStep
  BY <1>2, IngestFrame DEF threadVars, workerVars, InSerial
<1>3. CASE WorkerStep
  <2>1. WorkerSerial \/ WorkerSerialRecord
    BY <1>3 DEF WorkerStep, InSerial, WorkerPop, WorkerExit, WorkerMark, SubmitRefused, Submit,
                WorkerSkip, WorkerUnwind, WorkerFinish, Record, Leave
  <2> QED BY <2>1 DEF WorkerSerial, InSerial, threadVars
<1>4. ASSUME NEW s \in Stages, StageStep(s) PROVE InSerial(b)'
  BY <1>4, StageFrame DEF InSerial, workerVars
<1>5. CASE ControlStep
  <2>1. ~Start BY DEF Start, Shape, Posture, InSerial
  <2> QED BY <1>5, <2>1, ControlFrame DEF InSerial, workerVars
<1> QED BY <1>1, <1>2, <1>3, <1>4, <1>5, NextSteps

\* A job is removed only by a submission, and never from a lossless stage.
LEMMA SkippedMove ==
  ASSUME Shape, [Next]_vars, NEW s \in Stages, NEW b \in Ids, <<s, b>> \in skipped'
  PROVE  <<s, b>> \in skipped \/ (Submit /\ s \notin Lossless /\ b \in ToSet(stageQueue[s]))
<1> USE ConstantFacts
<1>1. CASE UNCHANGED vars BY <1>1 DEF vars, workerVars
<1>2. CASE IngestBegin \/ IngestStep BY <1>2, IngestFrame DEF workerVars
<1>3. CASE WorkerStep
  <2>1. CASE Submit
    <3>1. PICK cut \in [Stages -> Nat] :
            /\ cut[s] \in 0..Len(stageQueue[s]) /\ Removes(s, cut[s])
            /\ <<s, b>> \in skipped' <=> \E i \in 1..cut[s] : stageQueue[s][i] = b
      BY <2>1, SubmitCut
    <3>2. PICK i \in 1..cut[s] : stageQueue[s][i] = b BY <3>1
    <3>3. cut[s] # 0 BY <3>1, <3>2
    <3>4. s \notin Lossless BY <3>1, <3>3 DEF Removes, Lossless
    <3>5. stageQueue[s] \in Seq(Ids) /\ Len(stageQueue[s]) \in Nat
      BY LenProperties DEF Shape, TypeOK, StageTypes
    <3>6. i \in 1..Len(stageQueue[s]) BY <3>1, <3>2, <3>5
    <3>7. b \in ToSet(stageQueue[s]) BY <3>2, <3>5, <3>6, Members
    <3> QED BY <2>1, <3>4, <3>7
  <2>2. CASE ~Submit
    <3>1. skipped' = skipped \/ skipped' = {}
      BY <1>3, <2>2 DEF WorkerStep, WorkerPop, WorkerExit, WorkerMark, SubmitRefused, WorkerSkip,
           WorkerSerial, WorkerSerialRecord, WorkerUnwind, WorkerFinish, Record, Leave, workerVars
    <3> QED BY <3>1
  <2> QED BY <2>1, <2>2
<1>4. ASSUME NEW r \in Stages, StageStep(r) PROVE skipped' = skipped
  BY <1>4, StageFrame DEF workerVars
<1>5. CASE ControlStep BY <1>5, ControlFrame DEF workerVars
<1> QED BY <1>1, <1>2, <1>3, <1>4, <1>5, NextSteps

-----------------------------------------------------------------------------
(* The ledger of the blocks: what has been done with a block where it is.     *)

Fresh(b) == b >= nextId \/ Unshared(b) \/ b \in cleared

\* No stage has seen a block that has not reached the worker's hands, or was cleared.
FreshUntouched == \A b \in Ids : Fresh(b) => Untouched(b)

Registers ==
  /\ \A b \in cleared : b < nextId /\ b \notin Live
  /\ \A b \in ToSet(accepted) : b < nextId /\ b # ingestBlock

\* A stage does with a block one thing, once.
StageLedger ==
  \A s \in Stages, b \in Ids :
    /\ Waits(s, b) => ~Did(s, b)
    /\ StageHolds(s, b) => b \notin serial /\ (Waits(s, b) \/ Did(s, b))
    /\ ~(b \in ToSet(consumed[s]) /\ b \in dropped[s])
    /\ s \in Lossless => b \notin dropped[s] /\ <<s, b>> \notin skipped

\* processBlockSequential works on a block no stage holds, stage by stage.
SerialPass ==
  pc[Worker] = "serial" =>
    /\ recorded[current] = 0 /\ (serialStage > 1 => current \in serial)
    /\ \A s \in Stages : ~StageHolds(s, current) /\ (Did(s, current) <=> s < serialStage)

\* A block is recorded once, when all has been done with it.
RecordedOnce ==
  \A b \in Ids :
    /\ recorded[b] <= 1
    /\ recorded[b] = 1 => ~FannedOut(b) /\ ~Recording(b)
    /\ recorded[b] = 1 \/ Recording(b) \/ (\E s \in Stages : Owes(s, b)) =>
         \A s \in Stages : Owes(s, b) \/ Did(s, b)

\* No block is lost.
Fate(b) ==
  \/ Unshared(b) \/ InSerial(b) \/ b \in cleared
  \/ recorded[b] = 1 \/ FannedOut(b) \/ Recording(b)
Fates == \A b \in Ids : b \in Live \/ b \in ToSet(accepted) => Fate(b)

Ledger == FreshUntouched /\ Registers /\ StageLedger /\ SerialPass /\ RecordedOnce /\ Fates

\* All that the ledger rests on.
Base == Shape /\ Conserved /\ Phases /\ Counted

LEMMA InitLedger == Init => Ledger
<1> SUFFICES ASSUME Init PROVE Ledger OBVIOUS
<1> USE ConstantFacts, EmptyQueueFacts
<1>1. \A b \in Ids : Untouched(b) /\ recorded[b] = 0 BY DEF Init, Untouched, Did
<1>2. FreshUntouched BY <1>1 DEF FreshUntouched
<1>3. Registers BY DEF Init, Registers
<1>4. \A s \in Stages, b \in Ids : ~Waits(s, b) /\ ~Owes(s, b) /\ ~StageHolds(s, b) /\ ~Did(s, b)
  BY DEF Init, Waits, Owes, StageHolds, Did
<1>5. StageLedger BY <1>4 DEF Init, StageLedger
<1>6. SerialPass BY DEF Init, SerialPass
<1>7. \A b \in Ids : ~Recording(b) BY DEF Init, Recording, Records
<1>8. RecordedOnce BY <1>1, <1>4, <1>7 DEF RecordedOnce
<1>9. Fates BY DEF Init, Fates, Live
<1> QED BY <1>2, <1>3, <1>5, <1>6, <1>8, <1>9 DEF Ledger

\* What a stage or the serial worker works on has left the queue and is not cleared.
LEMMA HeldIsOld ==
  ASSUME Shape, Conserved, Registers, NEW b \in Ids,
         (\E s \in Stages : StageHolds(s, b)) \/ InSerial(b)
  PROVE  ~Fresh(b) /\ b \in Live
<1> USE ConstantFacts
<1>0. ToSet(queue) \subseteq Ids BY Members DEF Shape, TypeOK, QueueTypes
<1>1. CASE \E s \in Stages : StageHolds(s, b)
  <2>1. b \in Live BY <1>1 DEF Conserved, Ownership, Live
  <2>2. ~(b >= nextId) /\ ~Unshared(b) BY <1>1 DEF Conserved, Uniqueness
  <2> QED BY <2>1, <2>2 DEF Fresh, Registers
<1>2. CASE InSerial(b)
  <2>1. WorkerHolds(b) /\ HasCurrent(b) BY <1>2 DEF InSerial, WorkerHolds, HasCurrent
  <2>2. b \in Live /\ ~(b >= nextId) BY <2>1 DEF Conserved, Ownership, Uniqueness, Live
  <2>3. b # ingestBlock /\ b \notin ToSet(queue) BY <2>1 DEF Conserved, Uniqueness
  <2>4. ~Unshared(b) BY <1>2, <2>3 DEF Unshared, InSerial
  <2> QED BY <2>2, <2>4 DEF Fresh, Registers
<1> QED BY <1>1, <1>2

LEMMA RecordingIsHeld ==
  ASSUME Shape, Phases, NEW b \in Ids, Recording(b)
  PROVE  \E s \in Stages : StageHolds(s, b)
<1>1. PICK t \in Threads : Records(t, b) BY DEF Recording
<1>2. CASE t \in Stages
  <2>1. StageHolds(t, b) BY <1>1 DEF Records, StageHolds
  <2> QED BY <1>2, <2>1
<1>3. CASE t = Worker
  BY <1>1, <1>3 DEF Records, Phases, StageHolds
<1> QED BY <1>2, <1>3, ConstantFacts

\* What nobody works on, nobody touches.
LEMMA UnheldUntouched ==
  ASSUME Base, [Next]_vars, NEW b \in Ids, ~InSerial(b),
         \A s \in Stages : ~StageHolds(s, b)
  PROVE  /\ recorded'[b] = recorded[b] /\ (b \in serial' <=> b \in serial)
         /\ \A s \in Stages : Did(s, b)' <=> Did(s, b)
<1> USE ConstantFacts DEF Base
<1>1. \A s \in Stages : ~Waits(s, b) BY WorkIsHeld
<1>2. \A s \in Stages : DeedMove(s, b) BY DeedMoves DEF Conserved
<1>3. \A s \in Stages : Did(s, b)' <=> Did(s, b) BY <1>1, <1>2 DEF DeedMove, Did
<1>4. b \in serial' <=> b \in serial
  <2>1. PICK s \in Stages : DeedMove(s, b) BY <1>2, EngineAssumption DEF Stages
  <2>2. ~Waits(s, b) BY <1>1
  <2> QED BY <2>1, <2>2 DEF DeedMove
<1>5. recorded'[b] = recorded[b]
  <2>1. RecordMove(b) BY RecordMoves DEF Conserved
  <2>2. ~Recording(b) BY RecordingIsHeld
  <2>3. ~(\E t \in Threads : Record(t) /\ hand[t] = b)
    BY <2>2 DEF Recording, Records, Record
  <2>4. ~(WorkerSerialRecord /\ b = current) BY DEF WorkerSerialRecord, InSerial
  <2> QED BY <2>1, <2>3, <2>4 DEF RecordMove
<1> QED BY <1>3, <1>4, <1>5

LEMMA NextFresh ==
  ASSUME Base, Ledger, [Next]_vars PROVE FreshUntouched'
<1> USE ConstantFacts DEF Base
<1> SUFFICES ASSUME NEW b \in Ids, Fresh(b)' PROVE Untouched(b)'
  BY DEF FreshUntouched
<1>1. PlaceMove(b) BY PlaceMoves
<1>3. Fresh(b)
  <2>1. nextId \in Nat /\ b \in Nat BY DEF Shape, TypeOK, IngestTypes
  <2>2. CASE b >= nextId' BY <1>1, <2>1, <2>2 DEF PlaceMove, Fresh
  <2>3. CASE Unshared(b)' BY <1>1, <2>1, <2>3 DEF PlaceMove, Fresh
  <2>4. CASE b \in cleared' BY <1>1, <2>4 DEF PlaceMove, Fresh, Unshared
  <2> QED BY <2>2, <2>3, <2>4 DEF Fresh
<1>4. Untouched(b) BY <1>3 DEF Ledger, FreshUntouched
<1>5. ~InSerial(b) /\ \A s \in Stages : ~StageHolds(s, b)
  BY <1>3, HeldIsOld DEF Ledger
<1> QED BY <1>4, <1>5, UnheldUntouched DEF Untouched

LEMMA AcceptedMove ==
  ASSUME Shape, [Next]_vars, NEW b \in ToSet(accepted')
  PROVE  \/ b \in ToSet(accepted)
         \/ IngestPush /\ b = ingestBlock /\ ingestBlock' = None /\ b \in Ids
<1> USE ConstantFacts
<1>0. QueueTypes BY DEF Shape, TypeOK
<1>1. CASE UNCHANGED vars BY <1>1 DEF vars, queueVars
<1>2. CASE IngestBegin \/ IngestStep
  <2>1. CASE IngestPush
    <3>1. ingestBlock \in Ids BY <2>1 DEF IngestPush, Shape, Posture
    <3>2. accepted \in Seq(Ids) BY <1>0 DEF QueueTypes
    <3>3. ToSet(accepted') = ToSet(accepted) \union {ingestBlock}
      BY <2>1, <3>1, <3>2, PushBack DEF IngestPush
    <3> QED BY <2>1, <3>1, <3>3 DEF IngestPush
  <2>2. CASE ~IngestPush
    BY <1>2, <2>2 DEF IngestBegin, IngestStep, IngestExhausted, IngestAcquire, IngestRefused, queueVars
  <2> QED BY <2>1, <2>2
<1>3. CASE WorkerStep BY <1>3, WorkerFrame
<1>4. ASSUME NEW s \in Stages, StageStep(s) PROVE accepted' = accepted
  BY <1>4, StageFrame DEF queueVars
<1>5. CASE ControlStep
  <2>1. Start => ToSet(accepted') = {} BY EmptyQueueFacts DEF Start
  <2> QED BY <1>5, <2>1, ControlFrame
<1> QED BY <1>1, <1>2, <1>3, <1>4, <1>5, NextSteps

LEMMA IngestBlockMove ==
  ASSUME [Next]_vars
  PROVE  \/ ingestBlock' = ingestBlock \/ ingestBlock' = None
         \/ IngestAcquire /\ ingestBlock' = nextId
<1>1. CASE IngestBegin \/ IngestStep
  BY <1>1 DEF IngestBegin, IngestStep, IngestExhausted, IngestAcquire, IngestRefused, IngestPush
<1>2. CASE UNCHANGED vars BY <1>2 DEF vars, ingestVars
<1>3. CASE WorkerStep \/ ControlStep BY <1>3, WorkerFrame, ControlFrame DEF ingestVars
<1>4. ASSUME NEW s \in Stages, StageStep(s) PROVE ingestBlock' = ingestBlock
  <2>1. StagePop(s) \/ StageExit(s) \/ StageServe(s) \/ StageComplete(s)
           \/ Record(s) \/ Leave(s) \/ StageDrop(s)
    BY <1>4 DEF StageStep
  <2> QED BY <2>1 DEF StagePop, StageExit, StageServe, StageComplete, Record, Leave, StageDrop, ingestVars
<1> QED BY <1>1, <1>2, <1>3, <1>4, NextSteps

LEMMA NextRegisters ==
  ASSUME Base, Ledger, [Next]_vars, Conserved' PROVE Registers'
<1> USE ConstantFacts DEF Base
<1>0. /\ nextId \in Nat /\ cleared \subseteq Ids /\ ToSet(accepted) \subseteq Ids
      /\ ToSet(queue) \subseteq Ids /\ PoolTypes
  BY Members DEF Shape, TypeOK, IngestTypes, HistoryTypes, QueueTypes
<1>1. ASSUME NEW b \in cleared' PROVE b < nextId' /\ b \notin Live'
  <2>1. CASE b \in cleared
    <3>1. b < nextId /\ b \notin Live BY <2>1 DEF Ledger, Registers
    <3>2. b \in Ids /\ b \in Nat BY <1>0, <2>1
    <3>3. PlaceMove(b) BY <3>2, PlaceMoves
    <3>4. b \notin Live' BY <1>0, <3>1, <3>2, HoldMoves
    <3> QED BY <1>0, <3>1, <3>2, <3>3, <3>4 DEF PlaceMove
  <2>2. CASE b \notin cleared
    <3>1. Clear /\ b \in ToSet(queue)
      <4>1. b \in Ids
        <5>1. cleared' = cleared \/ Clear
          <6>1. CASE IngestBegin \/ IngestStep BY <6>1, IngestFrame DEF historyVars
          <6>2. CASE UNCHANGED vars BY <6>2 DEF vars, historyVars
          <6>3. CASE WorkerStep \/ ControlStep BY <6>3, WorkerFrame, ControlFrame
          <6>4. ASSUME NEW s \in Stages, StageStep(s) PROVE cleared' = cleared
            BY <6>4, StageFrame
          <6> QED BY <6>1, <6>2, <6>3, <6>4, NextSteps
        <5> QED BY <1>0, <2>2, <5>1 DEF Clear
      <4> QED BY <2>2, <4>1, PlaceMoves DEF PlaceMove
    <3>2. b \in Ids /\ b \in Nat /\ nextId' = nextId BY <1>0, <3>1 DEF Clear, ingestVars
    <3>3. ~(b >= nextId) BY <3>1, <3>2 DEF Conserved, Uniqueness, WorkerHolds
    <3>4. owners'[b] = {} BY <3>1, <3>2 DEF Clear, EmptyQueue, ReleaseTo
    <3> QED BY <1>0, <3>2, <3>3, <3>4 DEF Live
  <2> QED BY <2>1, <2>2
<1>2. ASSUME NEW b \in ToSet(accepted') PROVE b < nextId' /\ b # ingestBlock'
  <2>1. CASE b \in ToSet(accepted)
    <3>1. b < nextId /\ b # ingestBlock /\ b \in Ids /\ b \in Nat
      BY <1>0, <2>1 DEF Ledger, Registers
    <3>2. PlaceMove(b) BY <3>1, PlaceMoves
    <3> QED BY <1>0, <3>1, <3>2, IngestBlockMove DEF PlaceMove
  <2>2. CASE IngestPush /\ b = ingestBlock /\ ingestBlock' = None /\ b \in Ids
    <3>1. nextId = b + 1 /\ nextId' = nextId BY <2>2 DEF IngestPush, Shape, Posture
    <3> QED BY <2>2, <3>1
  <2> QED BY <2>1, <2>2, AcceptedMove
<1> QED BY <1>1, <1>2 DEF Registers

\* The block the worker submits is new to every stage.
LEMMA SubmittedIsNew ==
  ASSUME Base, Ledger, Submit
  PROVE  current \in Ids /\ Unshared(current) /\ Untouched(current)
<1>1. current \in Ids /\ pc[Worker] = "submit"
  BY DEF Base, Submit, Shape, Posture, TypeOK, WorkerTypes
<1>2. Unshared(current) BY <1>1 DEF Unshared
<1> QED BY <1>1, <1>2 DEF Ledger, FreshUntouched, Fresh

LEMMA SerialIsUnheld ==
  ASSUME Ledger, NEW b \in Ids, InSerial(b)
  PROVE  /\ recorded[b] = 0 /\ (serialStage > 1 => b \in serial)
         /\ \A s \in Stages : ~StageHolds(s, b) /\ (Did(s, b) <=> s < serialStage)
BY DEF Ledger, SerialPass, InSerial

LEMMA NextStageLedger ==
  ASSUME Base, Ledger, [Next]_vars, Conserved' PROVE StageLedger'
<1> USE ConstantFacts DEF Base
<1> SUFFICES ASSUME NEW s \in Stages, NEW b \in Ids
             PROVE  /\ Waits(s, b)' => ~Did(s, b)'
                    /\ StageHolds(s, b)' => b \notin serial' /\ (Waits(s, b)' \/ Did(s, b)')
                    /\ ~(b \in ToSet(consumed'[s]) /\ b \in dropped'[s])
                    /\ s \in Lossless => b \notin dropped'[s] /\ <<s, b>> \notin skipped'
  BY DEF StageLedger
<1>1. DeedMove(s, b) /\ DutyMove(s, b) BY DeedMoves, DutyMoves DEF Conserved
<1>2. StageHolds(s, b)' => StageHolds(s, b) \/ (Submit /\ b = current) BY HoldMoves
<1>3. /\ Waits(s, b) => ~Did(s, b) /\ StageHolds(s, b)
      /\ StageHolds(s, b) => b \notin serial /\ (Waits(s, b) \/ Did(s, b))
      /\ ~(b \in ToSet(consumed[s]) /\ b \in dropped[s])
      /\ s \in Lossless => b \notin dropped[s] /\ <<s, b>> \notin skipped
  BY WorkIsHeld DEF Ledger, StageLedger
<1>4. InSerial(b) => ~StageHolds(s, b) /\ (Did(s, b) <=> s < serialStage)
  BY SerialIsUnheld
<1>5. Submit /\ b = current =>
        ~Did(s, b)' /\ b \notin serial' /\ Waits(s, b)'
  <2> SUFFICES ASSUME Submit, b = current PROVE ~Did(s, b)' /\ b \notin serial' /\ Waits(s, b)'
    OBVIOUS
  <2>1. ~Did(s, b) /\ b \notin serial BY SubmittedIsNew DEF Untouched
  <2>2. SameDeeds BY SubmitWork DEF Conserved
  <2> QED BY <1>1, <2>1, <2>2 DEF SameDeeds, Did, DutyMove
<1>6. Waits(s, b)' => ~Did(s, b)'
  <2>1. CASE Submit /\ b = current BY <1>5, <2>1
  <2>2. CASE ~(Submit /\ b = current)
    BY <1>1, <1>3, <1>4, <2>2 DEF DutyMove, DeedMove, Did
  <2> QED BY <2>1, <2>2
<1>7. StageHolds(s, b)' => b \notin serial' /\ (Waits(s, b)' \/ Did(s, b)')
  <2>1. CASE Submit /\ b = current BY <1>5, <2>1
  <2>2. CASE ~(Submit /\ b = current)
    BY <1>1, <1>2, <1>3, <1>4, <2>2 DEF DutyMove, DeedMove, Did
  <2> QED BY <2>1, <2>2
<1>8. ~(b \in ToSet(consumed'[s]) /\ b \in dropped'[s])
  <2>1. serialStage \in Nat /\ s \in Nat BY DEF Shape, TypeOK, WorkerTypes
  <2>2. InSerial(b) /\ s = serialStage => ~Did(s, b) BY <1>4, <2>1
  <2> QED BY <1>1, <1>3, <2>2 DEF DeedMove, Did
<1>9. s \in Lossless => b \notin dropped'[s] /\ <<s, b>> \notin skipped'
  <2>1. <<s, b>> \in skipTodo => <<s, b>> \in skipped BY DEF Shape, TypeOK, WorkerTypes
  <2> QED BY <1>1, <1>3, <2>1, SkippedMove DEF DeedMove
<1> QED BY <1>6, <1>7, <1>8, <1>9

LEMMA NextSerialPass ==
  ASSUME Base, Ledger, [Next]_vars, Shape', Conserved' PROVE SerialPass'
<1> USE ConstantFacts DEF Base
<1>1. ASSUME NEW b \in Ids, InSerial(b)'
      PROVE  /\ recorded'[b] = 0 /\ (serialStage' > 1 => b \in serial')
             /\ \A s \in Stages : ~StageHolds(s, b)' /\ (Did(s, b)' <=> s < serialStage')
  <2>0. serialStage \in Nat \ {0} BY DEF Shape, TypeOK, WorkerTypes
  <2>1. PlaceMove(b) BY PlaceMoves
  <2>2. CASE InSerial(b) /\ serialStage' = serialStage /\ ~WorkerSerial
    <3>1. /\ recorded[b] = 0 /\ (serialStage > 1 => b \in serial)
          /\ \A s \in Stages : ~StageHolds(s, b) /\ (Did(s, b) <=> s < serialStage)
      BY <2>2, SerialIsUnheld
    <3>2. ~Submit /\ ~Recording(b)
      BY <2>2, <3>1, RecordingIsHeld DEF Submit, InSerial
    <3>3. \A s \in Stages : ~StageHolds(s, b)' BY <3>1, <3>2, HoldMoves
    <3>4. \A s \in Stages : DeedMove(s, b) /\ ~Waits(s, b)
      BY <3>1, DeedMoves, WorkIsHeld DEF Conserved
    <3>5. \A s \in Stages : Did(s, b)' <=> Did(s, b) BY <2>2, <3>4 DEF DeedMove, Did
    <3>6. b \in serial => b \in serial'
      <4>1. PICK s \in Stages : DeedMove(s, b) BY <3>4, EngineAssumption DEF Stages
      <4> QED BY <4>1 DEF DeedMove
    <3>7. recorded'[b] = recorded[b]
      <4>1. ~(\E t \in Threads : Record(t) /\ hand[t] = b)
        BY <3>2 DEF Recording, Records, Record
      <4>2. ~WorkerSerialRecord
        <5>1. WorkerSerialRecord => pc'[Worker] = "skip"
          BY DEF WorkerSerialRecord, Shape, TypeOK, ThreadTypes
        <5> QED BY <1>1, <5>1 DEF InSerial
      <4>3. RecordMove(b) BY RecordMoves DEF Conserved
      <4> QED BY <4>1, <4>2, <4>3 DEF RecordMove
    <3> QED BY <2>2, <3>1, <3>3, <3>5, <3>6, <3>7
  <2>3. CASE InSerial(b) /\ serialStage' = serialStage + 1 /\ WorkerSerial
    <3>1. /\ recorded[b] = 0
          /\ \A s \in Stages : ~StageHolds(s, b) /\ (Did(s, b) <=> s < serialStage)
      BY <2>3, SerialIsUnheld
    <3>2. \A s \in Stages : ~StageHolds(s, b)'
      BY <2>3, <3>1, HoldMoves DEF WorkerSerial, Submit
    <3>3. \A s \in Stages : Did(s, b)' <=> Did(s, b) \/ s = serialStage
      BY <2>3, SerialWork DEF InSerial
    <3>4. recorded' = recorded /\ b \in serial' BY <2>3 DEF WorkerSerial, InSerial
    <3>5. \A s \in Stages : s \in Nat BY DEF Stages
    <3> QED BY <2>0, <2>3, <3>1, <3>2, <3>3, <3>4, <3>5
  <2>4. CASE b = current /\ pc[Worker] \in {"popped", "submit"} /\ serialStage' = 1
    <3>1. Unshared(b) BY <2>4 DEF Unshared
    <3>2. Untouched(b) /\ ~InSerial(b) /\ \A s \in Stages : ~StageHolds(s, b)
      BY <2>4, <3>1 DEF Ledger, FreshUntouched, Fresh, InSerial, Conserved, Uniqueness
    <3>3. Untouched(b)' BY <3>2, UnheldUntouched DEF Untouched
    <3>4. ~Submit
      <4>1. Submit => pc'[Worker] = "skip" BY DEF Submit, Shape, TypeOK, ThreadTypes
      <4> QED BY <1>1, <4>1 DEF InSerial
    <3>5. \A s \in Stages : ~StageHolds(s, b)' BY <3>2, <3>4, HoldMoves
    <3>6. \A s \in Stages : ~(s < 1) BY DEF Stages
    <3> QED BY <2>4, <3>3, <3>5, <3>6 DEF Untouched
  <2> QED BY <1>1, <2>1, <2>2, <2>3, <2>4 DEF PlaceMove
<1>2. ASSUME pc'[Worker] = "serial" PROVE current' \in Ids
  BY <1>2 DEF Shape, Posture, TypeOK, WorkerTypes
<1>3. \A b \in Ids : InSerial(b)' <=> b = current' /\ pc'[Worker] = "serial" BY DEF InSerial
<1> QED BY <1>1, <1>2, <1>3 DEF SerialPass

LEMMA NextRecordedOnce ==
  ASSUME Base, Ledger, [Next]_vars PROVE RecordedOnce'
<1> USE ConstantFacts DEF Base
<1> SUFFICES ASSUME NEW b \in Ids
             PROVE  /\ recorded'[b] <= 1
                    /\ recorded'[b] = 1 => ~FannedOut(b)' /\ ~Recording(b)'
                    /\ recorded'[b] = 1 \/ Recording(b)' \/ (\E s \in Stages : Owes(s, b)') =>
                         \A s \in Stages : Owes(s, b)' \/ Did(s, b)'
  BY DEF RecordedOnce
<1>0. recorded[b] \in Nat /\ recorded[b] <= 1
  BY DEF Shape, TypeOK, HistoryTypes, Ledger, RecordedOnce
<1>1. /\ RecordMove(b) /\ \A s \in Stages : DutyMove(s, b) /\ DeedMove(s, b)
  BY RecordMoves, DutyMoves, DeedMoves DEF Conserved
<1>2. /\ recorded[b] = 1 => ~FannedOut(b) /\ ~Recording(b)
      /\ recorded[b] = 1 \/ Recording(b) \/ (\E s \in Stages : Owes(s, b)) =>
           \A s \in Stages : Owes(s, b) \/ Did(s, b)
  BY DEF Ledger, RecordedOnce
<1>3. Submit /\ b = current => recorded[b] = 0 BY SubmittedIsNew DEF Untouched
<1>4. ASSUME WorkerMark, b = current PROVE recorded[b] = 0
  <2>1. Unshared(b) BY <1>4 DEF WorkerMark, Unshared
  <2> QED BY <2>1 DEF Ledger, FreshUntouched, Fresh, Untouched
<1>5. ASSUME NEW t \in Threads, Record(t), hand[t] = b
      PROVE  Recording(b) /\ ~FannedOut(b)' /\ ~Recording(b)'
  <2>1. /\ Records(t, b) /\ SameSubmission /\ \A s \in Stages : Owes(s, b)' <=> Owes(s, b)
        /\ \A u \in Threads : Records(u, b)' <=> (Records(u, b) /\ u # t)
    BY <1>5, RecordWork
  <2>2. \A u \in Threads : Records(u, b) => Finishing(u, b) BY DEF Records, Finishing
  <2>3. \A u \in Threads : Finishing(u, b) => u = t /\ ~FannedOut(b)
    BY <2>1, <2>2 DEF Counted
  <2>4. Recording(b) BY <2>1 DEF Recording
  <2>5. ~FannedOut(b)' BY <2>1, <2>2, <2>3 DEF FannedOut, SameSubmission
  <2>6. ~Recording(b)' BY <2>1, <2>2, <2>3 DEF Recording
  <2> QED BY <2>4, <2>5, <2>6
<1>6. ASSUME WorkerSerialRecord, b = current
      PROVE  InSerial(b) /\ recorded[b] = 0 /\ ~FannedOut(b)' /\ ~Recording(b)'
  <2>1. InSerial(b) /\ ~Submitting(b) BY <1>6 DEF WorkerSerialRecord, InSerial, Submitting
  <2>2. recorded[b] = 0 /\ \A s \in Stages : ~StageHolds(s, b) BY <2>1, SerialIsUnheld
  <2>3. ~Recording(b) /\ \A s \in Stages : ~Owes(s, b) BY <2>2, RecordingIsHeld, WorkIsHeld
  <2>4. SameWork BY <1>6, AsideWork DEF Aside
  <2>5. ~FannedOut(b)' BY <2>1, <2>3, <2>4 DEF FannedOut, SameWork, SameDuties, SameSubmission
  <2>6. ~Recording(b)' BY <2>3, <2>4 DEF Recording, SameWork, SameDuties
  <2> QED BY <2>1, <2>2, <2>5, <2>6
<1>7. recorded'[b] <= 1 BY <1>0, <1>1, <1>2, <1>5, <1>6 DEF RecordMove
<1>8. ASSUME recorded'[b] = 1 PROVE ~FannedOut(b)' /\ ~Recording(b)'
  <2>1. CASE recorded[b] = 1
    <3>1. ~Submitting(b) /\ (\A s \in Stages : ~Owes(s, b)) /\ ~Recording(b)
      BY <1>2, <2>1 DEF FannedOut
    <3>2. ~(Submit /\ b = current) /\ ~(WorkerMark /\ b = current) BY <1>3, <1>4, <2>1
    <3>3. ~Submitting(b)' /\ ~Recording(b)' BY <1>1, <3>1, <3>2 DEF RecordMove
    <3>4. \A s \in Stages : ~Owes(s, b)' BY <1>1, <3>1, <3>2 DEF DutyMove
    <3> QED BY <3>3, <3>4 DEF FannedOut
  <2>2. CASE recorded[b] # 1
    <3>1. recorded'[b] # recorded[b] BY <1>8, <2>2
    <3> QED BY <1>1, <1>5, <1>6, <3>1 DEF RecordMove
  <2> QED BY <2>1, <2>2
<1>9. ASSUME recorded'[b] = 1 \/ Recording(b)' \/ (\E s \in Stages : Owes(s, b)'), NEW s \in Stages
      PROVE  Owes(s, b)' \/ Did(s, b)'
  <2>1. Did(s, b) => Did(s, b)' BY <1>1 DEF DeedMove, Did
  <2>2. CASE Submit /\ b = current BY <1>1, <2>2 DEF DutyMove
  <2>3. CASE Owes(s, b) \/ Did(s, b)
    <3>1. StageHolds(s, b) => Waits(s, b) \/ Did(s, b) BY DEF Ledger, StageLedger
    <3> QED BY <1>1, <2>1, <2>3, <3>1 DEF DutyMove
  <2>4. CASE ~(Owes(s, b) \/ Did(s, b)) /\ ~(Submit /\ b = current)
    <3>1. recorded[b] # 1 /\ ~Recording(b) /\ \A r \in Stages : ~Owes(r, b) BY <1>2, <2>4
    <3>2. ~Recording(b)' /\ \A r \in Stages : ~Owes(r, b)'
      BY <1>1, <2>4, <3>1 DEF RecordMove, DutyMove
    <3>3. recorded'[b] # recorded[b] BY <1>9, <3>1, <3>2
    <3>4. WorkerSerialRecord /\ b = current /\ s < serialStage
      BY <1>1, <1>5, <3>1, <3>3 DEF RecordMove
    <3>5. Did(s, b) BY <1>6, <3>4, SerialIsUnheld
    <3> QED BY <2>4, <3>5
  <2> QED BY <2>2, <2>3, <2>4
<1> QED BY <1>7, <1>8, <1>9

\* Only a refusal, or a return that leaves a record, ends the life of a block.
LEMMA FateMoves ==
  ASSUME Base, Ledger, [Next]_vars, RecordedOnce', Shape', NEW b \in Ids, Fate(b)
  PROVE  Fate(b)' \/ (IngestRefused /\ b = ingestBlock)
<1> USE ConstantFacts DEF Base
<1>0. /\ recorded[b] \in Nat /\ recorded'[b] \in Nat /\ recorded'[b] <= 1
  BY DEF Shape, TypeOK, HistoryTypes, RecordedOnce
<1>1. RecordMove(b) /\ PlaceMove(b) BY RecordMoves, PlaceMoves DEF Conserved
<1>2. CASE Unshared(b)
  <2>1. Submit /\ b = current => FannedOut(b)'
    <3>1. PICK s \in Stages : DutyMove(s, b)
      BY DutyMoves, EngineAssumption DEF Stages, Conserved
    <3> QED BY <3>1 DEF DutyMove, FannedOut
  <2> QED BY <1>2, <2>1, UnsharedMoves DEF Fate
<1>3. CASE InSerial(b)
  <2>1. ASSUME WorkerSerialRecord, b = current PROVE recorded'[b] = 1
    <3>1. recorded'[b] = recorded[b] + 1 BY <2>1, SerialRecordStep
    <3> QED BY <1>0, <3>1
  <2> QED BY <1>3, <2>1, InSerialMoves DEF Fate
<1>4. CASE b \in cleared BY <1>1, <1>4 DEF PlaceMove, Fate
<1>5. CASE recorded[b] = 1
  <2>1. recorded'[b] = 1 BY <1>0, <1>1, <1>5 DEF RecordMove
  <2> QED BY <2>1 DEF Fate
<1>6. CASE Submitting(b)
  <2>1. Unshared(b) BY <1>6 DEF Submitting, Unshared
  <2> QED BY <1>2, <2>1
<1>7. CASE ~Submitting(b) /\ \E s \in Stages : Owes(s, b)
  <2>1. Recording(b)' \/ FannedOut(b)' BY <1>1, <1>7 DEF RecordMove, FannedOut
  <2> QED BY <2>1 DEF Fate
<1>8. CASE Recording(b)
  <2>1. ASSUME NEW t \in Threads, Record(t), hand[t] = b PROVE recorded'[b] = 1
    <3>1. recorded'[b] = recorded[b] + 1 BY <2>1, RecordWork
    <3> QED BY <1>0, <3>1
  <2>2. Recording(b)' \/ recorded'[b] = 1 BY <1>1, <1>8, <2>1 DEF RecordMove
  <2> QED BY <2>2 DEF Fate
<1> QED BY <1>2, <1>3, <1>4, <1>5, <1>6, <1>7, <1>8 DEF Fate, FannedOut

LEMMA NextFates ==
  ASSUME Base, Ledger, [Next]_vars, RecordedOnce', Shape', Conserved' PROVE Fates'
<1> USE ConstantFacts DEF Base
<1> SUFFICES ASSUME NEW b \in Ids, b \in Live' \/ b \in ToSet(accepted') PROVE Fate(b)'
  BY DEF Fates
<1>1. CASE IngestAcquire /\ b = nextId
  BY <1>1 DEF IngestAcquire, Fate, Unshared
<1>2. CASE IngestRefused /\ b = ingestBlock
  <2>1. owners'[b] = {} BY <1>2 DEF IngestRefused, ReleaseTo, Shape, TypeOK, PoolTypes
  <2>2. b \notin ToSet(accepted')
    BY <1>2 DEF IngestRefused, queueVars, Ledger, Registers
  <2> QED BY <2>1, <2>2 DEF Live
<1>3. CASE ~(IngestAcquire /\ b = nextId) /\ ~(IngestRefused /\ b = ingestBlock)
  <2>1. Fate(b)
    <3>1. CASE b \in Live \/ b \in ToSet(accepted) BY <3>1 DEF Ledger, Fates
    <3>2. CASE IngestPush /\ b = ingestBlock BY <3>2 DEF Fate, Unshared
    <3> QED BY <1>3, <3>1, <3>2, HoldMoves, AcceptedMove
  <2> QED BY <1>3, <2>1, FateMoves
<1> QED BY <1>1, <1>2, <1>3

LEMMA NextLedger ==
  Base /\ Ledger /\ [Next]_vars /\ Shape' /\ Conserved' => Ledger'
<1> SUFFICES ASSUME Base, Ledger, [Next]_vars, Shape', Conserved' PROVE Ledger' OBVIOUS
<1>1. RecordedOnce' BY NextRecordedOnce
<1> QED BY <1>1, NextFresh, NextRegisters, NextStageLedger, NextSerialPass, NextFates DEF Ledger

THEOREM PhasesInvariant == Spec => []Phases
BY ShapeInvariant, InitPhases, NextPhases, PTL DEF Spec

THEOREM BaseInvariant == Spec => []Base
<1>1. Shape /\ Conserved /\ Phases /\ Counted => Base BY DEF Base
<1> QED BY <1>1, ShapeInvariant, ConservedInvariant, PhasesInvariant, CountedInvariant, PTL

\* Wherever a block is, what has been done with it is what is recorded of it: a stage does
\* with it one thing, once, it is recorded once, after the last stage, and none is lost.
THEOREM LedgerInvariant == Spec => []Ledger
<1>1. Base => Shape /\ Conserved BY DEF Base
<1> QED BY <1>1, BaseInvariant, InitLedger, NextLedger, PTL DEF Spec

-----------------------------------------------------------------------------
(***************************************************************************)
(* What the owner of the session and the stages can rely on, for every      *)
(* value of the constants: a successful flush and a stop leave no accepted  *)
(* block undone, a flush gives up only while the engine is busy, overload   *)
(* neither reorders a stage nor makes it miss the newest block, and the     *)
(* threads and queues of FanOutEngine implement BlockDelivery.              *)
(***************************************************************************)

\* The steps that move blocks between the producer, the input queue and the worker.
LEMMA FlowSteps ==
  ASSUME Shape, [Next]_vars
  PROVE  \/ IngestPush /\ UNCHANGED <<current, completedPops, cleared>>
         \/ WorkerPop /\ UNCHANGED <<accepted, completedPops, cleared>>
         \/ WorkerFinish /\ UNCHANGED <<accepted, queue, cleared>>
         \/ Clear /\ UNCHANGED <<accepted, current, completedPops>>
         \/ (Start \/ StopEnd) /\ UNCHANGED <<current, cleared>>
         \/ UNCHANGED <<accepted, queue, current, completedPops, cleared>>
<1>1. CASE UNCHANGED vars
  BY <1>1 DEF vars, queueVars, workerVars, engineVars, historyVars
<1>2. CASE IngestBegin \/ IngestStep
  <2>1. UNCHANGED <<current, completedPops, cleared>>
    BY <1>2, IngestFrame DEF workerVars, engineVars, historyVars
  <2> QED BY <1>2, <2>1 DEF IngestBegin, IngestStep, IngestExhausted, IngestAcquire,
                            IngestRefused, queueVars
<1>3. CASE WorkerStep
  <2>1. UNCHANGED <<accepted, cleared>> BY <1>3, WorkerFrame
  <2>2. CASE WorkerPop BY <2>1, <2>2 DEF WorkerPop, engineVars
  <2>3. CASE WorkerFinish BY <2>1, <2>3 DEF WorkerFinish, queueVars
  <2>4. CASE ~WorkerPop /\ ~WorkerFinish
    BY <1>3, <2>1, <2>4 DEF WorkerStep, WorkerExit, WorkerMark, SubmitRefused, Submit, WorkerSkip,
         WorkerSerial, WorkerSerialRecord, WorkerUnwind, Record, Leave, queueVars, workerVars,
         engineVars
  <2> QED BY <2>2, <2>3, <2>4
<1>4. ASSUME NEW s \in Stages, StageStep(s)
      PROVE  UNCHANGED <<accepted, queue, current, completedPops, cleared>>
  BY <1>4, StageFrame DEF queueVars, workerVars
<1>5. CASE ControlStep
  <2>1. UNCHANGED current BY <1>5, ControlFrame DEF workerVars
  <2>2. CASE Clear BY <2>1, <2>2 DEF Clear, engineVars
  <2>3. CASE Start \/ StopEnd BY <2>1, <2>3 DEF Start, StopEnd, historyVars
  <2>4. CASE ~Clear /\ ~Start /\ ~StopEnd
    BY <1>5, <2>1, <2>4 DEF ControlStep, StopStep, StopBegin, StopStages, FlushBegin, FlushStep,
         FlushProbe, FlushSucceed, FlushWaitAgain, FlushTimeout, FlushReturn, FlushGoesTo,
         SetAccepting, queueVars, engineVars, historyVars
  <2> QED BY <2>2, <2>3, <2>4
<1> QED BY <1>1, <1>2, <1>3, <1>4, <1>5, NextSteps

\* The steps of a flush, as far as its target is concerned.
LEMMA FlushSteps ==
  ASSUME [Next]_vars
  PROVE  /\ control' = "flushing" => \/ control \in {"flushing", "probed"} /\ target' = target
                                     \/ FlushBegin
         /\ control' = "probed" => \/ control = "probed" /\ target' = target
                                   \/ FlushProbe /\ target' = target
         /\ control' = "flushed" => \/ control = "flushed" /\ target' = target
                                    \/ FlushSucceed /\ target' = target
<1>1. CASE UNCHANGED vars BY <1>1 DEF vars, controlVars
<1>2. CASE IngestBegin \/ IngestStep BY <1>2, IngestFrame DEF controlVars
<1>3. CASE WorkerStep BY <1>3, WorkerFrame DEF controlVars
<1>4. ASSUME NEW s \in Stages, StageStep(s) PROVE UNCHANGED controlVars
  <2>1. StagePop(s) \/ StageExit(s) \/ StageServe(s) \/ StageComplete(s)
           \/ Record(s) \/ Leave(s) \/ StageDrop(s)
    BY <1>4 DEF StageStep
  <2> QED BY <2>1 DEF StagePop, StageExit, StageServe, StageComplete, Record, Leave, StageDrop
<1>5. CASE ControlStep
  BY <1>5 DEF ControlStep, StopStep, Start, Clear, StopBegin, StopStages, StopEnd, FlushBegin,
       FlushStep, FlushProbe, FlushSucceed, FlushWaitAgain, FlushTimeout, FlushReturn,
       FlushGoesTo, SetAccepting, controlVars
<1> QED BY <1>1, <1>2, <1>3, <1>4, <1>5, NextSteps DEF controlVars

-----------------------------------------------------------------------------
(* The input queue. *)

\* The queued blocks are the newest of the accepted ones, in order; those before them were
\* popped, unless a clear took them.
QueueIsSuffix ==
  /\ Sorted(accepted) /\ Len(queue) <= Len(accepted)
  /\ \A j \in 1..Len(queue) : queue[j] = accepted[Len(accepted) - Len(queue) + j]

Popped == completedPops + (IF current = None THEN 0 ELSE 1)
PopsCounted ==
  /\ Popped + Len(queue) <= Len(accepted)
  /\ ToSet(accepted) \intersect cleared = {} => Popped + Len(queue) = Len(accepted)
  /\ current # None =>
       \E k \in 1..(Len(accepted) - Len(queue)) : accepted[k] = current /\ k > completedPops

LEMMA FlowTypes ==
  ASSUME Shape
  PROVE  /\ queue \in Seq(Ids) /\ accepted \in Seq(Ids)
         /\ Len(queue) \in Nat /\ Len(accepted) \in Nat /\ completedPops \in Nat
         /\ ToSet(queue) \subseteq Ids /\ ToSet(accepted) \subseteq Ids
         /\ Ids \in SUBSET Int /\ Ids \subseteq Nat /\ current \in Ids \union {None}
         /\ nextId \in Nat /\ Popped \in Nat
<1>1. queue \in Seq(Ids) /\ accepted \in Seq(Ids) /\ completedPops \in Nat
  BY DEF Shape, TypeOK, QueueTypes, EngineTypes
<1>2. Len(queue) \in Nat /\ Len(accepted) \in Nat BY <1>1, LenProperties
<1>3. ToSet(queue) \subseteq Ids /\ ToSet(accepted) \subseteq Ids BY <1>1, Members
<1>4. Ids \in SUBSET Int /\ Ids \subseteq Nat BY DEF Ids
<1>5. current \in Ids \union {None} /\ nextId \in Nat
  BY ConstantFacts DEF Shape, TypeOK, WorkerTypes, IngestTypes
<1> QED BY <1>1, <1>2, <1>3, <1>4, <1>5 DEF Popped

LEMMA QueuedIsAccepted ==
  ASSUME Shape, QueueIsSuffix PROVE ToSet(queue) \subseteq ToSet(accepted)
<1> SUFFICES ASSUME NEW b \in ToSet(queue) PROVE b \in ToSet(accepted) OBVIOUS
<1>1. PICK j \in 1..Len(queue) : b = queue[j] BY FlowTypes, Members
<1>2. Len(accepted) - Len(queue) + j \in 1..Len(accepted)
  BY FlowTypes DEF QueueIsSuffix
<1>3. b = accepted[Len(accepted) - Len(queue) + j] BY <1>1 DEF QueueIsSuffix
<1>4. accepted \in Seq(Ids) BY FlowTypes
<1>5. ToSet(accepted) = {accepted[i] : i \in 1..Len(accepted)} BY <1>4, Members
<1> QED BY <1>2, <1>3, <1>5

LEMMA NextSuffix ==
  ASSUME Shape, Phases, Registers, QueueIsSuffix, [Next]_vars PROVE QueueIsSuffix'
<1>t. /\ queue \in Seq(Ids) /\ accepted \in Seq(Ids)
      /\ Len(queue) \in Nat /\ Len(accepted) \in Nat
      /\ Ids \in SUBSET Int
  BY FlowTypes
<1>e. Len(<<>>) = 0 /\ Sorted(<<>>) BY DEF Sorted
<1>1. CASE IngestPush
  <2>1. ingestBlock \in Ids /\ ingestBlock \in Nat /\ nextId = ingestBlock + 1
    BY <1>1, ConstantFacts DEF IngestPush, Shape, Posture
  <2>2. ASSUME NEW b \in ToSet(accepted) PROVE b < ingestBlock
    <3>1. b < nextId /\ b # ingestBlock /\ b \in Nat BY FlowTypes DEF Registers
    <3> QED BY <2>1, <3>1
  <2>3. Sorted(Append(accepted, ingestBlock))
    BY <1>t, <2>1, <2>2, SortedPush DEF QueueIsSuffix
  <2>4. /\ Len(accepted') = Len(accepted) + 1 /\ Len(queue') = Len(queue) + 1
        /\ \A j \in 1..Len(accepted) : accepted'[j] = accepted[j]
        /\ \A j \in 1..Len(queue) : queue'[j] = queue[j]
        /\ accepted'[Len(accepted) + 1] = ingestBlock /\ queue'[Len(queue) + 1] = ingestBlock
    BY <1>1, <1>t, <2>1, AppendProperties DEF IngestPush
  <2>5. Len(queue') <= Len(accepted') BY <1>t, <2>4 DEF QueueIsSuffix
  <2>6. ASSUME NEW j \in 1..Len(queue')
        PROVE  queue'[j] = accepted'[Len(accepted') - Len(queue') + j]
    <3>1. Len(accepted') - Len(queue') = Len(accepted) - Len(queue) BY <1>t, <2>4
    <3>2. CASE j \in 1..Len(queue)
      <4>1. Len(accepted) - Len(queue) + j \in 1..Len(accepted)
        BY <1>t, <3>2 DEF QueueIsSuffix
      <4>2. queue[j] = accepted[Len(accepted) - Len(queue) + j] BY <3>2 DEF QueueIsSuffix
      <4> QED BY <2>4, <3>1, <3>2, <4>1, <4>2
    <3>3. CASE j = Len(queue) + 1
      <4>1. Len(accepted) - Len(queue) + j = Len(accepted) + 1 BY <1>t, <3>3
      <4> QED BY <2>4, <3>1, <3>3, <4>1
    <3> QED BY <1>t, <2>4, <3>2, <3>3
  <2> QED BY <1>1, <2>3, <2>5, <2>6 DEF QueueIsSuffix, IngestPush
<1>2. CASE WorkerPop /\ UNCHANGED <<accepted, completedPops, cleared>>
  <2>1. queue' = Tail(queue) /\ queue # <<>> BY <1>2 DEF WorkerPop
  <2>2. /\ Len(queue') = Len(queue) - 1 /\ Len(queue) > 0
        /\ \A j \in 1..Len(queue') : queue'[j] = queue[j + 1]
    BY <1>t, <2>1, HeadTailProperties, EmptySeq
  <2>3. ASSUME NEW j \in 1..Len(queue')
        PROVE  queue'[j] = accepted[Len(accepted) - Len(queue') + j]
    <3>1. j + 1 \in 1..Len(queue) BY <1>t, <2>2
    <3>2. queue[j + 1] = accepted[Len(accepted) - Len(queue) + (j + 1)]
      BY <3>1 DEF QueueIsSuffix
    <3>3. Len(accepted) - Len(queue) + (j + 1) = Len(accepted) - Len(queue') + j
      BY <1>t, <2>2
    <3> QED BY <2>2, <3>2, <3>3
  <2>4. Len(queue') <= Len(accepted) BY <1>t, <2>2 DEF QueueIsSuffix
  <2> QED BY <1>2, <2>3, <2>4 DEF QueueIsSuffix
<1>3. CASE UNCHANGED <<accepted, queue>> BY <1>3 DEF QueueIsSuffix
<1>4. CASE queue' = <<>> /\ (accepted' = accepted \/ accepted' = <<>>)
  <2>1. Sorted(accepted') /\ Len(queue') <= Len(accepted')
    BY <1>4, <1>e, <1>t DEF QueueIsSuffix
  <2>2. \A j \in 1..Len(queue') : FALSE BY <1>4, <1>e
  <2> QED BY <2>1, <2>2 DEF QueueIsSuffix
<1>5. Clear \/ Start \/ StopEnd => queue' = <<>> /\ (accepted' = accepted \/ accepted' = <<>>)
  BY DEF Clear, Start, StopEnd, EmptyQueue
<1> QED BY <1>1, <1>2, <1>3, <1>4, <1>5, FlowSteps

LEMMA NextPops ==
  ASSUME Shape, Shape', Phases, Registers, QueueIsSuffix, PopsCounted, [Next]_vars
  PROVE  PopsCounted'
<1> USE ConstantFacts
<1>t. /\ queue \in Seq(Ids) /\ accepted \in Seq(Ids) /\ Len(queue) <= Len(accepted)
      /\ Len(queue) \in Nat /\ Len(accepted) \in Nat /\ completedPops \in Nat
      /\ Len(queue') \in Nat /\ Len(accepted') \in Nat /\ Len(<<>>) = 0
  BY FlowTypes DEF QueueIsSuffix
<1>1. CASE IngestPush /\ UNCHANGED <<current, completedPops, cleared>>
  <2>1. ingestBlock \in Ids BY <1>1 DEF IngestPush, Shape, Posture
  <2>2. /\ Len(accepted') = Len(accepted) + 1 /\ Len(queue') = Len(queue) + 1
        /\ \A j \in 1..Len(accepted) : accepted'[j] = accepted[j]
        /\ ToSet(accepted') = ToSet(accepted) \union {ingestBlock}
    BY <1>1, <1>t, <2>1, AppendProperties, PushBack DEF IngestPush
  <2>3. Popped' = Popped /\ Popped \in Nat BY <1>1, <1>t DEF Popped
  <2>4. Popped' + Len(queue') <= Len(accepted') BY <1>t, <2>2, <2>3 DEF PopsCounted
  <2>5. ToSet(accepted') \intersect cleared' = {} => Popped' + Len(queue') = Len(accepted')
    <3>1. ToSet(accepted') \intersect cleared' = {} => ToSet(accepted) \intersect cleared = {}
      BY <1>1, <2>2
    <3>2. ToSet(accepted) \intersect cleared = {} => Popped + Len(queue) = Len(accepted)
      BY DEF PopsCounted
    <3> HIDE DEF PopsCounted
    <3> QED BY <1>t, <2>2, <2>3, <3>1, <3>2
  <2>6. current' # None =>
          \E k \in 1..(Len(accepted') - Len(queue')) :
             accepted'[k] = current' /\ k > completedPops'
    <3> SUFFICES ASSUME current # None
                 PROVE  \E k \in 1..(Len(accepted') - Len(queue')) :
                          accepted'[k] = current /\ k > completedPops
      BY <1>1
    <3>1. PICK k \in 1..(Len(accepted) - Len(queue)) : accepted[k] = current /\ k > completedPops
      BY DEF PopsCounted
    <3>2. k \in 1..Len(accepted) /\ k \in 1..(Len(accepted') - Len(queue')) BY <1>t, <2>2
    <3> QED BY <2>2, <3>1, <3>2
  <2> QED BY <2>4, <2>5, <2>6 DEF PopsCounted, Popped
<1>2. CASE WorkerPop /\ UNCHANGED <<accepted, completedPops, cleared>>
  <2>1. queue' = Tail(queue) /\ queue # <<>> /\ current' = Head(queue) /\ current = None
    BY <1>2 DEF WorkerPop, Shape, Posture
  <2>2. /\ Len(queue') = Len(queue) - 1 /\ Len(queue) > 0 /\ current' = queue[1]
        /\ current' \in Ids
    BY <1>t, <2>1, HeadTailProperties, EmptySeq, PopFront
  <2>3. Popped = completedPops /\ Popped' = completedPops + 1
    BY <1>2, <1>t, <2>1, <2>2 DEF Popped
  <2>4. Popped' + Len(queue') <= Len(accepted) BY <1>t, <2>2, <2>3 DEF PopsCounted
  <2>5. ToSet(accepted) \intersect cleared = {} => Popped' + Len(queue') = Len(accepted)
    BY <1>t, <2>2, <2>3 DEF PopsCounted
  <2>6. \E k \in 1..(Len(accepted) - Len(queue')) : accepted[k] = current' /\ k > completedPops
    <3> DEFINE k == Len(accepted) - Len(queue) + 1
    <3>1. k \in 1..(Len(accepted) - Len(queue')) /\ k > completedPops
      BY <1>t, <2>2, <2>3 DEF PopsCounted
    <3>2. accepted[k] = queue[1] BY <1>t, <2>2 DEF QueueIsSuffix
    <3> QED BY <2>2, <3>1, <3>2
  <2> QED BY <1>2, <2>4, <2>5, <2>6 DEF PopsCounted, Popped
<1>3. CASE WorkerFinish /\ UNCHANGED <<accepted, queue, cleared>>
  <2>1. current \in Ids /\ current' = None /\ completedPops' = completedPops + 1
    BY <1>3 DEF WorkerFinish, Shape, Posture, TypeOK, WorkerTypes
  <2>2. Popped' = Popped BY <1>t, <2>1 DEF Popped
  <2> QED BY <1>3, <2>1, <2>2 DEF PopsCounted, Popped
<1>4. CASE Clear /\ UNCHANGED <<accepted, current, completedPops>>
  <2>1. queue' = <<>> /\ cleared' = cleared \union ToSet(queue) /\ ToSet(queue) # {}
    BY <1>4, <1>t, Members DEF Clear, EmptyQueue
  <2>2. ToSet(accepted') \intersect cleared' # {} BY <1>4, <2>1, QueuedIsAccepted
  <2>3. Popped' = Popped /\ Popped \in Nat BY <1>4, <1>t DEF Popped
  <2>4. Popped' + Len(queue') <= Len(accepted') BY <1>4, <1>t, <2>1, <2>3 DEF PopsCounted
  <2>5. current' # None =>
          \E k \in 1..(Len(accepted') - Len(queue')) :
             accepted'[k] = current' /\ k > completedPops'
    BY <1>4, <1>t, <2>1 DEF PopsCounted
  <2> QED BY <2>2, <2>4, <2>5 DEF PopsCounted, Popped
<1>5. CASE (Start \/ StopEnd) /\ UNCHANGED <<current, cleared>>
  <2>1. pc[Worker] = "exited" /\ current = None /\ queue = <<>>
    BY <1>5 DEF Start, StopEnd, Shape, Posture, Phases
  <2>2. queue' = <<>> BY <1>5 DEF Start, StopEnd, EmptyQueue
  <2>3. CASE Start
    <3>1. accepted' = <<>> /\ completedPops' = 0 BY <2>3 DEF Start
    <3>2. Popped' = 0 BY <1>5, <2>1, <3>1 DEF Popped
    <3> QED BY <1>5, <1>t, <2>1, <2>2, <3>1, <3>2 DEF PopsCounted, Popped
  <2>4. CASE StopEnd
    <3>1. UNCHANGED <<accepted, completedPops>> BY <2>4 DEF StopEnd
    <3> QED BY <1>5, <2>1, <2>2, <3>1 DEF PopsCounted, Popped
  <2> QED BY <1>5, <2>3, <2>4
<1>6. CASE UNCHANGED <<accepted, queue, current, completedPops, cleared>>
  BY <1>6 DEF PopsCounted, Popped
<1> QED BY <1>1, <1>2, <1>3, <1>4, <1>5, <1>6, FlowSteps

-----------------------------------------------------------------------------
(* Flush and stop. *)

\* A block that is finished or cleared stays so.
LEMMA SettledKept ==
  ASSUME Base, Ledger, RecordedOnce', Shape', [Next]_vars, NEW b \in Ids, Settled(b)
  PROVE  Settled(b)'
<1> USE DEF Base
<1>1. CASE b \in cleared
  <2>1. PlaceMove(b) BY PlaceMoves
  <2> QED BY <1>1, <2>1 DEF PlaceMove, Settled
<1>2. CASE Finished(b)
  <2>1. recorded[b] = 1 /\ recorded'[b] \in Nat /\ recorded'[b] <= 1
    BY <1>2 DEF Finished, Shape, TypeOK, HistoryTypes, RecordedOnce
  <2>2. RecordMove(b) /\ \A s \in Stages : DeedMove(s, b)
    BY RecordMoves, DeedMoves DEF Conserved
  <2>3. recorded'[b] = 1 BY <2>1, <2>2 DEF RecordMove
  <2>4. \A s \in Stages : HandledBy(s, b)'
    BY <1>2, <2>2 DEF Finished, HandledBy, DeedMove
  <2> QED BY <2>3, <2>4 DEF Settled, Finished
<1> QED BY <1>1, <1>2 DEF Settled

\* With no block in the fan-out, whatever has left the queue and the worker is settled.
LEMMA QuietIsSettled ==
  ASSUME Base, Ledger, inFlight = 0, NEW b \in ToSet(accepted),
         b \notin ToSet(queue), b # current
  PROVE  Settled(b)
<1> USE DEF Base
<1>1. b \in Ids BY FlowTypes
<1>2. b \notin InProgress
  <2>1. Cardinality(InProgress) = 0 BY DEF Counted
  <2> QED BY <2>1, CountFacts, FS_EmptySet
<1>3. ~FannedOut(b) /\ ~Recording(b)
  BY <1>1, <1>2 DEF InProgress, Recording, Records, Finishing
<1>4. ~Unshared(b) /\ ~InSerial(b)
  BY DEF Ledger, Registers, Unshared, InSerial
<1>5. Fate(b) BY <1>1 DEF Ledger, Fates
<1>6. CASE recorded[b] = 1
  <2>1. \A s \in Stages : Owes(s, b) \/ Did(s, b) BY <1>1, <1>6 DEF Ledger, RecordedOnce
  <2>2. \A s \in Stages : Did(s, b) BY <1>3, <2>1 DEF FannedOut
  <2>3. \A s \in Stages : b \in dropped[s] => s \notin Lossless
    BY <1>1 DEF Ledger, StageLedger
  <2> QED BY <1>6, <2>2, <2>3 DEF Did, HandledBy, Finished, Settled
<1> QED BY <1>3, <1>4, <1>5, <1>6 DEF Fate, Settled

\* What a flush in progress has seen.
FlushKept ==
  /\ control \in {"flushing", "probed", "flushed"} => target <= Len(accepted)
  /\ control \in {"probed", "flushed"} => completedPops >= target
Flushed == QueueIsSuffix /\ PopsCounted /\ FlushKept /\ FlushComplete

\* While no session is started, what was accepted stays accepted.
LEMMA AcceptedKept ==
  ASSUME Shape, [Next]_vars, ~Start
  PROVE  /\ Len(accepted') >= Len(accepted) /\ completedPops' >= completedPops
         /\ \A i \in 1..Len(accepted) : accepted'[i] = accepted[i]
<1>t. accepted \in Seq(Ids) /\ Len(accepted) \in Nat /\ completedPops \in Nat BY FlowTypes
<1>1. CASE IngestPush /\ completedPops' = completedPops
  <2>1. ingestBlock \in Ids BY <1>1 DEF IngestPush, Shape, Posture
  <2> QED BY <1>1, <1>t, <2>1, AppendProperties DEF IngestPush
<1>2. CASE WorkerFinish /\ accepted' = accepted BY <1>2, <1>t DEF WorkerFinish
<1>3. CASE UNCHANGED <<accepted, completedPops>> BY <1>3, <1>t
<1>4. StopEnd => UNCHANGED <<accepted, completedPops>> BY DEF StopEnd
<1> QED BY <1>1, <1>2, <1>3, <1>4, FlowSteps

LEMMA NextFlushKept ==
  ASSUME Shape, Shape', FlushKept, [Next]_vars PROVE FlushKept'
<1>t. /\ Len(accepted) \in Nat /\ completedPops \in Nat /\ target \in Nat
      /\ Len(accepted') \in Nat /\ completedPops' \in Nat /\ target' \in Nat
  <2>1. accepted' \in Seq(Ids) BY DEF Shape, TypeOK, QueueTypes
  <2> QED BY <2>1, FlowTypes, LenProperties DEF Shape, TypeOK, EngineTypes, ControlTypes
<1>1. CASE Start BY <1>1 DEF Start, FlushKept
<1>2. CASE ~Start
  <2>1. Len(accepted') >= Len(accepted) /\ completedPops' >= completedPops BY <1>2, AcceptedKept
  <2>2. FlushBegin => target' = Len(accepted) /\ control' = "flushing" BY DEF FlushBegin
  <2>3. FlushProbe => control = "flushing" /\ completedPops >= target
    BY DEF FlushProbe, WorkerSettled
  <2>4. FlushSucceed => control = "probed" BY DEF FlushSucceed
  <2>5. control' = "flushing" => target' <= Len(accepted')
    BY <1>t, <2>1, <2>2, FlushSteps DEF FlushKept
  <2>6. control' = "probed" => target' <= Len(accepted') /\ completedPops' >= target'
    BY <1>t, <2>1, <2>3, FlushSteps DEF FlushKept
  <2>7. control' = "flushed" => target' <= Len(accepted') /\ completedPops' >= target'
    BY <1>t, <2>1, <2>4, FlushSteps DEF FlushKept
  <2> QED BY <2>5, <2>6, <2>7 DEF FlushKept
<1> QED BY <1>1, <1>2

\* The block of an early pop is neither queued nor in the worker's hands.
LEMMA PoppedIsGone ==
  ASSUME Shape, QueueIsSuffix, PopsCounted, NEW i \in 1..Len(accepted), i <= completedPops
  PROVE  accepted[i] \in ToSet(accepted) \ ToSet(queue) /\ accepted[i] # current
<1>t. /\ queue \in Seq(Ids) /\ accepted \in Seq(Ids) /\ Ids \in SUBSET Int
      /\ Len(queue) \in Nat /\ Len(accepted) \in Nat /\ completedPops \in Nat
      /\ Popped \in Nat /\ Popped >= completedPops
  BY FlowTypes DEF Popped
<1>1. accepted[i] \in ToSet(accepted) /\ accepted[i] \in Ids BY <1>t, Members, ElementOfSeq
<1>2. accepted[i] \notin ToSet(queue)
  <2> SUFFICES ASSUME accepted[i] \in ToSet(queue) PROVE FALSE OBVIOUS
  <2>1. PICK j \in 1..Len(queue) : accepted[i] = queue[j] BY <1>t, Members
  <2>2. queue[j] = accepted[Len(accepted) - Len(queue) + j] BY DEF QueueIsSuffix
  <2>3. /\ Len(accepted) - Len(queue) + j \in 1..Len(accepted)
        /\ Len(accepted) - Len(queue) + j > i
    BY <1>t DEF QueueIsSuffix, PopsCounted
  <2>4. i = Len(accepted) - Len(queue) + j
    BY <1>t, <2>1, <2>2, <2>3, SortedApart DEF QueueIsSuffix
  <2> QED BY <1>t, <2>3, <2>4
<1>3. accepted[i] # current
  <2> SUFFICES ASSUME accepted[i] = current PROVE FALSE OBVIOUS
  <2>1. current # None BY <1>1, ConstantFacts
  <2>2. PICK k \in 1..(Len(accepted) - Len(queue)) : accepted[k] = current /\ k > completedPops
    BY <2>1 DEF PopsCounted
  <2>3. k \in 1..Len(accepted) BY <1>t
  <2>4. i = k BY <1>t, <2>2, <2>3, SortedApart DEF QueueIsSuffix
  <2> QED BY <1>t, <2>2, <2>4
<1> QED BY <1>1, <1>2, <1>3

LEMMA NextFlushComplete ==
  ASSUME Base, Ledger, Flushed, RecordedOnce', Shape', [Next]_vars PROVE FlushComplete'
<1> USE DEF Base
<1> SUFFICES ASSUME control' = "flushed", NEW i \in 1..Len(accepted'), i <= target'
             PROVE  Settled(accepted[i])'
  BY DEF FlushComplete
<1>t. /\ accepted \in Seq(Ids) /\ Len(accepted) \in Nat /\ target \in Nat /\ completedPops \in Nat
      /\ Len(accepted') \in Nat
  <2>1. accepted' \in Seq(Ids) BY DEF Shape, TypeOK, QueueTypes
  <2> QED BY <2>1, FlowTypes, LenProperties DEF Shape, TypeOK, ControlTypes
<1>1. /\ target' = target /\ control \in {"probed", "flushed"}
      /\ control = "flushed" \/ FlushSucceed
  BY FlushSteps DEF FlushSucceed
<1>2. ~Start BY <1>1 DEF Start
<1>3. target <= Len(accepted) /\ completedPops >= target BY <1>1 DEF Flushed, FlushKept
<1>4. i \in 1..Len(accepted) /\ i <= target /\ i <= completedPops BY <1>t, <1>1, <1>3
<1>5. accepted'[i] = accepted[i] BY <1>2, <1>4, AcceptedKept
<1>6. accepted[i] \in Ids BY <1>t, <1>4, ElementOfSeq
<1>7. Settled(accepted[i])
  <2>1. CASE control = "flushed" BY <1>4, <2>1 DEF Flushed, FlushComplete
  <2>2. CASE FlushSucceed
    <3>1. inFlight = 0 BY <2>2 DEF FlushSucceed, FanOutDrained
    <3>2. accepted[i] \in ToSet(accepted) \ ToSet(queue) /\ accepted[i] # current
      BY <1>4, PoppedIsGone DEF Flushed
    <3> QED BY <3>1, <3>2, QuietIsSettled
  <2> QED BY <1>1, <2>1, <2>2
<1>8. \A b \in Ids : Settled(b) => Settled(b)' BY SettledKept
<1>9. PICK b \in Ids : b = accepted[i] BY <1>6
<1>10. Settled(b)' BY <1>7, <1>8, <1>9
<1> QED BY <1>5, <1>9, <1>10 DEF Settled, Finished, HandledBy

LEMMA InitFlushed == Init => Flushed
<1> SUFFICES ASSUME Init PROVE Flushed OBVIOUS
<1>1. Len(<<>>) = 0 /\ ToSet(<<>>) = {} BY EmptyQueueFacts
<1>2. QueueIsSuffix BY <1>1 DEF Init, QueueIsSuffix, Sorted
<1>3. PopsCounted BY <1>1 DEF Init, PopsCounted, Popped
<1>4. FlushKept /\ FlushComplete BY DEF Init, FlushKept, FlushComplete
<1> QED BY <1>2, <1>3, <1>4 DEF Flushed

LEMMA NextFlushed ==
  Base /\ Ledger /\ Flushed /\ [Next]_vars /\ Shape' /\ Ledger' => Flushed'
<1> SUFFICES ASSUME Base, Ledger, Flushed, [Next]_vars, Shape', Ledger' PROVE Flushed' OBVIOUS
<1>1. Shape /\ Phases /\ Registers /\ RecordedOnce' BY DEF Base, Ledger
<1> QED BY <1>1, NextSuffix, NextPops, NextFlushKept, NextFlushComplete DEF Flushed

THEOREM FlushedInvariant == Spec => []Flushed
<1>1. Base => Shape BY DEF Base
<1> QED BY <1>1, BaseInvariant, LedgerInvariant, InitFlushed, NextFlushed, PTL DEF Spec

\* When flush() reports success, every block that had been queued when it was called is
\* finished or was cleared, whatever the producer pushed and the stages did meanwhile.
THEOREM FlushIsComplete == Spec => []FlushComplete
<1>1. Flushed => FlushComplete BY DEF Flushed
<1> QED BY <1>1, FlushedInvariant, PTL

LEMMA StoppedIsDrained == Base /\ Ledger => StopDrains
<1> SUFFICES ASSUME Base, Ledger, control = "stopped" PROVE StopDrains
  BY DEF StopDrains
<1> USE ConstantFacts DEF Base
<1>1. /\ pc[Worker] = "exited" /\ current = None /\ queue = <<>> /\ skipped = {} /\ skipTodo = {}
      /\ \A s \in Stages : pc[s] = "exited" /\ hand[s] = None /\ stageQueue[s] = <<>>
  BY DEF Shape, Posture, Phases, TypeOK, WorkerTypes
<1>2. \A b \in Ids : /\ ~FannedOut(b) /\ \A t \in Threads : ~Finishing(t, b)
                     /\ \A s \in Stages : ~StageHolds(s, b)
                     /\ WorkerHolds(b) <=> b = ingestBlock
  BY <1>1, EmptyQueueFacts DEF FannedOut, Submitting, Owes, Finishing, StageHolds, WorkerHolds
<1>3. inFlight = 0
  <2>1. InProgress = {} BY <1>2 DEF InProgress
  <2> QED BY <2>1, FS_EmptySet DEF Counted
<1>4. \A i \in 1..Len(accepted) : Settled(accepted[i])
  <2> SUFFICES ASSUME NEW i \in 1..Len(accepted) PROVE Settled(accepted[i]) OBVIOUS
  <2>1. accepted \in Seq(Ids) BY FlowTypes
  <2>2. accepted[i] \in Ids /\ accepted[i] \in ToSet(accepted) BY <2>1, Members, ElementOfSeq
  <2>3. accepted[i] \notin ToSet(queue) /\ accepted[i] # current
    BY <1>1, <2>2, EmptyQueueFacts
  <2> QED BY <1>3, <2>2, <2>3, QuietIsSettled
<1>5. available + (IF ingestBlock = None THEN 0 ELSE 1) = PoolSize
  <2>1. Live = {b \in Ids : b = ingestBlock}
    <3>1. \A b \in Ids : owners[b] # {} <=> b = ingestBlock
      <4> SUFFICES ASSUME NEW b \in Ids PROVE owners[b] # {} <=> b = ingestBlock OBVIOUS
      <4>1. owners[b] \subseteq Threads BY DEF Shape, TypeOK, PoolTypes
      <4>2. \A s \in Stages : s \notin owners[b] BY <1>2 DEF Conserved, Ownership
      <4>3. Worker \in owners[b] <=> b = ingestBlock BY <1>2 DEF Conserved, Ownership
      <4> QED BY <4>1, <4>2, <4>3
    <3> QED BY <3>1 DEF Live
  <2>2. available \in Nat /\ available + Cardinality(Live) = PoolSize
    BY DEF Shape, TypeOK, PoolTypes, Conserved, PoolCount
  <2>3. CASE ingestBlock = None
    <3>1. Live = {} BY <2>1, <2>3
    <3> QED BY <2>2, <2>3, <3>1, FS_EmptySet
  <2>4. CASE ingestBlock # None
    <3>1. ingestBlock \in Ids BY <2>4 DEF Shape, TypeOK, IngestTypes
    <3>2. Live = {ingestBlock} BY <2>1, <3>1
    <3>3. Cardinality(Live) = 1 BY <3>2, FS_Singleton
    <3> QED BY <2>2, <2>4, <3>3
  <2> QED BY <2>3, <2>4
<1> QED BY <1>1, <1>3, <1>4, <1>5 DEF StopDrains

\* When stop() has returned, every accepted block is finished or was cleared, nothing is in
\* flight and the pool is whole but for a block of a producer that passed the gate before.
THEOREM StopIsDrained == Spec => []StopDrains
BY BaseInvariant, LedgerInvariant, StoppedIsDrained, PTL

\* A flush that succeeds and a stop that returns leave nothing undone, whatever the queues'
\* capacities, the number of stages and their policies.
THEOREM FlushAndStopSound == Spec => []FlushAndStopComplete
BY FlushIsComplete, StopIsDrained, PTL DEF FlushAndStopComplete

-----------------------------------------------------------------------------
(* flush() gives up only while the engine is busy. *)

LEMMA CountedIsBusy ==
  ASSUME Base, inFlight # 0 PROVE Busy
<1> USE ConstantFacts DEF Base
<1>1. InProgress # {} BY FS_EmptySet DEF Counted
<1>2. PICK b \in Ids : FannedOut(b) \/ \E t \in Threads : Finishing(t, b)
  BY <1>1 DEF InProgress
<1>3. CASE Submitting(b) BY <1>3 DEF Submitting, Busy
<1>4. ASSUME NEW s \in Stages, Owes(s, b) PROVE Busy
  <2>1. CASE b \in ToSet(stageQueue[s])
    <3>1. stageQueue[s] # <<>> BY <2>1, EmptyQueueFacts
    <3> QED BY <3>1 DEF Busy
  <2>2. CASE <<s, b>> \in skipTodo
    <3>1. skipped # {} BY <2>2 DEF Shape, TypeOK, WorkerTypes
    <3>2. pc[Worker] \in {"skip", "record", "leave"} BY <3>1 DEF Shape, Posture
    <3> QED BY <3>2 DEF Busy
  <2>3. CASE pc[s] \in {"serve", "complete"} BY <2>3 DEF Busy
  <2> QED BY <1>4, <2>1, <2>2, <2>3 DEF Owes
<1>5. ASSUME NEW t \in Threads, Finishing(t, b) PROVE Busy BY <1>5 DEF Finishing, Busy
<1> QED BY <1>2, <1>3, <1>4, <1>5 DEF FannedOut

LEMMA UnsettledIsBusy ==
  ASSUME Base, Flushed, control = "flushing", ~WorkerSettled PROVE Busy
<1> USE ConstantFacts DEF Base
<1>1. CASE queue # <<>> BY <1>1 DEF Busy
<1>2. CASE processing BY <1>2 DEF Phases, Busy
<1>3. CASE queue = <<>> /\ ~(completedPops >= target)
  <2>t. /\ Len(accepted) \in Nat /\ completedPops \in Nat /\ target \in Nat /\ Len(queue) = 0
        /\ target <= Len(accepted)
    BY <1>3, FlowTypes DEF Shape, TypeOK, ControlTypes, Flushed, FlushKept
  <2>1. CASE pc[Worker] \in {"pop", "exited"}
    <3>1. Popped = completedPops BY <2>1, <2>t DEF Shape, Posture, Popped
    <3>2. Popped + Len(queue) # Len(accepted) BY <1>3, <2>t, <3>1
    <3>3. ToSet(accepted) \intersect cleared # {} BY <3>2 DEF Flushed, PopsCounted
    <3> QED BY <3>3 DEF Busy
  <2>2. CASE pc[Worker] \notin {"pop", "exited"} BY <2>2 DEF Busy
  <2> QED BY <2>1, <2>2
<1> QED BY <1>1, <1>2, <1>3 DEF WorkerSettled

LEMMA TimeoutIsBusy ==
  ASSUME Base, Flushed, [Next]_vars, control' = "timedOut", control # "timedOut" PROVE Busy
<1>1. FlushTimeout
  <2>1. CASE UNCHANGED vars BY <2>1 DEF vars, controlVars
  <2>2. CASE IngestBegin \/ IngestStep BY <2>2, IngestFrame DEF controlVars
  <2>3. CASE WorkerStep BY <2>3, WorkerFrame DEF controlVars
  <2>4. ASSUME NEW s \in Stages, StageStep(s) PROVE control' = control
    BY <2>4, StageFrame DEF controlVars, Base
  <2>5. CASE ControlStep
    BY <2>5 DEF ControlStep, StopStep, Start, Clear, StopBegin, StopStages, StopEnd, FlushBegin,
         FlushStep, FlushProbe, FlushSucceed, FlushWaitAgain, FlushReturn, FlushGoesTo,
         SetAccepting, controlVars
  <2> QED BY <2>1, <2>2, <2>3, <2>4, <2>5, NextSteps
<1>2. CASE control = "flushing" /\ ~WorkerSettled BY <1>2, UnsettledIsBusy
<1>3. CASE control = "probed" /\ ~FanOutDrained
  <2>1. inFlight # 0 => Busy BY CountedIsBusy
  <2> QED BY <1>3, <2>1 DEF FanOutDrained, Busy
<1> QED BY <1>1, <1>2, <1>3 DEF FlushTimeout

\* When flush() gives up, a thread of the engine has a block in hand or in a queue, or a
\* clear() of this session took blocks flush() still waits for.
THEOREM TimeoutIsJustified == Spec => FlushTimeoutJustified
<1>1. Base /\ Flushed /\ [Next]_vars => [control' = "timedOut" => Busy]_control
  BY TimeoutIsBusy
<1> QED BY <1>1, BaseInvariant, FlushedInvariant, PTL DEF Spec, FlushTimeoutJustified

-----------------------------------------------------------------------------
(* The order of service. *)

Newer(s, b) ==
  \E n \in ToSet(consumed[s]) \union ToSet(stageQueue[s]) \union {hand[s]} : n > b
Removed(s, b) == b \in dropped[s] \/ <<s, b>> \in skipped

\* The input queue holds blocks newer than the worker's.
QueueOrder == Sorted(queue) /\ \A b \in ToSet(queue) : current < b

\* What stage s has, had and will have: its queue is in order and behind its hand; nothing it
\* has or had is newer than the worker's block or a queued one; and but for the blocks the
\* worker took over, its past is older than its hand and its queue.
StageOrder(s) ==
  /\ Sorted(stageQueue[s])
  /\ \A b \in ToSet(stageQueue[s]) : hand[s] < b
  /\ \A b \in ToSet(consumed[s]) \union ToSet(stageQueue[s]) \union {hand[s]} :
       (current # None => b <= current) /\ \A c \in ToSet(queue) : b < c
  /\ \A b \in ToSet(consumed[s]) \ serial :
       (hand[s] # None => b <= hand[s]) /\ \A c \in ToSet(stageQueue[s]) : b < c

InOrder ==
  /\ QueueOrder
  /\ \A s \in Stages : StageOrder(s)
  /\ \A s \in Stages, b \in Ids : Removed(s, b) => Newer(s, b)
  /\ OnlyFallbackReorders

\* OnlyFallbackReorders, of one stage.
FallbackOnly(s) ==
  \A i, j \in 1..Len(consumed[s]) :
    i < j /\ consumed[s][i] > consumed[s][j] =>
      Parallel /\ consumed[s][i] \in serial /\ consumed[s][j] \notin serial

LEMMA IdsCompare ==
  \A b, c \in Ids : ((b <= c) <=> ~(b > c)) /\ b <= b /\ ~(b < b) /\ (b <= c /\ b # c => b < c)
BY DEF Ids

LEMMA OrderTypes ==
  ASSUME Shape, NEW s \in Stages
  PROVE  /\ stageQueue[s] \in Seq(Ids) /\ consumed[s] \in Seq(Ids)
         /\ ToSet(stageQueue[s]) \subseteq Ids /\ ToSet(consumed[s]) \subseteq Ids
         /\ hand[s] \in Ids \union {None} /\ current \in Ids \union {None}
         /\ queue \in Seq(Ids) /\ ToSet(queue) \subseteq Ids
         /\ Ids \subseteq Nat \ {0} /\ Ids \in SUBSET Int /\ None = 0
<1>1. stageQueue[s] \in Seq(Ids) /\ consumed[s] \in Seq(Ids)
  BY DEF Shape, TypeOK, StageTypes, HistoryTypes
<1>2. ToSet(stageQueue[s]) \subseteq Ids /\ ToSet(consumed[s]) \subseteq Ids BY <1>1, Members
<1>3. hand[s] \in Ids \union {None} BY ConstantFacts DEF Shape, TypeOK, ThreadTypes
<1>4. Ids \subseteq Nat \ {0} /\ Ids \in SUBSET Int /\ None = 0 BY DEF Ids, None
<1> QED BY <1>1, <1>2, <1>3, <1>4, FlowTypes

LEMMA InitInOrder == Init => InOrder
<1> SUFFICES ASSUME Init PROVE InOrder OBVIOUS
<1>1. Len(<<>>) = 0 /\ ToSet(<<>>) = {} BY EmptyQueueFacts
<1>2. \A s \in Stages : /\ consumed[s] = <<>> /\ stageQueue[s] = <<>> /\ hand[s] = None
                        /\ dropped[s] = {}
  BY ConstantFacts DEF Init
<1>3. QueueOrder BY <1>1 DEF Init, QueueOrder, Sorted
<1>4. \A s \in Stages : StageOrder(s) BY <1>1, <1>2 DEF Init, StageOrder, Sorted
<1>5. \A s \in Stages, b \in Ids : ~Removed(s, b) BY <1>2 DEF Init, Removed
<1>6. OnlyFallbackReorders BY <1>1, <1>2 DEF OnlyFallbackReorders
<1> QED BY <1>3, <1>4, <1>5, <1>6 DEF InOrder

\* A step that at most empties the worker's hand or the input queue keeps the order.
LEMMA OrderFrame ==
  ASSUME Shape, InOrder,
         queue' = queue \/ queue' = <<>>, current' = current \/ current' = None,
         UNCHANGED <<consumed, serial>>,
         \A s \in Stages : hand'[s] = hand[s] /\ stageQueue'[s] = stageQueue[s],
         \A s \in Stages, b \in Ids : Removed(s, b)' => Removed(s, b)
  PROVE  InOrder'
<1>e. Len(<<>>) = 0 /\ ToSet(<<>>) = {} BY EmptyQueueFacts
<1>1. QueueOrder'
  <2>1. Sorted(queue') BY <1>e DEF InOrder, QueueOrder, Sorted
  <2>2. ASSUME NEW b \in ToSet(queue') PROVE current' < b
    <3>1. b \in ToSet(queue) /\ b \in Nat \ {0} BY <1>e, <2>2, FlowTypes DEF Ids
    <3> QED BY <3>1 DEF InOrder, QueueOrder, None
  <2> QED BY <2>1, <2>2 DEF QueueOrder
<1>2. ASSUME NEW s \in Stages PROVE StageOrder(s)'
  <2>1. ToSet(queue') \subseteq ToSet(queue) BY <1>e
  <2>2. StageOrder(s) BY DEF InOrder
  <2> QED BY <2>1, <2>2 DEF StageOrder
<1>3. ASSUME NEW s \in Stages, NEW b \in Ids, Removed(s, b)' PROVE Newer(s, b)'
  <2>1. Newer(s, b) BY <1>3 DEF InOrder
  <2> QED BY <2>1 DEF Newer
<1>4. OnlyFallbackReorders' BY DEF InOrder, OnlyFallbackReorders
<1> QED BY <1>1, <1>2, <1>3, <1>4 DEF InOrder

\* The step of one stage, or of the worker for one stage, leaves the others in order.
LEMMA OtherStageOrder ==
  ASSUME InOrder, UNCHANGED <<current, queue>>, NEW r \in Stages,
         consumed'[r] = consumed[r], stageQueue'[r] = stageQueue[r], hand'[r] = hand[r],
         \A b \in ToSet(consumed[r]) : b \in serial => b \in serial'
  PROVE  StageOrder(r)' /\ \A b \in Ids : Newer(r, b) => Newer(r, b)'
<1>1. StageOrder(r) BY DEF InOrder
<1> QED BY <1>1 DEF StageOrder, Newer

LEMMA PushInOrder ==
  ASSUME Base, Ledger, Flushed, InOrder, IngestPush PROVE InOrder'
<1> USE ConstantFacts DEF Base
<1>0. /\ ingestBlock \in Ids /\ nextId = ingestBlock + 1 /\ ingestBlock # None
      /\ queue' = Append(queue, ingestBlock) /\ queue \in Seq(Ids) /\ Ids \in SUBSET Int
      /\ UNCHANGED <<current, consumed, stageQueue, hand, serial, dropped, skipped>>
  BY FlowTypes DEF IngestPush, Shape, Posture, threadVars, workerVars, stageVars, historyVars
<1>1. ToSet(queue') = ToSet(queue) \union {ingestBlock} BY <1>0, PushBack
<1>2. \A b \in ToSet(accepted) : b < ingestBlock
  <2> SUFFICES ASSUME NEW b \in ToSet(accepted) PROVE b < ingestBlock OBVIOUS
  <2>1. b < nextId /\ b # ingestBlock /\ b \in Ids BY FlowTypes DEF Ledger, Registers
  <2> QED BY <1>0, <2>1
<1>3. \A b \in ToSet(queue) : b < ingestBlock
  BY <1>2, QueuedIsAccepted DEF Flushed
<1>4. current < ingestBlock
  <2>1. CASE current = None BY <1>0, <2>1 DEF None, Ids
  <2>2. CASE current # None
    <3>1. PICK k \in 1..(Len(accepted) - Len(queue)) : accepted[k] = current
      BY <2>2 DEF Flushed, PopsCounted
    <3>2. accepted \in Seq(Ids) /\ k \in 1..Len(accepted) BY FlowTypes
    <3>3. current \in ToSet(accepted) BY <3>1, <3>2, Members
    <3> QED BY <1>2, <3>3
  <2> QED BY <2>1, <2>2
<1>5. QueueOrder'
  <2>1. Sorted(queue') BY <1>0, <1>3, SortedPush DEF InOrder, QueueOrder
  <2> QED BY <1>0, <1>1, <1>4, <2>1 DEF InOrder, QueueOrder
<1>6. ASSUME NEW s \in Stages PROVE StageOrder(s)'
  <2>1. ASSUME NEW b \in ToSet(consumed[s]) \union ToSet(stageQueue[s]) \union {hand[s]}
        PROVE  b < ingestBlock
    <3>1. CASE b = None BY <1>0, <3>1 DEF None, Ids
    <3>2. CASE b \in Ids
      <4>1. ~Fresh(b)
        <5>1. CASE b \in ToSet(consumed[s])
          BY <3>2, <5>1 DEF Ledger, FreshUntouched, Untouched, Did
        <5>2. CASE b \in ToSet(stageQueue[s]) \/ b = hand[s]
          <6>1. StageHolds(s, b) BY <5>2 DEF StageHolds
          <6> QED BY <3>2, <6>1, HeldIsOld DEF Ledger
        <5> QED BY <2>1, <5>1, <5>2
      <4>2. b < nextId /\ b # ingestBlock BY <1>0, <3>2, <4>1 DEF Fresh, Unshared
      <4> QED BY <1>0, <3>2, <4>2
    <3> QED BY <2>1, <3>1, <3>2, OrderTypes
  <2>2. StageOrder(s) BY DEF InOrder
  <2> QED BY <1>0, <1>1, <2>1, <2>2 DEF StageOrder
<1>7. \A s \in Stages, b \in Ids : Removed(s, b)' => Newer(s, b)'
  BY <1>0 DEF InOrder, Removed, Newer
<1>8. OnlyFallbackReorders' BY <1>0 DEF InOrder, OnlyFallbackReorders
<1> QED BY <1>5, <1>6, <1>7, <1>8 DEF InOrder

LEMMA PopInOrder ==
  ASSUME Shape, InOrder, WorkerPop PROVE InOrder'
<1> USE ConstantFacts
<1>0. /\ queue' = Tail(queue) /\ current' = Head(queue) /\ queue # <<>> /\ queue \in Seq(Ids)
      /\ Ids \in SUBSET Int
      /\ UNCHANGED <<consumed, stageQueue, hand, serial, dropped, skipped>>
  BY FlowTypes DEF WorkerPop, stageVars, historyVars
<1>1. ToSet(queue) = {current'} \union ToSet(queue') BY <1>0, PopFront
<1>2. QueueOrder' BY <1>0, SortedPop DEF InOrder, QueueOrder
<1>3. ASSUME NEW s \in Stages PROVE StageOrder(s)'
  <2>1. StageOrder(s) BY DEF InOrder
  <2>2. ASSUME NEW b \in ToSet(consumed[s]) \union ToSet(stageQueue[s]) \union {hand[s]}
        PROVE  b <= current' /\ \A c \in ToSet(queue') : b < c
    <3>1. \A c \in ToSet(queue) : b < c BY <2>1, <2>2 DEF StageOrder
    <3>2. current' \in ToSet(queue) /\ current' \in Int BY <1>1, FlowTypes
    <3>3. b \in Ids \union {None} BY <2>2, OrderTypes
    <3>4. b \in Int BY <3>3 DEF Ids, None
    <3> QED BY <1>1, <3>1, <3>2, <3>4
  <2> QED BY <1>0, <2>1, <2>2 DEF StageOrder
<1>4. \A s \in Stages, b \in Ids : Removed(s, b)' => Newer(s, b)'
  BY <1>0 DEF InOrder, Removed, Newer
<1>5. OnlyFallbackReorders' BY <1>0 DEF InOrder, OnlyFallbackReorders
<1> QED BY <1>2, <1>3, <1>4, <1>5 DEF InOrder

\* A stage that consumes nothing, or a block e no newer than what it has consumed but for the
\* blocks the worker took over, keeps its order.
LEMMA FallbackKept ==
  ASSUME NEW s \in Stages, FallbackOnly(s), consumed'[s] = consumed[s],
         \A i \in 1..Len(consumed[s]) : consumed[s][i] \in serial' <=> consumed[s][i] \in serial
  PROVE  FallbackOnly(s)'
BY DEF FallbackOnly

LEMMA FallbackAppended ==
  ASSUME Shape, NEW s \in Stages, FallbackOnly(s), NEW e \in Ids,
         consumed'[s] = Append(consumed[s], e),
         \A b \in ToSet(consumed[s]) : (b \in serial') <=> (b \in serial),
         \A b \in ToSet(consumed[s]) : b > e => Parallel /\ b \in serial /\ e \notin serial'
  PROVE  FallbackOnly(s)'
<1> DEFINE q == consumed[s]
           r == consumed'[s]
<1>1. q \in Seq(Ids) BY OrderTypes
<1>2. /\ Len(r) = Len(q) + 1 /\ Len(q) \in Nat
      /\ \A i \in 1..Len(q) : r[i] = q[i] /\ q[i] \in ToSet(q)
      /\ r[Len(q) + 1] = e
  BY <1>1, AppendProperties, LenProperties, Members
<1> SUFFICES ASSUME NEW i \in 1..Len(r), NEW j \in 1..Len(r), i < j, r[i] > r[j]
             PROVE  Parallel /\ r[i] \in serial' /\ r[j] \notin serial'
  BY DEF FallbackOnly
<1>3. i \in 1..Len(q) BY <1>2
<1>4. CASE j \in 1..Len(q)
  <2>1. q[i] > q[j] BY <1>2, <1>3, <1>4
  <2>2. Parallel /\ q[i] \in serial /\ q[j] \notin serial BY <2>1, <1>3, <1>4 DEF FallbackOnly
  <2> QED BY <2>2, <1>2, <1>3, <1>4
<1>5. CASE j = Len(q) + 1 BY <1>2, <1>3, <1>5
<1> QED BY <1>2, <1>4, <1>5

LEMMA SerialInOrder ==
  ASSUME Base, Ledger, InOrder, WorkerSerial PROVE InOrder'
<1> USE ConstantFacts DEF Base
<1>0. /\ UNCHANGED <<queue, current, stageQueue, hand, dropped, skipped>>
      /\ serial' = serial \union {current} /\ pc[Worker] = "serial"
      /\ current \in Ids /\ current # None
  BY SerialWork DEF WorkerSerial, queueVars, threadVars, stageVars
<1>s. InSerial(current) BY <1>0 DEF InSerial
<1>1. \A s \in Stages : current \in ToSet(consumed[s]) => current \in serial
  <2>1. serialStage \in Nat BY DEF Shape, TypeOK, WorkerTypes
  <2> SUFFICES ASSUME NEW s \in Stages, current \in ToSet(consumed[s]) PROVE current \in serial
    OBVIOUS
  <2>2. Did(s, current) BY DEF Did
  <2>3. s < serialStage /\ s \in Nat \ {0} BY <1>0, <1>s, <2>2, SerialIsUnheld DEF Stages
  <2> QED BY <1>0, <1>s, <2>1, <2>3, SerialIsUnheld
<1>2. \A s \in Stages : \A b \in ToSet(consumed[s]) : (b \in serial') <=> (b \in serial)
  BY <1>0, <1>1
<1>3. /\ serialStage \in Stages
      /\ consumed'[serialStage] = Append(consumed[serialStage], current)
      /\ \A s \in Stages : s # serialStage => consumed'[s] = consumed[s]
  BY SerialWork
<1>4. QueueOrder' BY <1>0 DEF InOrder, QueueOrder
<1>5. ASSUME NEW s \in Stages
      PROVE  StageOrder(s)' /\ FallbackOnly(s)' /\ \A b \in Ids : Newer(s, b) => Newer(s, b)'
  <2>1. StageOrder(s) /\ FallbackOnly(s) BY DEF InOrder, OnlyFallbackReorders, FallbackOnly
  <2>2. consumed[s] \in Seq(Ids) /\ ToSet(consumed[s]) \subseteq Ids BY OrderTypes
  <2>3. CASE s # serialStage
    <3>1. consumed'[s] = consumed[s] BY <1>3, <2>3
    <3>2. \A i \in 1..Len(consumed[s]) : consumed[s][i] \in ToSet(consumed[s]) BY <2>2, Members
    <3>3. FallbackOnly(s)' BY <1>2, <2>1, <3>1, <3>2, FallbackKept
    <3> QED BY <1>0, <1>2, <3>1, <3>3, OtherStageOrder
  <2>4. CASE s = serialStage
    <3>1. consumed'[s] = Append(consumed[s], current) BY <1>3, <2>4
    <3>2. ToSet(consumed'[s]) = ToSet(consumed[s]) \union {current} BY <1>0, <2>2, <3>1, PushBack
    <3>3. \A b \in ToSet(consumed[s]) : ~(b > current)
      <4>1. \A b \in ToSet(consumed[s]) : b <= current BY <1>0, <2>1 DEF StageOrder
      <4> QED BY <1>0, <2>2, <4>1, IdsCompare
    <3>4. FallbackOnly(s)' BY <1>0, <1>2, <2>1, <3>1, <3>3, FallbackAppended
    <3>5. StageOrder(s)'
      <4>1. current <= current /\ \A c \in ToSet(queue) : current < c
        BY <1>0 DEF InOrder, QueueOrder
      <4>2. ToSet(consumed'[s]) \ serial' \subseteq ToSet(consumed[s]) \ serial BY <1>0, <3>2
      <4> QED BY <1>0, <2>1, <3>2, <4>1, <4>2 DEF StageOrder
    <3>6. \A b \in Ids : Newer(s, b) => Newer(s, b)' BY <1>0, <3>2 DEF Newer
    <3> QED BY <3>4, <3>5, <3>6
  <2> QED BY <2>3, <2>4
<1>6. \A s \in Stages, b \in Ids : Removed(s, b)' => Newer(s, b)'
  BY <1>0, <1>5 DEF InOrder, Removed
<1>7. OnlyFallbackReorders' BY <1>5 DEF OnlyFallbackReorders, FallbackOnly
<1> QED BY <1>4, <1>5, <1>6, <1>7 DEF InOrder

LEMMA ServeInOrder ==
  ASSUME Base, Ledger, InOrder, NEW s \in Stages, StageServe(s) PROVE InOrder'
<1> USE ConstantFacts DEF Base
<1>0. /\ UNCHANGED <<queue, current, stageQueue, hand, dropped, skipped, serial>>
      /\ pc[s] = "serve"
  BY DEF StageServe, queueVars, workerVars, stageVars
<1>u. Uniqueness BY DEF Conserved
<1>1. /\ hand[s] \in Ids /\ Waits(s, hand[s]) /\ consumed'[s] = Append(consumed[s], hand[s])
      /\ \A r \in Stages : r # s => consumed'[r] = consumed[r]
  BY <1>u, ServeWork
<1>2. hand[s] \notin serial
  BY <1>1, WorkIsHeld DEF Ledger, StageLedger
<1>3. Parallel BY <1>0 DEF Phases
<1>4. QueueOrder' BY <1>0 DEF InOrder, QueueOrder
<1>5. ASSUME NEW r \in Stages
      PROVE  StageOrder(r)' /\ FallbackOnly(r)' /\ \A b \in Ids : Newer(r, b) => Newer(r, b)'
  <2>1. StageOrder(r) /\ FallbackOnly(r) BY DEF InOrder, OnlyFallbackReorders, FallbackOnly
  <2>2. CASE r # s
    <3>1. consumed'[r] = consumed[r] BY <1>1, <2>2
    <3>2. FallbackOnly(r)' BY <1>0, <2>1, <3>1, FallbackKept
    <3> QED BY <1>0, <3>1, <3>2, OtherStageOrder
  <2>3. CASE r = s
    <3>0. consumed[s] \in Seq(Ids) /\ ToSet(consumed[s]) \subseteq Ids BY OrderTypes
    <3>1. ToSet(consumed'[s]) = ToSet(consumed[s]) \union {hand[s]} BY <1>1, <3>0, PushBack
    <3>2. \A b \in ToSet(consumed[s]) : b > hand[s] => b \in serial
      <4>1. \A b \in ToSet(consumed[s]) \ serial : b <= hand[s]
        BY <1>1, <2>1, <2>3 DEF StageOrder
      <4> QED BY <1>1, <3>0, <4>1, IdsCompare
    <3>3. FallbackOnly(s)' BY <1>0, <1>1, <1>2, <1>3, <2>1, <2>3, <3>2, FallbackAppended
    <3>4. StageOrder(s)'
      <4>1. hand[s] <= hand[s] BY <1>1, IdsCompare
      <4> QED BY <1>0, <2>1, <2>3, <3>1, <4>1 DEF StageOrder
    <3>5. \A b \in Ids : Newer(s, b) => Newer(s, b)' BY <1>0, <3>1 DEF Newer
    <3> QED BY <2>3, <3>3, <3>4, <3>5
  <2> QED BY <2>2, <2>3
<1>6. \A r \in Stages, b \in Ids : Removed(r, b)' => Newer(r, b)'
  BY <1>0, <1>5 DEF InOrder, Removed
<1>7. OnlyFallbackReorders' BY <1>5 DEF OnlyFallbackReorders, FallbackOnly
<1> QED BY <1>4, <1>5, <1>6, <1>7 DEF InOrder

LEMMA StagePopInOrder ==
  ASSUME Base, InOrder, NEW s \in Stages, StagePop(s) PROVE InOrder'
<1> USE ConstantFacts DEF Base
<1>0. /\ UNCHANGED <<queue, current, consumed, dropped, skipped, serial>>
      /\ stageQueue[s] # <<>> /\ pc[s] = "pop"
  BY DEF StagePop, queueVars, workerVars, historyVars
<1>1. /\ stageQueue'[s] = Tail(stageQueue[s]) /\ hand'[s] = Head(stageQueue[s])
      /\ \A r \in Stages : r # s => stageQueue'[r] = stageQueue[r] /\ hand'[r] = hand[r]
  BY DEF StagePop, Shape, TypeOK, ThreadTypes, StageTypes
<1>2. hand[s] = None BY <1>0 DEF Shape, Posture
<1>3. QueueOrder' BY <1>0 DEF InOrder, QueueOrder
<1>4. ASSUME NEW r \in Stages
      PROVE  StageOrder(r)' /\ \A b \in Ids : Newer(r, b) => Newer(r, b)'
  <2>1. CASE r # s BY <1>0, <1>1, <2>1, OtherStageOrder
  <2>2. CASE r = s
    <3>0. stageQueue[s] \in Seq(Ids) /\ Ids \in SUBSET Int BY OrderTypes
    <3>1. /\ ToSet(stageQueue[s]) = {hand'[s]} \union ToSet(stageQueue'[s])
          /\ hand'[s] \in Ids
      BY <1>0, <1>1, <3>0, PopFront
    <3>2. StageOrder(s) BY DEF InOrder
    <3>3. /\ Sorted(stageQueue'[s])
          /\ \A b \in ToSet(stageQueue'[s]) : hand'[s] < b
      BY <1>0, <1>1, <3>0, <3>2, SortedPop DEF StageOrder
    <3>4. \A b \in ToSet(consumed[s]) \ serial : b <= hand'[s]
      <4>1. \A b \in ToSet(consumed[s]) \ serial : b < hand'[s] BY <3>1, <3>2 DEF StageOrder
      <4>2. ToSet(consumed[s]) \subseteq Ids BY OrderTypes
      <4> QED BY <3>1, <4>1, <4>2 DEF Ids
    <3>5. StageOrder(s)' BY <1>0, <3>1, <3>2, <3>3, <3>4 DEF StageOrder
    <3>6. \A b \in Ids : ~(None > b) BY DEF None, Ids
    <3>7. \A b \in Ids : Newer(s, b) => Newer(s, b)' BY <1>0, <1>2, <3>1, <3>6 DEF Newer
    <3> QED BY <2>2, <3>5, <3>7
  <2> QED BY <2>1, <2>2
<1>5. \A r \in Stages, b \in Ids : Removed(r, b)' => Newer(r, b)'
  BY <1>0, <1>4 DEF InOrder, Removed
<1>6. OnlyFallbackReorders' BY <1>0 DEF InOrder, OnlyFallbackReorders
<1> QED BY <1>3, <1>4, <1>5, <1>6 DEF InOrder

\* The block a stage lets go of was consumed, or was dropped, for a newer one.
LEMMA DropInOrder ==
  ASSUME Base, Ledger, InOrder, NEW s \in Stages, StageDrop(s) PROVE InOrder'
<1> USE ConstantFacts DEF Base
<1>0. /\ UNCHANGED <<queue, current, stageQueue, consumed, dropped, skipped, serial>>
      /\ pc[s] = "drop" /\ hand'[s] = None
      /\ \A r \in Stages : r # s => hand'[r] = hand[r]
  BY DEF StageDrop, queueVars, workerVars, stageVars, historyVars, Shape, TypeOK, ThreadTypes
<1>1. hand[s] \in Ids BY <1>0, OrderTypes DEF Shape, Posture
<1>2. \/ hand[s] \in ToSet(consumed[s]) \union ToSet(stageQueue[s]) \/ Removed(s, hand[s])
  <2>1. StageHolds(s, hand[s]) BY DEF StageHolds
  <2>2. Waits(s, hand[s]) \/ Did(s, hand[s]) BY <1>1, <2>1 DEF Ledger, StageLedger
  <2>3. skipTodo \subseteq skipped BY DEF Shape, TypeOK, WorkerTypes
  <2> QED BY <1>0, <2>2, <2>3 DEF Waits, Did, Removed
<1>3. QueueOrder' BY <1>0 DEF InOrder, QueueOrder
<1>4. ASSUME NEW r \in Stages
      PROVE  StageOrder(r)' /\ \A b \in Ids : Newer(r, b) => Newer(r, b)'
  <2>1. CASE r # s BY <1>0, <2>1, OtherStageOrder
  <2>2. CASE r = s
    <3>1. StageOrder(s) BY DEF InOrder
    <3>2. /\ ToSet(stageQueue[s]) \subseteq Ids /\ ToSet(queue) \subseteq Ids
          /\ ToSet(consumed[s]) \subseteq Ids
      BY OrderTypes
    <3>3. /\ \A b \in Ids : None < b
          /\ current # None => None <= current
      BY OrderTypes DEF None, Ids
    <3>4. StageOrder(s)' BY <1>0, <3>1, <3>2, <3>3 DEF StageOrder
    <3>5. ASSUME NEW b \in Ids, Newer(s, b) PROVE Newer(s, b)'
      <4>1. PICK n \in ToSet(consumed[s]) \union ToSet(stageQueue[s]) \union {hand[s]} : n > b
        BY <3>5 DEF Newer
      <4>2. CASE n \in ToSet(consumed[s]) \union ToSet(stageQueue[s])
        BY <1>0, <4>1, <4>2 DEF Newer
      <4>3. CASE n = hand[s] /\ Removed(s, hand[s])
        <5>1. Newer(s, hand[s]) BY <1>1, <4>3 DEF InOrder
        <5>2. PICK m \in ToSet(consumed[s]) \union ToSet(stageQueue[s]) \union {hand[s]} :
                m > hand[s]
          BY <5>1 DEF Newer
        <5>3. m # hand[s] /\ m \in Ids BY <1>1, <3>2, <5>2 DEF Ids
        <5>4. m > b BY <1>1, <4>1, <4>3, <5>2, <5>3 DEF Ids
        <5> QED BY <1>0, <5>2, <5>3, <5>4 DEF Newer
      <4> QED BY <1>2, <4>1, <4>2, <4>3
    <3> QED BY <2>2, <3>4, <3>5
  <2> QED BY <2>1, <2>2
<1>5. \A r \in Stages, b \in Ids : Removed(r, b)' => Newer(r, b)'
  BY <1>0, <1>4 DEF InOrder, Removed
<1>6. OnlyFallbackReorders' BY <1>0 DEF InOrder, OnlyFallbackReorders
<1> QED BY <1>3, <1>4, <1>5, <1>6 DEF InOrder

\* The block submitted is the newest in every stage queue, so none removed there is missed.
LEMMA SubmitInOrder ==
  ASSUME Base, Ledger, InOrder, Submit PROVE InOrder'
<1> USE ConstantFacts DEF Base
<1>0. UNCHANGED <<queue, current, hand, consumed, dropped, serial>>
  BY DEF Submit, queueVars, historyVars
<1>1. current \in Ids /\ current # None /\ Unshared(current) /\ Untouched(current)
  BY SubmittedIsNew
<1>u. Uniqueness BY DEF Conserved
<1>2. PICK cut \in [Stages -> Nat] : \A s \in Stages :
        /\ cut[s] \in 0..Len(stageQueue[s])
        /\ stageQueue'[s] = Append(SubSeq(stageQueue[s], cut[s] + 1, Len(stageQueue[s])), current)
  BY SubmitCut
<1>3. QueueOrder' BY <1>0 DEF InOrder, QueueOrder
<1>4. ASSUME NEW s \in Stages
      PROVE  StageOrder(s)' /\ \A b \in Ids : Removed(s, b)' => Newer(s, b)'
  <2> DEFINE rest == SubSeq(stageQueue[s], cut[s] + 1, Len(stageQueue[s]))
  <2>0. StageOrder(s) BY DEF InOrder
  <2>1. /\ stageQueue[s] \in Seq(Ids) /\ Ids \in SUBSET Int
        /\ ToSet(consumed[s]) \subseteq Ids /\ ToSet(stageQueue[s]) \subseteq Ids
        /\ hand[s] \in Ids \union {None}
    BY OrderTypes
  <2>2. rest \in Seq(Ids) /\ ToSet(rest) \subseteq ToSet(stageQueue[s])
    BY <1>2, <2>1, CutFront
  <2>3. Sorted(rest) BY <1>2, <2>0, <2>1, SortedCut DEF StageOrder
  <2>4. stageQueue'[s] = Append(rest, current) BY <1>2
  <2> HIDE DEF rest
  <2>5. \A b \in ToSet(consumed[s]) \union ToSet(stageQueue[s]) \union {hand[s]} :
          b <= current /\ b < current
    <3> SUFFICES ASSUME NEW b \in ToSet(consumed[s]) \union ToSet(stageQueue[s]) \union {hand[s]}
                 PROVE  b <= current /\ b < current
      OBVIOUS
    <3>1. b <= current BY <1>1, <2>0 DEF StageOrder
    <3>2. b # current
      <4>1. CASE b \in ToSet(consumed[s]) BY <1>1, <4>1 DEF Untouched, Did
      <4>2. CASE b \in ToSet(stageQueue[s]) \union {hand[s]}
        <5>1. StageHolds(s, b) BY <4>2 DEF StageHolds
        <5> QED BY <1>1, <1>u, <5>1 DEF Uniqueness
      <4> QED BY <4>1, <4>2
    <3>3. b \in Ids \union {None} BY <2>1
    <3> QED BY <1>1, <3>1, <3>2, <3>3 DEF Ids, None
  <2>6. ToSet(stageQueue'[s]) = ToSet(rest) \union {current} BY <1>1, <2>2, <2>4, PushBack
  <2>7. Sorted(stageQueue'[s]) BY <1>1, <2>1, <2>2, <2>3, <2>4, <2>5, SortedPush
  <2>8. StageOrder(s)'
    <3>1. current <= current /\ \A c \in ToSet(queue) : current < c
      BY <1>1, IdsCompare DEF InOrder, QueueOrder
    <3> QED BY <1>0, <2>0, <2>2, <2>5, <2>6, <2>7, <3>1 DEF StageOrder
  <2>9. ASSUME NEW b \in Ids, Removed(s, b)' PROVE Newer(s, b)'
    <3>1. b < current
      <4>1. CASE b \in dropped[s]
        <5>1. Newer(s, b) BY <4>1 DEF InOrder, Removed
        <5>2. PICK n \in ToSet(consumed[s]) \union ToSet(stageQueue[s]) \union {hand[s]} : n > b
          BY <5>1 DEF Newer
        <5>3. n < current /\ n \in Ids \union {None} BY <2>1, <2>5
        <5> QED BY <1>1, <5>2, <5>3 DEF Ids, None
      <4>2. CASE <<s, b>> \in skipped'
        <5>1. b \in ToSet(stageQueue[s]) BY <1>u, <4>2, SubmittedQueues
        <5> QED BY <2>5, <5>1
      <4> QED BY <1>0, <2>9, <4>1, <4>2 DEF Removed
    <3>2. current > b BY <1>1, <3>1 DEF Ids
    <3>3. current \in ToSet(stageQueue'[s]) BY <2>6
    <3> QED BY <3>2, <3>3 DEF Newer
  <2> QED BY <2>8, <2>9
<1>5. OnlyFallbackReorders' BY <1>0 DEF InOrder, OnlyFallbackReorders
<1> QED BY <1>3, <1>4, <1>5 DEF InOrder

LEMMA StoppedStages ==
  ASSUME Base, control = "stopped" PROVE \A s \in Stages : stageQueue[s] = <<>>
BY DEF Base, Shape, Posture, Phases

LEMMA NextInOrder ==
  Base /\ Ledger /\ Flushed /\ InOrder /\ [Next]_vars => InOrder'
<1> SUFFICES ASSUME Base, Ledger, Flushed, InOrder, [Next]_vars PROVE InOrder' OBVIOUS
<1> USE ConstantFacts DEF Base
<1>t. ThreadTypes /\ StageTypes /\ hand \in [Threads -> Ids \union {None}]
  BY DEF Shape, TypeOK, ThreadTypes
<1>1. CASE UNCHANGED vars
  BY <1>1, OrderFrame DEF vars, queueVars, threadVars, workerVars, stageVars, historyVars, Removed
<1>2. CASE IngestBegin \/ IngestStep
  <2>1. CASE IngestPush BY <1>2, <2>1, PushInOrder
  <2>2. CASE ~IngestPush
    <3>1. UNCHANGED <<queue, current, consumed, stageQueue, serial, hand, dropped, skipped>>
      BY <1>2, <2>2, IngestFrame DEF IngestBegin, IngestStep, IngestExhausted, IngestAcquire,
         IngestRefused, queueVars, threadVars, workerVars, stageVars, historyVars
    <3> QED BY <3>1, OrderFrame DEF Removed
  <2> QED BY <2>1, <2>2
<1>3. CASE WorkerStep
  <2>1. CASE WorkerPop BY <2>1, PopInOrder
  <2>2. CASE Submit BY <2>2, SubmitInOrder
  <2>3. CASE WorkerSerial BY <2>3, SerialInOrder
  <2>4. CASE WorkerSkip
    <3>1. PICK s \in Stages, b \in Ids :
            /\ <<s, b>> \in skipTodo
            /\ dropped' = [dropped EXCEPT ![s] = @ \union {b}]
            /\ Complete(Worker, b, "skip")
      BY <2>4, SkipStep
    <3>2. \A u \in Stages : hand'[u] = hand[u] BY <1>t, <3>1, CompleteStep
    <3>3. UNCHANGED <<queue, current, consumed, stageQueue, serial, skipped>>
      BY <2>4 DEF WorkerSkip, queueVars
    <3>4. \A r \in Stages, c \in Ids : Removed(r, c)' => Removed(r, c)
      BY <3>1, <3>3 DEF Removed, Shape, TypeOK, WorkerTypes, HistoryTypes
    <3> QED BY <3>2, <3>3, <3>4, OrderFrame
  <2>5. CASE WorkerUnwind
    <3>1. /\ UNCHANGED <<queue, current, consumed, stageQueue, serial, hand, dropped>>
          /\ skipped' = {}
      BY <2>5 DEF WorkerUnwind, queueVars, stageVars, historyVars
    <3> QED BY <3>1, OrderFrame DEF Removed
  <2>6. CASE WorkerFinish
    <3>1. /\ UNCHANGED <<queue, consumed, stageQueue, serial, hand, dropped, skipped>>
          /\ current' = None
      BY <2>6 DEF WorkerFinish, queueVars, stageVars, historyVars
    <3> QED BY <3>1, OrderFrame DEF Removed
  <2>7. CASE \/ WorkerExit \/ WorkerMark \/ SubmitRefused \/ WorkerSerialRecord
             \/ Record(Worker) \/ Leave(Worker)
    <3>1. UNCHANGED <<queue, current, consumed, stageQueue, serial, hand, dropped, skipped>>
      BY <2>7 DEF WorkerExit, WorkerMark, SubmitRefused, WorkerSerialRecord, Record, Leave,
         queueVars, workerVars, stageVars, historyVars
    <3> QED BY <3>1, OrderFrame DEF Removed
  <2> QED BY <1>3, <2>1, <2>2, <2>3, <2>4, <2>5, <2>6, <2>7 DEF WorkerStep
<1>4. ASSUME NEW s \in Stages, StageStep(s) PROVE InOrder'
  <2>1. CASE StagePop(s) BY <2>1, StagePopInOrder
  <2>2. CASE StageServe(s) BY <2>2, ServeInOrder
  <2>3. CASE StageDrop(s) BY <2>3, DropInOrder
  <2>4. CASE StageComplete(s)
    <3>1. UNCHANGED <<queue, current, consumed, stageQueue, serial, dropped, skipped>>
      BY <2>4 DEF StageComplete, queueVars, workerVars, historyVars
    <3>2. hand[s] \in Ids BY <2>4, <1>t DEF StageComplete, Shape, Posture
    <3>3. \A u \in Stages : hand'[u] = hand[u]
      <4>1. hand' = hand \/ hand' = [hand EXCEPT ![s] = hand[s]]
        BY <2>4 DEF StageComplete, Complete
      <4>2. hand \in [Threads -> Ids \union {None}] BY <1>t DEF Shape, TypeOK, ThreadTypes
      <4> QED BY <4>1, <4>2 DEF Threads
    <3> QED BY <3>1, <3>3, OrderFrame DEF Removed
  <2>5. CASE StageExit(s) \/ Record(s) \/ Leave(s)
    <3>1. UNCHANGED <<queue, current, consumed, stageQueue, serial, hand, dropped, skipped>>
      BY <2>5 DEF StageExit, Record, Leave, queueVars, workerVars, stageVars, historyVars
    <3> QED BY <3>1, OrderFrame DEF Removed
  <2> QED BY <1>4, <2>1, <2>2, <2>3, <2>4, <2>5 DEF StageStep
<1>5. CASE ControlStep
  <2>1. /\ UNCHANGED <<hand, current, skipped, consumed, dropped, serial>>
        /\ queue' = queue \/ queue' = <<>>
    BY <1>5, ControlFrame DEF workerVars, EmptyQueue
  <2>2. \A s \in Stages : stageQueue'[s] = stageQueue[s]
    <3>1. CASE stageQueue' = stageQueue BY <3>1
    <3>2. CASE Start
      <4>1. pc[Worker] = "exited" /\ control = "stopped" BY <3>2 DEF Start, Shape, Posture
      <4>2. \A s \in Stages : stageQueue[s] = <<>> BY <4>1, StoppedStages
      <4> QED BY <3>2, <4>2 DEF Start
    <3> QED BY <1>5, <3>1, <3>2, ControlFrame
  <2> QED BY <2>1, <2>2, OrderFrame DEF Removed
<1> QED BY <1>1, <1>2, <1>3, <1>4, <1>5, NextSteps

\* Every stage serves its blocks oldest first, but for what the worker takes over, and has a
\* newer block for each it skipped.
THEOREM InOrderInvariant == Spec => []InOrder
<1>1. Spec => [][Next]_vars /\ Init BY DEF Spec
<1> QED
  BY <1>1, InitInOrder, NextInOrder, BaseInvariant, LedgerInvariant, FlushedInvariant, PTL

LEMMA OrderIsService == Shape /\ Ledger /\ InOrder => ServiceOrder
<1> SUFFICES ASSUME Shape, Ledger, InOrder PROVE ServiceOrder OBVIOUS
<1>1. OnlyFallbackReorders BY DEF InOrder
<1>2. NewestSurvives
  <2> SUFFICES ASSUME NEW s \in Stages, NEW b \in dropped[s]
               PROVE  b \notin ToSet(consumed[s]) /\ Newer(s, b)
    BY DEF NewestSurvives, Newer
  <2>1. b \in Ids BY DEF Shape, TypeOK, HistoryTypes
  <2> QED BY <2>1 DEF Ledger, StageLedger, InOrder, Removed
<1> QED BY <1>1, <1>2 DEF ServiceOrder

\* Overload reorders a stage only through the worker's fallback, and never makes it miss the
\* newest block it was given.
THEOREM ServedInOrder == Spec => []ServiceOrder
<1>1. Base => Shape BY DEF Base
<1> QED BY <1>1, BaseInvariant, LedgerInvariant, InOrderInvariant, OrderIsService, PTL

\* submitFanOutContext, completeFanOutStageSkipped: whatever is skipped under overload, the
\* three hold together.
THEOREM OverloadIsSound == Spec => []OverloadSound
BY FanOutCounted, ServedInOrder, FlushAndStopSound, PTL DEF OverloadSound

-----------------------------------------------------------------------------
(* The engine implements BlockDelivery. *)

Occurrences(q, b) == Cardinality({i \in 1..Len(q) : q[i] = b})

LEMMA OccursOnce ==
  ASSUME NEW q \in Seq(Ids), NEW e \in Ids, NEW b \in Ids
  PROVE  /\ Occurrences(q, b) \in Nat
         /\ Occurrences(q, b) > 0 <=> b \in ToSet(q)
         /\ Occurrences(Append(q, e), b) = Occurrences(q, b) + (IF b = e THEN 1 ELSE 0)
<1> DEFINE at == {i \in 1..Len(q) : q[i] = b}
           r == Append(q, e)
           then == {i \in 1..Len(r) : r[i] = b}
<1>1. /\ Len(r) = Len(q) + 1 /\ Len(q) \in Nat
      /\ \A i \in 1..Len(q) : r[i] = q[i]
      /\ r[Len(q) + 1] = e
      /\ ToSet(q) = {q[i] : i \in 1..Len(q)}
  BY AppendProperties, LenProperties, Members
<1>2. IsFiniteSet(1..Len(q))
  <2>1. 1 \in Int /\ Len(q) \in Int BY <1>1
  <2> QED BY <2>1, FS_Interval
<1>3. IsFiniteSet(at) BY <1>2, FS_Subset
<1>4. Cardinality(at) \in Nat BY <1>3, FS_CardinalityType
<1>5. Cardinality(at) > 0 <=> at # {} BY <1>3, <1>4, FS_EmptySet
<1>6. at # {} <=> b \in ToSet(q) BY <1>1
<1> HIDE DEF r
<1>7. then = IF b = e THEN at \union {Len(q) + 1} ELSE at BY <1>1
<1>8. Len(q) + 1 \notin at BY <1>1
<1>9. Cardinality(then) = Cardinality(at) + (IF b = e THEN 1 ELSE 0)
  <2>1. Cardinality(at \union {Len(q) + 1}) = Cardinality(at) + 1 BY <1>3, <1>8, FS_AddElement
  <2> HIDE DEF at, then
  <2>2. CASE b = e BY <1>7, <2>1, <2>2
  <2>3. CASE b # e BY <1>4, <1>7, <2>3
  <2> QED BY <2>2, <2>3
<1> QED BY <1>4, <1>5, <1>6, <1>9 DEF Occurrences, r

\* What BlockDelivery sees of a block and of a stage.
LEMMA DeliveryFrame ==
  ASSUME \A b \in Ids : BlockState(b)' = BlockState(b), UNCHANGED <<consumed, dropped, recorded>>
  PROVE  UNCHANGED Delivery!deliveryVars
BY DEF Delivery!deliveryVars

\* A block leaves one state for another.
LEMMA StateMove ==
  ASSUME NEW b \in Ids, NEW place, BlockState(b)' = place,
         \A c \in Ids : c # b => BlockState(c)' = BlockState(c)
  PROVE  [c \in Ids |-> BlockState(c)]' = [[c \in Ids |-> BlockState(c)] EXCEPT ![b] = place]
OBVIOUS

LEMMA StateFrame ==
  ASSUME NEW b \in Ids, nextId' = nextId, ingestBlock' = ingestBlock, owners' = owners,
         b \in Live \/ (recorded'[b] = recorded[b] /\ (b \in cleared' <=> b \in cleared))
  PROVE  BlockState(b)' = BlockState(b)
<1>1. Live' = Live BY DEF Live
<1> QED BY <1>1 DEF BlockState

\* Where a block is when BlockDelivery calls it taken or accepted.
LEMMA LiveStates ==
  ASSUME Base, NEW b \in Ids
  PROVE  /\ b \in Live => b < nextId
         /\ b \in Live => BlockState(b) = IF b = ingestBlock THEN "taken" ELSE "accepted"
         /\ BlockState(b) \in {"taken", "accepted"} <=> b \in Live
         /\ b = ingestBlock => b \in Live
         /\ b \in ToSet(queue) \/ HasCurrent(b) => b \in Live /\ BlockState(b) = "accepted"
         /\ (\E s \in Stages : StageHolds(s, b)) => b \in Live /\ BlockState(b) = "accepted"
<1> USE ConstantFacts DEF Base
<1>1. /\ Worker \in owners[b] <=> WorkerHolds(b)
      /\ \A s \in Stages : s \in owners[b] <=> StageHolds(s, b)
      /\ b >= nextId => ~WorkerHolds(b) /\ \A s \in Stages : ~StageHolds(s, b)
  BY DEF Conserved, Ownership, Uniqueness
<1>2. owners[b] \subseteq Threads BY DEF Shape, TypeOK, PoolTypes
<1>3. b \in Live <=> WorkerHolds(b) \/ \E s \in Stages : StageHolds(s, b) BY <1>1, <1>2 DEF Live
<1>4. nextId \in Nat /\ b \in Nat BY FlowTypes
<1>5. b \in Live => b < nextId BY <1>1, <1>3, <1>4
<1>6. b \in Live => BlockState(b) = IF b = ingestBlock THEN "taken" ELSE "accepted"
  BY <1>4, <1>5 DEF BlockState
<1>7. BlockState(b) \in {"taken", "accepted"} => b \in Live BY DEF BlockState
<1>8. b = ingestBlock => b \in Live BY <1>3 DEF WorkerHolds
<1>9. b \in ToSet(queue) \/ HasCurrent(b) => b \in Live /\ b # ingestBlock
  BY <1>3 DEF WorkerHolds, HasCurrent, Conserved, Uniqueness
<1>10. (\E s \in Stages : StageHolds(s, b)) => b \in Live /\ b # ingestBlock
  BY <1>3 DEF Unshared, Conserved, Uniqueness
<1> QED BY <1>5, <1>6, <1>7, <1>8, <1>9, <1>10

LEMMA SameCardinality == \A S : Delivery!Cardinality(S) = Cardinality(S)
BY DEF Delivery!Cardinality, Cardinality

LEMMA TakesBlock ==
  ASSUME Base, IngestAcquire, NEW b \in Ids, b = nextId PROVE Delivery!Take(b)
<1> USE ConstantFacts DEF Base
<1>0. /\ ingestBlock = None /\ available > 0
      /\ owners' = [owners EXCEPT ![b] = {Worker}]
      /\ ingestBlock' = b /\ nextId' = b + 1 /\ b \in Nat
      /\ UNCHANGED <<consumed, dropped, recorded, cleared>>
  BY DEF IngestAcquire, Shape, Posture, historyVars
<1>1. BlockState(b) = "unused" BY <1>0 DEF BlockState
<1>2. Delivery!Cardinality(Delivery!InUse) < PoolSize
  <2>1. Delivery!InUse = Live
    <3>1. \A c \in Ids : BlockState(c) = "taken" \/ BlockState(c) = "accepted" <=> c \in Live
      BY LiveStates
    <3> QED BY <3>1, Zenon DEF Delivery!InUse, Delivery!In, Live
  <2>2. Delivery!Cardinality(Live) = Cardinality(Live) BY SameCardinality
  <2>3. available \in Nat /\ Cardinality(Live) \in Nat /\ PoolSize \in Nat
    BY EngineAssumption DEF Shape, TypeOK, PoolTypes, Live
  <2>4. Cardinality(Live) < PoolSize BY <1>0, <2>3 DEF Conserved, PoolCount
  <2> QED BY <2>1, <2>2, <2>4
<1>3. owners \in [Ids -> SUBSET Threads] BY DEF Shape, TypeOK, PoolTypes
<1>4. BlockState(b)' = "taken"
  <2>1. ~(b >= nextId') /\ owners'[b] = {Worker} BY <1>0, <1>3
  <2>2. b \in Live' BY <1>0, <2>1 DEF Live
  <2>3. b = ingestBlock' BY <1>0
  <2> QED BY <2>1, <2>2, <2>3 DEF BlockState
<1>5. ASSUME NEW c \in Ids, c # b PROVE BlockState(c)' = BlockState(c)
  <2>1. c >= nextId' <=> c >= nextId BY <1>0, <1>5
  <2>2. c \in Live' <=> c \in Live BY <1>0, <1>3, <1>5 DEF Live
  <2> QED BY <1>0, <1>5, <2>1, <2>2 DEF BlockState
<1>6. [c \in Ids |-> BlockState(c)]' = [[c \in Ids |-> BlockState(c)] EXCEPT ![b] = "taken"]
  BY <1>4, <1>5, StateMove
<1>7. [c \in Ids |-> BlockState(c)][b] = "unused" BY <1>1
<1> QED BY <1>0, <1>2, <1>6, <1>7 DEF Delivery!Take

LEMMA RefusesBlock ==
  ASSUME Base, Ledger, IngestRefused, Conserved', NEW b \in Ids, b = ingestBlock
  PROVE  Delivery!Refuse(b)
<1> USE ConstantFacts DEF Base
<1>0. /\ ingestBlock' = None /\ owners' = [owners EXCEPT ![b] = {}] /\ nextId = b + 1 /\ b \in Nat
      /\ UNCHANGED <<nextId, consumed, dropped, recorded, cleared>>
  BY DEF IngestRefused, ReleaseTo, Shape, Posture, historyVars
<1>1. BlockState(b) = "taken" BY LiveStates
<1>2. owners \in [Ids -> SUBSET Threads] BY DEF Shape, TypeOK, PoolTypes
<1>3. BlockState(b)' = "refused"
  <2>1. b \notin Live' BY <1>0, <1>2 DEF Live
  <2>2. b \in Live BY LiveStates
  <2>3. recorded'[b] = 0 /\ b \notin cleared'
    BY <1>0, <2>2 DEF Ledger, FreshUntouched, Fresh, Unshared, Untouched, Registers
  <2>4. ~(b >= nextId') BY <1>0
  <2> QED BY <2>1, <2>3, <2>4 DEF BlockState
<1>4. ASSUME NEW c \in Ids, c # b PROVE BlockState(c)' = BlockState(c)
  <2>1. c \in Live' <=> c \in Live BY <1>0, <1>2, <1>4 DEF Live
  <2> QED BY <1>0, <1>4, <2>1 DEF BlockState
<1>5. [c \in Ids |-> BlockState(c)]' = [[c \in Ids |-> BlockState(c)] EXCEPT ![b] = "refused"]
  BY <1>3, <1>4, StateMove
<1>6. [c \in Ids |-> BlockState(c)][b] = "taken" BY <1>1
<1> QED BY <1>0, <1>5, <1>6 DEF Delivery!Refuse

LEMMA AcceptsBlock ==
  ASSUME Base, IngestPush, NEW b \in Ids, b = ingestBlock PROVE Delivery!Accept(b)
<1> USE ConstantFacts DEF Base
<1>0. /\ ingestBlock' = None
      /\ UNCHANGED <<owners, nextId, consumed, dropped, recorded, cleared>>
  BY DEF IngestPush, poolVars, historyVars
<1>1. BlockState(b) = "taken" /\ b \in Live BY LiveStates
<1>2. Live' = Live BY <1>0 DEF Live
<1>3. BlockState(b)' = "accepted" BY <1>0, <1>1, <1>2, LiveStates DEF BlockState
<1>4. ASSUME NEW c \in Ids, c # b PROVE BlockState(c)' = BlockState(c)
  BY <1>0, <1>2, <1>4 DEF BlockState
<1>5. [c \in Ids |-> BlockState(c)]' = [[c \in Ids |-> BlockState(c)] EXCEPT ![b] = "accepted"]
  BY <1>3, <1>4, StateMove
<1>6. [c \in Ids |-> BlockState(c)][b] = "taken" BY <1>1
<1> QED BY <1>0, <1>5, <1>6 DEF Delivery!Accept

\* How often each stage has consumed each block.
HandledTimes == [s \in Stages |-> [b \in Ids |-> Occurrences(consumed[s], b)]]

LEMMA HandledIsConsumed ==
  ASSUME Shape
  PROVE  /\ [s \in Stages |-> [b \in Ids |->
               Cardinality({i \in 1..Len(consumed[s]) : consumed[s][i] = b})]] = HandledTimes
         /\ \A s \in Stages, b \in Ids : HandledTimes[s][b] > 0 <=> b \in ToSet(consumed[s])
<1>1. ASSUME NEW s \in Stages, NEW b \in Ids
      PROVE  HandledTimes[s][b] > 0 <=> b \in ToSet(consumed[s])
  <2>1. HandledTimes[s][b] = Occurrences(consumed[s], b) BY DEF HandledTimes
  <2>2. consumed[s] \in Seq(Ids) BY OrderTypes
  <2> QED BY <2>1, <2>2, OccursOnce
<1> QED BY <1>1 DEF HandledTimes, Occurrences

\* A stage consumes a block it has not done anything with.
LEMMA HandlesBlock ==
  ASSUME Base, NEW s \in Stages, NEW b \in Ids, BlockState(b) = "accepted", ~Did(s, b),
         consumed' = [consumed EXCEPT ![s] = Append(@, b)],
         UNCHANGED <<nextId, ingestBlock, owners, dropped, recorded, cleared>>
  PROVE  Delivery!Handle(s, b)
<1> USE ConstantFacts DEF Base
<1>1. /\ consumed'[s] = Append(consumed[s], b)
      /\ \A r \in Stages : r # s => consumed'[r] = consumed[r]
  BY DEF Shape, TypeOK, HistoryTypes
<1>2. \A r \in Stages, c \in Ids : Occurrences(consumed'[r], c) =
        IF r = s /\ c = b THEN Occurrences(consumed[r], c) + 1 ELSE Occurrences(consumed[r], c)
  <2> SUFFICES ASSUME NEW r \in Stages, NEW c \in Ids
               PROVE  Occurrences(consumed'[r], c) = IF r = s /\ c = b
                        THEN Occurrences(consumed[r], c) + 1 ELSE Occurrences(consumed[r], c)
    OBVIOUS
  <2>1. consumed[r] \in Seq(Ids) BY OrderTypes
  <2>2. Occurrences(Append(consumed[r], b), c) = Occurrences(consumed[r], c) + (IF c = b THEN 1 ELSE 0)
        /\ Occurrences(consumed[r], c) \in Nat
    BY <2>1, OccursOnce
  <2> QED BY <1>1, <2>2
<1>3. HandledTimes' = [r \in Stages |-> [c \in Ids |->
         IF r = s /\ c = b THEN Occurrences(consumed[r], c) + 1 ELSE Occurrences(consumed[r], c)]]
  <2>1. HandledTimes' = [r \in Stages |-> [c \in Ids |-> Occurrences(consumed'[r], c)]]
    BY DEF HandledTimes, Occurrences
  <2> QED BY <1>2, <2>1, Zenon
<1>4. HandledTimes' = [HandledTimes EXCEPT ![s][b] = @ + 1] BY <1>3 DEF HandledTimes
<1>5. ~(HandledTimes[s][b] > 0) /\ b \notin dropped[s] BY HandledIsConsumed DEF Did
<1>6. [c \in Ids |-> BlockState(c)]' = [c \in Ids |-> BlockState(c)] BY StateFrame
<1>7. [c \in Ids |-> BlockState(c)][b] = "accepted" OBVIOUS
<1>8. [r \in Stages |-> [c \in Ids |->
        Cardinality({i \in 1..Len(consumed[r]) : consumed[r][i] = c})]] = HandledTimes
  BY HandledIsConsumed
<1>9. [r \in Stages |-> [c \in Ids |->
        Cardinality({i \in 1..Len(consumed[r]) : consumed[r][i] = c})]]' = HandledTimes'
  BY DEF HandledTimes, Occurrences
<1> HIDE DEF HandledTimes
<1> QED BY <1>4, <1>5, <1>6, <1>7, <1>8, <1>9 DEF Delivery!Handle, Delivery!Done

LEMMA SkipsBlock ==
  ASSUME Base, Ledger, WorkerSkip PROVE \E s \in Stages, b \in Ids : Delivery!Skip(s, b)
<1> USE ConstantFacts DEF Base
<1>1. PICK s \in Stages, b \in Ids :
        /\ <<s, b>> \in skipTodo /\ dropped' = [dropped EXCEPT ![s] = @ \union {b}]
  BY SkipStep
<1>2. UNCHANGED <<nextId, ingestBlock, owners, consumed, recorded, cleared>>
  BY DEF WorkerSkip, poolVars, ingestVars
<1>3. <<s, b>> \in skipped /\ Waits(s, b) /\ StageHolds(s, b)
  BY <1>1 DEF Shape, TypeOK, WorkerTypes, Waits, StageHolds
<1>4. BlockState(b) = "accepted" BY <1>3, LiveStates
<1>5. ~Did(s, b) /\ s \in Stages \ Lossless BY <1>3 DEF Ledger, StageLedger
<1>7. ~([r \in Stages |-> [c \in Ids |->
          Cardinality({i \in 1..Len(consumed[r]) : consumed[r][i] = c})]][s][b] > 0)
  BY <1>5, HandledIsConsumed DEF Did
<1>8. [c \in Ids |-> BlockState(c)]' = [c \in Ids |-> BlockState(c)] BY <1>2, StateFrame
<1>9. [c \in Ids |-> BlockState(c)][b] = "accepted" BY <1>4
<1>10. Delivery!Skip(s, b)
  BY <1>1, <1>2, <1>5, <1>7, <1>8, <1>9 DEF Delivery!Skip, Delivery!Done, Did
<1> WITNESS s \in Stages, b \in Ids
<1> QED BY <1>10

LEMMA CountsBlock ==
  ASSUME Base, NEW b \in Ids, BlockState(b) = "accepted", recorded[b] = 0,
         \A s \in Stages : Did(s, b),
         recorded' = [recorded EXCEPT ![b] = @ + 1],
         UNCHANGED <<nextId, ingestBlock, owners, consumed, dropped, cleared>>
  PROVE  Delivery!Count(b)
<1> USE ConstantFacts DEF Base
<1>2. ASSUME NEW s \in Stages PROVE Delivery!Done(s, b)
  <2>1. HandledTimes[s][b] > 0 \/ b \in dropped[s] BY HandledIsConsumed DEF Did
  <2>2. [r \in Stages |-> [c \in Ids |->
          Cardinality({i \in 1..Len(consumed[r]) : consumed[r][i] = c})]] = HandledTimes
    BY HandledIsConsumed
  <2> QED BY <2>1, <2>2 DEF Delivery!Done
<1>3. b \in Live BY LiveStates
<1>4. \A c \in Ids : BlockState(c)' = BlockState(c)
  <2> SUFFICES ASSUME NEW c \in Ids PROVE BlockState(c)' = BlockState(c) OBVIOUS
  <2>1. c \in Live \/ recorded'[c] = recorded[c]
    BY <1>3 DEF Shape, TypeOK, HistoryTypes
  <2> QED BY <2>1, StateFrame
<1>5. [c \in Ids |-> BlockState(c)]' = [c \in Ids |-> BlockState(c)] BY <1>4
<1>6. [c \in Ids |-> BlockState(c)][b] = "accepted" OBVIOUS
<1> QED BY <1>2, <1>5, <1>6 DEF Delivery!Count

\* A block that goes back to the pool without having been refused has been recorded, or cleared.
LEMMA GoneIsDone ==
  ASSUME Base', NEW b \in Ids, b \notin Live', Fate(b)'
  PROVE  recorded'[b] = 1 \/ b \in cleared'
<1> USE ConstantFacts
<1>1. \/ Unshared(b)' \/ InSerial(b)' \/ b \in cleared' \/ recorded'[b] = 1
      \/ FannedOut(b)' \/ Recording(b)'
  BY DEF Fate
<1>2. /\ ~WorkerHolds(b)' /\ \A s \in Stages : ~StageHolds(s, b)'
  BY DEF Base, Conserved, Ownership, Live
<1>3. ~Unshared(b)' /\ ~InSerial(b)' /\ ~Submitting(b)'
  BY <1>2 DEF WorkerHolds, Unshared, InSerial, Submitting
<1>4. ASSUME NEW s \in Stages PROVE ~Owes(s, b)'
  <2>1. skipTodo' \subseteq skipped' BY DEF Base, Shape, TypeOK, WorkerTypes
  <2> QED BY <1>2, <2>1 DEF Owes, StageHolds
<1>5. ~Recording(b)'
  <2> SUFFICES ASSUME NEW t \in Threads, Records(t, b)' PROVE FALSE BY DEF Recording
  <2>1. CASE t \in Stages BY <1>2, <2>1 DEF Records, StageHolds
  <2>2. CASE t = Worker
    <3>1. hand'[Worker] = b /\ pc'[Worker] = "record" BY <2>2 DEF Records
    <3>2. \E s \in Stages : <<s, hand'[Worker]>> \in skipped' BY <3>1 DEF Base, Phases
    <3> QED BY <1>2, <3>1, <3>2 DEF StageHolds
  <2> QED BY <2>1, <2>2
<1> QED BY <1>1, <1>3, <1>4, <1>5 DEF FannedOut

\* The blocks that lose their last owner in a step that only drops references are retired.
LEMMA RetiresBlocks ==
  ASSUME Base, Ledger, Base', \A b \in Live : Fate(b)',
         \A b \in Ids : owners'[b] \subseteq owners[b],
         UNCHANGED <<nextId, ingestBlock, consumed, dropped, recorded, cleared>>
  PROVE  \E B \in SUBSET Ids : Delivery!Retire(B)
<1> USE ConstantFacts
<1> DEFINE B == {b \in Live : owners'[b] = {}}
<1>1. B \subseteq Ids /\ Live \subseteq Ids BY DEF Live
<1>2. \A b \in Ids : b \in Live' <=> b \in Live /\ b \notin B BY DEF Live
<1>3. ASSUME NEW b \in B
      PROVE  BlockState(b) = "accepted" /\ recorded[b] = 1 /\ BlockState(b)' = "retired"
  <2>1. b \in Ids /\ b \in Live /\ b \notin Live' BY <1>1, <1>2
  <2>2. recorded'[b] = 1 \/ b \in cleared' BY <2>1, GoneIsDone
  <2>3. b \notin cleared BY <2>1 DEF Ledger, Registers
  <2>4. b # ingestBlock
    <3>1. SUFFICES ASSUME b = ingestBlock' PROVE FALSE OBVIOUS
    <3>2. WorkerHolds(b)' BY <3>1 DEF WorkerHolds
    <3>3. Worker \in owners'[b] BY <2>1, <3>2 DEF Base, Conserved, Ownership
    <3> QED BY <2>1, <3>3 DEF Live
  <2>5. BlockState(b) = "accepted" /\ b < nextId BY <2>1, <2>4, LiveStates
  <2>6. ~(b >= nextId') BY <2>1, <2>5, FlowTypes DEF Base
  <2> QED BY <2>1, <2>2, <2>3, <2>5, <2>6 DEF BlockState
<1>4. ASSUME NEW b \in Ids, b \notin B PROVE BlockState(b)' = BlockState(b)
  <2>1. b \in Live' <=> b \in Live BY <1>2, <1>4
  <2> QED BY <2>1 DEF BlockState
<1> DEFINE places == [b \in Ids |-> BlockState(b)]
<1>5. \A b \in B : places[b] = "accepted" /\ recorded[b] = 1 BY <1>1, <1>3
<1>6. places' = [b \in Ids |-> IF b \in B THEN "retired" ELSE places[b]] BY <1>3, <1>4
<1> HIDE DEF B
<1>7. Delivery!Retire(B) BY <1>5, <1>6 DEF Delivery!Retire
<1>8. B \in SUBSET Ids BY <1>1
<1> USE <1>8
<1> WITNESS B \in SUBSET Ids
<1> QED BY <1>7

LEMMA DiscardsBlocks ==
  ASSUME Base, Ledger, Clear PROVE \E B \in SUBSET Ids : Delivery!Discard(B)
<1> USE ConstantFacts DEF Base
<1> DEFINE B == ToSet(queue)
           places == [b \in Ids |-> BlockState(b)]
<1>0. /\ UNCHANGED <<nextId, ingestBlock, consumed, dropped, recorded>>
      /\ cleared' = cleared \union B
      /\ owners' = [b \in Ids |-> IF b \in B THEN {} ELSE owners[b]]
  BY DEF Clear, EmptyQueue, ReleaseTo, ingestVars
<1>1. B \subseteq Ids BY FlowTypes
<1>2. ASSUME NEW b \in B
      PROVE  /\ BlockState(b) = "accepted" /\ b < nextId /\ BlockState(b)' = "discarded"
             /\ \A s \in Stages : ~Did(s, b)
  <2>1. b \in Ids /\ b \in Live /\ BlockState(b) = "accepted" /\ b < nextId
    BY <1>1, LiveStates
  <2>2. Untouched(b) BY <2>1 DEF Ledger, FreshUntouched, Fresh, Unshared
  <2>3. b \notin Live' /\ b \in cleared' BY <1>0, <2>1 DEF Live
  <2>4. ~(b >= nextId') BY <1>0, <2>1, FlowTypes
  <2> QED BY <1>0, <2>1, <2>2, <2>3, <2>4 DEF BlockState, Untouched
<1>3. ASSUME NEW b \in Ids, b \notin B PROVE BlockState(b)' = BlockState(b)
  <2>1. b \in Live' <=> b \in Live BY <1>0, <1>3 DEF Live
  <2> QED BY <1>0, <1>3, <2>1 DEF BlockState
<1>4. \A b \in B : places[b] = "accepted" BY <1>1, <1>2
<1>5. places' = [b \in Ids |-> IF b \in B THEN "discarded" ELSE places[b]] BY <1>2, <1>3
<1>6. ASSUME NEW b \in B, NEW s \in Stages PROVE ~Delivery!Done(s, b)
  <2>1. b \in Ids /\ ~Did(s, b) BY <1>1, <1>2
  <2>2. ~(HandledTimes[s][b] > 0) /\ b \notin dropped[s] BY <2>1, HandledIsConsumed DEF Did
  <2>3. [r \in Stages |-> [c \in Ids |->
          Cardinality({i \in 1..Len(consumed[r]) : consumed[r][i] = c})]] = HandledTimes
    BY HandledIsConsumed
  <2> QED BY <2>2, <2>3 DEF Delivery!Done
<1>7. Delivery!Discard(B) BY <1>0, <1>4, <1>5, <1>6 DEF Delivery!Discard, Delivery!Untouched
<1> HIDE DEF B
<1>8. B \in SUBSET Ids BY <1>1
<1> USE <1>8
<1> WITNESS B \in SUBSET Ids
<1> QED BY <1>7

\* Whichever thread records a block does so after the last stage, for the first time.
LEMMA RecordDelivers ==
  ASSUME Base, Ledger, NEW t \in Threads, Record(t)
  PROVE  [Delivery!Next]_(Delivery!deliveryVars)
<1> USE ConstantFacts DEF Base
<1>1. hand[t] \in Ids /\ Records(t, hand[t]) BY RecordWork
<1>2. PICK b \in Ids : b = hand[t] /\ Records(t, b) BY <1>1
<1>3. /\ recorded' = [recorded EXCEPT ![b] = @ + 1]
      /\ UNCHANGED <<nextId, ingestBlock, owners, consumed, dropped, cleared>>
  BY <1>2 DEF Record, poolVars, ingestVars
<1>4. Recording(b) /\ Finishing(t, b) BY <1>2 DEF Recording, Records, Finishing
<1>5. BlockState(b) = "accepted" BY <1>4, RecordingIsHeld, LiveStates
<1>6. recorded[b] = 0
  BY <1>4 DEF Ledger, RecordedOnce, Shape, TypeOK, HistoryTypes
<1>7. \A s \in Stages : Did(s, b)
  <2>1. ~FannedOut(b) BY <1>4 DEF Counted
  <2>2. \A s \in Stages : Owes(s, b) \/ Did(s, b) BY <1>4 DEF Ledger, RecordedOnce
  <2> QED BY <2>1, <2>2 DEF FannedOut
<1>8. Delivery!Count(b) BY <1>3, <1>5, <1>6, <1>7, CountsBlock
<1> QED BY <1>8 DEF Delivery!Next

LEMMA InitDelivers == Init => Delivery!Init
<1> SUFFICES ASSUME Init PROVE Delivery!Init OBVIOUS
<1> USE ConstantFacts
<1>1. [b \in Ids |-> BlockState(b)] = [b \in Ids |-> "unused"]
  <2>1. \A b \in Ids : b >= nextId BY DEF Init, Ids
  <2> QED BY <2>1 DEF BlockState
<1>2. ASSUME NEW s \in Stages, NEW b \in Ids
      PROVE  Cardinality({i \in 1..Len(consumed[s]) : consumed[s][i] = b}) = 0
  <2>1. consumed[s] = <<>> /\ Len(<<>>) = 0 BY EmptyQueueFacts DEF Init
  <2>2. {i \in 1..Len(consumed[s]) : consumed[s][i] = b} = {} BY <2>1
  <2> QED BY <2>2, FS_EmptySet
<1>3. [s \in Stages |-> [b \in Ids |->
        Cardinality({i \in 1..Len(consumed[s]) : consumed[s][i] = b})]]
      = [s \in Stages |-> [b \in Ids |-> 0]]
  BY <1>2, Zenon
<1>4. dropped = [s \in Stages |-> {}] /\ recorded = [b \in Ids |-> 0] BY DEF Init
<1> QED BY <1>1, <1>3, <1>4 DEF Delivery!Init

\* The steps that BlockDelivery does not see.
LEMMA UnseenStep ==
  ASSUME UNCHANGED <<nextId, ingestBlock, consumed, dropped, recorded, cleared>>,
         \A b \in Ids : b \in Live' <=> b \in Live
  PROVE  UNCHANGED Delivery!deliveryVars
<1>1. \A b \in Ids : BlockState(b)' = BlockState(b) BY DEF BlockState
<1> QED BY <1>1, DeliveryFrame

LEMMA WorkerDelivers ==
  ASSUME Base, Base', Ledger, \A b \in Live : Fate(b)', WorkerStep
  PROVE  [Delivery!Next]_(Delivery!deliveryVars)
<1> USE ConstantFacts DEF Base
<1>f. UNCHANGED <<nextId, ingestBlock, cleared>> BY WorkerFrame DEF ingestVars
<1>1. CASE WorkerSkip BY <1>1, SkipsBlock DEF Delivery!Next
<1>2. CASE WorkerSerial
  <2>1. current \in Ids /\ serialStage \in Stages BY <1>2, SerialWork
  <2>2. PICK b \in Ids, s \in Stages : b = current /\ s = serialStage BY <2>1
  <2>3. /\ consumed' = [consumed EXCEPT ![s] = Append(@, b)]
        /\ UNCHANGED <<owners, dropped, recorded>> /\ pc[Worker] = "serial"
    BY <1>2, <2>2 DEF WorkerSerial, poolVars
  <2>4. InSerial(b) /\ HasCurrent(b) BY <2>2, <2>3 DEF InSerial, HasCurrent
  <2>5. BlockState(b) = "accepted" BY <2>4, LiveStates
  <2>6. ~Did(s, b)
    <3>1. ~(s < serialStage) BY <2>2 DEF Stages
    <3> QED BY <2>4, <3>1, SerialIsUnheld
  <2>7. Delivery!Handle(s, b) BY <1>f, <2>3, <2>5, <2>6, HandlesBlock
  <2> QED BY <2>7 DEF Delivery!Next
<1>3. CASE WorkerSerialRecord
  <2>1. current \in Ids /\ \A s \in Stages : s < serialStage BY <1>3, SerialRecordStep
  <2>2. PICK b \in Ids : b = current BY <2>1
  <2>3. /\ recorded' = [recorded EXCEPT ![b] = @ + 1]
        /\ UNCHANGED <<owners, consumed, dropped>> /\ pc[Worker] = "serial"
    BY <1>3, <2>2 DEF WorkerSerialRecord, poolVars
  <2>4. InSerial(b) /\ HasCurrent(b) BY <2>2, <2>3 DEF InSerial, HasCurrent
  <2>5. BlockState(b) = "accepted" BY <2>4, LiveStates
  <2>6. recorded[b] = 0 /\ \A s \in Stages : Did(s, b) BY <2>1, <2>4, SerialIsUnheld
  <2>7. Delivery!Count(b) BY <1>f, <2>3, <2>5, <2>6, CountsBlock
  <2> QED BY <2>7 DEF Delivery!Next
<1>4. CASE Record(Worker) BY <1>4, RecordDelivers
<1>5. CASE WorkerUnwind
  <2>1. UNCHANGED <<consumed, dropped, recorded>> BY <1>5 DEF WorkerUnwind, historyVars
  <2>2. \A b \in Ids : owners'[b] \subseteq owners[b] BY <1>5 DEF WorkerUnwind, ReleaseTo
  <2>3. \E B \in SUBSET Ids : Delivery!Retire(B) BY <1>f, <2>1, <2>2, RetiresBlocks
  <2> QED BY <2>3 DEF Delivery!Next
<1>6. CASE Submit
  <2>1. UNCHANGED <<consumed, dropped, recorded>> BY <1>6 DEF Submit, historyVars
  <2>2. owners' = [owners EXCEPT ![current] = Threads] /\ current \in Ids
    BY <1>6, SubmitWork DEF Submit, Conserved
  <2>3. current \in Live
    <3>1. HasCurrent(current) BY <1>6 DEF Submit, HasCurrent
    <3> QED BY <2>2, <3>1, LiveStates
  <2>4. \A b \in Ids : b \in Live' <=> b \in Live
    BY <2>2, <2>3 DEF Live, Shape, TypeOK, PoolTypes
  <2> QED BY <1>f, <2>1, <2>4, UnseenStep
<1>7. CASE \/ WorkerPop \/ WorkerExit \/ WorkerMark \/ SubmitRefused \/ WorkerFinish
           \/ Leave(Worker)
  <2>1. UNCHANGED <<owners, consumed, dropped, recorded>>
    BY <1>7 DEF WorkerPop, WorkerExit, WorkerMark, SubmitRefused, WorkerFinish, Leave, poolVars,
         historyVars
  <2>2. Live' = Live BY <2>1 DEF Live
  <2> QED BY <1>f, <2>1, <2>2, UnseenStep
<1> QED BY <1>1, <1>2, <1>3, <1>4, <1>5, <1>6, <1>7 DEF WorkerStep

LEMMA StageDelivers ==
  ASSUME Base, Base', Ledger, \A b \in Live : Fate(b)', NEW s \in Stages, StageStep(s)
  PROVE  [Delivery!Next]_(Delivery!deliveryVars)
<1> USE ConstantFacts DEF Base
<1>f. UNCHANGED <<nextId, ingestBlock, cleared>> BY StageFrame DEF ingestVars
<1>1. CASE StageServe(s)
  <2>1. hand[s] \in Ids /\ Waits(s, hand[s]) BY <1>1, ServeWork DEF Conserved
  <2>2. PICK b \in Ids : b = hand[s] /\ Waits(s, b) BY <2>1
  <2>3. /\ consumed' = [consumed EXCEPT ![s] = Append(@, b)]
        /\ UNCHANGED <<owners, dropped, recorded>>
    BY <1>1, <2>2 DEF StageServe, poolVars
  <2>4. BlockState(b) = "accepted" BY <2>2, WorkIsHeld, LiveStates
  <2>5. ~Did(s, b) BY <2>2 DEF Ledger, StageLedger
  <2>6. Delivery!Handle(s, b) BY <1>f, <2>3, <2>4, <2>5, HandlesBlock
  <2> QED BY <2>6 DEF Delivery!Next
<1>2. CASE Record(s) BY <1>2, RecordDelivers
<1>3. CASE StageDrop(s)
  <2>1. UNCHANGED <<consumed, dropped, recorded>> BY <1>3 DEF StageDrop, historyVars
  <2>2. \A b \in Ids : owners'[b] \subseteq owners[b]
    BY <1>3 DEF StageDrop, ReleaseTo, Shape, TypeOK, PoolTypes
  <2>3. \E B \in SUBSET Ids : Delivery!Retire(B) BY <1>f, <2>1, <2>2, RetiresBlocks
  <2> QED BY <2>3 DEF Delivery!Next
<1>4. CASE StagePop(s) \/ StageExit(s) \/ StageComplete(s) \/ Leave(s)
  <2>1. UNCHANGED <<owners, consumed, dropped, recorded>>
    BY <1>4 DEF StagePop, StageExit, StageComplete, Leave, poolVars, historyVars
  <2>2. Live' = Live BY <2>1 DEF Live
  <2> QED BY <1>f, <2>1, <2>2, UnseenStep
<1> QED BY <1>1, <1>2, <1>3, <1>4 DEF StageStep

LEMMA IngestDelivers ==
  ASSUME Base, Base', Ledger, IngestBegin \/ IngestStep
  PROVE  [Delivery!Next]_(Delivery!deliveryVars)
<1> USE ConstantFacts DEF Base
<1>1. CASE IngestAcquire
  <2>1. nextId \in Ids BY <1>1 DEF IngestAcquire, Shape, Posture
  <2>2. PICK b \in Ids : b = nextId BY <2>1
  <2>3. Delivery!Take(b) BY <1>1, <2>2, TakesBlock
  <2> QED BY <2>3 DEF Delivery!Next
<1>2. CASE IngestRefused \/ IngestPush
  <2>1. ingestBlock \in Ids BY <1>2 DEF IngestRefused, IngestPush, Shape, Posture
  <2>2. PICK b \in Ids : b = ingestBlock BY <2>1
  <2>3. Delivery!Refuse(b) \/ Delivery!Accept(b) BY <1>2, <2>2, RefusesBlock, AcceptsBlock
  <2> QED BY <2>3 DEF Delivery!Next
<1>3. CASE IngestBegin \/ IngestExhausted
  <2>1. UNCHANGED <<nextId, ingestBlock, owners, consumed, dropped, recorded, cleared>>
    BY <1>3 DEF IngestBegin, IngestExhausted, poolVars, historyVars
  <2>2. Live' = Live BY <2>1 DEF Live
  <2> QED BY <2>1, <2>2, UnseenStep
<1> QED BY <1>1, <1>2, <1>3 DEF IngestStep

LEMMA ControlDelivers ==
  ASSUME Base, Ledger, ControlStep
  PROVE  [Delivery!Next]_(Delivery!deliveryVars)
<1> USE ConstantFacts DEF Base
<1>f. UNCHANGED <<nextId, ingestBlock, consumed, dropped, recorded>>
  BY ControlFrame DEF ingestVars
<1>1. CASE Clear BY <1>1, DiscardsBlocks DEF Delivery!Next
<1>2. CASE Start \/ StopEnd
  <2>1. queue = <<>>
    BY <1>2 DEF Start, StopEnd, Shape, Posture, Phases
  <2>2. \A b \in Ids : owners'[b] = owners[b]
    BY <1>2, <2>1, EmptyQueueFacts DEF Start, StopEnd, EmptyQueue, ReleaseTo
  <2>3. UNCHANGED cleared BY <1>2 DEF Start, StopEnd, historyVars
  <2>4. \A b \in Ids : b \in Live' <=> b \in Live BY <2>2 DEF Live
  <2> QED BY <1>f, <2>3, <2>4, UnseenStep
<1>3. CASE ~Clear /\ ~Start /\ ~StopEnd
  <2>1. UNCHANGED <<owners, cleared>>
    BY <1>3 DEF ControlStep, StopStep, StopBegin, StopStages, FlushBegin, FlushStep, FlushProbe,
         FlushSucceed, FlushWaitAgain, FlushTimeout, FlushReturn, FlushGoesTo, SetAccepting,
         poolVars, historyVars
  <2>2. Live' = Live BY <2>1 DEF Live
  <2> QED BY <1>f, <2>1, <2>2, UnseenStep
<1> QED BY <1>1, <1>2, <1>3

LEMMA NextDelivers ==
  Base /\ Base' /\ Ledger /\ Ledger' /\ [Next]_vars => [Delivery!Next]_(Delivery!deliveryVars)
<1> SUFFICES ASSUME Base, Base', Ledger, Ledger', [Next]_vars
             PROVE  [Delivery!Next]_(Delivery!deliveryVars)
  OBVIOUS
<1>1. ASSUME UNCHANGED ingestVars PROVE \A b \in Live : Fate(b)'
  <2> SUFFICES ASSUME NEW b \in Live PROVE Fate(b)' OBVIOUS
  <2>1. b \in Ids BY DEF Live
  <2>2. Fate(b) BY <2>1 DEF Ledger, Fates
  <2>3. ~IngestRefused BY <1>1 DEF IngestRefused, ingestVars
  <2>4. RecordedOnce' /\ Shape' BY DEF Ledger, Base
  <2> QED BY <2>1, <2>2, <2>3, <2>4, FateMoves
<1>2. CASE UNCHANGED vars
  <2>1. UNCHANGED <<nextId, ingestBlock, owners, consumed, dropped, recorded, cleared>>
    BY <1>2 DEF vars, poolVars, ingestVars, historyVars
  <2>2. Live' = Live BY <2>1 DEF Live
  <2> QED BY <2>1, <2>2, UnseenStep
<1>3. CASE IngestBegin \/ IngestStep BY <1>3, IngestDelivers
<1>4. CASE WorkerStep
  <2>1. UNCHANGED ingestVars BY <1>4, WorkerFrame
  <2> QED BY <1>1, <1>4, <2>1, WorkerDelivers
<1>5. ASSUME NEW s \in Stages, StageStep(s) PROVE [Delivery!Next]_(Delivery!deliveryVars)
  <2>1. UNCHANGED ingestVars BY <1>5, StageFrame DEF Base
  <2> QED BY <1>1, <1>5, <2>1, StageDelivers
<1>6. CASE ControlStep BY <1>6, ControlDelivers
<1> QED BY <1>2, <1>3, <1>4, <1>5, <1>6, NextSteps

\* The threads, queues, locks and reference counts of the engine deliver every block as
\* BlockDelivery says: every step is one of its steps or a stutter.
THEOREM EngineDelivers == Spec => DeliversBlocks
<1>1. Spec => [][Next]_vars /\ Init BY DEF Spec
<1>2. [][Delivery!Next]_(Delivery!deliveryVars) /\ Delivery!Init <=> DeliversBlocks
  BY DEF DeliversBlocks, Delivery!Spec
<1> QED BY <1>1, <1>2, InitDelivers, NextDelivers, BaseInvariant, LedgerInvariant, PTL

-----------------------------------------------------------------------------
(* So the engine keeps what BlockDelivery promises. *)

Promise == INSTANCE BlockDeliveryProofs WITH
  Blocks  <- Ids,
  MaySkip <- Stages \ Lossless,
  state   <- [b \in Ids |-> BlockState(b)],
  handled <- [s \in Stages |-> [b \in Ids |->
               Cardinality({i \in 1..Len(consumed[s]) : consumed[s][i] = b})]],
  skipped <- dropped,
  counted <- recorded

LEMMA PromiseApplies == Promise!DeliveryAssumption
<1>1. IsFiniteSet(Ids) BY ConstantFacts
<1>2. PoolSize \in Nat /\ 1 \in Stages BY EngineAssumption DEF Stages
<1>3. Promise!IsFiniteSet(Ids) BY <1>1 DEF Promise!IsFiniteSet, IsFiniteSet
<1> QED BY <1>2, <1>3 DEF Promise!DeliveryAssumption

\* Delivery and Promise instantiate the same module in the same way.
LEMMA SameSets ==
  /\ \A S : Promise!Cardinality(S) = Delivery!Cardinality(S)
  /\ Promise!InUse = Delivery!InUse
  /\ \A place : Promise!In(place) = Delivery!In(place)
BY DEF Promise!Cardinality, Delivery!Cardinality, Promise!InUse, Delivery!InUse, Promise!In,
   Delivery!In

LEMMA SameTraces ==
  ASSUME NEW b \in Ids
  PROVE  /\ Promise!Untouched(b) <=> Delivery!Untouched(b)
         /\ Promise!HandledOnce(b) <=> Delivery!HandledOnce(b)
<1>1. Promise!Untouched(b) <=> Delivery!Untouched(b)
  BY DEF Promise!Untouched, Delivery!Untouched, Promise!Done, Delivery!Done
<1>2. Promise!HandledOnce(b) <=> Delivery!HandledOnce(b)
  BY SameSets DEF Promise!HandledOnce, Delivery!HandledOnce
<1> QED BY <1>1, <1>2

LEMMA SameNext ==
  [Delivery!Next]_(Delivery!deliveryVars) => [Promise!Next]_(Promise!deliveryVars)
<1> SUFFICES ASSUME [Delivery!Next]_(Delivery!deliveryVars)
             PROVE  [Promise!Next]_(Promise!deliveryVars)
  OBVIOUS
<1>1. CASE UNCHANGED Delivery!deliveryVars
  BY <1>1 DEF Delivery!deliveryVars, Promise!deliveryVars
<1>2. ASSUME NEW b \in Ids,
             Delivery!Take(b) \/ Delivery!Refuse(b) \/ Delivery!Accept(b) \/ Delivery!Count(b)
      PROVE  Promise!Next
  <2>1. CASE Delivery!Take(b)
    <3>1. Promise!Take(b) BY <2>1, SameSets DEF Delivery!Take, Promise!Take
    <3> QED BY <3>1 DEF Promise!Next
  <2>2. CASE Delivery!Refuse(b)
    <3>1. Promise!Refuse(b) BY <2>2 DEF Delivery!Refuse, Promise!Refuse
    <3> QED BY <3>1 DEF Promise!Next
  <2>3. CASE Delivery!Accept(b)
    <3>1. Promise!Accept(b) BY <2>3 DEF Delivery!Accept, Promise!Accept
    <3> QED BY <3>1 DEF Promise!Next
  <2>4. CASE Delivery!Count(b)
    <3>1. Promise!Count(b)
      BY <2>4 DEF Delivery!Count, Promise!Count, Delivery!Done, Promise!Done
    <3> QED BY <3>1 DEF Promise!Next
  <2> QED BY <1>2, <2>1, <2>2, <2>3, <2>4
<1>3. ASSUME NEW s \in Stages, NEW b \in Ids, Delivery!Handle(s, b) \/ Delivery!Skip(s, b)
      PROVE  Promise!Next
  <2>1. Promise!Handle(s, b) \/ Promise!Skip(s, b)
    BY <1>3 DEF Delivery!Handle, Promise!Handle, Delivery!Skip, Promise!Skip, Delivery!Done,
       Promise!Done
  <2> QED BY <2>1 DEF Promise!Next
<1>4. ASSUME NEW B \in SUBSET Ids, Delivery!Retire(B) \/ Delivery!Discard(B)
      PROVE  Promise!Next
  <2>1. Promise!Retire(B) \/ Promise!Discard(B)
    BY <1>4 DEF Delivery!Retire, Promise!Retire, Delivery!Discard, Promise!Discard,
       Delivery!Untouched, Promise!Untouched, Delivery!Done, Promise!Done
  <2> QED BY <2>1 DEF Promise!Next
<1> QED BY <1>1, <1>2, <1>3, <1>4 DEF Delivery!Next

\* Every block the engine has given back to the pool was handled once by every lossless stage,
\* handled or skipped once by every other, and counted once; and a refused or cleared block
\* left no trace.
THEOREM EngineDeliversOnce == Spec => []Delivery!ExactlyOnce
<1>1. Delivery!Init => Promise!Init BY DEF Promise!Init, Delivery!Init
<1>2. Promise!ExactlyOnce => Delivery!ExactlyOnce
  <2>1. \A place : Delivery!In(place) \subseteq Ids BY DEF Delivery!In
  <2> QED BY <2>1, SameSets, SameTraces DEF Promise!ExactlyOnce, Delivery!ExactlyOnce
<1>3. Promise!Spec => []Promise!ExactlyOnce BY PromiseApplies, Promise!DeliveredExactlyOnce
<1>4. Delivery!Spec <=> Delivery!Init /\ [][Delivery!Next]_(Delivery!deliveryVars)
  BY DEF Delivery!Spec
<1>5. Promise!Spec <=> Promise!Init /\ [][Promise!Next]_(Promise!deliveryVars)
  BY DEF Promise!Spec
<1>6. DeliversBlocks => Delivery!Spec BY DEF DeliversBlocks
<1> QED BY <1>1, <1>2, <1>3, <1>4, <1>5, <1>6, SameNext, EngineDelivers, PTL
=============================================================================
