---------------------- MODULE WaterfallDeliveryProofs ----------------------
(***************************************************************************)
(* What WaterfallDelivery promises about the rows, for every value of the   *)
(* constants: no sample is lost or doubled on its way, every dropped row is  *)
(* counted, a row is stored on the time base and in the recording it was     *)
(* folded for, and in the order of time.                                    *)
(***************************************************************************)
EXTENDS WaterfallDelivery, QueueLemmas, FiniteSetTheorems, TLAPS

-----------------------------------------------------------------------------
(* The inductive invariant                                                   *)

QueuedRows == [id : Int, source : Int, config : Int, row : RowType]
AppendedRows ==
  [session : Int, id : Int, source : Int, config : Int, row : RowType, stored : BOOLEAN]

\* The types that TypeOK leaves open.
SourceTypes ==
  /\ nextBlock \in 1..MaxBlocks + 1 /\ accepting \in BOOLEAN
  /\ input \in Seq(Blocks) /\ stageQueue \in Seq(Blocks)
  /\ Len(stageQueue) <= StageCapacity
  /\ origin \in [Blocks -> Int] /\ serial \subseteq Blocks

ThreadTypes ==
  /\ pc \in [Threads -> {"idle", "consume", "fold", "allocate", "push"}]
  /\ hand \in [Threads -> Blocks \union {0}]
  /\ batch \in [Threads -> Seq(RowType)]
  /\ batchConfig \in [Threads -> Int] /\ batchSource \in [Threads -> Int]
  /\ cursor \in Nat /\ config \in Nat /\ openRow \in RowType /\ nextSource \in Nat
  /\ taken \subseteq Blocks \X Nat

QueueTypes ==
  /\ rowQueue \in Seq(QueuedRows) /\ Len(rowQueue) <= RowCapacity
  /\ nextRowId \in Int /\ reported \in Int
  /\ metrics \in [{"pushed", "drained", "dropped"} -> Nat]
  /\ lost \subseteq RowType /\ vanished \subseteq RowType /\ sealed \subseteq RowType
  /\ appended \in Seq(AppendedRows)

ControlTypes ==
  /\ control \in {"idle", "configure", "starting", "recording", "flush", "seal",
                  "publish", "drain", "flushed", "close"}
  /\ session \in 0..MaxSessions
  /\ control = "configure" => session < MaxSessions
  /\ timedOut \in BOOLEAN /\ flushesLeft \in Int

Typed == SourceTypes /\ ThreadTypes /\ QueueTypes /\ ControlTypes

\* A batch and a block belong to a thread in turn, one thread at a time is in the
\* aggregator, and the user interface thread publishes nothing but what it sealed.
ThreadsInTurn ==
  /\ \A t \in Threads :
       /\ pc[t] \in {"allocate", "push"} => batch[t] # <<>>
       /\ batch[t] # <<>> => pc[t] \in {"fold", "allocate", "push"}
       /\ (hand[t] # 0) <=> (pc[t] \in {"consume", "fold"})
       /\ pc[t] = "fold" => cursor \in 1..Len(Span[hand[t]]) + 1
  /\ \A t, u \in Threads : pc[t] = "fold" /\ pc[u] = "fold" => t = u
  /\ pc["ui"] \in {"idle", "allocate", "push"}
  /\ (pc["ui"] # "idle") <=> (control = "publish")
  /\ StageCapacity = 0 => stageQueue = <<>> /\ pc["stage"] = "idle"

\* The blocks wait in the order of the source: in the hands of the stage, in its queue,
\* in the hands of the worker, in the input.
Ahead(x, y) ==
  \/ x = "stage" /\ y \in {"queue", "worker", "input", "source"}
  \/ x = "queue" /\ y \in {"worker", "input", "source"}
  \/ x = "worker" /\ y \in {"input", "source"}
  \/ x = "input" /\ y = "source"

Station(x) ==
  CASE x = "stage"  -> {hand["stage"]} \ {0}
    [] x = "queue"  -> ToSet(stageQueue)
    [] x = "worker" -> {hand["worker"]} \ {0}
    [] x = "input"  -> ToSet(input)
    [] x = "source" -> {b \in Blocks : b >= nextBlock}

Stations == {"stage", "queue", "worker", "input", "source"}

BlocksInOrder ==
  /\ Sorted(input) /\ Sorted(stageQueue)
  /\ \A x, y \in Stations : Ahead(x, y) => \A b \in Station(x), c \in Station(y) : b < c

\* Sample i of block b is still to be folded.
Pending(b, i) ==
  /\ b \in Blocks /\ i \in DOMAIN Span[b]
  /\ \E x \in Stations : b \in Station(x)
  /\ \A t \in Threads : pc[t] = "fold" /\ hand[t] = b => i >= cursor

FoldedOnce ==
  /\ \A s \in taken : s[2] \in DOMAIN Span[s[1]]
  /\ \A b \in Blocks, i \in Nat : Pending(b, i) => <<b, i>> \notin taken

\* What SamplesConserved says of the sets of rows, and that no row is empty.
EachInOnePlace ==
  \A p, q \in DOMAIN Places : p # q => Places[p] \intersect Places[q] = {}

RowsApart ==
  /\ \A r \in AllRows : r.samples # {} /\ r.samples \subseteq taken /\ r.bucket # 0
  /\ \A s \in taken : \E r \in AllRows : s \in r.samples
  /\ \A r1, r2 \in AllRows : r1 # r2 => r1.samples \intersect r2.samples = {}

Distinct(queue) == \A i, j \in DOMAIN queue : queue[i].row = queue[j].row => i = j

ListedOnce ==
  /\ Distinct(rowQueue) /\ Distinct(appended)
  /\ \A t \in Threads : IsInjective(batch[t])

\* Counts
LostCounted ==
  /\ metrics.pushed = metrics.drained + metrics.dropped + Len(rowQueue)
  /\ IsFiniteSet(lost) /\ reported = Cardinality(lost)

\* A row carries the number of the configuration it was folded under.
GridKept ==
  /\ MetadataMatchesRow
  /\ openRow # NoRow => openRow.config = config
  /\ \A t \in Threads :
       /\ pc[t] = "fold" => \A r \in ToSet(batch[t]) : r.config = config
       /\ pc[t] \in {"allocate", "push"} => \A r \in ToSet(batch[t]) : r.config = batchConfig[t]

\* While no flush has given up, a recording that is being closed finds everything settled.
Quiet == input = <<>> /\ stageQueue = <<>> /\ pc["worker"] = "idle" /\ pc["stage"] = "idle"

ClosesSettled ==
  /\ control \in {"idle", "configure", "close"} => ~accepting
  /\ ~timedOut /\ ~accepting =>
       /\ control \in {"idle", "configure", "seal", "publish", "drain", "close"} => Quiet
       /\ control \in {"idle", "configure", "publish", "drain", "close"} => openRow = NoRow
       /\ control = "configure" => rowQueue = <<>>

\* A row of the session that is being recorded.
Own(r) == r.config = session /\ \A sample \in r.samples : origin[sample[1]] = session

OnTheWay ==
  Places["open"] \union Places["worker"] \union Places["stage"] \union Places["ui"]
    \union Places["queue"]

OwnRecording ==
  /\ config = session
  /\ \A i \in DOMAIN appended : appended[i].session <= session
  /\ timedOut \/ SessionHoldsItsOwn
  /\ ~timedOut =>
       /\ \A x \in Stations \ {"source"} : \A b \in Station(x) : origin[b] = session
       /\ \A r \in OnTheWay : Own(r)

\* Identifiers grow along the session and the queue.
IdsGrow ==
  /\ \A i, j \in DOMAIN rowQueue : i < j => rowQueue[i].id < rowQueue[j].id
  /\ \A i \in DOMAIN rowQueue : rowQueue[i].id < nextRowId
  /\ \A i, j \in DOMAIN appended :
       i < j /\ appended[i].session = appended[j].session => appended[i].id < appended[j].id
  /\ control # "configure" =>
       \A i \in DOMAIN appended : appended[i].session = session =>
         /\ appended[i].id < nextRowId
         /\ \A j \in DOMAIN rowQueue : appended[i].id < rowQueue[j].id

\* A block that the worker served itself has arrived.
ServedArrived == serial \intersect Station("source") = {}

Overtaken(s) == \E b \in serial : origin[b] = s

\* Row r may come before row q in a recording in which no block was overtaken.
InOrder(r, q) == r.bucket < q.bucket \/ r \in sealed \/ q \in sealed

\* The thread that folds in a recording without overtaking.
Folder == IF StageCapacity = 0 THEN "worker" ELSE "stage"
Other  == IF StageCapacity = 0 THEN "stage" ELSE "worker"

Recorded == {appended[i].row : i \in {j \in DOMAIN appended : appended[j].session = session}}

\* The rows that are closed and come to this recording, the first ones first.
Line == Recorded \union RowsOf(rowQueue) \union ToSet(batch[Folder])

Precedes(r, q) ==
  \/ r \in Recorded /\ q \in RowsOf(rowQueue) \union ToSet(batch[Folder])
  \/ \E i, j \in DOMAIN rowQueue : i < j /\ r = rowQueue[i].row /\ q = rowQueue[j].row
  \/ r \in RowsOf(rowQueue) /\ q \in ToSet(batch[Folder])
  \/ \E i, j \in DOMAIN batch[Folder] : i < j /\ r = batch[Folder][i] /\ q = batch[Folder][j]

\* Row r is closed for good: all that is still to be folded is later.
Past(r) ==
  \/ r \in sealed
  \/ /\ openRow # NoRow => r.bucket < openRow.bucket
     /\ \A b \in Blocks, i \in Nat : Pending(b, i) => r.bucket < Span[b][i]

\* The order of time of the recording that is made, when no block was overtaken in it.
InTime ==
  /\ pc[Other] = "idle"
  /\ \A b \in Blocks, i \in Nat :
       Pending(b, i) /\ openRow # NoRow => openRow.bucket <= Span[b][i]
  /\ \A r \in Line : Past(r)
  /\ \A r, q \in Line : Precedes(r, q) => InOrder(r, q)

TimeOrder ==
  /\ ToSet(batch["ui"]) \subseteq sealed
  /\ \A i, j \in DOMAIN appended :
       i < j /\ appended[i].session = appended[j].session =>
         InOrder(appended[i].row, appended[j].row) \/ Overtaken(appended[i].session)
  /\ Overtaken(session) \/ InTime

TimeInv == timedOut \/ TimeOrder

IndInv ==
  /\ Typed /\ ThreadsInTurn
  /\ BlocksInOrder /\ FoldedOnce
  /\ EachInOnePlace /\ RowsApart /\ ListedOnce /\ LostCounted
  /\ GridKept /\ ClosesSettled /\ OwnRecording
  /\ IdsGrow /\ ServedArrived /\ TimeInv

-----------------------------------------------------------------------------
(* What the steps do to the row queue and to the session                     *)

LEMMA Constants ==
  /\ Threads = {"worker", "stage", "ui"} /\ Blocks \subseteq Nat \ {0}
  /\ MaxBlocks \in Nat /\ MaxSessions \in Nat
  /\ StageCapacity \in Nat /\ RowCapacity \in Nat /\ Batch \in Nat
  /\ \A b \in Blocks : /\ Len(Span[b]) \in Nat /\ DOMAIN Span[b] = 1..Len(Span[b])
                       /\ \A i \in DOMAIN Span[b] : Span[b][i] \in Nat \ {0}
<1>1. \A b \in Blocks : Span[b] \in Seq(Nat \ {0}) BY DeliveryAssumption
<1>2. \A b \in Blocks : /\ Len(Span[b]) \in Nat /\ DOMAIN Span[b] = 1..Len(Span[b])
                        /\ \A i \in DOMAIN Span[b] : Span[b][i] \in Nat \ {0}
  BY <1>1, LenProperties, ElementOfSeq
<1> QED BY <1>2, DeliveryAssumption DEF Threads, Blocks

\* Kept leaves a piece of the queue that fits.
LEMMA KeptPiece ==
  ASSUME NEW S, NEW q \in Seq(S)
  PROVE  /\ Excess(q) \in 0..Len(q) /\ Kept(q) \in Seq(S)
         /\ Len(Kept(q)) = Len(q) - Excess(q) /\ Len(Kept(q)) <= RowCapacity
         /\ \E k \in {0, Excess(q)} :
              /\ \A i \in 1..Len(Kept(q)) : Kept(q)[i] = q[k + i]
              /\ k = 0 \/ (OverflowPolicy = "DropOldest" /\ RowCapacity # 0)
<1> DEFINE e == Excess(q)
<1>1. Len(q) \in Nat /\ RowCapacity \in Nat BY LenProperties, Constants
<1>2. e \in 0..Len(q) /\ Len(q) - e <= RowCapacity /\ Len(q) - e \in 0..Len(q)
  BY <1>1 DEF Excess
<1> HIDE DEF e
<1>3. CASE OverflowPolicy = "DropOldest" /\ RowCapacity # 0
  <2>1. Kept(q) = SubSeq(q, e + 1, Len(q)) BY <1>3 DEF Kept, e
  <2>2. /\ Kept(q) \in Seq(S) /\ Len(Kept(q)) = Len(q) - e
        /\ \A i \in 1..Len(Kept(q)) : Kept(q)[i] = q[e + i]
    BY <2>1, <1>2, CutPlaces
  <2> QED BY <2>2, <1>2, <1>3 DEF e
<1>4. CASE OverflowPolicy # "DropOldest"
  <2>1. Kept(q) = SubSeq(q, 1, Len(q) - e) BY <1>4 DEF Kept, e
  <2>2. /\ Kept(q) \in Seq(S) /\ Len(Kept(q)) = Len(q) - e
        /\ \A i \in 1..Len(Kept(q)) : Kept(q)[i] = q[0 + i]
    BY <2>1, <1>2, FrontPlaces
  <2> QED BY <2>2, <1>2 DEF e
<1>5. CASE OverflowPolicy = "DropOldest" /\ RowCapacity = 0
  <2>1. Kept(q) = SubSeq(q, e + 1, Len(q)) BY <1>5 DEF Kept, e
  <2>2. Kept(q) \in Seq(S) /\ Len(Kept(q)) = Len(q) - e BY <2>1, <1>2, CutPlaces
  <2>3. Len(Kept(q)) = 0 BY <2>2, <1>2, <1>5
  <2> QED BY <2>2, <2>3, <1>2 DEF e
<1> QED BY <1>3, <1>4, <1>5

\* pushRows appends the rows of the thread and cuts an end off.
Pushed(t, all, cut) ==
  LET n == Len(rowQueue)
      m == Len(batch[t])
      gone == Len(all) - Len(rowQueue') IN
  /\ Len(all) = n + m /\ n \in Nat /\ m \in Nat
  /\ \A i \in 1..n : all[i] = rowQueue[i]
  /\ \A i \in 1..m : all[n + i] = [id |-> nextRowId + i - 1, source |-> batchSource[t],
                                   config |-> batchConfig[t], row |-> batch[t][i]]
  /\ rowQueue' \in Seq(QueuedRows) /\ Len(rowQueue') <= RowCapacity
  /\ Len(rowQueue') \in Nat /\ gone \in Nat /\ cut \in {0, gone}
  /\ \A i \in 1..Len(rowQueue') : rowQueue'[i] = all[cut + i]
  /\ lost' = lost \union (RowsOf(all) \ RowsOf(rowQueue'))
  /\ nextRowId' \in Int /\ nextRowId <= nextRowId'
  /\ cut + Len(rowQueue') <= n + (nextRowId' - nextRowId)
  /\ metrics' = [metrics EXCEPT !.pushed = @ + m, !.dropped = @ + gone]
  /\ reported' = reported + gone

LEMMA PushShape ==
  ASSUME Typed, NEW t \in Threads, Push(t)
  PROVE  \E all \in Seq(QueuedRows), cut \in Nat : Pushed(t, all, cut)
<1> DEFINE n == Len(rowQueue)
           m == Len(batch[t])
           tail == Numbered(batch[t], nextRowId, t)
           all == rowQueue \o tail
           refused == IF OverflowPolicy = "DropNewest" \/ RowCapacity = 0
                        THEN Excess(all) ELSE 0
<1>1. /\ rowQueue \in Seq(QueuedRows) /\ batch[t] \in Seq(RowType) /\ n \in Nat /\ m \in Nat
      /\ DOMAIN batch[t] = 1..m /\ \A i \in 1..m : batch[t][i] \in RowType
      /\ nextRowId \in Int /\ batchSource[t] \in Int /\ batchConfig[t] \in Int
      /\ RowCapacity \in Nat /\ n <= RowCapacity
  BY LenProperties, ElementOfSeq, Constants DEF Typed, ThreadTypes, QueueTypes
<1>2. tail = [i \in 1..m |-> [id |-> nextRowId + i - 1, source |-> batchSource[t],
                               config |-> batchConfig[t], row |-> batch[t][i]]]
  BY <1>1 DEF Numbered
<1>3. tail \in [1..m -> QueuedRows] BY <1>1, <1>2 DEF QueuedRows
<1>4. tail \in Seq(QueuedRows) /\ Len(tail) = m
  <2> HIDE DEF tail, m
  <2>1. m \in Nat /\ tail \in [1..m -> QueuedRows] BY <1>1, <1>3
  <2>2. tail \in Seq(QueuedRows) BY <2>1, SeqDef
  <2> QED BY <2>1, <2>2, LenProperties
<1>5. /\ all \in Seq(QueuedRows) /\ Len(all) = n + m
      /\ \A i \in 1..n : all[i] = rowQueue[i]
      /\ \A i \in 1..m : all[n + i] = tail[i]
  <2> HIDE DEF tail
  <2>1. /\ all \in Seq(QueuedRows) /\ Len(all) = n + m
        /\ \A i \in 1..(n + m) : all[i] = IF i <= n THEN rowQueue[i] ELSE tail[i - n]
    <3>1. rowQueue \in Seq(QueuedRows) /\ tail \in Seq(QueuedRows) BY <1>1, <1>4
    <3> HIDE DEF tail
    <3>2. /\ rowQueue \o tail \in Seq(QueuedRows)
          /\ Len(rowQueue \o tail) = Len(rowQueue) + Len(tail)
          /\ \A i \in 1..(Len(rowQueue) + Len(tail)) :
               (rowQueue \o tail)[i] = IF i <= Len(rowQueue) THEN rowQueue[i]
                                        ELSE tail[i - Len(rowQueue)]
      BY <3>1, ConcatProperties
    <3> QED BY <3>2, <1>4
  <2> HIDE DEF all
  <2>2. \A i \in 1..m : n + i \in 1..(n + m) /\ ~(n + i <= n) /\ (n + i) - n = i BY <1>1
  <2>3. \A i \in 1..n : i \in 1..(n + m) /\ i <= n BY <1>1
  <2> QED BY <2>1, <2>2, <2>3
<1>6. \A i \in 1..m : all[n + i] = [id |-> nextRowId + i - 1, source |-> batchSource[t],
                                    config |-> batchConfig[t], row |-> batch[t][i]]
  BY <1>2, <1>5
<1>7. /\ rowQueue' = Kept(all) /\ lost' = lost \union (RowsOf(all) \ RowsOf(Kept(all)))
      /\ nextRowId' = nextRowId + m - refused
      /\ metrics' = [metrics EXCEPT !.pushed = @ + m, !.dropped = @ + Excess(all)]
      /\ reported' = reported + Excess(rowQueue \o batch[t])
  BY DEF Push, PushCounting
<1> HIDE DEF tail, all
<1>8. PICK k \in {0, Excess(all)} :
        /\ Excess(all) \in 0..Len(all) /\ Kept(all) \in Seq(QueuedRows)
        /\ Len(Kept(all)) = Len(all) - Excess(all) /\ Len(Kept(all)) <= RowCapacity
        /\ \A i \in 1..Len(Kept(all)) : Kept(all)[i] = all[k + i]
        /\ k = 0 \/ (OverflowPolicy = "DropOldest" /\ RowCapacity # 0)
  BY <1>5, KeptPiece
<1>9. Excess(rowQueue \o batch[t]) = Excess(all)
  <2>1. Len(rowQueue \o batch[t]) = n + m
    <3>1. rowQueue \in Seq(QueuedRows \union RowType) /\ batch[t] \in Seq(QueuedRows \union RowType)
      BY <1>1
    <3> QED BY <3>1, ConcatProperties
  <2> QED BY <2>1, <1>5 DEF Excess
<1>10. Len(rowQueue') \in Nat /\ Len(all) - Len(rowQueue') = Excess(all) /\ Excess(all) \in Nat
  BY <1>1, <1>5, <1>7, <1>8
<1>11. /\ nextRowId' \in Int /\ nextRowId <= nextRowId'
       /\ k + Len(rowQueue') <= n + (nextRowId' - nextRowId)
  <2> DEFINE e == Excess(all)
             l == Len(rowQueue')
             id == nextRowId
             next == nextRowId'
  <2>1. /\ refused \in {0, e} /\ next = id + m - refused
        /\ k \in {0, e} /\ (k # 0 => refused = 0)
    BY <1>7, <1>8
  <2>2. e <= m BY <1>1, <1>5 DEF Excess
  <2>3. n \in Nat /\ m \in Nat /\ e \in Nat /\ l = (n + m) - e /\ id \in Int
    BY <1>1, <1>5, <1>7, <1>8
  <2> HIDE DEF e, l, id, next, refused, n, m
  <2>4. next \in Int /\ id <= next BY <2>1, <2>2, <2>3
  <2>5. k + l <= n + (next - id)
    <3>1. CASE k = 0 /\ refused = 0 BY <2>1, <2>3, <3>1
    <3>2. CASE k = 0 /\ refused = e BY <2>1, <2>3, <3>2
    <3>3. CASE k = e /\ refused = 0 BY <2>1, <2>3, <3>3
    <3> QED BY <2>1, <3>1, <3>2, <3>3
  <2> QED BY <2>4, <2>5 DEF l, id, next, n
<1>12. k \in Nat /\ k \in {0, Len(all) - Len(rowQueue')} BY <1>8, <1>10
<1> USE <1>5, <1>12
<1> WITNESS all \in Seq(QueuedRows), k \in Nat
<1> QED BY <1>1, <1>6, <1>7, <1>8, <1>9, <1>10, <1>11 DEF Pushed

\* A batch is taken from the front of the row queue and appended to the session.
TakenAway(n) ==
  /\ rowQueue' \in Seq(QueuedRows) /\ Len(rowQueue') = Len(rowQueue) - n
  /\ \A i \in 1..Len(rowQueue') : rowQueue'[i] = rowQueue[n + i]
  /\ appended' \in Seq(AppendedRows) /\ Len(appended') = Len(appended) + n
  /\ \A i \in 1..Len(appended) : appended'[i] = appended[i]
  /\ \A i \in 1..n :
       appended'[Len(appended) + i] =
         [session |-> session, id |-> rowQueue[i].id, source |-> rowQueue[i].source,
          config |-> rowQueue[i].config, row |-> rowQueue[i].row,
          stored |-> Visible(rowQueue[i].row)]
  /\ metrics' = [metrics EXCEPT !.drained = @ + n]
  /\ UNCHANGED <<nextRowId, reported, lost>>

LEMMA DrainShape ==
  ASSUME Typed, DrainOldest
  PROVE  \E n \in 0..Len(rowQueue) : TakenAway(n)
<1> DEFINE n == IF Batch < Len(rowQueue) THEN Batch ELSE Len(rowQueue)
           front == SubSeq(rowQueue, 1, n)
           tail == [i \in DOMAIN front |->
                      [session |-> session, id |-> front[i].id, source |-> front[i].source,
                       config |-> front[i].config, row |-> front[i].row,
                       stored |-> Visible(front[i].row)]]
<1>1. /\ rowQueue \in Seq(QueuedRows) /\ appended \in Seq(AppendedRows)
      /\ Len(rowQueue) \in Nat /\ Len(appended) \in Nat /\ Batch \in Nat
      /\ \A i \in 1..Len(rowQueue) : rowQueue[i] \in QueuedRows
      /\ session \in Int
  BY LenProperties, ElementOfSeq, Constants DEF Typed, QueueTypes, ControlTypes
<1>2. n \in 0..Len(rowQueue) BY <1>1
<1>3. /\ metrics' = [metrics EXCEPT !.drained = @ + Len(front)]
      /\ appended' = appended \o tail
      /\ rowQueue' = SubSeq(rowQueue, n + 1, Len(rowQueue))
      /\ UNCHANGED <<nextRowId, reported, lost>>
  BY DEF DrainOldest, Drain
<1> HIDE DEF n
<1>4. /\ front \in Seq(QueuedRows) /\ Len(front) = n /\ DOMAIN front = 1..n
      /\ \A i \in 1..n : front[i] = rowQueue[i] /\ front[i] \in QueuedRows
  BY <1>1, <1>2, FrontPlaces, LenProperties, ElementOfSeq
<1>5. /\ rowQueue' \in Seq(QueuedRows) /\ Len(rowQueue') = Len(rowQueue) - n
      /\ \A i \in 1..Len(rowQueue') : rowQueue'[i] = rowQueue[n + i]
  BY <1>1, <1>2, <1>3, CutPlaces
<1> HIDE DEF front
<1>6. \A i \in 1..n :
        [session |-> session, id |-> front[i].id, source |-> front[i].source,
         config |-> front[i].config, row |-> front[i].row,
         stored |-> Visible(front[i].row)] \in AppendedRows
  <2> TAKE i \in 1..n
  <2>1. Visible(front[i].row) \in BOOLEAN BY DEF Visible
  <2>2. front[i] \in QueuedRows BY <1>4
  <2> QED BY <2>1, <2>2, <1>1 DEF QueuedRows, AppendedRows
<1>7. tail \in Seq(AppendedRows) /\ Len(tail) = n
  <2>1. n \in Nat BY <1>1, <1>2
  <2>2. tail \in [1..n -> AppendedRows] BY <1>4, <1>6
  <2> HIDE DEF tail
  <2>3. tail \in Seq(AppendedRows) BY <2>1, <2>2, SeqDef
  <2> QED BY <2>1, <2>2, <2>3, LenProperties
<1>8. \A i \in 1..n : tail[i] =
        [session |-> session, id |-> rowQueue[i].id, source |-> rowQueue[i].source,
         config |-> rowQueue[i].config, row |-> rowQueue[i].row,
         stored |-> Visible(rowQueue[i].row)]
  BY <1>4
<1> HIDE DEF tail
<1>9. /\ appended' \in Seq(AppendedRows) /\ Len(appended') = Len(appended) + n
      /\ \A i \in 1..(Len(appended) + n) :
           appended'[i] = IF i <= Len(appended) THEN appended[i] ELSE tail[i - Len(appended)]
  BY <1>1, <1>3, <1>7, ConcatProperties
<1>10. \A i \in 1..Len(appended) : appended'[i] = appended[i]
  <2>1. \A i \in 1..Len(appended) : i \in 1..(Len(appended) + n) /\ i <= Len(appended)
    BY <1>1, <1>2
  <2> QED BY <2>1, <1>9
<1>11. \A i \in 1..n : appended'[Len(appended) + i] = tail[i]
  <2>1. \A i \in 1..n : /\ Len(appended) + i \in 1..(Len(appended) + n)
                        /\ ~(Len(appended) + i <= Len(appended))
                        /\ (Len(appended) + i) - Len(appended) = i
    BY <1>1, <1>2
  <2> QED BY <2>1, <1>9
<1> USE <1>2
<1> WITNESS n \in 0..Len(rowQueue)
<1> QED BY <1>3, <1>4, <1>5, <1>8, <1>9, <1>10, <1>11 DEF TakenAway

-----------------------------------------------------------------------------
(* Which steps change what                                                   *)

LEMMA Steps ==
  ASSUME [Next]_vars
  PROVE  \/ Arrive \/ WorkerTake \/ StageTake
         \/ \E t \in Threads : Enter(t) \/ FoldSample(t) \/ Consumed(t) \/ Allocate(t) \/ Push(t)
         \/ ConfigureQueue \/ StartRecording \/ SourceStarted \/ SourceFailed
         \/ Poll \/ StopRecording \/ FlushLive
         \/ FlushDrained \/ FlushTimeout \/ SealRow \/ FlushDrain \/ CloseStored
         \/ UNCHANGED vars
BY DEF Next, WorkerStep, StageStep, UiStep, PublishStep, FlushStep, Threads

ChangesSource ==
  Arrive \/ WorkerTake \/ StageTake \/ StartRecording \/ SourceFailed \/ StopRecording
ChangesThreads ==
  \/ WorkerTake \/ StageTake \/ SealRow
  \/ \E t \in Threads : Enter(t) \/ FoldSample(t) \/ Consumed(t) \/ Allocate(t) \/ Push(t)
ChangesFold  == (\E t \in Threads : Enter(t) \/ FoldSample(t)) \/ StartRecording \/ SealRow
ChangesQueue == (\E t \in Threads : Push(t)) \/ ConfigureQueue \/ Poll \/ FlushDrain

LEMMA Frames ==
  ASSUME [Next]_vars
  PROVE  /\ ChangesSource \/ UNCHANGED <<nextBlock, accepting, input, stageQueue, origin, serial>>
         /\ ChangesThreads \/ UNCHANGED <<pc, hand, batch, batchConfig, batchSource>>
         /\ ChangesFold \/ UNCHANGED <<cursor, config, openRow, taken>>
         /\ ChangesQueue \/ UNCHANGED <<rowQueue, nextRowId, metrics, reported, lost>>
         /\ Poll \/ FlushDrain \/ UNCHANGED appended
         /\ ConfigureQueue \/ StartRecording \/ UNCHANGED vanished
         /\ SealRow \/ UNCHANGED sealed
<1> DEFINE Goals ==
         /\ ChangesSource \/ UNCHANGED <<nextBlock, accepting, input, stageQueue, origin, serial>>
         /\ ChangesThreads \/ UNCHANGED <<pc, hand, batch, batchConfig, batchSource>>
         /\ ChangesFold \/ UNCHANGED <<cursor, config, openRow, taken>>
         /\ ChangesQueue \/ UNCHANGED <<rowQueue, nextRowId, metrics, reported, lost>>
         /\ Poll \/ FlushDrain \/ UNCHANGED appended
         /\ ConfigureQueue \/ StartRecording \/ UNCHANGED vanished
         /\ SealRow \/ UNCHANGED sealed
<1> USE DEF ChangesSource, ChangesThreads, ChangesFold, ChangesQueue,
            sourceVars, threadVars, foldVars, queueVars, flushVars, uiVars
<1>1. CASE Arrive BY <1>1 DEF Arrive
<1>2. CASE WorkerTake BY <1>2 DEF WorkerTake
<1>3. CASE StageTake BY <1>3 DEF StageTake
<1>4. CASE ConfigureQueue BY <1>4 DEF ConfigureQueue
<1>5. CASE StartRecording BY <1>5 DEF StartRecording
<1>6. CASE SourceStarted BY <1>6 DEF SourceStarted
<1>7. CASE SourceFailed BY <1>7 DEF SourceFailed
<1>8. CASE Poll BY <1>8 DEF Poll, DrainOldest, Drain
<1>9. CASE StopRecording BY <1>9 DEF StopRecording
<1>10. CASE FlushLive BY <1>10 DEF FlushLive
<1>11. CASE FlushDrained BY <1>11 DEF FlushDrained
<1>12. CASE FlushTimeout BY <1>12 DEF FlushTimeout, FlushOver
<1>13. CASE SealRow BY <1>13 DEF SealRow
<1>14. CASE FlushDrain BY <1>14 DEF FlushDrain, DrainOldest, Drain, FlushOver
<1>15. CASE CloseStored BY <1>15 DEF CloseStored
<1>16. ASSUME NEW t \in Threads, Enter(t) PROVE Goals BY <1>16 DEF Enter
<1>17. ASSUME NEW t \in Threads, FoldSample(t) PROVE Goals BY <1>17 DEF FoldSample
<1>18. ASSUME NEW t \in Threads, Consumed(t) PROVE Goals BY <1>18 DEF Consumed
<1>19. ASSUME NEW t \in Threads, Allocate(t) PROVE Goals BY <1>19 DEF Allocate
<1>20. ASSUME NEW t \in Threads, Push(t) PROVE Goals BY <1>20 DEF Push, PushCounting
<1>21. CASE UNCHANGED vars BY <1>21 DEF vars
<1> QED BY Steps, <1>1, <1>2, <1>3, <1>4, <1>5, <1>6, <1>7, <1>8, <1>9, <1>10, <1>11, <1>12,
       <1>13, <1>14, <1>15, <1>16, <1>17, <1>18, <1>19, <1>20, <1>21

-----------------------------------------------------------------------------
(* Types                                                                     *)

\* The block that a thread consumes or folds.
LEMMA HandIsBlock ==
  ASSUME Typed, ThreadsInTurn, NEW t \in Threads, pc[t] \in {"consume", "fold"}
  PROVE  hand[t] \in Blocks
BY DEF Typed, ThreadTypes, ThreadsInTurn

LEMMA FoldTypes ==
  ASSUME Typed, ThreadsInTurn, NEW t \in Threads, FoldSample(t)
  PROVE  /\ hand[t] \in Blocks /\ cursor \in DOMAIN Span[hand[t]] /\ cursor \in Nat
         /\ Span[hand[t]][cursor] \in Nat \ {0}
         /\ <<hand[t], cursor>> \in Blocks \X Nat
<1>1. hand[t] \in Blocks /\ cursor \in DOMAIN Span[hand[t]]
  BY HandIsBlock DEF FoldSample
<1>2. cursor \in Nat BY DEF Typed, ThreadTypes
<1> QED BY <1>1, <1>2, Constants

LEMMA SourceTyped ==
  ASSUME IndInv, [Next]_vars
  PROVE  SourceTypes'
<1> USE DEF IndInv, Typed, SourceTypes
<1>1. CASE Arrive
  <2>1. nextBlock \in Blocks /\ nextBlock' = nextBlock + 1 /\ input' = Append(input, nextBlock)
        /\ origin' = [origin EXCEPT ![nextBlock] = session]
        /\ UNCHANGED <<accepting, stageQueue, serial>>
    BY <1>1 DEF Arrive
  <2>2. nextBlock' \in 1..MaxBlocks + 1 BY <2>1, Constants DEF Blocks
  <2>3. input' \in Seq(Blocks) BY <2>1, PushBack
  <2>4. origin' \in [Blocks -> Int] BY <2>1 DEF ControlTypes
  <2> QED BY <2>1, <2>2, <2>3, <2>4
<1>2. CASE WorkerTake
  <2>1. Head(input) \in Blocks /\ Tail(input) \in Seq(Blocks) BY <1>2, PopFront DEF WorkerTake
  <2>2. input' \in Seq(Blocks) /\ UNCHANGED <<nextBlock, accepting, origin>>
    BY <1>2, <2>1 DEF WorkerTake
  <2>3. CASE Len(stageQueue) < StageCapacity
    <3>1. stageQueue' = Append(stageQueue, Head(input)) /\ serial' = serial
      BY <1>2, <2>3 DEF WorkerTake
    <3>2. stageQueue' \in Seq(Blocks) /\ Len(stageQueue') = Len(stageQueue) + 1
      BY <2>1, <3>1, PushBack
    <3>3. Len(stageQueue') <= StageCapacity BY <2>3, <3>2, Constants, LenProperties
    <3> QED BY <2>2, <3>1, <3>2, <3>3
  <2>4. CASE ~(Len(stageQueue) < StageCapacity)
    <3>1. stageQueue' = stageQueue /\ serial' \subseteq serial \union {Head(input)}
      BY <1>2, <2>4 DEF WorkerTake
    <3> QED BY <2>1, <2>2, <3>1
  <2> QED BY <2>3, <2>4
<1>3. CASE StageTake
  <2>1. Tail(stageQueue) \in Seq(Blocks) /\ Len(Tail(stageQueue)) = Len(stageQueue) - 1
    BY <1>3, PopFront DEF StageTake
  <2>2. stageQueue' = Tail(stageQueue) /\ UNCHANGED <<nextBlock, accepting, input, origin, serial>>
    BY <1>3 DEF StageTake
  <2>3. Len(stageQueue) \in Nat BY LenProperties
  <2>4. Len(stageQueue') <= StageCapacity BY <2>1, <2>2, <2>3, Constants
  <2> QED BY <2>1, <2>2, <2>4
<1>4. CASE StartRecording BY <1>4 DEF StartRecording
<1>5. CASE SourceFailed
  <2>1. input' \in Seq(Blocks) BY <1>5, EmptySeq DEF SourceFailed
  <2> QED BY <1>5, <2>1 DEF SourceFailed
<1>6. CASE StopRecording BY <1>6 DEF StopRecording
<1>7. CASE UNCHANGED <<nextBlock, accepting, input, stageQueue, origin, serial>> BY <1>7
<1> QED BY <1>1, <1>2, <1>3, <1>4, <1>5, <1>6, <1>7, Frames DEF ChangesSource

LEMMA ThreadTyped ==
  ASSUME IndInv, [Next]_vars
  PROVE  ThreadTypes'
<1> USE DEF IndInv, Typed, ThreadTypes
<1> DEFINE Hands == /\ pc' \in [Threads -> {"idle", "consume", "fold", "allocate", "push"}]
                    /\ hand' \in [Threads -> Blocks \union {0}]
                    /\ batch' \in [Threads -> Seq(RowType)]
                    /\ batchConfig' \in [Threads -> Int] /\ batchSource' \in [Threads -> Int]
           Folded == /\ cursor' \in Nat /\ config' \in Nat /\ openRow' \in RowType
                     /\ taken' \subseteq Blocks \X Nat
<1>0. NoRow \in RowType BY DEF NoRow, RowType
<1>1. Hands
  <2>1. CASE WorkerTake
    <3>1. Head(input) \in Blocks BY <2>1, PopFront DEF WorkerTake, SourceTypes
    <3> QED BY <2>1, <3>1 DEF WorkerTake, Threads
  <2>2. CASE StageTake
    <3>1. Head(stageQueue) \in Blocks BY <2>2, PopFront DEF StageTake, SourceTypes
    <3> QED BY <2>2, <3>1 DEF StageTake, Threads
  <2>3. CASE SealRow
    <3>1. <<openRow>> \in Seq(RowType) OBVIOUS
    <3>2. CASE openRow = NoRow BY <2>3, <3>2 DEF SealRow, threadVars
    <3>3. CASE openRow # NoRow
      <4>1. /\ batch' = [batch EXCEPT !["ui"] = <<openRow>>]
            /\ batchConfig' = [batchConfig EXCEPT !["ui"] = config]
            /\ pc' = [pc EXCEPT !["ui"] = "allocate"]
            /\ UNCHANGED <<hand, batchSource>>
        BY <2>3, <3>3 DEF SealRow
      <4> DEFINE single == <<openRow>>
      <4>2. single \in Seq(RowType) /\ batch' = [batch EXCEPT !["ui"] = single] BY <3>1, <4>1
      <4> HIDE DEF single
      <4>4. batch' \in [Threads -> Seq(RowType)] BY <4>2
      <4>5. config \in Int OBVIOUS
      <4>3. batchConfig' \in [Threads -> Int] BY <4>1, <4>5
      <4> QED BY <4>1, <4>3, <4>4
    <3> QED BY <3>2, <3>3
  <2>4. ASSUME NEW t \in Threads, Enter(t) PROVE Hands BY <2>4 DEF Enter
  <2>5. ASSUME NEW t \in Threads, FoldSample(t) PROVE Hands
    <3>1. Append(batch[t], openRow) \in Seq(RowType) BY PushBack
    <3>2. batch' \in [Threads -> Seq(RowType)] BY <2>5, <3>1 DEF FoldSample
    <3> QED BY <2>5, <3>2 DEF FoldSample
  <2>6. ASSUME NEW t \in Threads, Consumed(t) PROVE Hands BY <2>6 DEF Consumed
  <2>7. ASSUME NEW t \in Threads, Allocate(t) PROVE Hands BY <2>7 DEF Allocate
  <2>8. ASSUME NEW t \in Threads, Push(t) PROVE Hands
    <3>1. <<>> \in Seq(RowType) BY EmptySeq
    <3> QED BY <2>8, <3>1 DEF Push, PushCounting
  <2>9. CASE UNCHANGED <<pc, hand, batch, batchConfig, batchSource>> BY <2>9
  <2> QED BY <2>1, <2>2, <2>3, <2>4, <2>5, <2>6, <2>7, <2>8, <2>9, Frames DEF ChangesThreads
<1>2. Folded
  <2>1. ASSUME NEW t \in Threads, Enter(t) PROVE Folded
    BY <2>1 DEF Enter
  <2>2. ASSUME NEW t \in Threads, FoldSample(t) PROVE Folded
    <3> DEFINE sample == <<hand[t], cursor>>
               bucket == Span[hand[t]][cursor]
    <3>1. bucket \in Nat /\ sample \in Blocks \X Nat /\ cursor \in Nat BY <2>2, FoldTypes
    <3>2. /\ taken' = taken \union {sample} /\ cursor' = cursor + 1 /\ config' = config
          /\ openRow' = IF openRow.bucket = bucket
                          THEN [openRow EXCEPT !.samples = @ \union {sample}]
                          ELSE [bucket |-> bucket, samples |-> {sample}, config |-> config]
      BY <2>2 DEF FoldSample
    <3> HIDE DEF sample, bucket
    <3>3. openRow' \in RowType BY <3>1, <3>2 DEF RowType
    <3> QED BY <3>1, <3>2, <3>3
  <2>3. CASE StartRecording BY <2>3, <1>0 DEF StartRecording
  <2>4. CASE SealRow BY <2>4, <1>0 DEF SealRow
  <2>5. CASE UNCHANGED <<cursor, config, openRow, taken>> BY <2>5
  <2> QED BY <2>1, <2>2, <2>3, <2>4, <2>5, Frames DEF ChangesFold
<1>3. nextSource' \in Nat
  <2> USE DEF sourceVars, threadVars, foldVars, queueVars, flushVars, uiVars
  <2>1. ASSUME NEW t \in Threads, Allocate(t) PROVE nextSource' \in Nat
    BY <2>1 DEF Allocate
  <2>2. ASSUME NEW t \in Threads, Enter(t) \/ FoldSample(t) \/ Consumed(t) \/ Push(t)
        PROVE  nextSource' = nextSource
    BY <2>2 DEF Enter, FoldSample, Consumed, Push, PushCounting
  <2>3. CASE StartRecording BY <2>3 DEF StartRecording
  <2>4. CASE Arrive \/ WorkerTake \/ StageTake \/ ConfigureQueue \/ SourceStarted \/ SourceFailed
               \/ Poll \/ StopRecording \/ FlushLive
    BY <2>4 DEF Arrive, WorkerTake, StageTake, ConfigureQueue, SourceStarted, SourceFailed,
                Poll, StopRecording, FlushLive
  <2>5. CASE FlushDrained \/ FlushTimeout \/ SealRow \/ FlushDrain \/ CloseStored
    BY <2>5 DEF FlushDrained, FlushTimeout, SealRow, FlushDrain, CloseStored
  <2>6. CASE UNCHANGED vars BY <2>6 DEF vars
  <2> QED BY <2>1, <2>2, <2>3, <2>4, <2>5, <2>6, Steps
<1> QED BY <1>1, <1>2, <1>3

Counters == [{"pushed", "drained", "dropped"} -> Nat]

LEMMA Counting ==
  ASSUME NEW m \in Counters, NEW x \in Nat, NEW y \in Nat
  PROVE  /\ [m EXCEPT !.pushed = @ + x, !.dropped = @ + y] \in Counters
         /\ [m EXCEPT !.drained = @ + x] \in Counters
<1>1. m.pushed + x \in Nat /\ m.dropped + y \in Nat /\ m.drained + x \in Nat
  BY DEF Counters
<1>2. [m EXCEPT !.drained = @ + x] \in Counters BY <1>1 DEF Counters
<1>3. [m EXCEPT !.pushed = @ + x, !.dropped = @ + y] \in Counters
  <2> DEFINE k == [m EXCEPT !.pushed = @ + x]
  <2>1. k \in Counters BY <1>1 DEF Counters
  <2>2. k.dropped + y \in Nat BY <2>1 DEF Counters
  <2> HIDE DEF k
  <2>3. [k EXCEPT !.dropped = @ + y] \in Counters BY <2>1, <2>2 DEF Counters
  <2> QED BY <2>3 DEF k
<1> QED BY <1>2, <1>3

LEMMA QueueTyped ==
  ASSUME IndInv, [Next]_vars
  PROVE  QueueTypes'
<1> USE DEF IndInv, Typed, QueueTypes
<1> DEFINE Queued == /\ rowQueue' \in Seq(QueuedRows) /\ Len(rowQueue') <= RowCapacity
                     /\ nextRowId' \in Int /\ reported' \in Int
                     /\ metrics' \in [{"pushed", "drained", "dropped"} -> Nat]
                     /\ lost' \subseteq RowType
<1>1. Queued
  <2>1. ASSUME NEW t \in Threads, Push(t) PROVE Queued
    <3>0. PICK all \in Seq(QueuedRows), cut \in Nat : Pushed(t, all, cut) BY <2>1, PushShape
    <3> DEFINE m == Len(batch[t])
               gone == Len(all) - Len(rowQueue')
    <3>1. /\ m \in Nat /\ gone \in Nat /\ nextRowId' \in Int
          /\ rowQueue' \in Seq(QueuedRows) /\ Len(rowQueue') <= RowCapacity
          /\ lost' = lost \union (RowsOf(all) \ RowsOf(rowQueue'))
          /\ metrics' = [metrics EXCEPT !.pushed = @ + m, !.dropped = @ + gone]
          /\ reported' = reported + gone
      BY <3>0 DEF Pushed
    <3> HIDE DEF m, gone
    <3>2. RowsOf(all) \subseteq RowType
      <4>1. \A i \in DOMAIN all : all[i] \in QueuedRows BY LenProperties, ElementOfSeq
      <4> QED BY <4>1 DEF RowsOf, QueuedRows
    <3>3. lost' \subseteq RowType BY <3>1, <3>2
    <3>4. metrics' \in [{"pushed", "drained", "dropped"} -> Nat]
      BY <3>1, Counting DEF Counters
    <3>5. reported' \in Int
      <4>1. reported \in Int OBVIOUS
      <4> QED BY <3>1, <4>1
    <3> QED BY <3>1, <3>3, <3>4, <3>5
  <2>2. CASE ConfigureQueue
    <3>1. rowQueue' = <<>> /\ nextRowId' = 1 /\ UNCHANGED <<reported, lost>>
          /\ metrics' = [pushed |-> 0, drained |-> 0, dropped |-> 0]
      BY <2>2 DEF ConfigureQueue
    <3>2. <<>> \in Seq(QueuedRows) /\ Len(<<>>) = 0 BY EmptySeq
    <3>3. metrics' \in [{"pushed", "drained", "dropped"} -> Nat] BY <3>1
    <3> QED BY <3>1, <3>2, <3>3, Constants
  <2>3. CASE DrainOldest
    <3>1. PICK n \in 0..Len(rowQueue) : TakenAway(n) BY <2>3, DrainShape
    <3> DEFINE before == Len(rowQueue)
               after == Len(rowQueue')
    <3>2. /\ rowQueue' \in Seq(QueuedRows) /\ after = before - n
          /\ metrics' = [metrics EXCEPT !.drained = @ + n]
          /\ UNCHANGED <<nextRowId, reported, lost>>
      BY <3>1 DEF TakenAway
    <3>3. before \in Nat /\ before <= RowCapacity /\ RowCapacity \in Nat /\ n \in 0..before
      BY <3>1, LenProperties, Constants
    <3>4. n \in Nat /\ after <= RowCapacity
      <4> HIDE DEF IndInv, Typed, Queued, before, after
      <4> QED BY <3>2, <3>3
    <3>5. metrics' \in [{"pushed", "drained", "dropped"} -> Nat]
      BY <3>2, <3>4, Counting DEF Counters
    <3> QED BY <3>2, <3>4, <3>5
  <2>4. CASE UNCHANGED <<rowQueue, nextRowId, metrics, reported, lost>> BY <2>4
  <2> QED BY <2>1, <2>2, <2>3, <2>4, Frames DEF ChangesQueue, Poll, FlushDrain
<1>2. appended' \in Seq(AppendedRows)
  <2>1. CASE DrainOldest BY <2>1, DrainShape DEF TakenAway
  <2>2. CASE UNCHANGED appended BY <2>2
  <2> QED BY <2>1, <2>2, Frames DEF Poll, FlushDrain
<1>3. vanished' \subseteq RowType
  <2>1. CASE ConfigureQueue
    <3>1. \A i \in DOMAIN rowQueue : rowQueue[i] \in QueuedRows BY LenProperties, ElementOfSeq
    <3>2. RowsOf(rowQueue) \subseteq RowType BY <3>1 DEF RowsOf, QueuedRows
    <3> QED BY <2>1, <3>2 DEF ConfigureQueue
  <2>2. CASE StartRecording BY <2>2 DEF StartRecording, ThreadTypes
  <2>3. CASE UNCHANGED vanished BY <2>3
  <2> QED BY <2>1, <2>2, <2>3, Frames
<1>4. sealed' \subseteq RowType
  <2>1. CASE SealRow BY <2>1 DEF SealRow, ThreadTypes
  <2>2. CASE UNCHANGED sealed BY <2>2
  <2> QED BY <2>1, <2>2, Frames
<1> QED BY <1>1, <1>2, <1>3, <1>4

LEMMA ControlTyped ==
  ASSUME IndInv, [Next]_vars
  PROVE  ControlTypes'
<1> USE DEF IndInv, Typed, ControlTypes, sourceVars, threadVars, foldVars, queueVars,
            flushVars, uiVars
<1>0. MaxSessions \in Nat /\ accepting \in BOOLEAN BY Constants DEF SourceTypes
<1>1. CASE Arrive BY <1>0, <1>1 DEF Arrive
<1>2. CASE WorkerTake BY <1>0, <1>2 DEF WorkerTake
<1>3. CASE StageTake BY <1>0, <1>3 DEF StageTake
<1>4. CASE ConfigureQueue BY <1>0, <1>4 DEF ConfigureQueue
<1>5. CASE StartRecording BY <1>0, <1>5 DEF StartRecording
<1>6. CASE SourceStarted BY <1>0, <1>6 DEF SourceStarted
<1>7. CASE SourceFailed BY <1>0, <1>7 DEF SourceFailed
<1>8. CASE Poll BY <1>0, <1>8 DEF Poll, DrainOldest, Drain
<1>9. CASE StopRecording BY <1>0, <1>9 DEF StopRecording
<1>10. CASE FlushLive BY <1>0, <1>10 DEF FlushLive
<1>11. CASE FlushDrained BY <1>0, <1>11 DEF FlushDrained
<1>12. CASE FlushTimeout BY <1>0, <1>12 DEF FlushTimeout, FlushOver
<1>13. CASE SealRow BY <1>0, <1>13 DEF SealRow
<1>14. CASE FlushDrain BY <1>0, <1>14 DEF FlushDrain, DrainOldest, Drain, FlushOver
<1>15. CASE CloseStored BY <1>0, <1>15 DEF CloseStored
<1>16. ASSUME NEW t \in Threads, Enter(t) PROVE ControlTypes' BY <1>16 DEF Enter
<1>17. ASSUME NEW t \in Threads, FoldSample(t) PROVE ControlTypes' BY <1>17 DEF FoldSample
<1>18. ASSUME NEW t \in Threads, Consumed(t) PROVE ControlTypes' BY <1>18 DEF Consumed
<1>19. ASSUME NEW t \in Threads, Allocate(t) PROVE ControlTypes' BY <1>19 DEF Allocate
<1>20. ASSUME NEW t \in Threads, Push(t) PROVE ControlTypes' BY <1>20 DEF Push, PushCounting
<1>21. CASE UNCHANGED vars BY <1>21 DEF vars
<1> QED BY Steps, <1>1, <1>2, <1>3, <1>4, <1>5, <1>6, <1>7, <1>8, <1>9, <1>10, <1>11, <1>12,
       <1>13, <1>14, <1>15, <1>16, <1>17, <1>18, <1>19, <1>20, <1>21

LEMMA TypedStep ==
  ASSUME IndInv, [Next]_vars
  PROVE  Typed'
BY SourceTyped, ThreadTyped, QueueTyped, ControlTyped DEF Typed

-----------------------------------------------------------------------------
(* Threads                                                                   *)

LEMMA ThreadsStep ==
  ASSUME IndInv, [Next]_vars
  PROVE  ThreadsInTurn'
<1> USE Constants DEF ThreadsInTurn, sourceVars, threadVars, foldVars, queueVars, flushVars, uiVars
<1>0. Typed /\ ThreadsInTurn /\ ThreadTypes /\ SourceTypes BY DEF IndInv, Typed
<1>a. \A t \in Threads : pc[t] = "idle" => batch[t] = <<>> BY <1>0
<1>b. stageQueue # <<>> => StageCapacity # 0 BY <1>0
<1>1. CASE Arrive BY <1>0, <1>a, <1>b, <1>1 DEF Arrive, ThreadTypes
<1>2. CASE WorkerTake
  <2>1. Head(input) \in Blocks /\ pc["worker"] = "idle" /\ UNCHANGED <<batch, cursor, control>>
    BY <1>0, <1>2, PopFront DEF WorkerTake, SourceTypes
  <2>2. CASE Len(stageQueue) < StageCapacity
    <3>1. stageQueue' = Append(stageQueue, Head(input)) /\ UNCHANGED <<pc, hand>>
      BY <1>2, <2>2 DEF WorkerTake
    <3>2. StageCapacity # 0 BY <1>0, <2>2, LenProperties DEF SourceTypes
    <3> QED BY <1>0, <2>1, <3>1, <3>2
  <2>3. CASE ~(Len(stageQueue) < StageCapacity)
    <3>1. /\ hand' = [hand EXCEPT !["worker"] = Head(input)] /\ UNCHANGED stageQueue
          /\ pc' = [pc EXCEPT !["worker"] = "consume"]
      BY <1>2, <2>3 DEF WorkerTake
    <3> QED BY <1>0, <1>a, <2>1, <3>1 DEF ThreadTypes
  <2> QED BY <2>2, <2>3
<1>3. CASE StageTake
  <2>1. /\ Head(stageQueue) \in Blocks /\ pc["stage"] = "idle" /\ StageCapacity # 0
        /\ UNCHANGED <<batch, cursor, control>>
        /\ hand' = [hand EXCEPT !["stage"] = Head(stageQueue)]
        /\ pc' = [pc EXCEPT !["stage"] = "consume"]
    BY <1>0, <1>3, <1>b, PopFront DEF StageTake, SourceTypes
  <2> QED BY <1>0, <1>a, <2>1 DEF ThreadTypes
<1>4. CASE ConfigureQueue BY <1>0, <1>a, <1>b, <1>4 DEF ConfigureQueue, ThreadTypes
<1>5. CASE StartRecording BY <1>0, <1>a, <1>b, <1>5 DEF StartRecording, ThreadTypes
<1>6. CASE SourceStarted BY <1>0, <1>a, <1>b, <1>6 DEF SourceStarted, ThreadTypes
<1>7. CASE SourceFailed BY <1>0, <1>a, <1>b, <1>7 DEF SourceFailed, ThreadTypes
<1>8. CASE Poll BY <1>0, <1>a, <1>b, <1>8 DEF Poll, DrainOldest, Drain, ThreadTypes
<1>9. CASE StopRecording BY <1>0, <1>a, <1>b, <1>9 DEF StopRecording, ThreadTypes
<1>10. CASE FlushLive BY <1>0, <1>a, <1>b, <1>10 DEF FlushLive, ThreadTypes
<1>11. CASE FlushDrained BY <1>0, <1>a, <1>b, <1>11 DEF FlushDrained, ThreadTypes
<1>12. CASE FlushTimeout BY <1>0, <1>a, <1>b, <1>12 DEF FlushTimeout, FlushOver, ThreadTypes
<1>13. CASE SealRow
  <2>1. control = "seal" /\ pc["ui"] = "idle" /\ UNCHANGED <<hand, cursor, stageQueue>>
        /\ AggregatorFree
    BY <1>0, <1>13 DEF SealRow
  <2>2. CASE openRow = NoRow
    <3>1. control' = "drain" /\ UNCHANGED <<batch, pc>> BY <1>13, <2>2 DEF SealRow
    <3> QED BY <1>0, <2>1, <3>1
  <2>3. CASE openRow # NoRow
    <3> DEFINE single == <<openRow>>
    <3>1. /\ control' = "publish" /\ batch' = [batch EXCEPT !["ui"] = single]
          /\ pc' = [pc EXCEPT !["ui"] = "allocate"]
      BY <1>13, <2>3 DEF SealRow
    <3>2. single # <<>> OBVIOUS
    <3> HIDE DEF single
    <3> QED BY <1>0, <2>1, <3>1, <3>2 DEF ThreadTypes
  <2> QED BY <2>2, <2>3
<1>14. CASE FlushDrain
  BY <1>0, <1>a, <1>b, <1>14 DEF FlushDrain, DrainOldest, Drain, FlushOver, ThreadTypes
<1>15. CASE CloseStored BY <1>0, <1>a, <1>b, <1>15 DEF CloseStored, ThreadTypes
<1>16. ASSUME NEW t \in Threads, Enter(t)
      PROVE ThreadsInTurn' BY <1>0, <1>16 DEF Enter, AggregatorFree, ThreadTypes
<1>17. ASSUME NEW t \in Threads, FoldSample(t) PROVE ThreadsInTurn'
  <2>1. /\ pc[t] = "fold" /\ cursor \in DOMAIN Span[hand[t]] /\ hand[t] \in Blocks
        /\ cursor' = cursor + 1 /\ UNCHANGED <<pc, hand, stageQueue, control>>
        /\ batch' = batch \/ batch' = [batch EXCEPT ![t] = Append(@, openRow)]
    BY <1>0, <1>17, FoldTypes DEF FoldSample
  <2>2. \A u \in Threads : /\ u # t => batch'[u] = batch[u]
                           /\ batch[u] # <<>> => batch'[u] # <<>>
    <3>1. \A u \in Threads : Append(batch[u], openRow) # <<>>
      <4> TAKE u \in Threads
      <4>1. batch[u] \in Seq(RowType) /\ openRow \in RowType BY <1>0 DEF ThreadTypes
      <4> DEFINE longer == Append(batch[u], openRow)
      <4>2. longer \in Seq(RowType) /\ Len(longer) = Len(batch[u]) + 1 /\ Len(batch[u]) \in Nat
        BY <4>1, PushBack, LenProperties
      <4> HIDE DEF longer
      <4>3. longer # <<>> BY <4>2, EmptySeq
      <4> QED BY <4>3 DEF longer
    <3> DEFINE longer == Append(batch[t], openRow)
    <3>2. longer # <<>> /\ (batch' = batch \/ batch' = [batch EXCEPT ![t] = longer])
      BY <2>1, <3>1
    <3> HIDE DEF longer
    <3> QED BY <3>2, <1>0 DEF ThreadTypes
  <2>3. cursor' \in 1..Len(Span[hand[t]]) + 1
    <3>1. /\ DOMAIN Span[hand[t]] = 1..Len(Span[hand[t]]) /\ Len(Span[hand[t]]) \in Nat
      BY <2>1
    <3> QED BY <2>1, <3>1
  <2>4. \A u \in Threads : pc[u] = "fold" => u = t BY <1>0, <2>1
  <2>5. \A u \in Threads : /\ pc'[u] \in {"allocate", "push"} => batch'[u] # <<>>
                           /\ batch'[u] # <<>> => pc'[u] \in {"fold", "allocate", "push"}
    BY <1>0, <2>1, <2>2
  <2>6. \A u \in Threads : /\ (hand'[u] # 0) <=> (pc'[u] \in {"consume", "fold"})
                           /\ pc'[u] = "fold" => cursor' \in 1..Len(Span[hand'[u]]) + 1
    BY <1>0, <2>1, <2>3, <2>4
  <2>7. \A u, v \in Threads : pc'[u] = "fold" /\ pc'[v] = "fold" => u = v BY <1>0, <2>1
  <2> QED BY <1>0, <2>1, <2>5, <2>6, <2>7
<1>18. ASSUME NEW t \in Threads, Consumed(t)
      PROVE ThreadsInTurn'
  <2>1. /\ pc[t] = "fold" /\ hand' = [hand EXCEPT ![t] = 0]
        /\ pc' = [pc EXCEPT ![t] = IF batch[t] = <<>> THEN "idle" ELSE "allocate"]
        /\ UNCHANGED <<batch, cursor, stageQueue, control>>
    BY <1>18 DEF Consumed
  <2>2. t # "ui" BY <1>0, <2>1
  <2>3. /\ pc'[t] = IF batch[t] = <<>> THEN "idle" ELSE "allocate"
        /\ hand'[t] = 0
        /\ \A u \in Threads : u # t => pc'[u] = pc[u] /\ hand'[u] = hand[u]
    BY <1>0, <2>1 DEF ThreadTypes
  <2>4. \A u \in Threads :
          /\ pc'[u] \in {"allocate", "push"} => batch'[u] # <<>>
          /\ batch'[u] # <<>> => pc'[u] \in {"fold", "allocate", "push"}
          /\ (hand'[u] # 0) <=> (pc'[u] \in {"consume", "fold"})
          /\ pc'[u] = "fold" => cursor' \in 1..Len(Span[hand'[u]]) + 1
    BY <1>0, <2>1, <2>3
  <2>5. \A u, v \in Threads : pc'[u] = "fold" /\ pc'[v] = "fold" => u = v BY <1>0, <2>3
  <2>6. StageCapacity = 0 => stageQueue' = <<>> /\ pc'["stage"] = "idle"
    BY <1>0, <2>1, <2>3
  <2> QED BY <1>0, <2>1, <2>2, <2>3, <2>4, <2>5, <2>6
<1>19. ASSUME NEW t \in Threads, Allocate(t)
      PROVE ThreadsInTurn' BY <1>0, <1>19 DEF Allocate, AggregatorFree, ThreadTypes
<1>20. ASSUME NEW t \in Threads, Push(t)
      PROVE ThreadsInTurn'
  <2>1. /\ pc[t] = "push" /\ control' = IF t = "ui" THEN "drain" ELSE control
        /\ pc' = [pc EXCEPT ![t] = "idle"] /\ batch' = [batch EXCEPT ![t] = <<>>]
        /\ UNCHANGED <<hand, cursor, stageQueue>>
    BY <1>20 DEF Push, PushCounting
  <2>2. /\ pc'[t] = "idle" /\ batch'[t] = <<>>
        /\ \A u \in Threads : u # t => pc'[u] = pc[u] /\ batch'[u] = batch[u]
    BY <1>0, <2>1 DEF ThreadTypes
  <2>3. \A u \in Threads :
          /\ pc'[u] \in {"allocate", "push"} => batch'[u] # <<>>
          /\ batch'[u] # <<>> => pc'[u] \in {"fold", "allocate", "push"}
          /\ (hand'[u] # 0) <=> (pc'[u] \in {"consume", "fold"})
          /\ pc'[u] = "fold" => cursor' \in 1..Len(Span[hand'[u]]) + 1
    BY <1>0, <2>1, <2>2
  <2>4. \A u, v \in Threads : pc'[u] = "fold" /\ pc'[v] = "fold" => u = v BY <1>0, <2>2
  <2>5. (pc'["ui"] # "idle") <=> (control' = "publish")
    <3>1. CASE t = "ui" BY <2>1, <2>2, <3>1
    <3>2. CASE t # "ui" BY <1>0, <2>1, <2>2, <3>2
    <3> QED BY <3>1, <3>2
  <2>6. StageCapacity = 0 => stageQueue' = <<>> /\ pc'["stage"] = "idle"
    BY <1>0, <2>1, <2>2
  <2>7. pc'["ui"] \in {"idle", "allocate", "push"} BY <1>0, <2>2
  <2> QED BY <2>3, <2>4, <2>5, <2>6, <2>7
<1>21. CASE UNCHANGED vars BY <1>0, <1>21 DEF vars
<1> QED BY Steps, <1>1, <1>2, <1>3, <1>4, <1>5, <1>6, <1>7, <1>8, <1>9, <1>10, <1>11, <1>12,
       <1>13, <1>14, <1>15, <1>16, <1>17, <1>18, <1>19, <1>20, <1>21

-----------------------------------------------------------------------------
(* Blocks                                                                    *)

LEMMA StationsAre ==
  /\ Station("stage") = {hand["stage"]} \ {0} /\ Station("queue") = ToSet(stageQueue)
  /\ Station("worker") = {hand["worker"]} \ {0} /\ Station("input") = ToSet(input)
  /\ Station("source") = {b \in Blocks : b >= nextBlock}
BY DEF Station

\* Block e moves up from station a to station z.
MovesUp(a, z, e) ==
  /\ a \in Stations /\ z \in Stations /\ Ahead(z, a)
  /\ e \in Station(a) /\ \A c \in Station(a)' : c \in Station(a) /\ e < c
  /\ Station(z)' \subseteq Station(z) \union {e}
  /\ \A x \in Stations \ {a, z} : Station(x)' \subseteq Station(x)
  /\ \A y \in Stations : Ahead(z, y) /\ Ahead(y, a) => Station(y)' = {}

NoneMoves == \A x \in Stations : Station(x)' \subseteq Station(x)

\* A step takes blocks away, or moves one up.
LEMMA BlocksMove ==
  ASSUME IndInv, [Next]_vars
  PROVE  /\ Sorted(input)' /\ Sorted(stageQueue)'
         /\ \/ NoneMoves
            \/ MovesUp("source", "input", nextBlock) /\ Arrive
            \/ (\E e \in Blocks : MovesUp("input", "queue", e)) /\ WorkerTake
            \/ (\E e \in Blocks : MovesUp("input", "worker", e)) /\ WorkerTake
            \/ (\E e \in Blocks : MovesUp("queue", "stage", e)) /\ StageTake
<1> DEFINE Goal ==
            /\ Sorted(input)' /\ Sorted(stageQueue)'
            /\ \/ NoneMoves
               \/ MovesUp("source", "input", nextBlock) /\ Arrive
               \/ (\E e \in Blocks : MovesUp("input", "queue", e)) /\ WorkerTake
               \/ (\E e \in Blocks : MovesUp("input", "worker", e)) /\ WorkerTake
               \/ (\E e \in Blocks : MovesUp("queue", "stage", e)) /\ StageTake
<1>0. /\ Sorted(input) /\ Sorted(stageQueue) /\ Blocks \in SUBSET Int
      /\ input \in Seq(Blocks) /\ stageQueue \in Seq(Blocks)
      /\ nextBlock \in 1..MaxBlocks + 1
      /\ hand \in [Threads -> Blocks \union {0}] /\ ThreadsInTurn
      /\ \A x, y \in Stations : Ahead(x, y) => \A b \in Station(x), c \in Station(y) : b < c
  BY Constants DEF IndInv, Typed, SourceTypes, ThreadTypes, BlocksInOrder
<1> USE DEF Stations
<1>1. CASE Arrive
  <2>1. /\ nextBlock \in Blocks /\ input' = Append(input, nextBlock)
        /\ nextBlock' = nextBlock + 1 /\ UNCHANGED <<stageQueue, hand>>
    BY <1>1 DEF Arrive, threadVars
  <2>2. ToSet(input)' = ToSet(input) \union {nextBlock} BY <1>0, <2>1, PushBack
  <2>3. nextBlock \in Station("source") BY <1>0, <2>1, StationsAre
  <2>4. \A b \in Station("input") : b < nextBlock BY <1>0, <2>3 DEF Ahead
  <2>5. Sorted(input)'
    <3>1. Sorted(Append(input, nextBlock)) BY <1>0, <2>1, <2>4, StationsAre, SortedPush
    <3> QED BY <2>1, <3>1
  <2>6. /\ Station("stage")' = Station("stage") /\ Station("queue")' = Station("queue")
        /\ Station("worker")' = Station("worker")
        /\ Station("input")' = Station("input") \union {nextBlock}
    BY <2>1, <2>2 DEF Station
  <2>7. \A c \in Station("source")' : c \in Station("source") /\ nextBlock < c
    <3>1. Station("source")' = {b \in Blocks : b >= nextBlock + 1} BY <2>1 DEF Station
    <3> SUFFICES ASSUME NEW c \in Station("source")' PROVE c \in Station("source") /\ nextBlock < c
      OBVIOUS
    <3>2. c \in Blocks /\ c >= nextBlock + 1 BY <3>1
    <3>3. c \in Int /\ nextBlock \in Int BY <1>0, <3>2, Constants
    <3> QED BY <3>2, <3>3, StationsAre
  <2>8. MovesUp("source", "input", nextBlock) BY <2>3, <2>6, <2>7 DEF MovesUp, Ahead
  <2> QED BY <1>0, <1>1, <2>1, <2>5, <2>8
<1>2. CASE WorkerTake
  <2> DEFINE e == Head(input)
  <2>1. /\ input # <<>> /\ input' = Tail(input) /\ pc["worker"] = "idle"
        /\ UNCHANGED nextBlock
    BY <1>2 DEF WorkerTake
  <2>2. e \in Blocks /\ ToSet(input) = {e} \union ToSet(input)' BY <1>0, <2>1, PopFront
  <2>3. Sorted(input)' /\ \A c \in ToSet(input)' : e < c
    <3>1. Sorted(Tail(input)) /\ \A c \in ToSet(Tail(input)) : e < c BY <1>0, <2>1, SortedPop
    <3> QED BY <2>1, <3>1
  <2>4. hand["worker"] = 0 BY <1>0, <2>1 DEF ThreadsInTurn, Threads
  <2> HIDE DEF e
  <2>5. /\ e \in Station("input") /\ Station("source")' = Station("source")
        /\ \A c \in Station("input")' : c \in Station("input") /\ e < c
    BY <2>1, <2>2, <2>3 DEF Station
  <2>6. CASE Len(stageQueue) < StageCapacity
    <3>1. stageQueue' = Append(stageQueue, e) /\ UNCHANGED hand BY <1>2, <2>6 DEF WorkerTake, e
    <3>2. ToSet(stageQueue)' = ToSet(stageQueue) \union {e} BY <1>0, <2>2, <3>1, PushBack
    <3>3. \A b \in ToSet(stageQueue) : b < e BY <1>0, <2>5, StationsAre DEF Ahead
    <3>4. Sorted(stageQueue)'
      <4>1. Sorted(Append(stageQueue, e)) BY <1>0, <2>2, <3>3, SortedPush
      <4> QED BY <3>1, <4>1
    <3>5. /\ Station("queue")' = Station("queue") \union {e} /\ Station("worker")' = {}
          /\ Station("stage")' = Station("stage")
      BY <2>4, <3>1, <3>2 DEF Station
    <3>6. MovesUp("input", "queue", e) BY <2>5, <3>5 DEF MovesUp, Ahead
    <3> QED BY <1>2, <2>2, <2>3, <3>4, <3>6
  <2>7. CASE ~(Len(stageQueue) < StageCapacity)
    <3>1. hand' = [hand EXCEPT !["worker"] = e] /\ UNCHANGED stageQueue
      BY <1>2, <2>7 DEF WorkerTake, e
    <3>2. hand'["worker"] = e /\ hand'["stage"] = hand["stage"] BY <1>0, <3>1 DEF Threads
    <3>3. /\ Station("queue")' = Station("queue") /\ Station("worker")' \subseteq {e}
          /\ Station("stage")' = Station("stage")
      BY <3>1, <3>2 DEF Station
    <3>4. MovesUp("input", "worker", e) BY <2>5, <3>3 DEF MovesUp, Ahead
    <3> QED BY <1>0, <1>2, <2>2, <2>3, <3>1, <3>4
  <2> QED BY <2>6, <2>7
<1>3. CASE StageTake
  <2> DEFINE e == Head(stageQueue)
  <2>1. /\ stageQueue # <<>> /\ stageQueue' = Tail(stageQueue) /\ pc["stage"] = "idle"
        /\ hand' = [hand EXCEPT !["stage"] = e] /\ UNCHANGED <<nextBlock, input>>
    BY <1>3 DEF StageTake
  <2>2. e \in Blocks /\ ToSet(stageQueue) = {e} \union ToSet(stageQueue)'
    BY <1>0, <2>1, PopFront
  <2>3. Sorted(stageQueue)' /\ \A c \in ToSet(stageQueue)' : e < c
    <3>1. Sorted(Tail(stageQueue)) /\ \A c \in ToSet(Tail(stageQueue)) : e < c
      BY <1>0, <2>1, SortedPop
    <3> QED BY <2>1, <3>1
  <2> HIDE DEF e
  <2>4. hand'["stage"] = e /\ hand'["worker"] = hand["worker"] BY <1>0, <2>1 DEF Threads
  <2>5. /\ e \in Station("queue") /\ Station("source")' = Station("source")
        /\ Station("input")' = Station("input") /\ Station("worker")' = Station("worker")
        /\ Station("stage")' \subseteq {e}
        /\ \A c \in Station("queue")' : c \in Station("queue") /\ e < c
    BY <2>1, <2>2, <2>3, <2>4 DEF Station
  <2>6. MovesUp("queue", "stage", e) BY <2>5 DEF MovesUp, Ahead
  <2> QED BY <1>0, <1>3, <2>1, <2>2, <2>3, <2>6
<1>4. CASE SourceFailed
  <2>1. input' = <<>> /\ UNCHANGED <<stageQueue, hand, nextBlock>>
    BY <1>4 DEF SourceFailed, threadVars
  <2>2. ToSet(input)' = {} /\ Len(input') = 0 BY <2>1, EmptyQueueFacts
  <2>3. Sorted(input)' BY <2>2 DEF Sorted
  <2>4. NoneMoves BY <2>1, <2>2 DEF NoneMoves, Station
  <2> QED BY <1>0, <2>1, <2>3, <2>4
<1>5. ASSUME NEW t \in Threads, Consumed(t) PROVE Goal
  <2>1. hand' = [hand EXCEPT ![t] = 0] /\ UNCHANGED <<nextBlock, input, stageQueue>>
    BY <1>5 DEF Consumed, sourceVars
  <2>2. \A u \in Threads : hand'[u] \in {hand[u], 0} BY <1>0, <2>1
  <2>3. "stage" \in Threads /\ "worker" \in Threads BY DEF Threads
  <2>4. NoneMoves BY <2>1, <2>2, <2>3 DEF NoneMoves, Station
  <2> QED BY <1>0, <2>1, <2>4
<1>6. CASE UNCHANGED <<nextBlock, input, stageQueue, hand>>
  <2>1. NoneMoves BY <1>6 DEF NoneMoves, Station
  <2> QED BY <1>0, <1>6, <2>1
<1>7. StartRecording \/ StopRecording => UNCHANGED <<nextBlock, input, stageQueue, hand>>
  BY DEF StartRecording, StopRecording, threadVars
<1>8. \A t \in Threads : Enter(t) \/ FoldSample(t) \/ Allocate(t) \/ Push(t) =>
        UNCHANGED <<nextBlock, input, stageQueue, hand>>
  BY DEF Enter, FoldSample, Allocate, Push, PushCounting, sourceVars
<1>9. SealRow => UNCHANGED <<nextBlock, input, stageQueue, hand>>
  BY DEF SealRow, sourceVars
<1> QED BY <1>1, <1>2, <1>3, <1>4, <1>5, <1>6, <1>7, <1>8, <1>9, Frames
        DEF ChangesSource, ChangesThreads

LEMMA OrderStep ==
  ASSUME IndInv, [Next]_vars
  PROVE  BlocksInOrder'
<1>0. \A x, y \in Stations : Ahead(x, y) => \A b \in Station(x), c \in Station(y) : b < c
  BY DEF IndInv, BlocksInOrder
<1> DEFINE Apart ==
      \A x, y \in Stations : Ahead(x, y) => \A b \in Station(x)', c \in Station(y)' : b < c
<1>1. ASSUME NoneMoves PROVE Apart
  <2> SUFFICES ASSUME NEW x \in Stations, NEW y \in Stations, Ahead(x, y),
                      NEW b \in Station(x)', NEW c \in Station(y)'
               PROVE  b < c
    OBVIOUS
  <2>1. b \in Station(x) /\ c \in Station(y) BY <1>1 DEF NoneMoves
  <2> QED BY <1>0, <2>1
<1>2. ASSUME NEW a, NEW z, NEW e, MovesUp(a, z, e) PROVE Apart
  <2> SUFFICES ASSUME NEW x \in Stations, NEW y \in Stations, Ahead(x, y),
                      NEW b \in Station(x)', NEW c \in Station(y)'
               PROVE  b < c
    OBVIOUS
  <2> USE <1>2 DEF MovesUp
  <2>1. x # y /\ a # z BY DEF Ahead
  <2>2. CASE b \in Station(x) /\ c \in Station(y) BY <1>0, <2>2
  <2>3. CASE b \notin Station(x)
    <3>1. x = z /\ b = e BY <2>3
    <3>2. y # z BY <2>1, <3>1
    <3>3. y = a \/ Ahead(a, y) \/ (Ahead(z, y) /\ Ahead(y, a))
      BY <3>1, <2>1 DEF Ahead, Stations
    <3>4. CASE y = a BY <3>1, <3>4
    <3>5. CASE Ahead(a, y) /\ y # a BY <1>0, <3>1, <3>2, <3>5
    <3> QED BY <3>3, <3>4, <3>5
  <2>4. CASE c \notin Station(y)
    <3>1. y = z /\ c = e BY <2>4
    <3>2. Ahead(x, a) /\ x # a BY <3>1 DEF Ahead, Stations
    <3> QED BY <1>0, <2>1, <3>1, <3>2
  <2> QED BY <2>2, <2>3, <2>4
<1> HIDE DEF Apart
<1>3. Apart BY <1>1, <1>2, BlocksMove
<1> USE DEF Apart
<1> QED BY <1>3, BlocksMove DEF BlocksInOrder

\* A block is at one station.
LEMMA StationsApart ==
  ASSUME Typed, BlocksInOrder
  PROVE  /\ \A x \in Stations : Station(x) \subseteq Blocks
         /\ \A x, y \in Stations : x # y => Station(x) \intersect Station(y) = {}
<1>1. \A x \in Stations : Station(x) \subseteq Blocks
  <2>1. ToSet(input) \subseteq Blocks /\ ToSet(stageQueue) \subseteq Blocks
    BY Members DEF Typed, SourceTypes
  <2>2. hand["stage"] \in Blocks \union {0} /\ hand["worker"] \in Blocks \union {0}
    BY DEF Typed, ThreadTypes, Threads
  <2> QED BY <2>1, <2>2 DEF Stations, Station
<1>2. ASSUME NEW x \in Stations, NEW y \in Stations, x # y,
             NEW b \in Station(x) \intersect Station(y)
      PROVE  FALSE
  <2>1. b \in Int BY <1>1, <1>2, Constants
  <2>2. Ahead(x, y) \/ Ahead(y, x) BY <1>2 DEF Ahead, Stations
  <2>3. b < b BY <1>2, <2>2 DEF BlocksInOrder
  <2> QED BY <2>1, <2>3
<1> QED BY <1>1, <1>2

\* No step makes a sample pending, and a folded sample is pending no longer.
LEMMA PendingStep ==
  ASSUME IndInv, [Next]_vars, NEW b, NEW i, Pending(b, i)'
  PROVE  /\ Pending(b, i)
         /\ \A t \in Threads : FoldSample(t) => <<b, i>> # <<hand[t], cursor>>
<1>0. Typed /\ ThreadsInTurn /\ BlocksInOrder /\ ThreadTypes BY DEF IndInv, Typed
<1>1. /\ b \in Blocks /\ i \in DOMAIN Span[b] /\ i \in Int
      /\ \A t \in Threads : pc'[t] = "fold" /\ hand'[t] = b => i >= cursor'
  BY Constants DEF Pending
<1>2. PICK x \in Stations : b \in Station(x)' BY DEF Pending
<1>3. \E y \in Stations : b \in Station(y)
  <2>1. CASE NoneMoves BY <1>2, <2>1 DEF NoneMoves
  <2>2. ASSUME NEW a, NEW z, NEW e, MovesUp(a, z, e) PROVE \E y \in Stations : b \in Station(y)
    BY <1>2, <2>2 DEF MovesUp
  <2> QED BY <2>1, <2>2, BlocksMove
<1>4. cursor \in Int BY <1>0 DEF ThreadTypes
<1> DEFINE Unfolded == \A t \in Threads : pc[t] = "fold" /\ hand[t] = b => i >= cursor
<1>5. Unfolded
  <2>1. CASE WorkerTake
    <3>1. pc["worker"] = "idle" /\ UNCHANGED cursor BY <2>1 DEF WorkerTake, foldVars
    <3>2. \A t \in Threads : t # "worker" => pc'[t] = pc[t] /\ hand'[t] = hand[t]
      BY <1>0, <2>1 DEF WorkerTake, ThreadTypes
    <3> QED BY <1>1, <3>1, <3>2
  <2>2. CASE StageTake
    <3>1. pc["stage"] = "idle" /\ UNCHANGED cursor BY <2>2 DEF StageTake, foldVars
    <3>2. \A t \in Threads : t # "stage" => pc'[t] = pc[t] /\ hand'[t] = hand[t]
      BY <1>0, <2>2 DEF StageTake, ThreadTypes
    <3> QED BY <1>1, <3>1, <3>2
  <2>3. ASSUME NEW t \in Threads, Enter(t) PROVE Unfolded BY <2>3 DEF Enter, AggregatorFree
  <2>4. ASSUME NEW t \in Threads, FoldSample(t) PROVE Unfolded
    <3>1. cursor' = cursor + 1 /\ UNCHANGED <<pc, hand>> BY <2>4 DEF FoldSample
    <3> QED BY <1>1, <1>4, <3>1
  <2>5. ASSUME NEW t \in Threads, Consumed(t) PROVE Unfolded
    <3>1. /\ pc[t] = "fold" /\ hand' = [hand EXCEPT ![t] = 0]
          /\ UNCHANGED <<nextBlock, input, stageQueue>>
      BY <2>5 DEF Consumed, sourceVars
    <3>2. \A u \in Threads : pc[u] = "fold" => u = t BY <1>0, <3>1 DEF ThreadsInTurn
    <3>3. t # "ui" BY <1>0, <3>1 DEF ThreadsInTurn
    <3>4. t \in Stations /\ Station(t)' = {}
      BY <1>0, <3>1, <3>3 DEF Threads, Stations, Station, ThreadTypes
    <3>5. \A y \in Stations : y # t => Station(y)' = Station(y)
      BY <1>0, <3>1, <3>3 DEF Threads, Stations, Station, ThreadTypes
    <3>6. x # t /\ b \in Station(x) BY <1>2, <3>4, <3>5
    <3>7. b \notin Station(t) BY <1>0, <3>4, <3>6, StationsApart
    <3>8. b # 0 BY <1>1, Constants
    <3>9. hand[t] # b BY <3>3, <3>7, <3>8, StationsAre DEF Threads
    <3> QED BY <3>2, <3>9
  <2>6. ASSUME NEW t \in Threads, Allocate(t) \/ Push(t) PROVE Unfolded
    <3>1. UNCHANGED <<hand, cursor>> /\ \A u \in Threads : pc[u] = "fold" => pc'[u] = "fold"
      BY <1>0, <2>6 DEF Allocate, Push, PushCounting, foldVars, ThreadTypes
    <3> QED BY <1>1, <3>1
  <2>7. CASE SealRow
    <3>1. \A u \in Threads : pc[u] # "fold" BY <2>7 DEF SealRow, AggregatorFree
    <3> QED BY <3>1
  <2>8. CASE UNCHANGED <<pc, hand, cursor>> BY <1>1, <2>8
  <2>9. StartRecording => UNCHANGED cursor BY DEF StartRecording
  <2> QED BY <2>1, <2>2, <2>3, <2>4, <2>5, <2>6, <2>7, <2>8, <2>9, Frames
          DEF ChangesThreads, ChangesFold
<1>6. ASSUME NEW t \in Threads, FoldSample(t) PROVE <<b, i>> # <<hand[t], cursor>>
  <2>1. pc[t] = "fold" /\ cursor' = cursor + 1 /\ UNCHANGED <<pc, hand>> BY <1>6 DEF FoldSample
  <2>2. hand[t] = b => i >= cursor + 1 BY <1>1, <2>1
  <2> QED BY <1>1, <1>4, <2>2
<1> QED BY <1>1, <1>3, <1>5, <1>6 DEF Pending

LEMMA FoldedOnceStep ==
  ASSUME IndInv, [Next]_vars
  PROVE  FoldedOnce'
<1>0. Typed /\ ThreadsInTurn /\ FoldedOnce BY DEF IndInv
<1>1. UNCHANGED taken \/ \E t \in Threads : FoldSample(t)
  <2>1. \A t \in Threads : Enter(t) => UNCHANGED taken BY DEF Enter
  <2>2. StartRecording \/ SealRow => UNCHANGED taken BY DEF StartRecording, SealRow
  <2> QED BY <2>1, <2>2, Frames DEF ChangesFold
<1>2. \A s \in taken' : s[2] \in DOMAIN Span[s[1]]
  <2>1. ASSUME NEW t \in Threads, FoldSample(t), NEW s \in taken' PROVE s[2] \in DOMAIN Span[s[1]]
    <3>1. taken' = taken \union {<<hand[t], cursor>>} /\ cursor \in DOMAIN Span[hand[t]]
      BY <2>1 DEF FoldSample
    <3>2. <<hand[t], cursor>>[1] = hand[t] /\ <<hand[t], cursor>>[2] = cursor OBVIOUS
    <3> QED BY <1>0, <2>1, <3>1, <3>2 DEF FoldedOnce
  <2> QED BY <1>0, <1>1, <2>1 DEF FoldedOnce
<1>3. ASSUME NEW b \in Blocks, NEW i \in Nat, Pending(b, i)' PROVE <<b, i>> \notin taken'
  <2>1. <<b, i>> \notin taken BY <1>0, <1>3, PendingStep DEF FoldedOnce
  <2>2. ASSUME NEW t \in Threads, FoldSample(t) PROVE <<b, i>> \notin taken'
    <3>1. taken' = taken \union {<<hand[t], cursor>>} BY <2>2 DEF FoldSample
    <3> QED BY <1>3, <2>1, <2>2, <3>1, PendingStep
  <2> QED BY <1>1, <2>1, <2>2
<1> QED BY <1>2, <1>3 DEF FoldedOnce

\* The sample that is folded is pending.
LEMMA FoldsPending ==
  ASSUME Typed, ThreadsInTurn, NEW t \in Threads, FoldSample(t)
  PROVE  Pending(hand[t], cursor)
<1>1. pc[t] = "fold" /\ hand[t] \in Blocks /\ cursor \in DOMAIN Span[hand[t]] /\ cursor \in Nat
  BY FoldTypes DEF FoldSample
<1>2. t \in {"worker", "stage"} BY <1>1 DEF ThreadsInTurn, Threads
<1>3. t \in Stations /\ hand[t] \in Station(t)
  BY <1>1, <1>2, Constants, StationsAre DEF Stations
<1>4. \A u \in Threads : pc[u] = "fold" => u = t BY <1>1 DEF ThreadsInTurn
<1>5. cursor >= cursor BY <1>1
<1> QED BY <1>1, <1>3, <1>4, <1>5 DEF Pending

-----------------------------------------------------------------------------
(* Rows and the places they are at                                           *)

LEMMA RowsByPlace ==
  ASSUME NEW S, NEW q \in Seq(S)
  PROVE  /\ RowsOf(q) = {q[i].row : i \in 1..Len(q)} /\ Len(q) \in Nat
         /\ Distinct(q) <=> \A i, j \in 1..Len(q) : q[i].row = q[j].row => i = j
         /\ IsFiniteSet(RowsOf(q))
         /\ Distinct(q) => Cardinality(RowsOf(q)) = Len(q)
<1> DEFINE f == [i \in 1..Len(q) |-> q[i].row]
<1>1. DOMAIN q = 1..Len(q) /\ Len(q) \in Nat BY LenProperties
<1>2. RowsOf(q) = {q[i].row : i \in 1..Len(q)} BY <1>1 DEF RowsOf
<1>3. f \in Surjection(1..Len(q), RowsOf(q)) BY <1>2 DEF Surjection
<1>4. IsFiniteSet(1..Len(q)) /\ Cardinality(1..Len(q)) = Len(q)
  <2>1. /\ IsFiniteSet(1..Len(q))
        /\ Cardinality(1..Len(q)) = IF 1 > Len(q) THEN 0 ELSE Len(q) - 1 + 1
    BY <1>1, FS_Interval
  <2> QED BY <1>1, <2>1
<1>5. /\ IsFiniteSet(RowsOf(q))
      /\ Cardinality(RowsOf(q)) = Cardinality(1..Len(q)) <=> f \in Injection(1..Len(q), RowsOf(q))
  BY <1>3, <1>4, FS_Surjection
<1>6. Distinct(q) => f \in Injection(1..Len(q), RowsOf(q))
  BY <1>1, <1>3 DEF Distinct, Injection, IsInjective, Surjection
<1> QED BY <1>1, <1>2, <1>4, <1>5, <1>6 DEF Distinct

\* An end of a queue that names each row once loses as many rows as places.
LEMMA PieceOfRows ==
  ASSUME NEW S, NEW q \in Seq(S), NEW r \in Seq(S), NEW k \in Nat, k + Len(r) <= Len(q),
         \A i \in 1..Len(r) : r[i] = q[k + i]
  PROVE  /\ RowsOf(r) \subseteq RowsOf(q)
         /\ Distinct(q) =>
              /\ Distinct(r) /\ IsFiniteSet(RowsOf(q) \ RowsOf(r))
              /\ Cardinality(RowsOf(q) \ RowsOf(r)) = Len(q) - Len(r)
<1>1. /\ RowsOf(q) = {q[i].row : i \in 1..Len(q)} /\ Len(q) \in Nat
      /\ RowsOf(r) = {r[i].row : i \in 1..Len(r)} /\ Len(r) \in Nat
  BY RowsByPlace
<1>2. \A i \in 1..Len(r) : k + i \in 1..Len(q) BY <1>1
<1>3. RowsOf(r) \subseteq RowsOf(q) BY <1>1, <1>2
<1>4. ASSUME Distinct(q)
      PROVE  /\ Distinct(r) /\ IsFiniteSet(RowsOf(q) \ RowsOf(r))
             /\ Cardinality(RowsOf(q) \ RowsOf(r)) = Len(q) - Len(r)
  <2>1. Distinct(r)
    <3>1. \A i, j \in 1..Len(q) : q[i].row = q[j].row => i = j BY <1>4, RowsByPlace
    <3>2. ASSUME NEW i \in 1..Len(r), NEW j \in 1..Len(r), r[i].row = r[j].row
          PROVE  k + i = k + j
      <4>1. k + i \in 1..Len(q) /\ k + j \in 1..Len(q) BY <1>2
      <4>2. q[k + i].row = q[k + j].row BY <3>2
      <4> QED BY <3>1, <4>1, <4>2
    <3>3. \A i, j \in 1..Len(r) : k + i = k + j => i = j BY <1>1
    <3> QED BY <3>2, <3>3, RowsByPlace
  <2>2. /\ IsFiniteSet(RowsOf(q)) /\ Cardinality(RowsOf(q)) = Len(q)
        /\ IsFiniteSet(RowsOf(r)) /\ Cardinality(RowsOf(r)) = Len(r)
    BY <1>4, <2>1, RowsByPlace
  <2> DEFINE gone == RowsOf(q) \ RowsOf(r)
  <2>3. IsFiniteSet(gone) /\ Cardinality(gone) \in Nat
    BY <2>2, FS_Subset, FS_CardinalityType
  <2>4. gone \union RowsOf(r) = RowsOf(q) /\ gone \intersect RowsOf(r) = {} BY <1>3
  <2>5. Cardinality(gone \union RowsOf(r)) =
          Cardinality(gone) + Cardinality(RowsOf(r)) - Cardinality(gone \intersect RowsOf(r))
    BY <2>2, <2>3, FS_Union
  <2> HIDE DEF gone
  <2>6. Cardinality(gone \intersect RowsOf(r)) = 0 BY <2>4, FS_EmptySet
  <2>7. Len(q) = Cardinality(gone) + Len(r) - 0 BY <2>2, <2>4, <2>5, <2>6
  <2>8. Len(q) \in Nat /\ Len(r) \in Nat BY <1>1
  <2>9. Cardinality(gone) = Len(q) - Len(r) BY <2>3, <2>7, <2>8
  <2> QED BY <2>1, <2>3, <2>9 DEF gone
<1> QED BY <1>3, <1>4

PlaceNames == {"open", "worker", "stage", "ui", "queue", "session", "lost", "vanished"}

LEMMA PlacesAre ==
  /\ DOMAIN Places = PlaceNames /\ DOMAIN Places' = PlaceNames
  /\ Places["open"] = {openRow} \ {NoRow} /\ Places["queue"] = RowsOf(rowQueue)
  /\ Places["session"] = RowsOf(appended)
  /\ Places["lost"] = lost /\ Places["vanished"] = vanished
  /\ \A t \in Threads : t \in PlaceNames /\ Places[t] = ToSet(batch[t])
BY DEF Places, PlaceNames, Threads

LEMMA NextPlaces ==
  /\ DOMAIN Places' = PlaceNames
  /\ Places'["open"] = {openRow'} \ {NoRow} /\ Places'["queue"] = RowsOf(rowQueue')
  /\ Places'["session"] = RowsOf(appended')
  /\ Places'["lost"] = lost' /\ Places'["vanished"] = vanished'
  /\ \A t \in Threads : Places'[t] = ToSet(batch'[t])
BY DEF Places, PlaceNames, Threads, NoRow, RowsOf, ToSet

\* Rows that only change their places among some stay apart.
LEMMA Redistributed ==
  ASSUME EachInOnePlace, RowsApart, UNCHANGED taken, NEW S \in SUBSET PlaceNames,
         \A p \in PlaceNames \ S : Places'[p] = Places[p],
         \A r : (\E p \in S : r \in Places'[p]) <=> (\E p \in S : r \in Places[p]),
         \A p, q \in S : p # q => Places'[p] \intersect Places'[q] = {}
  PROVE  EachInOnePlace' /\ RowsApart'
<1>0. DOMAIN Places = PlaceNames /\ DOMAIN Places' = PlaceNames BY PlacesAre
<1>1. AllRows' = AllRows BY <1>0 DEF AllRows
<1>2. RowsApart' BY <1>1 DEF RowsApart
<1>3. \A p, q \in PlaceNames : p # q => Places'[p] \intersect Places'[q] = {}
  <2>0. \A p, q \in PlaceNames : p # q => Places[p] \intersect Places[q] = {}
    BY <1>0 DEF EachInOnePlace
  <2> SUFFICES ASSUME NEW p \in PlaceNames, NEW q \in PlaceNames, p # q,
                      NEW r \in Places'[p] \intersect Places'[q]
               PROVE  FALSE
    OBVIOUS
  <2>1. CASE p \in S /\ q \notin S
    <3>1. PICK x \in S : r \in Places[x] BY <2>1
    <3>2. x # q /\ r \in Places[q] BY <2>1
    <3> QED BY <2>0, <3>1, <3>2
  <2>2. CASE q \in S /\ p \notin S
    <3>1. PICK x \in S : r \in Places[x] BY <2>2
    <3>2. x # p /\ r \in Places[p] BY <2>2
    <3> QED BY <2>0, <3>1, <3>2
  <2>3. CASE p \notin S /\ q \notin S BY <2>0, <2>3
  <2> QED BY <2>1, <2>2, <2>3
<1> QED BY <1>0, <1>2, <1>3 DEF EachInOnePlace

\* pushRows takes the rows of the batch, and loses some of them or of the queue.
LEMMA PushRows ==
  ASSUME Typed, EachInOnePlace, ListedOnce, NEW t \in Threads, Push(t)
  PROVE  LET came == RowsOf(rowQueue) \union ToSet(batch[t])
             gone == came \ RowsOf(rowQueue') IN
         /\ RowsOf(rowQueue') \subseteq came /\ lost' = lost \union gone
         /\ Distinct(rowQueue')
         /\ IsFiniteSet(gone) /\ reported' = reported + Cardinality(gone)
<1> DEFINE n == Len(rowQueue)
           m == Len(batch[t])
<1>0. rowQueue \in Seq(QueuedRows) /\ batch[t] \in Seq(RowType) BY DEF Typed, ThreadTypes, QueueTypes
<1>1. PICK all \in Seq(QueuedRows), cut \in Nat : Pushed(t, all, cut) BY PushShape
<1> DEFINE gone == Len(all) - Len(rowQueue')
<1>a. /\ Len(all) = n + m /\ n \in Nat /\ m \in Nat
      /\ rowQueue' \in Seq(QueuedRows) /\ Len(rowQueue') \in Nat
      /\ gone \in Nat /\ cut \in {0, gone}
      /\ \A i \in 1..Len(rowQueue') : rowQueue'[i] = all[cut + i]
      /\ lost' = lost \union (RowsOf(all) \ RowsOf(rowQueue'))
      /\ reported' = reported + gone
  BY <1>1 DEF Pushed
<1>b. /\ \A i \in 1..n : all[i] = rowQueue[i]
      /\ \A i \in 1..m : all[n + i] = [id |-> nextRowId + i - 1, source |-> batchSource[t],
                                       config |-> batchConfig[t], row |-> batch[t][i]]
  BY <1>1 DEF Pushed
<1>2. \A i \in 1..n : all[i].row = rowQueue[i].row BY <1>b
<1>3. \A i \in 1..m : all[n + i].row = batch[t][i]
  <2> TAKE i \in 1..m
  <2> DEFINE x == all[n + i]
  <2>1. x = [id |-> nextRowId + i - 1, source |-> batchSource[t],
             config |-> batchConfig[t], row |-> batch[t][i]]
    BY <1>b
  <2> HIDE DEF x
  <2>2. x.row = batch[t][i] BY <2>1
  <2> QED BY <2>2 DEF x
<1>4. \A i \in 1..(n + m) : i \in 1..n \/ (i - n \in 1..m /\ i = n + (i - n)) BY <1>a
<1>5. \A i \in 1..m : n + i \in 1..(n + m) BY <1>a
<1>6. \A i \in 1..n : i \in 1..(n + m) BY <1>a
<1>7. /\ RowsOf(all) = {all[i].row : i \in 1..(n + m)}
      /\ RowsOf(rowQueue) = {rowQueue[i].row : i \in 1..n}
  BY <1>0, <1>a, RowsByPlace
<1>8. ToSet(batch[t]) = {batch[t][i] : i \in 1..m} BY <1>0, Members
<1>9. RowsOf(all) = RowsOf(rowQueue) \union ToSet(batch[t])
  <2>1. RowsOf(all) \subseteq RowsOf(rowQueue) \union ToSet(batch[t])
    <3> SUFFICES ASSUME NEW i \in 1..(n + m)
                 PROVE  all[i].row \in RowsOf(rowQueue) \union ToSet(batch[t])
      BY <1>7
    <3>1. CASE i \in 1..n BY <1>2, <1>7, <3>1
    <3>2. CASE i - n \in 1..m /\ i = n + (i - n) BY <1>3, <1>8, <3>2
    <3> QED BY <1>4, <3>1, <3>2
  <2>2. RowsOf(rowQueue) \subseteq RowsOf(all) BY <1>2, <1>6, <1>7
  <2>3. ToSet(batch[t]) \subseteq RowsOf(all) BY <1>3, <1>5, <1>7, <1>8
  <2> QED BY <2>1, <2>2, <2>3
<1>10. Distinct(all)
  <2>1. \A i, j \in 1..n : rowQueue[i].row = rowQueue[j].row => i = j
    BY <1>0, RowsByPlace DEF ListedOnce
  <2>2. \A i, j \in 1..m : batch[t][i] = batch[t][j] => i = j
    BY <1>0, LenProperties DEF ListedOnce, IsInjective
  <2>3. \A i \in 1..n, j \in 1..m : rowQueue[i].row # batch[t][j]
    <3>1. RowsOf(rowQueue) \intersect ToSet(batch[t]) = {}
      <4>1. t # "queue" BY DEF Threads
      <4>2. "queue" \in PlaceNames /\ t \in PlaceNames BY PlacesAre DEF PlaceNames
      <4> QED BY <4>1, <4>2, PlacesAre DEF EachInOnePlace
    <3> QED BY <3>1, <1>7, <1>8
  <2> SUFFICES ASSUME NEW i \in 1..(n + m), NEW j \in 1..(n + m), all[i].row = all[j].row
               PROVE  i = j
    BY <1>a, RowsByPlace
  <2>4. CASE i \in 1..n /\ j \in 1..n BY <2>1, <2>4, <1>2
  <2>5. CASE i \notin 1..n /\ j \notin 1..n
    <3>1. /\ i - n \in 1..m /\ i = n + (i - n) /\ j - n \in 1..m /\ j = n + (j - n)
      BY <2>5, <1>4
    <3>2. batch[t][i - n] = batch[t][j - n] BY <3>1, <1>3
    <3>3. i - n = j - n BY <2>2, <3>1, <3>2
    <3> QED BY <3>1, <3>3
  <2>6. CASE i \in 1..n /\ j \notin 1..n
    <3>1. PICK k \in 1..m : j = n + k BY <2>6, <1>4
    <3>2. rowQueue[i].row = batch[t][k] BY <2>6, <3>1, <1>2, <1>3
    <3> QED BY <2>3, <2>6, <3>1, <3>2
  <2>7. CASE j \in 1..n /\ i \notin 1..n
    <3>1. PICK k \in 1..m : i = n + k BY <2>7, <1>4
    <3>2. rowQueue[j].row = batch[t][k] BY <2>7, <3>1, <1>2, <1>3
    <3> QED BY <2>3, <2>7, <3>1, <3>2
  <2> QED BY <2>4, <2>5, <2>6, <2>7
<1>11. cut + Len(rowQueue') <= Len(all) BY <1>a
<1>12. /\ RowsOf(rowQueue') \subseteq RowsOf(all)
       /\ Distinct(rowQueue') /\ IsFiniteSet(RowsOf(all) \ RowsOf(rowQueue'))
       /\ Cardinality(RowsOf(all) \ RowsOf(rowQueue')) = Len(all) - Len(rowQueue')
  BY <1>a, <1>10, <1>11, PieceOfRows
<1> QED BY <1>a, <1>9, <1>12

\* drain takes rows from the queue, and the session is given them.
LEMMA DrainRows ==
  ASSUME Typed, EachInOnePlace, ListedOnce, DrainOldest
  PROVE  \E M :
           /\ RowsOf(appended') = RowsOf(appended) \union M
           /\ RowsOf(rowQueue) = M \union RowsOf(rowQueue')
           /\ M \intersect RowsOf(rowQueue') = {}
           /\ Distinct(rowQueue') /\ Distinct(appended')
<1>0. rowQueue \in Seq(QueuedRows) /\ appended \in Seq(AppendedRows) BY DEF Typed, QueueTypes
<1>1. PICK n \in 0..Len(rowQueue) : TakenAway(n) BY DrainShape
<1> USE DEF TakenAway
<1> DEFINE q == Len(rowQueue)
           a == Len(appended)
           M == {rowQueue[i].row : i \in 1..n}
<1>2. /\ q \in Nat /\ a \in Nat /\ n \in Nat /\ n <= q
      /\ RowsOf(rowQueue) = {rowQueue[i].row : i \in 1..q}
      /\ RowsOf(appended) = {appended[i].row : i \in 1..a}
      /\ RowsOf(rowQueue') = {rowQueue'[i].row : i \in 1..(q - n)}
      /\ RowsOf(appended') = {appended'[i].row : i \in 1..(a + n)}
  <2>1. Len(rowQueue) \in Nat /\ Len(appended) \in Nat BY <1>0, LenProperties
  <2> QED BY <2>1, <1>0, <1>1, RowsByPlace
<1>3. \A i \in 1..n : appended'[a + i].row = rowQueue[i].row
  <2> TAKE i \in 1..n
  <2> DEFINE x == appended'[a + i]
             seen == Visible(rowQueue[i].row)
  <2>1. x = [session |-> session, id |-> rowQueue[i].id, source |-> rowQueue[i].source,
             config |-> rowQueue[i].config, row |-> rowQueue[i].row, stored |-> seen]
    BY <1>1
  <2> HIDE DEF x, seen
  <2>2. x.row = rowQueue[i].row BY <2>1
  <2> QED BY <2>2 DEF x
<1>4. \A i \in 1..(a + n) : i \in 1..a \/ (i - a \in 1..n /\ i = a + (i - a)) BY <1>2
<1>5. \A i \in 1..n : a + i \in 1..(a + n) /\ i \in 1..q BY <1>2
<1>6. \A i \in 1..a : i \in 1..(a + n) /\ appended'[i].row = appended[i].row BY <1>1, <1>2
<1>7. \A i \in 1..q : i \in 1..n \/ (i - n \in 1..(q - n) /\ i = n + (i - n)) BY <1>2
<1>8. \A i \in 1..(q - n) : n + i \in 1..q /\ rowQueue'[i].row = rowQueue[n + i].row
  <2>1. \A i \in 1..(q - n) : n + i \in 1..q BY <1>2
  <2>2. \A i \in 1..(q - n) : rowQueue'[i] = rowQueue[n + i] BY <1>1
  <2> QED BY <2>1, <2>2
<1>9. RowsOf(appended') = RowsOf(appended) \union M
  <2>1. RowsOf(appended') \subseteq RowsOf(appended) \union M
    <3> SUFFICES ASSUME NEW i \in 1..(a + n) PROVE appended'[i].row \in RowsOf(appended) \union M
      BY <1>2
    <3>1. CASE i \in 1..a BY <1>2, <1>6, <3>1
    <3>2. CASE i - a \in 1..n /\ i = a + (i - a) BY <1>3, <3>2
    <3> QED BY <1>4, <3>1, <3>2
  <2>2. RowsOf(appended) \subseteq RowsOf(appended') BY <1>2, <1>6
  <2>3. M \subseteq RowsOf(appended') BY <1>2, <1>3, <1>5
  <2> QED BY <2>1, <2>2, <2>3
<1>10. RowsOf(rowQueue) = M \union RowsOf(rowQueue')
  <2>1. RowsOf(rowQueue) \subseteq M \union RowsOf(rowQueue')
    <3> SUFFICES ASSUME NEW i \in 1..q PROVE rowQueue[i].row \in M \union RowsOf(rowQueue')
      BY <1>2
    <3>1. CASE i \in 1..n BY <3>1
    <3>2. CASE i - n \in 1..(q - n) /\ i = n + (i - n) BY <1>2, <1>8, <3>2
    <3> QED BY <1>7, <3>1, <3>2
  <2>2. M \subseteq RowsOf(rowQueue) BY <1>2, <1>5
  <2>3. RowsOf(rowQueue') \subseteq RowsOf(rowQueue) BY <1>2, <1>8
  <2> QED BY <2>1, <2>2, <2>3
<1>11. \A i, j \in 1..q : rowQueue[i].row = rowQueue[j].row => i = j
  BY <1>0, RowsByPlace DEF ListedOnce
<1>12. M \intersect RowsOf(rowQueue') = {}
  <2> SUFFICES ASSUME NEW i \in 1..n, NEW j \in 1..(q - n), rowQueue[i].row = rowQueue'[j].row
               PROVE  FALSE
    BY <1>2
  <2>1. i = n + j BY <1>5, <1>8, <1>11
  <2> QED BY <2>1, <1>2
<1>13. Distinct(rowQueue') 
  <2>1. n + Len(rowQueue') <= Len(rowQueue) BY <1>1, <1>2
  <2> QED BY <2>1, <1>0, <1>1, <1>2, PieceOfRows DEF ListedOnce
<1>14. Distinct(appended')
  <2>1. \A i, j \in 1..a : appended[i].row = appended[j].row => i = j
    BY <1>0, RowsByPlace DEF ListedOnce
  <2>2. RowsOf(appended) \intersect RowsOf(rowQueue) = {}
    <3>1. "queue" \in PlaceNames /\ "session" \in PlaceNames /\ "queue" # "session" BY DEF PlaceNames
    <3> QED BY <3>1, PlacesAre DEF EachInOnePlace
  <2>3. \A i \in 1..a, j \in 1..n : appended[i].row # rowQueue[j].row BY <2>2, <1>2, <1>5
  <2> SUFFICES ASSUME NEW i \in 1..(a + n), NEW j \in 1..(a + n), appended'[i].row = appended'[j].row
               PROVE  i = j
    BY <1>1, RowsByPlace
  <2>4. CASE i \in 1..a /\ j \in 1..a BY <2>1, <2>4, <1>6
  <2>5. CASE i \notin 1..a /\ j \notin 1..a
    <3>1. /\ i - a \in 1..n /\ i = a + (i - a) /\ j - a \in 1..n /\ j = a + (j - a)
      BY <2>5, <1>4
    <3>2. rowQueue[i - a].row = rowQueue[j - a].row BY <3>1, <1>3
    <3>3. i - a = j - a BY <1>5, <1>11, <3>1, <3>2
    <3> QED BY <3>1, <3>3
  <2>6. CASE i \in 1..a /\ j \notin 1..a
    <3>1. j - a \in 1..n /\ j = a + (j - a) BY <2>6, <1>4
    <3> QED BY <2>3, <2>6, <3>1, <1>3, <1>6
  <2>7. CASE j \in 1..a /\ i \notin 1..a
    <3>1. i - a \in 1..n /\ i = a + (i - a) BY <2>7, <1>4
    <3> QED BY <2>3, <2>7, <3>1, <1>3, <1>6
  <2> QED BY <2>4, <2>5, <2>6, <2>7
<1> HIDE DEF M
<1> QED BY <1>9, <1>10, <1>12, <1>13, <1>14

\* A sample that is folded goes to the open row, or opens one and closes the other.
LEMMA FoldPlaces ==
  ASSUME IndInv, NEW t \in Threads, FoldSample(t)
  PROVE  EachInOnePlace' /\ RowsApart' /\ ListedOnce'
<1> DEFINE s == <<hand[t], cursor>>
           bucket == Span[hand[t]][cursor]
           new == openRow'
<1>0. /\ Typed /\ ThreadsInTurn /\ EachInOnePlace /\ RowsApart /\ ListedOnce /\ FoldedOnce
      /\ batch \in [Threads -> Seq(RowType)] /\ openRow \in RowType
  BY DEF IndInv, Typed, ThreadTypes
<1>1. bucket \in Nat \ {0} BY <1>0, FoldTypes
<1>2. s \notin taken
  <2>1. Pending(hand[t], cursor) /\ hand[t] \in Blocks /\ cursor \in Nat
    BY <1>0, FoldsPending, FoldTypes
  <2> QED BY <1>0, <2>1 DEF FoldedOnce
<1>3. /\ IF openRow.bucket = bucket
           THEN new = [openRow EXCEPT !.samples = @ \union {s}] /\ UNCHANGED batch
           ELSE /\ new = [bucket |-> bucket, samples |-> {s}, config |-> config]
                /\ batch' = IF openRow = NoRow THEN batch
                                               ELSE [batch EXCEPT ![t] = Append(@, openRow)]
      /\ taken' = taken \union {s} /\ UNCHANGED <<rowQueue, lost, appended, vanished>>
  BY DEF FoldSample, queueVars
<1> HIDE DEF s, bucket, new
<1>4. DOMAIN Places = PlaceNames /\ DOMAIN Places' = PlaceNames
  BY PlacesAre
<1>5. /\ Places["open"] = {openRow} \ {NoRow} /\ Places'["open"] = {new} \ {NoRow}
      /\ \A p \in PlaceNames \ {"open", t} : Places'[p] = Places[p]
      /\ Places[t] = ToSet(batch[t]) /\ Places'[t] = ToSet(batch'[t])
      /\ t \in PlaceNames /\ "open" \in PlaceNames /\ t # "open"
  <2>1. \A u \in Threads \ {t} : batch'[u] = batch[u] BY <1>0, <1>3
  <2>2. \A p \in PlaceNames : p \in {"open", "queue", "session", "lost", "vanished"} \union Threads
    BY DEF PlaceNames, Threads
  <2>3. Places'["open"] = {new} \ {NoRow} BY NextPlaces DEF new
  <2>4. \A p \in {"queue", "session", "lost", "vanished"} : Places'[p] = Places[p]
    BY <1>3, PlacesAre, NextPlaces
  <2>5. \A u \in Threads \ {t} : Places'[u] = Places[u] BY <2>1, PlacesAre, NextPlaces
  <2>6. t # "open" /\ "open" \in PlaceNames BY DEF Threads, PlaceNames
  <2> QED BY <2>2, <2>3, <2>4, <2>5, <2>6, PlacesAre, NextPlaces
<1>6. AllRows = UNION {Places[p] : p \in PlaceNames} /\ AllRows' = UNION {Places'[p] : p \in PlaceNames}
  BY <1>4 DEF AllRows
<1>7. /\ \A r \in AllRows : r.samples # {} /\ r.samples \subseteq taken /\ r.bucket # 0
      /\ \A x \in taken : \E r \in AllRows : x \in r.samples
      /\ \A r1, r2 \in AllRows : r1 # r2 => r1.samples \intersect r2.samples = {}
  BY <1>0 DEF RowsApart
<1>8. \A p, q \in PlaceNames : p # q => Places[p] \intersect Places[q] = {}
  BY <1>0, <1>4 DEF EachInOnePlace
<1>9. NoRow.bucket = 0 /\ NoRow.samples = {} BY DEF NoRow
<1>10. CASE openRow.bucket = bucket
  <2>1. /\ new.samples = openRow.samples \union {s} /\ new.bucket = bucket /\ UNCHANGED batch
    BY <1>0, <1>3, <1>10 DEF RowType
  <2>2. openRow # NoRow /\ new # NoRow BY <1>1, <1>9, <1>10, <2>1
  <2>3. /\ Places["open"] = {openRow} /\ Places'["open"] = {new}
        /\ \A p \in PlaceNames \ {"open"} : Places'[p] = Places[p]
    BY <1>5, <2>1, <2>2
  <2>4. openRow \in AllRows BY <1>5, <1>6, <2>3
  <2>5. \A p \in PlaceNames \ {"open"} : \A r \in Places[p] :
          r \in AllRows /\ r # openRow /\ s \notin r.samples
    BY <1>2, <1>5, <1>6, <1>7, <1>8, <2>3
  <2>6. \A r \in AllRows' : r = new \/ \E p \in PlaceNames \ {"open"} : r \in Places[p]
    BY <1>6, <2>3
  <2>7. \A p \in PlaceNames \ {"open"} : \A r \in Places[p] : r \in AllRows'
    BY <1>6, <2>3
  <2>8. new \in AllRows' BY <1>5, <1>6, <2>3
  <2>9. EachInOnePlace'
    <3>1. \A p \in PlaceNames \ {"open"} : new \notin Places[p] BY <2>1, <2>5
    <3> QED BY <1>4, <1>8, <2>3, <3>1 DEF EachInOnePlace
  <2>10. \A r \in AllRows' : r.samples # {} /\ r.samples \subseteq taken' /\ r.bucket # 0
    BY <1>1, <1>3, <1>7, <2>1, <2>4, <2>5, <2>6
  <2>11. \A x \in taken' : \E r \in AllRows' : x \in r.samples
    <3> SUFFICES ASSUME NEW x \in taken' PROVE \E r \in AllRows' : x \in r.samples OBVIOUS
    <3>1. CASE x = s BY <2>1, <2>8, <3>1
    <3>2. CASE x \in taken
      <4>1. PICK r \in AllRows : x \in r.samples BY <1>7, <3>2
      <4>2. CASE r = openRow BY <2>1, <2>8, <4>1, <4>2
      <4>3. CASE r # openRow
        <5>1. PICK p \in PlaceNames : r \in Places[p] BY <1>6
        <5>2. p # "open" BY <2>3, <4>3, <5>1
        <5> QED BY <2>7, <4>1, <5>1, <5>2
      <4> QED BY <4>2, <4>3
    <3> QED BY <1>3, <3>1, <3>2
  <2>12. \A r1, r2 \in AllRows' : r1 # r2 => r1.samples \intersect r2.samples = {}
    <3>1. \A p \in PlaceNames \ {"open"} : \A r \in Places[p] : r.samples \intersect new.samples = {}
      BY <1>7, <2>1, <2>4, <2>5
    <3>2. \A p, q \in PlaceNames \ {"open"} : \A r1 \in Places[p], r2 \in Places[q] :
            r1 # r2 => r1.samples \intersect r2.samples = {}
      BY <1>7, <2>5
    <3> QED BY <2>6, <3>1, <3>2
  <2>13. RowsApart' BY <2>10, <2>11, <2>12 DEF RowsApart
  <2>14. ListedOnce' BY <1>0, <1>3, <2>1 DEF ListedOnce, Distinct
  <2> QED BY <2>9, <2>13, <2>14
<1>11. CASE openRow.bucket # bucket
  <2>1. new = [bucket |-> bucket, samples |-> {s}, config |-> config] BY <1>3, <1>11
  <2>2. new.samples = {s} /\ new.bucket = bucket BY <2>1
  <2>3. new # NoRow BY <1>1, <1>9, <2>2
  <2>4. Places'[t] = Places[t] \union Places["open"] /\ IsInjective(batch'[t])
    <3>1. IsInjective(batch[t]) BY <1>0 DEF ListedOnce
    <3>2. CASE openRow = NoRow BY <1>3, <1>5, <1>11, <3>1, <3>2
    <3>3. CASE openRow # NoRow
      <4> DEFINE longer == Append(batch[t], openRow)
      <4>1. openRow \notin ToSet(batch[t]) BY <1>5, <1>8, <3>3
      <4>2. ToSet(longer) = ToSet(batch[t]) \union {openRow} /\ IsInjective(longer)
        BY <1>0, <3>1, <4>1, PushBack
      <4>3. batch' = [batch EXCEPT ![t] = longer] BY <1>3, <1>11, <3>3
      <4> HIDE DEF longer
      <4>4. batch'[t] = longer BY <1>0, <4>3
      <4> QED BY <1>5, <3>3, <4>2, <4>4
    <3> QED BY <3>2, <3>3
  <2>5. Places'["open"] = {new} BY <1>5, <2>3
  <2>6. AllRows' = AllRows \union {new}
    <3>1. AllRows' \subseteq AllRows \union {new} BY <1>5, <1>6, <2>4, <2>5
    <3>2. new \in AllRows' BY <1>5, <1>6, <2>5
    <3>3. \A p \in PlaceNames : p # "open" => Places[p] \subseteq Places'[p]
      BY <1>5, <2>4
    <3>4. Places["open"] \subseteq Places'[t] BY <2>4
    <3>5. AllRows \subseteq AllRows' BY <1>5, <1>6, <3>3, <3>4
    <3> QED BY <3>1, <3>2, <3>5
  <2>7. \A r \in AllRows : s \notin r.samples BY <1>2, <1>7
  <2>8. EachInOnePlace'
    <3>1. \A p \in PlaceNames : new \notin Places[p] BY <1>6, <2>2, <2>7
    <3>2. \A p, q \in PlaceNames : p # q => Places'[p] \intersect Places'[q] = {}
      BY <1>5, <1>8, <2>4, <2>5, <3>1
    <3> QED BY <1>4, <3>2 DEF EachInOnePlace
  <2>9. RowsApart'
    <3>1. \A r \in AllRows' : r.samples # {} /\ r.samples \subseteq taken' /\ r.bucket # 0
      BY <1>1, <1>3, <1>7, <2>2, <2>6
    <3>2. \A x \in taken' : \E r \in AllRows' : x \in r.samples BY <1>3, <1>7, <2>2, <2>6
    <3>3. \A r1, r2 \in AllRows' : r1 # r2 => r1.samples \intersect r2.samples = {}
      BY <1>7, <2>2, <2>6, <2>7
    <3> QED BY <3>1, <3>2, <3>3 DEF RowsApart
  <2>10. \A u \in Threads \ {t} : batch'[u] = batch[u] BY <1>0, <1>3
  <2>11. ListedOnce' BY <1>0, <1>3, <2>4, <2>10 DEF ListedOnce, Distinct
  <2> QED BY <2>8, <2>9, <2>11
<1> QED BY <1>10, <1>11

LEMMA PushPlaces ==
  ASSUME IndInv, NEW t \in Threads, Push(t)
  PROVE  EachInOnePlace' /\ RowsApart' /\ ListedOnce'
<1>0. /\ Typed /\ EachInOnePlace /\ RowsApart /\ ListedOnce
      /\ batch \in [Threads -> Seq(RowType)]
  BY DEF IndInv, Typed, ThreadTypes
<1>1. LET came == RowsOf(rowQueue) \union ToSet(batch[t])
          gone == came \ RowsOf(rowQueue') IN
      /\ RowsOf(rowQueue') \subseteq came /\ lost' = lost \union gone
      /\ Distinct(rowQueue')
  BY <1>0, PushRows
<1>2. /\ batch' = [batch EXCEPT ![t] = <<>>]
      /\ UNCHANGED <<openRow, appended, vanished, taken>>
  BY DEF Push, PushCounting, foldVars
<1>3. ToSet(<<>>) = {} /\ IsInjective(<<>>) BY EmptyQueueFacts
<1> DEFINE none == <<>>
<1>4. ToSet(none) = {} /\ IsInjective(none) /\ batch' = [batch EXCEPT ![t] = none] BY <1>2, <1>3
<1> HIDE DEF none
<1>5. ToSet(batch'[t]) = {} /\ IsInjective(batch'[t]) /\ \A u \in Threads \ {t} : batch'[u] = batch[u]
  BY <1>0, <1>4
<1> DEFINE S == {t, "queue", "lost"}
<1>6. S \in SUBSET PlaceNames /\ t # "queue" /\ t # "lost" BY DEF PlaceNames, Threads
<1>7. /\ Places'[t] = {} /\ Places'["queue"] = RowsOf(rowQueue')
      /\ Places'["lost"] = lost \union ((RowsOf(rowQueue) \union ToSet(batch[t])) \ RowsOf(rowQueue'))
      /\ Places[t] = ToSet(batch[t]) /\ Places["queue"] = RowsOf(rowQueue) /\ Places["lost"] = lost
  BY <1>1, <1>5, NextPlaces, PlacesAre
<1>8. \A p \in PlaceNames \ S : Places'[p] = Places[p]
  <2>1. \A p \in PlaceNames \ S : p \in {"open", "session", "vanished"} \union (Threads \ {t})
    BY DEF PlaceNames, Threads
  <2>2. \A p \in {"open", "session", "vanished"} : Places'[p] = Places[p]
    BY <1>2, PlacesAre, NextPlaces
  <2>3. \A u \in Threads \ {t} : Places'[u] = Places[u] BY <1>5, PlacesAre, NextPlaces
  <2> QED BY <2>1, <2>2, <2>3
<1>9. \A r : (\E p \in S : r \in Places'[p]) <=> (\E p \in S : r \in Places[p])
  BY <1>1, <1>7
<1>10. \A p, q \in S : p # q => Places'[p] \intersect Places'[q] = {}
  <2>1. lost \intersect (RowsOf(rowQueue) \union ToSet(batch[t])) = {}
    <3>1. \A p, q \in PlaceNames : p # q => Places[p] \intersect Places[q] = {}
      BY <1>0, PlacesAre DEF EachInOnePlace
    <3>2. Places["lost"] \intersect Places["queue"] = {} BY <1>6, <3>1
    <3>3. Places["lost"] \intersect Places[t] = {} BY <1>6, <3>1
    <3> QED BY <1>7, <3>2, <3>3
  <2> QED BY <1>1, <1>7, <2>1
<1> HIDE DEF S
<1>11. EachInOnePlace' /\ RowsApart' BY <1>0, <1>2, <1>6, <1>8, <1>9, <1>10, Redistributed
<1>12. ListedOnce' BY <1>0, <1>1, <1>2, <1>5 DEF ListedOnce, Distinct
<1> QED BY <1>11, <1>12

LEMMA DrainPlaces ==
  ASSUME IndInv, DrainOldest, UNCHANGED <<openRow, batch, vanished, taken>>
  PROVE  EachInOnePlace' /\ RowsApart' /\ ListedOnce'
<1>0. Typed /\ EachInOnePlace /\ RowsApart /\ ListedOnce BY DEF IndInv
<1>1. PICK M :
        /\ RowsOf(appended') = RowsOf(appended) \union M
        /\ RowsOf(rowQueue) = M \union RowsOf(rowQueue')
        /\ M \intersect RowsOf(rowQueue') = {}
        /\ Distinct(rowQueue') /\ Distinct(appended')
  BY <1>0, DrainRows
<1>2. UNCHANGED lost BY DEF DrainOldest, Drain
<1> DEFINE S == {"queue", "session"}
<1>3. S \in SUBSET PlaceNames BY DEF PlaceNames
<1>4. /\ Places'["queue"] = RowsOf(rowQueue') /\ Places'["session"] = RowsOf(appended')
      /\ Places["queue"] = RowsOf(rowQueue) /\ Places["session"] = RowsOf(appended)
  BY NextPlaces, PlacesAre
<1>5. \A p \in PlaceNames \ S : Places'[p] = Places[p]
  <2>1. \A p \in PlaceNames \ S : p \in {"open", "lost", "vanished"} \union Threads
    BY DEF PlaceNames, Threads
  <2>2. \A p \in {"open", "lost", "vanished"} : Places'[p] = Places[p]
    BY <1>2, PlacesAre, NextPlaces
  <2>3. \A u \in Threads : Places'[u] = Places[u] BY PlacesAre, NextPlaces
  <2> QED BY <2>1, <2>2, <2>3
<1>6. \A r : (\E p \in S : r \in Places'[p]) <=> (\E p \in S : r \in Places[p])
  BY <1>1, <1>4
<1>7. \A p, q \in S : p # q => Places'[p] \intersect Places'[q] = {}
  <2>1. RowsOf(appended) \intersect RowsOf(rowQueue) = {}
    BY <1>0, <1>3, <1>4, PlacesAre DEF EachInOnePlace
  <2> QED BY <1>1, <1>4, <2>1
<1> HIDE DEF S
<1>8. EachInOnePlace' /\ RowsApart' BY <1>0, <1>3, <1>5, <1>6, <1>7, Redistributed
<1>9. ListedOnce' BY <1>0, <1>1 DEF ListedOnce, Distinct
<1> QED BY <1>8, <1>9

LEMMA ResetPlaces ==
  ASSUME IndInv, ConfigureQueue \/ StartRecording
  PROVE  EachInOnePlace' /\ RowsApart' /\ ListedOnce'
<1>0. Typed /\ EachInOnePlace /\ RowsApart /\ ListedOnce BY DEF IndInv
<1> DEFINE a == IF ConfigureQueue THEN "queue" ELSE "open"
           S == {a, "vanished"}
<1>1. UNCHANGED <<batch, appended, lost, taken>>
  BY DEF ConfigureQueue, StartRecording, threadVars, foldVars, queueVars
<1>2. a \in {"queue", "open"} OBVIOUS
<1>3. Places'[a] = {} /\ Places'["vanished"] = Places["vanished"] \union Places[a]
  <2>1. CASE ConfigureQueue
    <3>1. rowQueue' = <<>> /\ vanished' = vanished \union RowsOf(rowQueue)
      BY <2>1 DEF ConfigureQueue
    <3>2. RowsOf(<<>>) = {} BY DEF RowsOf
    <3> QED BY <2>1, <3>1, <3>2, PlacesAre, NextPlaces
  <2>2. CASE ~ConfigureQueue
    <3>1. openRow' = NoRow /\ vanished' = vanished \union ({openRow} \ {NoRow})
      BY <2>2 DEF StartRecording
    <3> QED BY <2>2, <3>1, PlacesAre, NextPlaces
  <2> QED BY <2>1, <2>2
<1>4. \A p \in PlaceNames \ S : Places'[p] = Places[p]
  <2>1. \A p \in PlaceNames \ S : p \in ({"open", "queue"} \ {a}) \union {"session", "lost"} \union Threads
    BY DEF PlaceNames, Threads
  <2>2. \A p \in {"session", "lost"} : Places'[p] = Places[p] BY <1>1, PlacesAre, NextPlaces
  <2>3. \A u \in Threads : Places'[u] = Places[u] BY <1>1, PlacesAre, NextPlaces
  <2>4. a = "queue" => UNCHANGED openRow
    BY DEF ConfigureQueue, foldVars
  <2>5. a = "open" => UNCHANGED rowQueue
    BY DEF StartRecording, queueVars
  <2>6. \A p \in {"open", "queue"} \ {a} : Places'[p] = Places[p]
    BY <1>2, <2>4, <2>5, PlacesAre, NextPlaces
  <2> QED BY <2>1, <2>2, <2>3, <2>6
<1>5. Distinct(rowQueue')
  <2>1. CASE ConfigureQueue
    <3>1. rowQueue' = <<>> BY <2>1 DEF ConfigureQueue
    <3>2. Distinct(<<>>) BY DEF Distinct
    <3> QED BY <3>1, <3>2
  <2>2. CASE StartRecording BY <1>0, <2>2 DEF StartRecording, queueVars, ListedOnce
  <2> QED BY <2>1, <2>2
<1> HIDE DEF a
<1>6. S \in SUBSET PlaceNames BY <1>2 DEF PlaceNames
<1>7. \A r : (\E p \in S : r \in Places'[p]) <=> (\E p \in S : r \in Places[p]) BY <1>3
<1>8. \A p, q \in S : p # q => Places'[p] \intersect Places'[q] = {} BY <1>3
<1> HIDE DEF S
<1>9. EachInOnePlace' /\ RowsApart' BY <1>0, <1>1, <1>4, <1>6, <1>7, <1>8, Redistributed
<1>10. ListedOnce' BY <1>0, <1>1, <1>5 DEF ListedOnce, Distinct
<1> QED BY <1>9, <1>10

\* What SealRow does, when there is a row to seal.
Sealing ==
  /\ openRow # NoRow /\ openRow' = NoRow /\ batch["ui"] = <<>>
  /\ \E single \in Seq(RowType) :
       /\ batch' = [batch EXCEPT !["ui"] = single]
       /\ ToSet(single) = {openRow} /\ IsInjective(single) /\ single # <<>>

LEMMA SealShape ==
  ASSUME IndInv, SealRow, openRow # NoRow
  PROVE  Sealing
<1>0. Typed /\ ThreadsInTurn /\ openRow \in RowType BY DEF IndInv, Typed, ThreadTypes
<1>1. control = "seal" BY DEF SealRow
<1>2. pc["ui"] = "idle" BY <1>0, <1>1 DEF ThreadsInTurn
<1>3. batch["ui"] = <<>> BY <1>0, <1>2 DEF ThreadsInTurn, Threads
<1> DEFINE single == <<openRow>>
<1>4. single \in Seq(RowType) /\ single # <<>> /\ DOMAIN single = {1} /\ single[1] = openRow BY <1>0
<1>5. batch' = [batch EXCEPT !["ui"] = single] /\ openRow' = NoRow BY DEF SealRow
<1> HIDE DEF single
<1>6. ToSet(single) = {openRow} BY <1>4 DEF ToSet
<1>7. IsInjective(single) BY <1>4 DEF IsInjective
<1> QED BY <1>3, <1>4, <1>5, <1>6, <1>7 DEF Sealing

LEMMA SealPlaces ==
  ASSUME IndInv, SealRow, openRow # NoRow
  PROVE  EachInOnePlace' /\ RowsApart' /\ ListedOnce'
<1>0. /\ Typed /\ EachInOnePlace /\ RowsApart /\ ListedOnce
      /\ batch \in [Threads -> Seq(RowType)]
  BY DEF IndInv, Typed, ThreadTypes
<1>1. UNCHANGED <<rowQueue, appended, lost, vanished, taken>> BY DEF SealRow, queueVars
<1>2. openRow' = NoRow /\ batch["ui"] = <<>> BY SealShape DEF Sealing
<1>3. PICK single \in Seq(RowType) :
       /\ batch' = [batch EXCEPT !["ui"] = single]
       /\ ToSet(single) = {openRow} /\ IsInjective(single) /\ single # <<>>
  BY SealShape DEF Sealing
<1>4. /\ ToSet(batch'["ui"]) = {openRow} /\ IsInjective(batch'["ui"]) /\ "ui" \in Threads
      /\ \A u \in Threads \ {"ui"} : batch'[u] = batch[u]
  BY <1>0, <1>3 DEF Threads
<1>5. ToSet(<<>>) = {} BY EmptyQueueFacts
<1> DEFINE S == {"ui", "open"}
<1>6. S \in SUBSET PlaceNames BY DEF PlaceNames
<1>7. /\ Places'["ui"] = {openRow} /\ Places'["open"] = {}
      /\ Places["ui"] = {} /\ Places["open"] = {openRow}
  BY <1>2, <1>4, <1>5, PlacesAre, NextPlaces
<1>8. \A p \in PlaceNames \ S : Places'[p] = Places[p]
  <2>1. \A p \in PlaceNames \ S : p \in {"queue", "session", "lost", "vanished"} \union (Threads \ {"ui"})
    BY DEF PlaceNames, Threads
  <2>2. \A p \in {"queue", "session", "lost", "vanished"} : Places'[p] = Places[p]
    BY <1>1, PlacesAre, NextPlaces
  <2>3. \A u \in Threads \ {"ui"} : Places'[u] = Places[u] BY <1>4, PlacesAre, NextPlaces
  <2> QED BY <2>1, <2>2, <2>3
<1>9. \A r : (\E p \in S : r \in Places'[p]) <=> (\E p \in S : r \in Places[p]) BY <1>7
<1>10. \A p, q \in S : p # q => Places'[p] \intersect Places'[q] = {} BY <1>7
<1> HIDE DEF S
<1>11. EachInOnePlace' /\ RowsApart' BY <1>0, <1>1, <1>6, <1>8, <1>9, <1>10, Redistributed
<1>12. ListedOnce' BY <1>0, <1>1, <1>4 DEF ListedOnce, Distinct
<1> QED BY <1>11, <1>12

LEMMA PlacesStep ==
  ASSUME IndInv, [Next]_vars
  PROVE  EachInOnePlace' /\ RowsApart' /\ ListedOnce'
<1>0. EachInOnePlace /\ RowsApart /\ ListedOnce BY DEF IndInv
<1>1. CASE UNCHANGED <<openRow, batch, rowQueue, appended, lost, vanished, taken>>
  <2>1. Places' = Places /\ AllRows' = AllRows
    BY <1>1 DEF Places, AllRows, RowsOf, NoRow, ToSet
  <2>2. EachInOnePlace' BY <1>0, <2>1 DEF EachInOnePlace
  <2>3. RowsApart' BY <1>0, <1>1, <2>1 DEF RowsApart
  <2>4. ListedOnce' BY <1>0, <1>1 DEF ListedOnce, Distinct
  <2> QED BY <2>2, <2>3, <2>4
<1>2. ASSUME NEW t \in Threads, FoldSample(t) PROVE EachInOnePlace' /\ RowsApart' /\ ListedOnce'
  BY <1>2, FoldPlaces
<1>3. ASSUME NEW t \in Threads, Push(t) PROVE EachInOnePlace' /\ RowsApart' /\ ListedOnce'
  BY <1>3, PushPlaces
<1>4. CASE Poll \/ FlushDrain
  <2>1. DrainOldest /\ UNCHANGED <<openRow, batch, vanished, taken>>
    BY <1>4 DEF Poll, FlushDrain, threadVars, foldVars
  <2> QED BY <2>1, DrainPlaces
<1>5. CASE ConfigureQueue \/ StartRecording BY <1>5, ResetPlaces
<1>6. CASE SealRow
  <2>1. openRow = NoRow => UNCHANGED <<openRow, batch, rowQueue, appended, lost, vanished, taken>>
    BY <1>6 DEF SealRow, queueVars
  <2> QED BY <1>1, <1>6, <2>1, SealPlaces
<1> DEFINE Still == UNCHANGED <<openRow, batch, rowQueue, appended, lost, vanished, taken>>
<1>7. Arrive \/ WorkerTake \/ StageTake \/ SourceStarted \/ SourceFailed \/ StopRecording \/ FlushLive
        => Still
  BY DEF Arrive, WorkerTake, StageTake, SourceStarted, SourceFailed, StopRecording, FlushLive,
         threadVars, foldVars, queueVars
<1>8. FlushDrained \/ FlushTimeout \/ CloseStored \/ UNCHANGED vars => Still
  BY DEF FlushDrained, FlushTimeout, CloseStored, threadVars, foldVars, queueVars, vars
<1>9. \A t \in Threads : Enter(t) \/ Consumed(t) \/ Allocate(t) => Still
  BY DEF Enter, Consumed, Allocate, foldVars, queueVars
<1> QED BY <1>1, <1>2, <1>3, <1>4, <1>5, <1>6, <1>7, <1>8, <1>9, Steps

-----------------------------------------------------------------------------
(* Counters                                                                  *)

LEMMA LostStep ==
  ASSUME IndInv, [Next]_vars
  PROVE  LostCounted'
<1>0. /\ Typed /\ EachInOnePlace /\ ListedOnce /\ QueueTypes
      /\ metrics.pushed = metrics.drained + metrics.dropped + Len(rowQueue)
      /\ IsFiniteSet(lost) /\ reported = Cardinality(lost)
      /\ metrics \in [{"pushed", "drained", "dropped"} -> Nat]
      /\ metrics.pushed \in Nat /\ metrics.drained \in Nat /\ metrics.dropped \in Nat
      /\ rowQueue \in Seq(QueuedRows) /\ Len(rowQueue) \in Nat
  BY LenProperties DEF IndInv, LostCounted, Typed, QueueTypes
<1>a. Len(rowQueue) \in Nat /\ metrics.pushed \in Nat /\ metrics.drained \in Nat /\ metrics.dropped \in Nat
  BY <1>0
<1>1. ASSUME NEW t \in Threads, Push(t) PROVE LostCounted'
  <2> DEFINE came == RowsOf(rowQueue) \union ToSet(batch[t])
             more == came \ RowsOf(rowQueue')
  <2>1. lost' = lost \union more /\ IsFiniteSet(more) /\ reported' = reported + Cardinality(more)
    BY <1>0, <1>1, PushRows
  <2>2. lost \intersect came = {}
    <3>1. /\ Places["lost"] = lost /\ Places["queue"] = RowsOf(rowQueue)
          /\ Places[t] = ToSet(batch[t])
          /\ "lost" \in PlaceNames /\ "queue" \in PlaceNames /\ t \in PlaceNames
          /\ "lost" # "queue" /\ "lost" # t
      BY PlacesAre DEF PlaceNames, Threads
    <3>2. \A p, q \in PlaceNames : p # q => Places[p] \intersect Places[q] = {}
      BY <1>0, PlacesAre DEF EachInOnePlace
    <3>3. lost \intersect RowsOf(rowQueue) = {} /\ lost \intersect ToSet(batch[t]) = {}
      BY <3>1, <3>2
    <3> QED BY <3>3
  <2>3. lost \intersect more = {} BY <2>2
  <2> HIDE DEF more
  <2>4. IsFiniteSet(lost') /\ Cardinality(lost') = Cardinality(lost) + Cardinality(more) - 0
    <3>1. /\ IsFiniteSet(lost \union more)
          /\ Cardinality(lost \union more) =
               Cardinality(lost) + Cardinality(more) - Cardinality(lost \intersect more)
      BY <1>0, <2>1, FS_Union
    <3>2. Cardinality(lost \intersect more) = 0 BY <2>3, FS_EmptySet
    <3> QED BY <2>1, <3>1, <3>2
  <2>5. Cardinality(lost) \in Nat /\ Cardinality(more) \in Nat BY <1>0, <2>1, FS_CardinalityType
  <2>6. reported' = Cardinality(lost') BY <1>0, <2>1, <2>4, <2>5
  <2>7. PICK m \in Nat, gone \in Nat :
          /\ Len(rowQueue) + m = gone + Len(rowQueue') /\ Len(rowQueue') \in Nat
          /\ metrics' = [metrics EXCEPT !.pushed = @ + m, !.dropped = @ + gone]
    <3>1. PICK all \in Seq(QueuedRows), cut \in Nat : Pushed(t, all, cut) BY <1>0, <1>1, PushShape
    <3> DEFINE m == Len(batch[t])
               gone == Len(all) - Len(rowQueue')
    <3>2. /\ Len(all) = Len(rowQueue) + m /\ m \in Nat /\ Len(rowQueue') \in Nat /\ gone \in Nat
          /\ metrics' = [metrics EXCEPT !.pushed = @ + m, !.dropped = @ + gone]
      BY <3>1 DEF Pushed
    <3>3. Len(rowQueue) + m = gone + Len(rowQueue') BY <1>a, <3>2
    <3> HIDE DEF m, gone
    <3> QED BY <3>2, <3>3
  <2> DEFINE n == Len(rowQueue)
             k == Len(rowQueue')
             p == metrics.pushed
             d == metrics.drained
             x == metrics.dropped
  <2>8. /\ p = d + x + n /\ p \in Nat /\ d \in Nat /\ x \in Nat
        /\ n \in Nat /\ k \in Nat /\ n + m = gone + k
    BY <1>a, <1>0, <2>7
  <2>9. metrics'.pushed = p + m /\ metrics'.dropped = x + gone /\ metrics'.drained = d
    BY <1>0, <2>7
  <2> HIDE DEF n, k, p, d, x
  <2>10. p + m = d + (x + gone) + k BY <2>8
  <2>11. metrics'.pushed = metrics'.drained + metrics'.dropped + k BY <2>9, <2>10
  <2> QED BY <2>4, <2>6, <2>11 DEF LostCounted, k, k
<1>2. CASE ConfigureQueue
  <2>1. rowQueue' = <<>> /\ metrics' = [pushed |-> 0, drained |-> 0, dropped |-> 0]
        /\ UNCHANGED <<reported, lost>>
    BY <1>2 DEF ConfigureQueue
  <2>2. Len(rowQueue') = 0 BY <2>1
  <2>3. metrics'.pushed = 0 /\ metrics'.drained = 0 /\ metrics'.dropped = 0 BY <2>1
  <2> QED BY <1>0, <2>1, <2>2, <2>3 DEF LostCounted
<1>3. CASE DrainOldest
  <2>1. PICK n \in 0..Len(rowQueue) : TakenAway(n) BY <1>0, <1>3, DrainShape
  <2>2. /\ Len(rowQueue') = Len(rowQueue) - n /\ UNCHANGED <<reported, lost>>
        /\ metrics' = [metrics EXCEPT !.drained = @ + n]
    BY <2>1 DEF TakenAway
  <2>3. /\ metrics'.pushed = metrics.pushed /\ metrics'.dropped = metrics.dropped
        /\ metrics'.drained = metrics.drained + n /\ n \in Nat
    BY <1>0, <2>2
  <2>4. metrics'.pushed = metrics'.drained + metrics'.dropped + Len(rowQueue')
    BY <1>0, <2>2, <2>3
  <2> QED BY <1>0, <2>2, <2>4 DEF LostCounted
<1>4. CASE UNCHANGED <<rowQueue, metrics, reported, lost>> BY <1>0, <1>4 DEF LostCounted
<1> QED BY <1>1, <1>2, <1>3, <1>4, Frames DEF ChangesQueue, Poll, FlushDrain

-----------------------------------------------------------------------------
(* The configuration of a row                                                *)

\* Where a row of the queue comes from, after a push.
LEMMA PushedRow ==
  ASSUME Typed, NEW t \in Threads, NEW all \in Seq(QueuedRows), NEW cut \in Nat,
         Pushed(t, all, cut), NEW i \in 1..Len(rowQueue')
  PROVE  \/ cut + i \in 1..Len(rowQueue) /\ rowQueue'[i] = rowQueue[cut + i]
         \/ \E j \in 1..Len(batch[t]) :
              /\ cut + i = Len(rowQueue) + j
              /\ rowQueue'[i].row = batch[t][j] /\ rowQueue'[i].config = batchConfig[t]
              /\ rowQueue'[i].id = nextRowId + j - 1
<1> DEFINE n == Len(rowQueue)
           m == Len(batch[t])
           last == Len(rowQueue')
           x == rowQueue'[i]
<1>1. /\ n \in Nat /\ m \in Nat /\ last \in Nat /\ i \in 1..last /\ x = all[cut + i]
      /\ cut + last <= n + m
  <2> DEFINE gone == Len(all) - last
  <2>1. Len(all) = n + m /\ n \in Nat /\ m \in Nat /\ last \in Nat /\ gone \in Nat /\ cut \in {0, gone}
    BY DEF Pushed
  <2>2. x = all[cut + i] BY DEF Pushed
  <2>3. cut + last <= Len(all) BY <2>1
  <2> QED BY <2>1, <2>2, <2>3
<1>2. CASE cut + i \in 1..n
  <2>1. all[cut + i] = rowQueue[cut + i] BY <1>2 DEF Pushed
  <2> QED BY <1>1, <1>2, <2>1
<1>3. CASE cut + i \notin 1..n
  <2> DEFINE j == (cut + i) - n
  <2>1. j \in 1..m /\ cut + i = n + j BY <1>1, <1>3
  <2> HIDE DEF j
  <2>2. all[n + j] = [id |-> nextRowId + j - 1, source |-> batchSource[t],
                      config |-> batchConfig[t], row |-> batch[t][j]]
    BY <2>1 DEF Pushed
  <2>3. x = [id |-> nextRowId + j - 1, source |-> batchSource[t],
             config |-> batchConfig[t], row |-> batch[t][j]]
    BY <1>1, <2>1, <2>2
  <2> HIDE DEF x
  <2>4. x.row = batch[t][j] /\ x.config = batchConfig[t] /\ x.id = nextRowId + j - 1
    BY <2>3
  <2> QED BY <2>1, <2>4 DEF x
<1> QED BY <1>2, <1>3

LEMMA PushedRows ==
  ASSUME IndInv, NEW t \in Threads, Push(t)
  PROVE  \E cut \in Nat :
           \A i \in 1..Len(rowQueue') :
             \/ cut + i \in 1..Len(rowQueue) /\ rowQueue'[i].row = rowQueue[cut + i].row
             \/ \E j \in 1..Len(batch[t]) :
                  cut + i = Len(rowQueue) + j /\ rowQueue'[i].row = batch[t][j]
<1>1. PICK all \in Seq(QueuedRows), cut \in Nat : Pushed(t, all, cut) BY PushShape DEF IndInv
<1>2. Typed BY DEF IndInv
<1>3. ASSUME NEW i \in 1..Len(rowQueue')
      PROVE  \/ cut + i \in 1..Len(rowQueue) /\ rowQueue'[i].row = rowQueue[cut + i].row
             \/ \E j \in 1..Len(batch[t]) :
                  cut + i = Len(rowQueue) + j /\ rowQueue'[i].row = batch[t][j]
  BY <1>1, <1>2, PushedRow
<1> QED BY <1>3

\* Where a row of the session comes from, after a drain.
LEMMA AppendedRow ==
  ASSUME Typed, NEW n \in 0..Len(rowQueue), TakenAway(n), NEW i \in 1..Len(appended')
  PROVE  \/ i \in 1..Len(appended) /\ appended'[i] = appended[i]
         \/ \E j \in 1..n :
              /\ i = Len(appended) + j /\ j \in 1..Len(rowQueue)
              /\ appended'[i].session = session /\ appended'[i].id = rowQueue[j].id
              /\ appended'[i].config = rowQueue[j].config
              /\ appended'[i].row = rowQueue[j].row
<1> DEFINE a == Len(appended)
           x == appended'[i]
<1>1. a \in Nat /\ Len(rowQueue) \in Nat /\ Len(appended') = a + n
  BY LenProperties DEF Typed, QueueTypes, TakenAway
<1>2. CASE i \in 1..a BY <1>2 DEF TakenAway
<1>3. CASE i \notin 1..a
  <2> DEFINE j == i - a
             seen == Visible(rowQueue[j].row)
  <2>1. j \in 1..n /\ i = a + j /\ j \in 1..Len(rowQueue) BY <1>1, <1>3
  <2>2. appended'[a + j] =
          [session |-> session, id |-> rowQueue[j].id, source |-> rowQueue[j].source,
           config |-> rowQueue[j].config, row |-> rowQueue[j].row, stored |-> seen]
    <3> HIDE DEF j
    <3> QED BY <2>1 DEF TakenAway
  <2> HIDE DEF j, seen
  <2>3. x = [session |-> session, id |-> rowQueue[j].id, source |-> rowQueue[j].source,
             config |-> rowQueue[j].config, row |-> rowQueue[j].row, stored |-> seen]
    BY <2>1, <2>2
  <2> HIDE DEF x
  <2>4. /\ x.session = session /\ x.id = rowQueue[j].id /\ x.config = rowQueue[j].config
        /\ x.row = rowQueue[j].row
    BY <2>3
  <2> QED BY <2>1, <2>4 DEF x
<1> QED BY <1>2, <1>3

LEMMA QueueDomains ==
  ASSUME Typed
  PROVE  /\ DOMAIN rowQueue = 1..Len(rowQueue) /\ Len(rowQueue) \in Nat
         /\ DOMAIN appended = 1..Len(appended) /\ Len(appended) \in Nat
         /\ \A t \in Threads : DOMAIN batch[t] = 1..Len(batch[t]) /\ Len(batch[t]) \in Nat
         /\ \A t \in Threads : ToSet(batch[t]) = {batch[t][i] : i \in 1..Len(batch[t])}
BY LenProperties, Members DEF Typed, QueueTypes, ThreadTypes

LEMMA MetadataStep ==
  ASSUME IndInv, [Next]_vars
  PROVE  MetadataMatchesRow'
<1>0. Typed /\ ThreadsInTurn /\ GridKept /\ MetadataMatchesRow BY DEF IndInv, GridKept
<1>1. Typed' BY TypedStep
<1>2. DOMAIN rowQueue' = 1..Len(rowQueue') /\ DOMAIN appended' = 1..Len(appended')
  BY <1>1, LenProperties DEF Typed, QueueTypes
<1>3. \A i \in 1..Len(rowQueue) : rowQueue[i].config = rowQueue[i].row.config
  BY <1>0, QueueDomains DEF MetadataMatchesRow
<1>4. \A i \in 1..Len(appended) : appended[i].config = appended[i].row.config
  BY <1>0, QueueDomains DEF MetadataMatchesRow
<1>5. ASSUME NEW i \in 1..Len(rowQueue') PROVE rowQueue'[i].config = rowQueue'[i].row.config
  <2>1. ASSUME NEW t \in Threads, Push(t) PROVE rowQueue'[i].config = rowQueue'[i].row.config
    <3>1. PICK all \in Seq(QueuedRows), cut \in Nat : Pushed(t, all, cut) BY <1>0, <2>1, PushShape
    <3>2. pc[t] = "push" BY <2>1 DEF Push, PushCounting
    <3>3. \A j \in 1..Len(batch[t]) : batch[t][j].config = batchConfig[t]
      BY <1>0, <3>2, QueueDomains DEF GridKept
    <3>4. CASE cut + i \in 1..Len(rowQueue) /\ rowQueue'[i] = rowQueue[cut + i]
      BY <1>3, <3>4
    <3>5. CASE \E j \in 1..Len(batch[t]) :
                 rowQueue'[i].row = batch[t][j] /\ rowQueue'[i].config = batchConfig[t]
      BY <3>3, <3>5
    <3>6. Typed BY <1>0
    <3> QED BY <3>1, <3>4, <3>5, <3>6, PushedRow
  <2>2. CASE ConfigureQueue
    <3>1. rowQueue' = <<>> BY <2>2 DEF ConfigureQueue
    <3> QED BY <3>1
  <2>3. CASE DrainOldest
    <3>1. PICK n \in 0..Len(rowQueue) : TakenAway(n) BY <1>0, <2>3, DrainShape
    <3>2. rowQueue'[i] = rowQueue[n + i] /\ Len(rowQueue') = Len(rowQueue) - n
      BY <3>1 DEF TakenAway
    <3>3. n + i \in 1..Len(rowQueue) BY <1>0, <3>2, QueueDomains
    <3> QED BY <1>3, <3>2, <3>3
  <2>4. CASE UNCHANGED rowQueue BY <1>3, <2>4
  <2> QED BY <2>1, <2>2, <2>3, <2>4, Frames DEF ChangesQueue, Poll, FlushDrain
<1>6. ASSUME NEW i \in 1..Len(appended') PROVE appended'[i].config = appended'[i].row.config
  <2>1. CASE DrainOldest
    <3>1. PICK n \in 0..Len(rowQueue) : TakenAway(n) BY <1>0, <2>1, DrainShape
    <3>2. \/ i \in 1..Len(appended) /\ appended'[i] = appended[i]
          \/ \E j \in 1..Len(rowQueue) : /\ appended'[i].config = rowQueue[j].config
                                         /\ appended'[i].row = rowQueue[j].row
      BY <1>0, <3>1, AppendedRow
    <3> QED BY <1>3, <1>4, <3>2
  <2>2. CASE UNCHANGED appended BY <1>4, <2>2
  <2> QED BY <2>1, <2>2, Frames DEF Poll, FlushDrain
<1> QED BY <1>2, <1>5, <1>6 DEF MetadataMatchesRow

LEMMA GridStep ==
  ASSUME IndInv, [Next]_vars
  PROVE  GridKept'
<1>0. /\ Typed /\ ThreadsInTurn /\ ThreadTypes
      /\ openRow # NoRow => openRow.config = config
      /\ \A t \in Threads :
           /\ pc[t] = "fold" => \A r \in ToSet(batch[t]) : r.config = config
           /\ pc[t] \in {"allocate", "push"} => \A r \in ToSet(batch[t]) : r.config = batchConfig[t]
  BY DEF IndInv, GridKept, Typed
<1> DEFINE Open == openRow' # NoRow => openRow'.config = config'
           Held(t) ==
             /\ pc'[t] = "fold" => \A r \in ToSet(batch'[t]) : r.config = config'
             /\ pc'[t] \in {"allocate", "push"} => \A r \in ToSet(batch'[t]) : r.config = batchConfig'[t]
           All == \A t \in Threads : Held(t)
<1>1. ASSUME NEW t \in Threads, FoldSample(t) PROVE Open /\ All
  <2> DEFINE s == <<hand[t], cursor>>
             bucket == Span[hand[t]][cursor]
  <2>1. /\ IF openRow.bucket = bucket
             THEN openRow' = [openRow EXCEPT !.samples = @ \union {s}] /\ UNCHANGED batch
             ELSE /\ openRow' = [bucket |-> bucket, samples |-> {s}, config |-> config]
                  /\ batch' = IF openRow = NoRow THEN batch
                                                 ELSE [batch EXCEPT ![t] = Append(@, openRow)]
        /\ UNCHANGED <<pc, batchConfig, config>> /\ pc[t] = "fold"
    BY <1>1 DEF FoldSample
  <2>2. bucket # 0 BY <1>0, <1>1, FoldTypes
  <2>3. NoRow.bucket = 0 BY DEF NoRow
  <2>4. openRow \in RowType BY <1>0 DEF ThreadTypes
  <2> HIDE DEF s, bucket
  <2>5. Open
    <3>1. CASE openRow.bucket = bucket
      <4>1. openRow # NoRow BY <2>2, <2>3, <3>1
      <4>2. openRow'.config = openRow.config BY <2>1, <2>4, <3>1 DEF RowType
      <4> QED BY <1>0, <2>1, <4>1, <4>2
    <3>2. CASE openRow.bucket # bucket BY <2>1, <3>2
    <3> QED BY <3>1, <3>2
  <2>6. \A u \in Threads : ToSet(batch'[u]) \subseteq
           IF u = t /\ openRow # NoRow THEN ToSet(batch[u]) \union {openRow} ELSE ToSet(batch[u])
    <3> DEFINE longer == Append(batch[t], openRow)
    <3>1. ToSet(longer) = ToSet(batch[t]) \union {openRow}
      BY <1>0, <2>4, PushBack DEF ThreadTypes
    <3>2. batch' = batch \/ (batch' = [batch EXCEPT ![t] = longer] /\ openRow # NoRow)
      BY <2>1
    <3> HIDE DEF longer
    <3> QED BY <1>0, <3>1, <3>2 DEF ThreadTypes
  <2>7. All BY <1>0, <2>1, <2>6
  <2> QED BY <2>5, <2>7
<1>2. ASSUME NEW t \in Threads, Enter(t) PROVE Open /\ All
  <2>1. pc[t] = "consume" /\ pc' = [pc EXCEPT ![t] = "fold"]
        /\ UNCHANGED <<batch, batchConfig, config, openRow>>
    BY <1>2 DEF Enter
  <2>2. batch[t] = <<>> BY <1>0, <2>1 DEF ThreadsInTurn
  <2>3. ToSet(batch[t]) = {} BY <2>2, EmptyQueueFacts
  <2>4. \A u \in Threads : u # t => pc'[u] = pc[u] BY <1>0, <2>1 DEF ThreadTypes
  <2>5. pc'[t] = "fold" BY <1>0, <2>1 DEF ThreadTypes
  <2> QED BY <1>0, <2>1, <2>3, <2>4, <2>5
<1>3. ASSUME NEW t \in Threads, Consumed(t) PROVE Open /\ All
  <2>1. /\ pc[t] = "fold" /\ batchConfig' = [batchConfig EXCEPT ![t] = config]
        /\ pc' = [pc EXCEPT ![t] = IF batch[t] = <<>> THEN "idle" ELSE "allocate"]
        /\ UNCHANGED <<batch, config, openRow>>
    BY <1>3 DEF Consumed, foldVars
  <2>2. \A u \in Threads : u # t => pc'[u] = pc[u] /\ batchConfig'[u] = batchConfig[u]
    BY <1>0, <2>1 DEF ThreadTypes
  <2>3. pc'[t] \in {"idle", "allocate"} /\ batchConfig'[t] = config BY <1>0, <2>1 DEF ThreadTypes
  <2> QED BY <1>0, <2>1, <2>2, <2>3
<1>4. ASSUME NEW t \in Threads, Allocate(t) PROVE Open /\ All
  <2>1. /\ pc[t] = "allocate" /\ pc' = [pc EXCEPT ![t] = "push"]
        /\ UNCHANGED <<batch, batchConfig, config, openRow>>
    BY <1>4 DEF Allocate
  <2>2. pc'[t] = "push" /\ \A u \in Threads : u # t => pc'[u] = pc[u]
    BY <1>0, <2>1 DEF ThreadTypes
  <2> QED BY <1>0, <2>1, <2>2
<1>5. ASSUME NEW t \in Threads, Push(t) PROVE Open /\ All
  <2> DEFINE none == <<>>
  <2>1. /\ batch' = [batch EXCEPT ![t] = none] /\ pc' = [pc EXCEPT ![t] = "idle"]
        /\ batchConfig' = [batchConfig EXCEPT ![t] = 0] /\ UNCHANGED <<config, openRow>>
    BY <1>5 DEF Push, PushCounting, foldVars
  <2> HIDE DEF none
  <2>2. /\ pc'[t] = "idle"
        /\ \A u \in Threads : u # t => /\ pc'[u] = pc[u] /\ batch'[u] = batch[u]
                                       /\ batchConfig'[u] = batchConfig[u]
    BY <1>0, <2>1 DEF ThreadTypes
  <2> QED BY <1>0, <2>1, <2>2
<1>6. ASSUME SealRow PROVE Open /\ All
  <2>1. openRow = NoRow => UNCHANGED <<pc, batch, batchConfig, config, openRow>>
    BY <1>6 DEF SealRow
  <2>2. CASE openRow # NoRow
    <3>1. PICK single \in Seq(RowType) :
            batch' = [batch EXCEPT !["ui"] = single] /\ ToSet(single) = {openRow}
      BY <1>6, <2>2, SealShape DEF Sealing
    <3>2. /\ batchConfig' = [batchConfig EXCEPT !["ui"] = config] /\ openRow' = NoRow
          /\ pc' = [pc EXCEPT !["ui"] = "allocate"] /\ UNCHANGED config
      BY <1>6, <2>2 DEF SealRow
    <3>3. /\ ToSet(batch'["ui"]) = {openRow} /\ batchConfig'["ui"] = config /\ pc'["ui"] = "allocate"
          /\ \A u \in Threads : u # "ui" => /\ pc'[u] = pc[u] /\ batch'[u] = batch[u]
                                            /\ batchConfig'[u] = batchConfig[u]
      BY <1>0, <3>1, <3>2 DEF ThreadTypes, Threads
    <3> QED BY <1>0, <2>2, <3>2, <3>3
  <2>3. CASE openRow = NoRow
    <3>1. UNCHANGED <<pc, batch, batchConfig, config, openRow>> BY <2>1, <2>3
    <3>2. ASSUME NEW u \in Threads PROVE Held(u) BY <1>0, <3>1
    <3> QED BY <1>0, <3>1, <3>2
  <2> QED BY <2>2, <2>3
<1>7. ASSUME StartRecording PROVE Open /\ All
  <2>1. openRow' = NoRow /\ UNCHANGED <<pc, batch, batchConfig>> /\ \A t \in Threads : pc[t] # "fold"
    BY <1>7 DEF StartRecording, AggregatorFree, threadVars
  <2>2. ASSUME NEW u \in Threads PROVE Held(u) BY <1>0, <2>1
  <2> QED BY <2>1, <2>2
<1>8. ASSUME WorkerTake \/ StageTake PROVE Open /\ All
  <2>1. UNCHANGED <<batch, batchConfig, config, openRow>>
    BY <1>8 DEF WorkerTake, StageTake, foldVars
  <2>2. \A u \in Threads : pc'[u] = pc[u] \/ pc'[u] = "consume"
    BY <1>0, <1>8 DEF WorkerTake, StageTake, ThreadTypes
  <2>3. ASSUME NEW u \in Threads PROVE Held(u) BY <1>0, <2>1, <2>2
  <2> QED BY <1>0, <2>1, <2>3
<1>9. ASSUME UNCHANGED <<pc, batch, batchConfig, config, openRow>> PROVE Open /\ All
  <2>1. Open BY <1>0, <1>9
  <2>2. ASSUME NEW u \in Threads PROVE Held(u) BY <1>0, <1>9
  <2> QED BY <2>1, <2>2
<1> HIDE DEF Open, All
<1>10. Open /\ All
  BY <1>1, <1>2, <1>3, <1>4, <1>5, <1>6, <1>7, <1>8, <1>9, Frames DEF ChangesThreads, ChangesFold
<1> QED BY <1>10, MetadataStep DEF GridKept, Open, All

-----------------------------------------------------------------------------
(* Closing a recording                                                       *)

LEMMA ClosesStep ==
  ASSUME IndInv, [Next]_vars
  PROVE  ClosesSettled'
<1> USE DEF ClosesSettled, Quiet, sourceVars, threadVars, foldVars, queueVars, flushVars, uiVars
<1>0. /\ ThreadsInTurn /\ ClosesSettled /\ Threads = {"worker", "stage", "ui"}
      /\ pc \in [Threads -> {"idle", "consume", "fold", "allocate", "push"}]
      /\ pc["ui"] # "fold" /\ (control # "publish" => pc["ui"] = "idle")
      /\ timedOut \in BOOLEAN /\ accepting \in BOOLEAN
  BY Constants DEF IndInv, Typed, ThreadTypes, ThreadsInTurn, SourceTypes, ControlTypes
<1>1. CASE Arrive BY <1>0, <1>1 DEF Arrive
<1>2. CASE WorkerTake BY <1>0, <1>2 DEF WorkerTake
<1>3. CASE StageTake BY <1>0, <1>3 DEF StageTake
<1>4. CASE ConfigureQueue BY <1>0, <1>4 DEF ConfigureQueue
<1>5. CASE StartRecording BY <1>0, <1>5 DEF StartRecording
<1>6. CASE SourceStarted BY <1>0, <1>6 DEF SourceStarted
<1>7. CASE SourceFailed BY <1>0, <1>7 DEF SourceFailed
<1>8. CASE Poll BY <1>0, <1>8 DEF Poll, DrainOldest, Drain
<1>9. CASE StopRecording BY <1>0, <1>9 DEF StopRecording
<1>10. CASE FlushLive BY <1>0, <1>10 DEF FlushLive
<1>11. CASE FlushDrained BY <1>0, <1>11 DEF FlushDrained, Drained
<1>12. CASE FlushTimeout BY <1>0, <1>12 DEF FlushTimeout, FlushOver
<1>13. CASE SealRow BY <1>0, <1>13 DEF SealRow
<1>14. CASE FlushDrain BY <1>0, <1>14 DEF FlushDrain, DrainOldest, Drain, FlushOver
<1>15. CASE CloseStored BY <1>0, <1>15 DEF CloseStored
<1>16. ASSUME NEW t \in Threads, Enter(t) PROVE ClosesSettled' BY <1>0, <1>16 DEF Enter
<1>17. ASSUME NEW t \in Threads, FoldSample(t) PROVE ClosesSettled' BY <1>0, <1>17 DEF FoldSample
<1>18. ASSUME NEW t \in Threads, Consumed(t) PROVE ClosesSettled' BY <1>0, <1>18 DEF Consumed
<1>19. ASSUME NEW t \in Threads, Allocate(t) PROVE ClosesSettled' BY <1>0, <1>19 DEF Allocate
<1>20. ASSUME NEW t \in Threads, Push(t) PROVE ClosesSettled' BY <1>0, <1>20 DEF Push, PushCounting
<1>21. CASE UNCHANGED vars BY <1>0, <1>21 DEF vars
<1> QED BY <1>1, <1>2, <1>3, <1>4, <1>5, <1>6, <1>7, <1>8, <1>9, <1>10, <1>11, <1>12, <1>13,
       <1>14, <1>15, <1>16, <1>17, <1>18, <1>19, <1>20, <1>21, Steps

-----------------------------------------------------------------------------
(* The recording of a row                                                    *)

\* Only StartRecording begins a recording, and a block is accepted once.
LEMMA SessionStep ==
  ASSUME [Next]_vars
  PROVE  /\ StartRecording \/ UNCHANGED <<session, config>>
         /\ Arrive \/ UNCHANGED origin
         /\ FlushTimeout \/ UNCHANGED timedOut
<1> USE DEF sourceVars, threadVars, foldVars, queueVars, flushVars, uiVars
<1> DEFINE Goals == /\ StartRecording \/ UNCHANGED <<session, config>>
                    /\ Arrive \/ UNCHANGED origin
                    /\ FlushTimeout \/ UNCHANGED timedOut
<1>1. Arrive \/ WorkerTake \/ StageTake \/ ConfigureQueue \/ StartRecording \/ SourceStarted
        \/ SourceFailed \/ Poll \/ StopRecording \/ FlushLive => Goals
  BY DEF Arrive, WorkerTake, StageTake, ConfigureQueue, StartRecording, SourceStarted, SourceFailed,
         Poll, StopRecording, FlushLive
<1>2. FlushDrained \/ FlushTimeout \/ SealRow \/ FlushDrain \/ CloseStored \/ UNCHANGED vars => Goals
  BY DEF FlushDrained, FlushTimeout, SealRow, FlushDrain, CloseStored, vars
<1>3. \A t \in Threads : Enter(t) \/ FoldSample(t) \/ Consumed(t) \/ Allocate(t) \/ Push(t) => Goals
  BY DEF Enter, FoldSample, Consumed, Allocate, Push, PushCounting
<1> QED BY <1>1, <1>2, <1>3, Steps

\* A row on its way was on its way before, or is the one that a thread folds into.
LEMMA OnTheWayStep ==
  ASSUME IndInv, [Next]_vars, NEW r, r \in OnTheWay'
  PROVE  r \in OnTheWay \/ \E t \in Threads : FoldSample(t) /\ r = openRow'
<1>0. /\ Typed /\ EachInOnePlace /\ ListedOnce /\ openRow \in RowType
      /\ batch \in [Threads -> Seq(RowType)] /\ Threads = {"worker", "stage", "ui"}
  BY Constants DEF IndInv, Typed, ThreadTypes
<1>1. /\ OnTheWay = ({openRow} \ {NoRow}) \union ToSet(batch["worker"]) \union ToSet(batch["stage"])
                      \union ToSet(batch["ui"]) \union RowsOf(rowQueue)
      /\ OnTheWay' = ({openRow'} \ {NoRow}) \union ToSet(batch'["worker"])
                       \union ToSet(batch'["stage"]) \union ToSet(batch'["ui"]) \union RowsOf(rowQueue')
  BY <1>0, PlacesAre, NextPlaces DEF OnTheWay
<1>2. \A t \in Threads : ToSet(batch[t]) \subseteq OnTheWay BY <1>0, <1>1
<1>3. \/ r = openRow' /\ r # NoRow
      \/ \E t \in Threads : r \in ToSet(batch'[t])
      \/ r \in RowsOf(rowQueue')
  BY <1>0, <1>1
<1> DEFINE Goal == r \in OnTheWay \/ \E t \in Threads : FoldSample(t) /\ r = openRow'
<1>4. ASSUME r = openRow', r # NoRow PROVE Goal
  <2>1. (\E t \in Threads : Enter(t)) => UNCHANGED openRow BY DEF Enter
  <2>2. StartRecording \/ SealRow => openRow' = NoRow BY DEF StartRecording, SealRow
  <2>3. UNCHANGED openRow \/ \E t \in Threads : FoldSample(t)
    BY <1>4, <2>1, <2>2, Frames DEF ChangesFold
  <2> QED BY <1>1, <1>4, <2>3
<1>5. ASSUME NEW t \in Threads, r \in ToSet(batch'[t]) PROVE r \in OnTheWay
  <2>1. ASSUME NEW u \in Threads, FoldSample(u) PROVE r \in OnTheWay
    <3> DEFINE longer == Append(batch[u], openRow)
    <3>1. batch' = batch \/ (batch' = [batch EXCEPT ![u] = longer] /\ openRow # NoRow)
      BY <2>1 DEF FoldSample
    <3>2. ToSet(longer) = ToSet(batch[u]) \union {openRow} BY <1>0, PushBack
    <3> HIDE DEF longer
    <3>3. r \in ToSet(batch[t]) \/ (r = openRow /\ openRow # NoRow)
      BY <1>0, <1>5, <3>1, <3>2
    <3> QED BY <1>1, <1>2, <3>3
  <2>2. ASSUME NEW u \in Threads, Push(u) PROVE r \in OnTheWay
    <3> DEFINE none == <<>>
    <3>1. batch' = [batch EXCEPT ![u] = none] BY <2>2 DEF Push, PushCounting
    <3>2. ToSet(none) = {} BY EmptyQueueFacts
    <3> HIDE DEF none
    <3>3. r \in ToSet(batch[t]) BY <1>0, <1>5, <3>1, <3>2
    <3> QED BY <1>2, <3>3
  <2>3. CASE SealRow /\ openRow # NoRow
    <3>1. PICK single \in Seq(RowType) :
            batch' = [batch EXCEPT !["ui"] = single] /\ ToSet(single) = {openRow}
      BY <2>3, SealShape DEF Sealing
    <3>2. r \in ToSet(batch[t]) \/ r = openRow BY <1>0, <1>5, <3>1
    <3> QED BY <1>1, <1>2, <2>3, <3>2
  <2>4. CASE UNCHANGED batch BY <1>2, <1>5, <2>4
  <2>5. \A u \in Threads : Enter(u) \/ Consumed(u) \/ Allocate(u) => UNCHANGED batch
    BY DEF Enter, Consumed, Allocate
  <2>6. WorkerTake \/ StageTake \/ (SealRow /\ openRow = NoRow) => UNCHANGED batch
    BY DEF WorkerTake, StageTake, SealRow
  <2> QED BY <2>1, <2>2, <2>3, <2>4, <2>5, <2>6, Frames DEF ChangesThreads
<1>6. ASSUME r \in RowsOf(rowQueue') PROVE r \in OnTheWay
  <2>1. ASSUME NEW u \in Threads, Push(u) PROVE r \in OnTheWay
    <3>1. RowsOf(rowQueue') \subseteq RowsOf(rowQueue) \union ToSet(batch[u])
      BY <1>0, <2>1, PushRows
    <3> QED BY <1>1, <1>2, <1>6, <3>1
  <2>2. CASE ConfigureQueue
    <3>1. rowQueue' = <<>> BY <2>2 DEF ConfigureQueue
    <3>2. RowsOf(rowQueue') = {} BY <3>1 DEF RowsOf
    <3> QED BY <1>6, <3>2
  <2>3. CASE DrainOldest
    <3>1. RowsOf(rowQueue') \subseteq RowsOf(rowQueue) BY <1>0, <2>3, DrainRows
    <3> QED BY <1>1, <1>6, <3>1
  <2>4. CASE UNCHANGED rowQueue BY <1>1, <1>6, <2>4
  <2> QED BY <2>1, <2>2, <2>3, <2>4, Frames DEF ChangesQueue, Poll, FlushDrain
<1> QED BY <1>3, <1>4, <1>5, <1>6

\* When a recording starts and no flush has given up, nothing is on its way.
LEMMA StartsEmpty ==
  ASSUME IndInv, StartRecording, ~timedOut
  PROVE  OnTheWay' = {} /\ \A x \in Stations \ {"source"} : Station(x)' = {}
<1>0. /\ Typed /\ ThreadsInTurn /\ ClosesSettled /\ Threads = {"worker", "stage", "ui"}
      /\ hand \in [Threads -> Blocks \union {0}]
  BY Constants DEF IndInv, Typed, ThreadTypes
<1>1. control = "configure" /\ openRow' = NoRow
      /\ UNCHANGED <<input, stageQueue, hand, batch, pc, rowQueue, nextBlock>>
  BY DEF StartRecording, threadVars, queueVars
<1>2. Quiet /\ rowQueue = <<>> BY <1>0, <1>1 DEF ClosesSettled
<1>3. \A t \in Threads : pc[t] = "idle" BY <1>0, <1>1, <1>2 DEF Quiet, ThreadsInTurn
<1>4. \A t \in Threads : batch[t] = <<>> /\ hand[t] = 0 BY <1>0, <1>3 DEF ThreadsInTurn
<1>5. ToSet(<<>>) = {} /\ RowsOf(<<>>) = {} BY EmptyQueueFacts DEF RowsOf
<1>6. \A t \in Threads : ToSet(batch'[t]) = {} BY <1>1, <1>4, <1>5
<1>7. RowsOf(rowQueue') = {} BY <1>1, <1>2, <1>5
<1>8. OnTheWay' = ({openRow'} \ {NoRow}) \union ToSet(batch'["worker"])
                    \union ToSet(batch'["stage"]) \union ToSet(batch'["ui"]) \union RowsOf(rowQueue')
  BY <1>0, NextPlaces DEF OnTheWay
<1>9. OnTheWay' = {} BY <1>0, <1>1, <1>6, <1>7, <1>8
<1>10. input' = <<>> /\ stageQueue' = <<>> /\ hand'["worker"] = 0 /\ hand'["stage"] = 0
  BY <1>0, <1>1, <1>2, <1>4 DEF Quiet
<1>11. \A x \in Stations \ {"source"} : Station(x)' = {}
  BY <1>5, <1>10 DEF Stations, Station
<1> QED BY <1>9, <1>11

\* A block at a station keeps the recording it was accepted in.
LEMMA OriginStep ==
  ASSUME IndInv, [Next]_vars, ~timedOut
  PROVE  \A x \in Stations \ {"source"} : \A b \in Station(x)' : origin'[b] = session'
<1>0. /\ Typed /\ BlocksInOrder /\ origin \in [Blocks -> Int]
      /\ \A x \in Stations \ {"source"} : \A b \in Station(x) : origin[b] = session
  BY DEF IndInv, Typed, SourceTypes, OwnRecording
<1>1. ASSUME StartRecording
      PROVE  \A x \in Stations \ {"source"} : \A b \in Station(x)' : origin'[b] = session'
  BY <1>1, StartsEmpty
<1>2. ASSUME ~StartRecording, NEW x \in Stations \ {"source"}, NEW b \in Station(x)'
      PROVE  origin'[b] = session'
  <2>1. session' = session BY <1>2, SessionStep
  <2>2. CASE Arrive
    <3>1. origin' = [origin EXCEPT ![nextBlock] = session] /\ nextBlock \in Blocks BY <2>2 DEF Arrive
    <3>2. b = nextBlock \/ (b \in Station(x) /\ b # nextBlock)
      <4>1. UNCHANGED <<stageQueue, hand>> /\ input' = Append(input, nextBlock)
        BY <2>2 DEF Arrive, threadVars
      <4>2. ToSet(input)' = ToSet(input) \union {nextBlock}
        BY <1>0, <3>1, <4>1, PushBack DEF Typed, SourceTypes
      <4>3. b = nextBlock \/ b \in Station(x) BY <1>2, <4>1, <4>2 DEF Stations, Station
      <4> QED BY <4>3
    <3>3. b \in Station(x) => b \in Blocks BY <1>0, <1>2, StationsApart
    <3> QED BY <1>0, <1>2, <2>1, <3>1, <3>2, <3>3
  <2>3. CASE ~Arrive
    <3>1. UNCHANGED origin BY <2>3, SessionStep
    <3>2. \E y \in Stations \ {"source"} : b \in Station(y)
      <4>1. CASE NoneMoves BY <1>2, <4>1 DEF NoneMoves
      <4>2. ASSUME NEW a \in {"input", "queue"}, NEW z, NEW e, MovesUp(a, z, e)
            PROVE  \E y \in Stations \ {"source"} : b \in Station(y)
        <5>1. a \in Stations \ {"source"} BY DEF Stations
        <5>2. b \in Station(x) \/ b = e BY <1>2, <4>2 DEF MovesUp
        <5> QED BY <1>2, <4>2, <5>1, <5>2 DEF MovesUp
      <4> QED BY <2>3, <4>1, <4>2, BlocksMove
    <3> QED BY <1>0, <2>1, <3>1, <3>2
  <2> QED BY <2>2, <2>3
<1> QED BY <1>1, <1>2

\* Arrive names the recording of a block before its samples are folded.
LEMMA TakenOrigin ==
  ASSUME IndInv, [Next]_vars, NEW s \in taken
  PROVE  origin'[s[1]] = origin[s[1]]
<1>0. /\ Typed /\ ThreadsInTurn /\ BlocksInOrder /\ FoldedOnce
      /\ taken \subseteq Blocks \X Nat /\ origin \in [Blocks -> Int]
      /\ hand \in [Threads -> Blocks \union {0}] /\ Threads = {"worker", "stage", "ui"}
  BY Constants DEF IndInv, Typed, ThreadTypes, SourceTypes
<1>1. CASE Arrive
  <2>1. origin' = [origin EXCEPT ![nextBlock] = session] /\ nextBlock \in Blocks BY <1>1 DEF Arrive
  <2>2. s[1] # nextBlock
    <3> SUFFICES ASSUME s[1] = nextBlock PROVE FALSE OBVIOUS
    <3>1. s = <<nextBlock, s[2]>> /\ s[2] \in Nat /\ s[2] \in DOMAIN Span[nextBlock]
      BY <1>0 DEF FoldedOnce
    <3>2. nextBlock \in Station("source") /\ "source" \in Stations
      <4>1. nextBlock >= nextBlock BY <2>1, Constants
      <4> QED BY <2>1, <4>1, StationsAre DEF Stations
    <3>3. \A t \in Threads : pc[t] = "fold" => hand[t] # nextBlock
      <4> SUFFICES ASSUME NEW t \in Threads, pc[t] = "fold", hand[t] = nextBlock PROVE FALSE
        OBVIOUS
      <4>1. t \in {"worker", "stage"} BY <1>0 DEF ThreadsInTurn
      <4>2. t \in Stations /\ t # "source" /\ nextBlock \in Station(t)
        BY <2>1, <4>1, StationsAre, Constants DEF Stations
      <4> QED BY <1>0, <3>2, <4>2, StationsApart
    <3>4. Pending(nextBlock, s[2]) BY <2>1, <3>1, <3>2, <3>3 DEF Pending
    <3> QED BY <1>0, <2>1, <3>1, <3>4 DEF FoldedOnce
  <2> QED BY <1>0, <2>1, <2>2
<1>2. CASE ~Arrive BY <1>2, SessionStep
<1> QED BY <1>1, <1>2

LEMMA OwnStep ==
  ASSUME IndInv, [Next]_vars
  PROVE  OwnRecording'
<1>0. /\ Typed /\ ThreadsInTurn /\ BlocksInOrder /\ RowsApart /\ config = session
      /\ \A i \in DOMAIN appended : appended[i].session <= session
      /\ session \in Nat /\ MaxSessions \in Nat /\ appended \in Seq(AppendedRows)
      /\ timedOut \in BOOLEAN
  BY Constants DEF IndInv, OwnRecording, Typed, ControlTypes, QueueTypes
<1>1. config' = session'
  <2>1. StartRecording => config' = config + 1 /\ session' = session + 1 BY DEF StartRecording
  <2> QED BY <1>0, <2>1, SessionStep
<1>2. ASSUME NEW i \in 1..Len(appended')
      PROVE  \/ i \in 1..Len(appended) /\ appended'[i] = appended[i]
             \/ /\ appended'[i].session = session /\ session' = session
                /\ \E j \in 1..Len(rowQueue) : appended'[i].row = rowQueue[j].row
  <2>1. CASE Poll \/ FlushDrain
    <3>1. DrainOldest /\ ~StartRecording BY <2>1 DEF Poll, FlushDrain, StartRecording
    <3>2. PICK n \in 0..Len(rowQueue) : TakenAway(n) BY <1>0, <3>1, DrainShape
    <3>3. session' = session BY <3>1, SessionStep
    <3> QED BY <1>0, <3>2, <3>3, AppendedRow
  <2>2. CASE UNCHANGED appended BY <2>2
  <2> QED BY <2>1, <2>2, Frames
<1>3. DOMAIN appended' = 1..Len(appended') /\ DOMAIN appended = 1..Len(appended)
  BY TypedStep, LenProperties DEF Typed, QueueTypes, IndInv
<1>4. session <= session' /\ session' \in Nat
  <2>1. StartRecording => session' = session + 1 BY DEF StartRecording
  <2> QED BY <1>0, <2>1, SessionStep
<1>5. \A i \in DOMAIN appended' : appended'[i].session <= session'
  <2> SUFFICES ASSUME NEW i \in 1..Len(appended') PROVE appended'[i].session <= session'
    BY <1>3
  <2>1. CASE i \in 1..Len(appended) /\ appended'[i] = appended[i]
    <3>1. appended[i] \in AppendedRows BY <1>0, <2>1, ElementOfSeq
    <3>2. appended[i].session \in Int BY <3>1 DEF AppendedRows
    <3>3. appended[i].session <= session BY <1>0, <1>3, <2>1
    <3> QED BY <1>0, <1>4, <2>1, <3>2, <3>3
  <2>2. CASE appended'[i].session = session BY <1>0, <1>4, <2>2
  <2> QED BY <1>2, <2>1, <2>2
<1>6. timedOut' => OwnRecording'
  BY <1>1, <1>5 DEF OwnRecording
<1>7. ASSUME ~timedOut' PROVE OwnRecording'
  <2>0. ~timedOut
    <3>1. FlushTimeout => timedOut' = TRUE BY DEF FlushTimeout
    <3> QED BY <1>7, <3>1, SessionStep
  <2>1. /\ \A r \in OnTheWay : Own(r)
        /\ \A x \in Stations \ {"source"} : \A b \in Station(x) : origin[b] = session
        /\ \A i \in DOMAIN appended :
             /\ appended[i].row.config = appended[i].session
             /\ \A sample \in appended[i].row.samples : origin[sample[1]] = appended[i].session
    BY <2>0 DEF IndInv, OwnRecording, SessionHoldsItsOwn
  <2>2. RowsOf(appended) \subseteq AllRows /\ OnTheWay \subseteq AllRows
    <3>1. \A p \in PlaceNames : Places[p] \subseteq AllRows BY PlacesAre DEF AllRows
    <3>2. {"open", "worker", "stage", "ui", "queue", "session"} \subseteq PlaceNames
      BY DEF PlaceNames
    <3> QED BY <3>1, <3>2, PlacesAre DEF OnTheWay
  <2>3. \A r \in AllRows : \A s \in r.samples : origin'[s[1]] = origin[s[1]]
    BY <1>0, TakenOrigin DEF RowsApart
  <2>4. \A j \in 1..Len(rowQueue) : rowQueue[j].row \in OnTheWay
    <3>1. \A j \in 1..Len(rowQueue) : rowQueue[j].row \in RowsOf(rowQueue)
      BY <1>0, QueueDomains DEF RowsOf
    <3> QED BY <3>1, PlacesAre DEF OnTheWay
  <2>5. \A i \in 1..Len(appended) : appended[i].row \in RowsOf(appended)
    BY <1>0, QueueDomains DEF RowsOf
  <2>6. ASSUME NEW i \in DOMAIN appended'
        PROVE  /\ appended'[i].row.config = appended'[i].session
               /\ \A sample \in appended'[i].row.samples : origin'[sample[1]] = appended'[i].session
    <3>1. CASE i \in 1..Len(appended) /\ appended'[i] = appended[i]
      BY <1>3, <2>1, <2>2, <2>3, <2>5, <3>1
    <3>2. ASSUME appended'[i].session = session,
                 NEW j \in 1..Len(rowQueue), appended'[i].row = rowQueue[j].row
          PROVE  /\ appended'[i].row.config = appended'[i].session
                 /\ \A sample \in appended'[i].row.samples :
                      origin'[sample[1]] = appended'[i].session
      BY <2>1, <2>2, <2>3, <2>4, <3>2 DEF Own
    <3> QED BY <1>2, <1>3, <3>1, <3>2
  <2>7. SessionHoldsItsOwn' BY <2>6 DEF SessionHoldsItsOwn
  <2>8. ASSUME NEW r \in OnTheWay' PROVE Own(r)'
    <3>0. CASE StartRecording BY <2>0, <2>8, <3>0, StartsEmpty
    <3>1. CASE ~StartRecording /\ r \in OnTheWay
      <4>1. session' = session BY <3>1, SessionStep
      <4>2. r.config = session /\ \A s \in r.samples : origin[s[1]] = session
        BY <2>1, <3>1 DEF Own
      <4>3. \A s \in r.samples : origin'[s[1]] = origin[s[1]] BY <2>2, <2>3, <3>1
      <4> QED BY <4>1, <4>2, <4>3 DEF Own
    <3>2. ASSUME NEW t \in Threads, FoldSample(t), r = openRow' PROVE Own(r)'
      <4> DEFINE s == <<hand[t], cursor>>
                 bucket == Span[hand[t]][cursor]
      <4>1. UNCHANGED <<session, origin>> BY <3>2 DEF FoldSample, sourceVars, uiVars
      <4>2. openRow' = IF openRow.bucket = bucket
                         THEN [openRow EXCEPT !.samples = @ \union {s}]
                         ELSE [bucket |-> bucket, samples |-> {s}, config |-> config]
        BY <3>2 DEF FoldSample
      <4>3. bucket # 0 /\ hand[t] \in Blocks BY <1>0, <3>2, FoldTypes
      <4>4. s[1] = hand[t] OBVIOUS
      <4>5. t \in {"worker", "stage"} /\ hand[t] # 0
        <5>1. pc[t] = "fold" BY <3>2 DEF FoldSample
        <5> QED BY <1>0, <4>3, <5>1, Constants DEF ThreadsInTurn
      <4>6. hand[t] \in Station(t) /\ t \in Stations \ {"source"}
        BY <4>5, StationsAre DEF Stations
      <4>7. origin[s[1]] = session BY <2>1, <4>4, <4>6
      <4>8. openRow \in RowType /\ NoRow.bucket = 0 BY <1>0 DEF Typed, ThreadTypes, NoRow
      <4> HIDE DEF s, bucket
      <4>9. CASE openRow.bucket = bucket
        <5>1. openRow # NoRow BY <4>3, <4>8, <4>9
        <5>2. Own(openRow)
          <6>1. openRow \in OnTheWay BY <5>1, PlacesAre DEF OnTheWay
          <6> QED BY <2>1, <6>1
        <5>3. r.config = openRow.config /\ r.samples = openRow.samples \union {s}
          BY <3>2, <4>2, <4>8, <4>9 DEF RowType
        <5>4. \A x \in r.samples : origin[x[1]] = session BY <4>7, <5>2, <5>3 DEF Own
        <5>5. r.config = session BY <5>2, <5>3 DEF Own
        <5> QED BY <4>1, <5>4, <5>5 DEF Own
      <4>10. CASE openRow.bucket # bucket
        <5>1. r.config = session /\ r.samples = {s} BY <1>0, <3>2, <4>2, <4>10
        <5> QED BY <4>1, <4>7, <5>1 DEF Own
      <4> QED BY <4>9, <4>10
    <3> QED BY <2>8, <3>0, <3>1, <3>2, OnTheWayStep
  <2>9. \A x \in Stations \ {"source"} : \A b \in Station(x)' : origin'[b] = session'
    BY <2>0, OriginStep
  <2> QED BY <1>1, <1>5, <2>7, <2>8, <2>9 DEF OwnRecording
<1> QED BY <1>6, <1>7

-----------------------------------------------------------------------------
(* Identifiers and the order of time                                         *)

\* pushRows numbers the rows upwards, from where the last push ended.
LEMMA PushedIds ==
  ASSUME Typed, IdsGrow, NEW t \in Threads, Push(t)
  PROVE  /\ nextRowId <= nextRowId' /\ nextRowId' \in Int
         /\ \A i \in 1..Len(rowQueue') : rowQueue'[i].id < nextRowId'
         /\ \A i, j \in 1..Len(rowQueue') : i < j => rowQueue'[i].id < rowQueue'[j].id
         /\ \A i \in 1..Len(rowQueue') :
              nextRowId <= rowQueue'[i].id \/ \E j \in 1..Len(rowQueue) : rowQueue'[i].id = rowQueue[j].id
<1> DEFINE n == Len(rowQueue)
           m == Len(batch[t])
           l == Len(rowQueue')
<1>1. PICK cut \in Nat :
         /\ n \in Nat /\ m \in Nat /\ l \in Nat /\ nextRowId' \in Int /\ nextRowId <= nextRowId'
         /\ cut + l <= n + (nextRowId' - nextRowId) /\ nextRowId \in Int
         /\ \A i \in 1..l :
              \/ cut + i \in 1..n /\ rowQueue'[i].id = rowQueue[cut + i].id
              \/ \E j \in 1..m : cut + i = n + j /\ rowQueue'[i].id = nextRowId + j - 1
  <2>1. PICK all \in Seq(QueuedRows), cut \in Nat : Pushed(t, all, cut) BY PushShape
  <2>2. /\ n \in Nat /\ m \in Nat /\ l \in Nat /\ nextRowId' \in Int /\ nextRowId <= nextRowId'
        /\ cut + l <= n + (nextRowId' - nextRowId) /\ nextRowId \in Int
    BY <2>1 DEF Pushed, Typed, QueueTypes
  <2>3. \A i \in 1..l :
           \/ cut + i \in 1..n /\ rowQueue'[i].id = rowQueue[cut + i].id
           \/ \E j \in 1..m : cut + i = n + j /\ rowQueue'[i].id = nextRowId + j - 1
    BY <2>1, PushedRow
  <2> HIDE DEF n, m, l
  <2> QED BY <2>2, <2>3
<1>2. /\ cut \in Nat /\ n \in Nat /\ m \in Nat /\ l \in Nat /\ nextRowId' \in Int /\ nextRowId <= nextRowId'
      /\ cut + l <= n + (nextRowId' - nextRowId) /\ nextRowId \in Int
  BY <1>1
<1>3. /\ \A i, j \in 1..n : i < j => rowQueue[i].id < rowQueue[j].id
      /\ \A i \in 1..n : rowQueue[i].id < nextRowId /\ rowQueue[i].id \in Int
  <2>1. \A i \in 1..n : rowQueue[i] \in QueuedRows BY ElementOfSeq DEF Typed, QueueTypes
  <2>2. DOMAIN rowQueue = 1..n BY QueueDomains
  <2> QED BY <2>1, <2>2 DEF IdsGrow, QueuedRows
<1>4. \A i \in 1..l :
         \/ cut + i \in 1..n /\ rowQueue'[i].id = rowQueue[cut + i].id
         \/ \E j \in 1..m : cut + i = n + j /\ rowQueue'[i].id = nextRowId + j - 1
  BY <1>1
<1> HIDE DEF n, m, l
<1>5. ASSUME NEW i \in 1..l
      PROVE  /\ rowQueue'[i].id < nextRowId' /\ rowQueue'[i].id \in Int
             /\ nextRowId <= rowQueue'[i].id \/ \E j \in 1..n : rowQueue'[i].id = rowQueue[j].id
  <2>1. CASE cut + i \in 1..n /\ rowQueue'[i].id = rowQueue[cut + i].id
    <3>1. rowQueue[cut + i].id < nextRowId /\ rowQueue[cut + i].id \in Int BY <1>3, <2>1
    <3> DEFINE x == rowQueue[cut + i].id
    <3>2. x < nextRowId /\ x \in Int BY <3>1
    <3> HIDE DEF x
    <3>3. x < nextRowId' BY <1>2, <3>2
    <3> QED BY <2>1, <3>1, <3>3 DEF x
  <2>2. ASSUME NEW j \in 1..m, cut + i = n + j, rowQueue'[i].id = nextRowId + j - 1
        PROVE  rowQueue'[i].id < nextRowId' /\ rowQueue'[i].id \in Int /\ nextRowId <= rowQueue'[i].id
    <3> DEFINE last == nextRowId + j - 1
               next == nextRowId'
               span == next - nextRowId
    <3>2. i \in Int /\ i <= l /\ j \in Int /\ 1 <= j /\ cut + i = n + j BY <1>2, <2>2
    <3>3. /\ last = nextRowId + j - 1 /\ next \in Int /\ span = next - nextRowId
          /\ cut + l <= n + span
      BY <1>2
    <3> HIDE DEF last, next, span
    <3>4. span \in Int /\ j <= span BY <1>2, <3>2, <3>3
    <3>5. last < next /\ last \in Int /\ nextRowId <= last BY <1>2, <3>2, <3>3, <3>4
    <3>6. nextRowId + j - 1 < nextRowId' /\ nextRowId + j - 1 \in Int /\ nextRowId <= nextRowId + j - 1
      BY <3>5 DEF last, next
    <3> QED BY <2>2, <3>6
  <2> QED BY <1>4, <2>1, <2>2
<1>6. ASSUME NEW i \in 1..l, NEW k \in 1..l, i < k PROVE rowQueue'[i].id < rowQueue'[k].id
  <2> DEFINE x == rowQueue'[i].id
             y == rowQueue'[k].id
  <2>1. i \in Int /\ k \in Int /\ i < k BY <1>2, <1>6
  <2>2. CASE cut + i \in 1..n /\ x = rowQueue[cut + i].id
    <3>1. CASE cut + k \in 1..n /\ y = rowQueue[cut + k].id
      <4>1. cut + i < cut + k BY <2>1
      <4> QED BY <1>3, <2>2, <3>1, <4>1
    <3>2. ASSUME NEW j \in 1..m, y = nextRowId + j - 1 PROVE x < y
      <4>1. x < nextRowId /\ x \in Int BY <1>3, <2>2
      <4> HIDE DEF x, y
      <4> QED BY <1>2, <3>2, <4>1
    <3> QED BY <1>4, <3>1, <3>2
  <2>3. ASSUME NEW j \in 1..m, cut + i = n + j, x = nextRowId + j - 1 PROVE x < y
    <3>1. ASSUME NEW g \in 1..m, cut + k = n + g, y = nextRowId + g - 1 PROVE x < y
      <4> HIDE DEF x, y
      <4> QED BY <1>2, <2>1, <2>3, <3>1
    <3>2. ~(cut + k \in 1..n) BY <1>2, <2>1, <2>3
    <3> QED BY <1>4, <3>1, <3>2
  <2> QED BY <1>4, <2>2, <2>3
<1> QED BY <1>2, <1>5, <1>6 DEF l, n

LEMMA IdsStep ==
  ASSUME IndInv, [Next]_vars
  PROVE  IdsGrow'
<1>0. /\ Typed /\ IdsGrow /\ ClosesSettled /\ nextRowId \in Int /\ session \in Int
      /\ rowQueue \in Seq(QueuedRows) /\ appended \in Seq(AppendedRows)
      /\ \A i \in DOMAIN appended : appended[i].session <= session
  BY DEF IndInv, Typed, QueueTypes, ControlTypes, OwnRecording
<1>1. /\ DOMAIN rowQueue' = 1..Len(rowQueue') /\ DOMAIN appended' = 1..Len(appended')
      /\ DOMAIN rowQueue = 1..Len(rowQueue) /\ DOMAIN appended = 1..Len(appended)
      /\ Len(rowQueue) \in Nat /\ Len(appended) \in Nat
      /\ Len(rowQueue') \in Nat /\ Len(appended') \in Nat
  BY <1>0, TypedStep, LenProperties DEF Typed, QueueTypes
<1>2. /\ \A i \in 1..Len(rowQueue) : rowQueue[i].id \in Int
      /\ \A i \in 1..Len(appended) : appended[i].id \in Int /\ appended[i].session \in Int
  <2>1. \A i \in 1..Len(rowQueue) : rowQueue[i] \in QueuedRows BY <1>0, ElementOfSeq
  <2>2. \A i \in 1..Len(appended) : appended[i] \in AppendedRows BY <1>0, ElementOfSeq
  <2> QED BY <2>1, <2>2 DEF QueuedRows, AppendedRows
<1> DEFINE Stored ==
      /\ \A i, j \in 1..Len(appended') :
           i < j /\ appended'[i].session = appended'[j].session => appended'[i].id < appended'[j].id
      /\ control' # "configure" =>
           \A i \in 1..Len(appended') : appended'[i].session = session' =>
             /\ appended'[i].id < nextRowId'
             /\ \A j \in 1..Len(rowQueue') : appended'[i].id < rowQueue'[j].id
           Queued ==
      /\ \A i, j \in 1..Len(rowQueue') : i < j => rowQueue'[i].id < rowQueue'[j].id
      /\ \A i \in 1..Len(rowQueue') : rowQueue'[i].id < nextRowId'
<1>3. /\ \A i, j \in 1..Len(rowQueue) : i < j => rowQueue[i].id < rowQueue[j].id
      /\ \A i \in 1..Len(rowQueue) : rowQueue[i].id < nextRowId
      /\ \A i, j \in 1..Len(appended) :
           i < j /\ appended[i].session = appended[j].session => appended[i].id < appended[j].id
      /\ control # "configure" =>
           \A i \in 1..Len(appended) : appended[i].session = session =>
             /\ appended[i].id < nextRowId
             /\ \A j \in 1..Len(rowQueue) : appended[i].id < rowQueue[j].id
  BY <1>0, <1>1 DEF IdsGrow
<1>4. ASSUME NEW t \in Threads, Push(t) PROVE Stored /\ Queued
  <2>1. /\ nextRowId <= nextRowId' /\ nextRowId' \in Int
        /\ \A i \in 1..Len(rowQueue') : rowQueue'[i].id < nextRowId'
        /\ \A i, j \in 1..Len(rowQueue') : i < j => rowQueue'[i].id < rowQueue'[j].id
        /\ \A i \in 1..Len(rowQueue') :
             nextRowId <= rowQueue'[i].id \/ \E j \in 1..Len(rowQueue) : rowQueue'[i].id = rowQueue[j].id
    BY <1>0, <1>4, PushedIds
  <2>2. UNCHANGED <<appended, session>> /\ (control = "configure" => control' = "configure")
    <3>1. t = "ui" => control # "configure"
      <4>1. pc[t] = "push" BY <1>4 DEF Push, PushCounting
      <4> QED BY <4>1 DEF IndInv, ThreadsInTurn
    <3> QED BY <1>4, <3>1 DEF Push, PushCounting
  <2>3. ASSUME NEW i \in 1..Len(appended), appended[i].id < nextRowId, NEW j \in 1..Len(rowQueue'),
               \A k \in 1..Len(rowQueue) : appended[i].id < rowQueue[k].id
        PROVE  appended[i].id < rowQueue'[j].id
    <3>1. CASE nextRowId <= rowQueue'[j].id
      <4> DEFINE x == appended[i].id
                 y == rowQueue'[j].id
      <4>1. x \in Int /\ y \in Int /\ x < nextRowId /\ nextRowId <= y
        <5>1. rowQueue'[j] \in QueuedRows BY <1>0, TypedStep, ElementOfSeq DEF Typed, QueueTypes
        <5> QED BY <1>2, <2>3, <3>1, <5>1 DEF QueuedRows
      <4> HIDE DEF x, y
      <4>2. x < y BY <1>0, <4>1
      <4> QED BY <4>2 DEF x, y
    <3> QED BY <2>1, <2>3, <3>1
  <2>4. ASSUME NEW i \in 1..Len(appended), appended[i].id < nextRowId
        PROVE appended[i].id < nextRowId'
    <3> DEFINE x == appended[i].id
    <3>1. x \in Int /\ x < nextRowId BY <1>2, <2>4
    <3> HIDE DEF x
    <3>2. x < nextRowId' BY <1>0, <2>1, <3>1
    <3> QED BY <3>2 DEF x
  <2>5. Queued BY <2>1
  <2>6. Stored BY <1>3, <2>2, <2>3, <2>4
  <2> QED BY <2>5, <2>6
<1>5. ASSUME ConfigureQueue PROVE Stored /\ Queued
  <2>1. rowQueue' = <<>> /\ control' = "configure" /\ UNCHANGED appended
    BY <1>5 DEF ConfigureQueue
  <2>2. Len(rowQueue') = 0 BY <2>1
  <2> QED BY <1>3, <2>1, <2>2
<1>6. ASSUME StartRecording PROVE Stored /\ Queued
  <2>1. session' = session + 1 /\ UNCHANGED <<appended, rowQueue, nextRowId>>
    BY <1>6 DEF StartRecording, queueVars
  <2>2. \A i \in 1..Len(appended) : appended[i].session # session'
    BY <1>0, <1>1, <1>2, <2>1
  <2> QED BY <1>3, <2>1, <2>2
<1>7. ASSUME DrainOldest, control # "configure", session' = session PROVE Stored /\ Queued
  <2>1. PICK n \in 0..Len(rowQueue) : TakenAway(n) BY <1>0, <1>7, DrainShape
  <2>2. /\ n \in Nat /\ n <= Len(rowQueue) /\ Len(rowQueue') = Len(rowQueue) - n /\ nextRowId' = nextRowId
        /\ \A i \in 1..Len(rowQueue') : rowQueue'[i] = rowQueue[n + i]
    BY <1>1, <2>1 DEF TakenAway
  <2>3. \A i \in 1..Len(rowQueue') : n + i \in 1..Len(rowQueue) BY <1>1, <2>2
  <2>4. \A i, j \in 1..Len(rowQueue') : i < j => n + i < n + j BY <1>1, <2>2
  <2>5. Queued BY <1>3, <2>2, <2>3, <2>4
  <2>6. \A i \in 1..Len(appended') :
          \/ i \in 1..Len(appended) /\ appended'[i] = appended[i]
          \/ \E j \in 1..n : /\ i = Len(appended) + j /\ j \in 1..Len(rowQueue)
                             /\ appended'[i].session = session /\ appended'[i].id = rowQueue[j].id
    BY <1>0, <2>1, AppendedRow
  <2>7. ASSUME NEW i \in 1..Len(appended'), NEW k \in 1..Len(appended'), i < k,
               appended'[i].session = appended'[k].session
        PROVE  appended'[i].id < appended'[k].id
    <3>1. CASE i \in 1..Len(appended) /\ appended'[i] = appended[i]
      <4>1. CASE k \in 1..Len(appended) /\ appended'[k] = appended[k] BY <1>3, <2>7, <3>1, <4>1
      <4>2. ASSUME NEW j \in 1..n, j \in 1..Len(rowQueue), appended'[k].session = session,
                   appended'[k].id = rowQueue[j].id
            PROVE  appended'[i].id < appended'[k].id
        BY <1>3, <1>7, <2>7, <3>1, <4>2
      <4> QED BY <2>6, <4>1, <4>2
    <3>2. ASSUME NEW j \in 1..n, i = Len(appended) + j, j \in 1..Len(rowQueue),
                 appended'[i].id = rowQueue[j].id
          PROVE  appended'[i].id < appended'[k].id
      <4>1. k \notin 1..Len(appended) BY <1>1, <2>2, <2>7, <3>2
      <4>2. PICK g \in 1..n : /\ k = Len(appended) + g /\ g \in 1..Len(rowQueue)
                              /\ appended'[k].id = rowQueue[g].id
        BY <2>6, <4>1
      <4>3. j < g
        <5>1. i = Len(appended) + j /\ k = Len(appended) + g /\ i < k BY <2>7, <3>2, <4>2
        <5>2. Len(appended) \in Int /\ j \in Int /\ g \in Int BY <1>1, <2>2
        <5> QED BY <5>1, <5>2
      <4> QED BY <1>3, <3>2, <4>2, <4>3
    <3> QED BY <2>6, <3>1, <3>2
  <2>8. ASSUME NEW i \in 1..Len(appended'), appended'[i].session = session
        PROVE  /\ appended'[i].id < nextRowId
               /\ \A j \in 1..Len(rowQueue') : appended'[i].id < rowQueue'[j].id
    <3>1. CASE i \in 1..Len(appended) /\ appended'[i] = appended[i]
      BY <1>3, <1>7, <2>2, <2>3, <2>8, <3>1
    <3>2. ASSUME NEW g \in 1..n, g \in 1..Len(rowQueue), appended'[i].id = rowQueue[g].id
          PROVE  /\ appended'[i].id < nextRowId
                 /\ \A j \in 1..Len(rowQueue') : appended'[i].id < rowQueue'[j].id
      <4>1. \A j \in 1..Len(rowQueue') : g < n + j BY <1>1, <2>2, <3>2
      <4> QED BY <1>3, <2>2, <2>3, <3>2, <4>1
    <3> QED BY <2>6, <3>1, <3>2
  <2>9. Stored BY <1>7, <2>2, <2>7, <2>8
  <2> QED BY <2>5, <2>9
<1>8. ASSUME UNCHANGED <<rowQueue, nextRowId, appended, session>>,
             control = "configure" => control' = "configure"
      PROVE  Stored /\ Queued
  BY <1>3, <1>8
<1>9. StartRecording \/ UNCHANGED session BY SessionStep
<1>10. control = "configure" => StartRecording \/ control' = "configure"
  <2> SUFFICES ASSUME control = "configure" PROVE StartRecording \/ control' = "configure" OBVIOUS
  <2> DEFINE Goal == StartRecording \/ control' = "configure"
  <2>1. ~ConfigureQueue /\ ~SourceStarted /\ ~SourceFailed /\ ~StopRecording /\ ~FlushLive
        /\ ~FlushDrained /\ ~FlushTimeout /\ ~SealRow /\ ~FlushDrain /\ ~CloseStored /\ ~Poll
    BY DEF ConfigureQueue, SourceStarted, SourceFailed, StopRecording, FlushLive, FlushDrained,
           FlushTimeout, SealRow, FlushDrain, CloseStored, Poll
  <2>2. Arrive \/ WorkerTake \/ StageTake => UNCHANGED control
    BY DEF Arrive, WorkerTake, StageTake, uiVars
  <2>3. ASSUME NEW t \in Threads, Enter(t) \/ FoldSample(t) \/ Consumed(t) \/ Allocate(t)
        PROVE UNCHANGED control
    BY <2>3 DEF Enter, FoldSample, Consumed, Allocate, uiVars
  <2>4. ASSUME NEW t \in Threads, Push(t) PROVE UNCHANGED control
    <3>1. pc[t] = "push" BY <2>4 DEF Push, PushCounting
    <3>2. t # "ui" BY <3>1 DEF IndInv, ThreadsInTurn
    <3> QED BY <2>4, <3>2 DEF Push, PushCounting
  <2>5. UNCHANGED vars => UNCHANGED control BY DEF vars, uiVars
  <2> QED BY <2>1, <2>2, <2>3, <2>4, <2>5, Steps
<1>11. Stored /\ Queued
  <2>1. Poll \/ FlushDrain => DrainOldest /\ control # "configure" /\ ~StartRecording
    BY DEF Poll, FlushDrain, StartRecording
  <2>2. CASE Poll \/ FlushDrain BY <1>7, <1>9, <2>1, <2>2
  <2>3. CASE ~(Poll \/ FlushDrain)
    <3>1. UNCHANGED appended BY <2>3, Frames
    <3>2. ConfigureQueue \/ (\E t \in Threads : Push(t)) \/ UNCHANGED <<rowQueue, nextRowId>>
      BY <2>3, Frames DEF ChangesQueue
    <3> QED BY <1>4, <1>5, <1>6, <1>8, <1>9, <1>10, <3>1, <3>2
  <2> QED BY <2>2, <2>3
<1> QED BY <1>1, <1>11 DEF IdsGrow

\* Which blocks the worker serves itself.
LEMMA SerialStep ==
  ASSUME IndInv, [Next]_vars
  PROVE  \/ UNCHANGED serial
         \/ /\ WorkerTake /\ StageCapacity > 0 /\ input # <<>>
            /\ serial' = serial \union {Head(input)}
<1>1. \/ ~ChangesSource /\ UNCHANGED serial
      \/ ChangesSource
  BY Frames
<1>2. Arrive \/ StageTake \/ StartRecording \/ SourceFailed \/ StopRecording => UNCHANGED serial
  BY DEF Arrive, StageTake, StartRecording, SourceFailed, StopRecording
<1>3. CASE WorkerTake BY <1>3 DEF WorkerTake
<1> QED BY <1>1, <1>2, <1>3 DEF ChangesSource

LEMMA ServedStep ==
  ASSUME IndInv, [Next]_vars
  PROVE  ServedArrived'
<1>0. Typed /\ BlocksInOrder /\ ServedArrived BY DEF IndInv
<1>1. Station("source")' \subseteq Station("source")
  <2>1. CASE NoneMoves BY <2>1 DEF NoneMoves, Stations
  <2>2. ASSUME NEW a \in Stations, NEW z \in Stations \ {"source"}, NEW e, MovesUp(a, z, e)
        PROVE  Station("source")' \subseteq Station("source")
    BY <2>2 DEF MovesUp, Stations
  <2> QED BY <2>1, <2>2, BlocksMove DEF Stations
<1>2. input # <<>> => Head(input) \notin Station("source")
  <2> SUFFICES ASSUME input # <<>> PROVE Head(input) \notin Station("source") OBVIOUS
  <2>1. Head(input) \in ToSet(input) BY <1>0, PopFront DEF Typed, SourceTypes
  <2>2. Head(input) \in Station("input") BY <2>1, StationsAre
  <2> QED BY <1>0, <2>2, StationsApart DEF Stations
<1> QED BY <1>0, <1>1, <1>2, SerialStep DEF ServedArrived

\* A recording in which the worker overtook the stage stays one.
LEMMA OvertakenStays ==
  ASSUME IndInv, [Next]_vars, NEW s, Overtaken(s)
  PROVE  Overtaken(s)'
<1>0. ServedArrived /\ origin \in [Blocks -> Int] /\ serial \subseteq Blocks
  BY DEF IndInv, Typed, SourceTypes
<1>1. PICK b \in serial : origin[b] = s BY DEF Overtaken
<1>2. b \in serial' BY <1>1, SerialStep
<1>3. origin'[b] = origin[b]
  <2>1. CASE Arrive
    <3>1. nextBlock \in Blocks /\ origin' = [origin EXCEPT ![nextBlock] = session]
      BY <2>1 DEF Arrive
    <3>2. nextBlock \in Station("source")
      <4>1. nextBlock >= nextBlock BY <3>1, Constants
      <4> QED BY <3>1, <4>1, StationsAre
    <3>3. b # nextBlock BY <1>0, <1>1, <3>2 DEF ServedArrived
    <3> QED BY <1>0, <1>1, <3>1, <3>3
  <2>2. CASE ~Arrive BY <2>2, SessionStep
  <2> QED BY <2>1, <2>2
<1> QED BY <1>1, <1>2, <1>3 DEF Overtaken

\* The folding thread of a recording without overtaking folds the earliest sample.
LEMMA FoldsEarliest ==
  ASSUME IndInv, pc[Other] = "idle", NEW t \in Threads, FoldSample(t),
         NEW b \in Blocks, NEW i \in Nat, Pending(b, i)
  PROVE  t = Folder /\ Span[hand[t]][cursor] <= Span[b][i]
<1>0. Typed /\ ThreadsInTurn /\ BlocksInOrder BY DEF IndInv
<1>1. pc[t] = "fold" /\ t \in {"worker", "stage"}
  BY <1>0 DEF FoldSample, ThreadsInTurn, Threads
<1>2. t = Folder BY <1>1 DEF Folder, Other
<1>3. hand[t] \in Blocks /\ cursor \in DOMAIN Span[hand[t]] /\ cursor \in Nat
  BY <1>0, FoldTypes
<1>4. t \in Stations /\ hand[t] \in Station(t)
  BY <1>1, <1>3, Constants, StationsAre DEF Stations
<1>5. PICK x \in Stations : b \in Station(x) BY DEF Pending
<1>6. i \in DOMAIN Span[b] BY DEF Pending
<1>7. CASE b = hand[t]
  <2>1. cursor <= i BY <1>1, <1>3, <1>7 DEF Pending
  <2> QED BY <1>2, <1>3, <1>6, <1>7, <2>1, DeliveryAssumption
<1>8. CASE b # hand[t]
  <2>1. \A c \in Station(t) : c = hand[t] BY <1>1, StationsAre
  <2>2. x # t BY <1>5, <1>8, <2>1
  <2>3. StageCapacity = 0 => Station("queue") = {} /\ Station("stage") = {}
    <3> SUFFICES ASSUME StageCapacity = 0 PROVE Station("queue") = {} /\ Station("stage") = {}
      OBVIOUS
    <3>1. stageQueue = <<>> /\ pc["stage"] = "idle" BY <1>0 DEF ThreadsInTurn
    <3>2. hand["stage"] = 0 BY <1>0, <3>1 DEF ThreadsInTurn, Threads
    <3> QED BY <3>1, <3>2, StationsAre, EmptyQueueFacts
  <2>4. Ahead(t, x) BY <1>2, <1>5, <2>2, <2>3 DEF Folder, Stations, Ahead
  <2>5. hand[t] < b BY <1>0, <1>4, <1>5, <2>4 DEF BlocksInOrder
  <2> QED BY <1>2, <1>3, <1>6, <2>5, DeliveryAssumption
<1> QED BY <1>7, <1>8

\* Only the worker can make the other thread busy, and overtakes the stage by it.
LEMMA OtherStep ==
  ASSUME IndInv, [Next]_vars, pc[Other] = "idle", pc'[Other] # "idle", ~timedOut
  PROVE  Overtaken(session)' /\ session' = session
<1>0. /\ Typed /\ ThreadsInTurn /\ BlocksInOrder /\ StageCapacity \in Nat
      /\ pc \in [Threads -> {"idle", "consume", "fold", "allocate", "push"}]
      /\ Threads = {"worker", "stage", "ui"}
  BY Constants DEF IndInv, Typed, ThreadTypes
<1>1. StageCapacity > 0
  <2>1. StageCapacity = 0 => pc'["stage"] = "idle" BY ThreadsStep DEF ThreadsInTurn
  <2> QED BY <1>0, <2>1 DEF Other
<1>2. Other = "worker" BY <1>0, <1>1 DEF Other
<1>3. WorkerTake
  <2>1. \A t \in Threads : FoldSample(t) => UNCHANGED pc BY DEF FoldSample
  <2>2. \A t \in Threads : Enter(t) \/ Consumed(t) \/ Allocate(t) \/ Push(t) => pc[t] # "idle"
    BY DEF Enter, Consumed, Allocate, Push, PushCounting
  <2>3. \A t \in Threads : Enter(t) \/ Consumed(t) \/ Allocate(t) \/ Push(t) =>
          pc' = [pc EXCEPT ![t] = pc'[t]]
    BY <1>0 DEF Enter, Consumed, Allocate, Push, PushCounting
  <2>4. \A t \in Threads : Enter(t) \/ FoldSample(t) \/ Consumed(t) \/ Allocate(t) \/ Push(t) =>
          pc'["worker"] = pc["worker"]
    BY <1>0, <1>2, <2>1, <2>2, <2>3
  <2>5. StageTake \/ SealRow => pc'["worker"] = pc["worker"] BY <1>0 DEF StageTake, SealRow
  <2> QED BY <1>2, <2>4, <2>5, Frames DEF ChangesThreads
<1>4. UNCHANGED <<session, origin>> BY <1>3 DEF WorkerTake, uiVars
<1>5. input # <<>> /\ serial' = serial \union {Head(input)}
  BY <1>1, <1>2, <1>3 DEF WorkerTake
<1>6. Head(input) \in Station("input")
  <2>1. Head(input) \in ToSet(input) BY <1>0, <1>5, PopFront DEF Typed, SourceTypes
  <2> QED BY <2>1, StationsAre
<1>7. origin[Head(input)] = session
  BY <1>6 DEF IndInv, OwnRecording, Stations
<1> QED BY <1>4, <1>5, <1>7 DEF Overtaken

\* The row that the folding thread closes with this step.
Closes(r) ==
  \E t \in Threads : /\ FoldSample(t) /\ r = openRow /\ openRow # NoRow
                     /\ openRow.bucket # Span[hand[t]][cursor]

\* A row joins the line when it is closed, at the end; what a flush sealed goes its own way.
LineMoves ==
  /\ \A r \in Line' : r \in Line \/ r \in sealed \/ Closes(r)
  /\ \A r, q : Precedes(r, q)' =>
       \/ Precedes(r, q) /\ r \in Line /\ q \in Line
       \/ r \in sealed \/ q \in sealed
       \/ r \in Line /\ Closes(q)

LEMMA LineIs ==
  ASSUME Typed
  PROVE  /\ Folder \in {"worker", "stage"} /\ Folder \in Threads
         /\ Line = Recorded \union RowsOf(rowQueue) \union ToSet(batch[Folder])
         /\ RowsOf(rowQueue) = {rowQueue[i].row : i \in 1..Len(rowQueue)}
         /\ ToSet(batch[Folder]) = {batch[Folder][i] : i \in 1..Len(batch[Folder])}
         /\ Len(rowQueue) \in Nat /\ Len(batch[Folder]) \in Nat
         /\ \A r, q : Precedes(r, q) <=>
              \/ r \in Recorded /\ q \in RowsOf(rowQueue) \union ToSet(batch[Folder])
              \/ \E i, j \in 1..Len(rowQueue) : i < j /\ r = rowQueue[i].row /\ q = rowQueue[j].row
              \/ r \in RowsOf(rowQueue) /\ q \in ToSet(batch[Folder])
              \/ \E i, j \in 1..Len(batch[Folder]) :
                   i < j /\ r = batch[Folder][i] /\ q = batch[Folder][j]
<1>1. Folder \in {"worker", "stage"} /\ Folder \in Threads BY DEF Folder, Threads
<1>2. /\ DOMAIN rowQueue = 1..Len(rowQueue) /\ DOMAIN batch[Folder] = 1..Len(batch[Folder])
      /\ Len(rowQueue) \in Nat /\ Len(batch[Folder]) \in Nat
  BY <1>1, QueueDomains
<1>3. /\ RowsOf(rowQueue) = {rowQueue[i].row : i \in 1..Len(rowQueue)}
      /\ ToSet(batch[Folder]) = {batch[Folder][i] : i \in 1..Len(batch[Folder])}
  BY <1>2 DEF RowsOf, ToSet
<1> QED BY <1>1, <1>2, <1>3 DEF Line, Precedes

LEMMA PrecedesInLine ==
  ASSUME Typed, NEW r, NEW q, Precedes(r, q)
  PROVE  r \in Line /\ q \in Line
BY LineIs

LEMMA LineIsNext ==
  ASSUME Typed'
  PROVE  /\ Line' = Recorded' \union RowsOf(rowQueue') \union ToSet(batch'[Folder])
         /\ RowsOf(rowQueue') = {rowQueue'[i].row : i \in 1..Len(rowQueue')}
         /\ ToSet(batch'[Folder]) = {batch'[Folder][i] : i \in 1..Len(batch'[Folder])}
         /\ Len(rowQueue') \in Nat /\ Len(batch'[Folder]) \in Nat
         /\ \A r, q : Precedes(r, q)' <=>
              \/ r \in Recorded' /\ q \in RowsOf(rowQueue') \union ToSet(batch'[Folder])
              \/ \E i, j \in 1..Len(rowQueue') : i < j /\ r = rowQueue'[i].row /\ q = rowQueue'[j].row
              \/ r \in RowsOf(rowQueue') /\ q \in ToSet(batch'[Folder])
              \/ \E i, j \in 1..Len(batch'[Folder]) :
                   i < j /\ r = batch'[Folder][i] /\ q = batch'[Folder][j]
<1>1. Folder \in Threads /\ Folder' = Folder BY DEF Folder, Threads
<1>2. /\ DOMAIN rowQueue' = 1..Len(rowQueue') /\ DOMAIN batch'[Folder] = 1..Len(batch'[Folder])
      /\ Len(rowQueue') \in Nat /\ Len(batch'[Folder]) \in Nat
  <2>1. rowQueue' \in Seq(QueuedRows) BY DEF Typed, QueueTypes
  <2>2. batch'[Folder] \in Seq(RowType) BY <1>1 DEF Typed, ThreadTypes
  <2> QED BY <2>1, <2>2, LenProperties
<1>3. /\ RowsOf(rowQueue') = {rowQueue'[i].row : i \in 1..Len(rowQueue')}
      /\ ToSet(batch'[Folder]) = {batch'[Folder][i] : i \in 1..Len(batch'[Folder])}
  BY <1>2 DEF RowsOf, ToSet
<1>4. Line' = Recorded' \union RowsOf(rowQueue') \union ToSet(batch'[Folder])
  BY <1>1 DEF Line, RowsOf, ToSet
<1> QED BY <1>1, <1>2, <1>3, <1>4 DEF Precedes, RowsOf, ToSet

\* The rows of the recording that is made, after a step that starts none.
LEMMA RecordedStep ==
  ASSUME IndInv, [Next]_vars, ~StartRecording
  PROVE  /\ DrainOldest \/ UNCHANGED Recorded
         /\ DrainOldest => \E n \in 0..Len(rowQueue) : 
              /\ TakenAway(n)
              /\ \A r \in Recorded' : r \in Recorded \/ \E j \in 1..n : r = rowQueue[j].row
<1>0. Typed BY DEF IndInv
<1>1. UNCHANGED session BY SessionStep
<1>2. ASSUME ~DrainOldest PROVE UNCHANGED Recorded
  <2>1. UNCHANGED appended BY <1>2, Frames DEF Poll, FlushDrain
  <2> QED BY <1>1, <2>1 DEF Recorded
<1>3. ASSUME DrainOldest
      PROVE  \E n \in 0..Len(rowQueue) :
               /\ TakenAway(n)
               /\ \A r \in Recorded' : r \in Recorded \/ \E j \in 1..n : r = rowQueue[j].row
  <2>1. PICK n \in 0..Len(rowQueue) : TakenAway(n) BY <1>0, <1>3, DrainShape
  <2>2. ASSUME NEW r \in Recorded' PROVE r \in Recorded \/ \E j \in 1..n : r = rowQueue[j].row
    <3>1. DOMAIN appended' = 1..Len(appended') BY TypedStep, LenProperties DEF Typed, QueueTypes
    <3>2. PICK i \in 1..Len(appended') : appended'[i].session = session /\ r = appended'[i].row
      BY <1>1, <3>1 DEF Recorded
    <3>3. \/ i \in 1..Len(appended) /\ appended'[i] = appended[i]
          \/ \E j \in 1..n : appended'[i].row = rowQueue[j].row
      BY <1>0, <2>1, AppendedRow
    <3>4. i \in 1..Len(appended) /\ appended'[i] = appended[i] => r \in Recorded
      BY <1>0, <3>2, QueueDomains DEF Recorded
    <3> QED BY <3>2, <3>3, <3>4
  <2> QED BY <2>1, <2>2
<1> QED BY <1>2, <1>3

\* Fold, push, drain and the other steps, one by one: where the rows of the line come from.
LEMMA FoldMoves ==
  ASSUME IndInv, NEW t \in Threads, FoldSample(t), pc[Other] = "idle", Typed',
         UNCHANGED Recorded
  PROVE  LineMoves
<1>0. /\ Typed /\ openRow \in RowType /\ batch \in [Threads -> Seq(RowType)] /\ ThreadsInTurn
  BY DEF IndInv, Typed, ThreadTypes
<1>1. pc[t] = "fold" /\ t \in {"worker", "stage"}
  BY <1>0 DEF FoldSample, ThreadsInTurn, Threads
<1>2. t = Folder /\ Folder \in Threads BY <1>1, LineIs, <1>0 DEF Folder, Other
<1>3. UNCHANGED rowQueue BY DEF FoldSample, queueVars
<1> DEFINE longer == Append(batch[t], openRow)
           m == Len(batch[t])
<1>4. \/ UNCHANGED batch
      \/ Closes(openRow) /\ batch' = [batch EXCEPT ![t] = longer]
  BY DEF FoldSample, Closes
<1>5. CASE UNCHANGED batch
  <2>1. \A r, q : Precedes(r, q)' <=> Precedes(r, q) BY <1>0, <1>3, <1>5, LineIs, LineIsNext
  <2>2. Line' = Line BY <1>0, <1>3, <1>5, LineIs, LineIsNext
  <2> QED BY <1>0, <2>1, <2>2, PrecedesInLine DEF LineMoves
<1>6. CASE Closes(openRow) /\ batch' = [batch EXCEPT ![t] = longer]
  <2>1. /\ Len(longer) = m + 1 /\ m \in Nat /\ longer[m + 1] = openRow
        /\ \A i \in 1..m : longer[i] = batch[t][i]
    BY <1>0, AppendProperties, LenProperties
  <2>2. batch'[Folder] = longer BY <1>0, <1>2, <1>6
  <2> HIDE DEF longer
  <2>3. \A i \in 1..(m + 1) : (i \in 1..m /\ longer[i] = batch[t][i]) \/ (i = m + 1 /\ longer[i] = openRow)
    BY <2>1
  <2>4. ToSet(batch'[Folder]) = ToSet(batch[Folder]) \union {openRow}
    <3>1. ToSet(batch'[Folder]) = {longer[i] : i \in 1..(m + 1)} BY <1>0, <2>1, <2>2, LineIsNext
    <3>2. ToSet(batch[Folder]) = {batch[t][i] : i \in 1..m} BY <1>0, <1>2, LineIs
    <3>3. m + 1 \in 1..(m + 1) /\ \A i \in 1..m : i \in 1..(m + 1) BY <2>1
    <3> QED BY <2>1, <2>3, <3>1, <3>2, <3>3
  <2>5. Line' = Line \union {openRow} BY <1>0, <1>3, <2>4, LineIs, LineIsNext
  <2>6. ASSUME NEW r, NEW q, Precedes(r, q)'
        PROVE  Precedes(r, q) \/ (r \in Line /\ Closes(q))
    <3>1. CASE r \in Recorded' /\ q \in RowsOf(rowQueue') \union ToSet(batch'[Folder])
      BY <1>0, <1>3, <1>6, <2>4, <3>1, LineIs
    <3>2. CASE \E i, j \in 1..Len(rowQueue') : i < j /\ r = rowQueue'[i].row /\ q = rowQueue'[j].row
      BY <1>0, <1>3, <3>2, LineIs
    <3>3. CASE r \in RowsOf(rowQueue') /\ q \in ToSet(batch'[Folder])
      BY <1>0, <1>3, <1>6, <2>4, <3>3, LineIs
    <3>4. ASSUME NEW i \in 1..(m + 1), NEW j \in 1..(m + 1), i < j, r = longer[i], q = longer[j]
          PROVE  Precedes(r, q) \/ (r \in Line /\ Closes(q))
      <4>1. i \in 1..m BY <2>1, <3>4
      <4>2. r = batch[t][i] /\ r \in ToSet(batch[Folder]) BY <1>0, <1>2, <2>1, <3>4, <4>1, LineIs
      <4>3. CASE j \in 1..m BY <1>0, <1>2, <2>1, <3>4, <4>1, <4>3, LineIs
      <4>4. CASE j = m + 1 BY <1>0, <1>6, <2>1, <3>4, <4>2, <4>4, LineIs
      <4> QED BY <2>3, <4>3, <4>4
    <3> QED BY <2>1, <2>2, <2>6, <3>1, <3>2, <3>3, <3>4, LineIsNext
  <2> QED BY <1>0, <1>6, <2>5, <2>6, PrecedesInLine DEF LineMoves
<1> QED BY <1>4, <1>5, <1>6

LEMMA PushMoves ==
  ASSUME IndInv, NEW t \in Threads, Push(t), pc[Other] = "idle", Typed',
         UNCHANGED Recorded, ToSet(batch["ui"]) \subseteq sealed
  PROVE  LineMoves
<1>0. /\ Typed /\ EachInOnePlace /\ ListedOnce /\ batch \in [Threads -> Seq(RowType)]
      /\ Threads = {"worker", "stage", "ui"}
  BY Constants DEF IndInv, Typed, ThreadTypes
<1>1. pc[t] = "push" BY DEF Push, PushCounting
<1>2. t = Folder \/ t = "ui" BY <1>0, <1>1 DEF Folder, Other
<1>a. Folder \in {"worker", "stage"} BY <1>0, LineIs
<1> DEFINE none == <<>>
           n == Len(rowQueue)
           m == Len(batch[t])
           l == Len(rowQueue')
           New(r) == r \in ToSet(batch[t])
<1>3. batch' = [batch EXCEPT ![t] = none] BY DEF Push, PushCounting
<1>4. ToSet(none) = {} /\ Len(none) = 0 BY EmptyQueueFacts
<1> HIDE DEF none
<1>5. \A r : New(r) => r \in ToSet(batch[Folder]) \/ r \in sealed BY <1>2
<1>6. \/ batch'[Folder] = batch[Folder]
      \/ ToSet(batch'[Folder]) = {} /\ Len(batch'[Folder]) = 0
  <2>1. CASE t = Folder
    <3>1. batch'[Folder] = none BY <1>0, <1>3, <2>1
    <3> QED BY <1>4, <3>1
  <2>2. CASE t # Folder BY <1>0, <1>3, <1>a, <2>2
  <2> QED BY <2>1, <2>2
<1>7. RowsOf(rowQueue') \subseteq RowsOf(rowQueue) \union ToSet(batch[t]) BY <1>0, PushRows
<1>8. ToSet(batch[t]) = {batch[t][i] : i \in 1..m} /\ m \in Nat BY <1>0, QueueDomains
<1>9. PICK cut \in Nat :
        \A i \in 1..l :
          \/ cut + i \in 1..n /\ rowQueue'[i].row = rowQueue[cut + i].row
          \/ \E j \in 1..m : cut + i = n + j /\ rowQueue'[i].row = batch[t][j]
  BY <1>0, PushedRows
<1>10. n \in Nat /\ l \in Nat BY <1>0, LineIs, LineIsNext
<1>11. ASSUME NEW r, NEW q, Precedes(r, q)' PROVE Precedes(r, q) \/ r \in sealed \/ q \in sealed
  <2>1. CASE r \in Recorded' /\ q \in RowsOf(rowQueue') \union ToSet(batch'[Folder])
    <3>1. q \in RowsOf(rowQueue) \union ToSet(batch[Folder]) \/ q \in sealed
      BY <1>5, <1>6, <1>7, <2>1
    <3> QED BY <1>0, <2>1, <3>1, LineIs
  <2>2. ASSUME NEW i \in 1..l, NEW j \in 1..l, i < j, r = rowQueue'[i].row, q = rowQueue'[j].row
        PROVE  Precedes(r, q) \/ r \in sealed \/ q \in sealed
    <3>1. i \in Int /\ j \in Int /\ i < j /\ cut \in Nat BY <1>10, <2>2
    <3>2. CASE cut + i \in 1..n /\ r = rowQueue[cut + i].row
      <4>1. r \in RowsOf(rowQueue) BY <1>0, <3>2, LineIs
      <4>2. CASE cut + j \in 1..n /\ q = rowQueue[cut + j].row
        <5>1. cut + i < cut + j BY <3>1
        <5> QED BY <1>0, <3>2, <4>2, <5>1, LineIs
      <4>3. ASSUME NEW g \in 1..m, q = batch[t][g]
            PROVE Precedes(r, q) \/ r \in sealed \/ q \in sealed
        <5>1. q \in ToSet(batch[Folder]) \/ q \in sealed BY <1>5, <1>8, <4>3
        <5> QED BY <1>0, <4>1, <5>1, LineIs
      <4> QED BY <1>9, <2>2, <4>2, <4>3
    <3>3. ASSUME NEW h \in 1..m, cut + i = n + h, r = batch[t][h]
          PROVE  Precedes(r, q) \/ r \in sealed \/ q \in sealed
      <4>1. ~(cut + j \in 1..n) BY <1>8, <1>10, <3>1, <3>3
      <4>2. PICK g \in 1..m : cut + j = n + g /\ q = batch[t][g] BY <1>9, <2>2, <4>1
      <4>3. h < g BY <1>8, <1>10, <3>1, <3>3, <4>2
      <4>4. CASE t = Folder BY <1>0, <3>3, <4>2, <4>3, <4>4, LineIs
      <4>5. CASE t = "ui"
        <5>1. r \in ToSet(batch["ui"]) BY <1>8, <3>3, <4>5
        <5> QED BY <5>1
      <4> QED BY <1>2, <4>4, <4>5
    <3> QED BY <1>9, <2>2, <3>2, <3>3
  <2>3. CASE r \in RowsOf(rowQueue') /\ q \in ToSet(batch'[Folder])
    <3>1. batch'[Folder] = batch[Folder] BY <1>6, <2>3
    <3>2. t = "ui" \/ ToSet(batch[Folder]) = {} BY <1>0, <1>2, <1>3, <1>4, <3>1, LineIs
    <3>3. r \in RowsOf(rowQueue) \/ r \in sealed BY <1>7, <2>3, <3>1, <3>2
    <3> QED BY <1>0, <2>3, <3>1, <3>3, LineIs
  <2>4. ASSUME NEW i \in 1..Len(batch'[Folder]), NEW j \in 1..Len(batch'[Folder]), i < j,
               r = batch'[Folder][i], q = batch'[Folder][j]
        PROVE  Precedes(r, q)
    <3>1. batch'[Folder] = batch[Folder] BY <1>6, <2>4
    <3> QED BY <1>0, <2>4, <3>1, LineIs
  <2> QED BY <1>11, <2>1, <2>2, <2>3, <2>4, LineIsNext
<1>12. \A r \in Line' : r \in Line \/ r \in sealed
  BY <1>0, <1>5, <1>6, <1>7, LineIs, LineIsNext
<1> QED BY <1>0, <1>11, <1>12, PrecedesInLine DEF LineMoves

LEMMA DrainMoves ==
  ASSUME IndInv, [Next]_vars, DrainOldest, ~StartRecording, UNCHANGED batch
  PROVE  LineMoves
<1>0. Typed /\ Typed' BY TypedStep DEF IndInv
<1>1. PICK n \in 0..Len(rowQueue) :
         /\ TakenAway(n)
         /\ \A r \in Recorded' : r \in Recorded \/ \E j \in 1..n : r = rowQueue[j].row
  BY RecordedStep
<1>2. /\ n \in Nat /\ n <= Len(rowQueue) /\ Len(rowQueue') = Len(rowQueue) - n
      /\ Len(rowQueue) \in Nat
      /\ \A i \in 1..Len(rowQueue') : rowQueue'[i] = rowQueue[n + i]
  BY <1>0, <1>1, LineIs DEF TakenAway
<1>3. /\ \A i \in 1..Len(rowQueue') : n + i \in 1..Len(rowQueue)
      /\ \A i, j \in 1..Len(rowQueue') : i < j => n + i < n + j
      /\ \A i \in 1..n : i \in 1..Len(rowQueue) /\ \A j \in 1..Len(rowQueue') : i < n + j
  BY <1>2
<1>4. RowsOf(rowQueue') \subseteq RowsOf(rowQueue)
  <2>1. RowsOf(rowQueue') = {rowQueue'[i].row : i \in 1..Len(rowQueue')} BY <1>0, LineIsNext
  <2>2. RowsOf(rowQueue) = {rowQueue[i].row : i \in 1..Len(rowQueue)} BY <1>0, LineIs
  <2> QED BY <1>2, <1>3, <2>1, <2>2
<1>5. \A r \in Recorded' : r \in Recorded \/ r \in RowsOf(rowQueue)
  BY <1>0, <1>1, <1>3, LineIs
<1>6. ASSUME NEW r, NEW q, Precedes(r, q)' PROVE Precedes(r, q)
  <2>1. CASE r \in Recorded' /\ q \in ToSet(batch[Folder]) BY <1>0, <1>5, <2>1, LineIs
  <2>2. CASE r \in Recorded' /\ q \in RowsOf(rowQueue')
    <3>1. CASE r \in Recorded BY <1>0, <1>4, <2>2, <3>1, LineIs
    <3>2. ASSUME NEW i \in 1..n, r = rowQueue[i].row PROVE Precedes(r, q)
      <4>1. PICK j \in 1..Len(rowQueue') : q = rowQueue[n + j].row
        BY <1>0, <1>2, <2>2, LineIsNext
      <4> QED BY <1>0, <1>3, <3>2, <4>1, LineIs
    <3> QED BY <1>1, <2>2, <3>1, <3>2
  <2>3. ASSUME NEW i \in 1..Len(rowQueue'), NEW j \in 1..Len(rowQueue'), i < j,
               r = rowQueue'[i].row, q = rowQueue'[j].row
        PROVE  Precedes(r, q)
    BY <1>0, <1>2, <1>3, <2>3, LineIs
  <2>4. CASE r \in RowsOf(rowQueue') /\ q \in ToSet(batch[Folder]) BY <1>0, <1>4, <2>4, LineIs
  <2>5. CASE \E i, j \in 1..Len(batch[Folder]) : i < j /\ r = batch[Folder][i] /\ q = batch[Folder][j]
    BY <1>0, <2>5, LineIs
  <2> QED BY <1>0, <1>6, <2>1, <2>2, <2>3, <2>4, <2>5, LineIsNext
<1>7. \A r \in Line' : r \in Line BY <1>0, <1>4, <1>5, LineIs, LineIsNext
<1> QED BY <1>0, <1>6, <1>7, PrecedesInLine DEF LineMoves

LEMMA LineStep ==
  ASSUME IndInv, [Next]_vars, ~StartRecording, pc[Other] = "idle",
         ToSet(batch["ui"]) \subseteq sealed
  PROVE  LineMoves
<1>0. /\ Typed /\ Typed' /\ batch \in [Threads -> Seq(RowType)]
      /\ Folder \in {"worker", "stage"} /\ Folder \in Threads
  BY TypedStep, LineIs DEF IndInv, Typed, ThreadTypes
<1>1. DrainOldest \/ UNCHANGED Recorded BY RecordedStep
<1>2. ASSUME NEW t \in Threads, FoldSample(t) PROVE LineMoves
  <2>1. UNCHANGED <<appended, session>> BY <1>2 DEF FoldSample, uiVars
  <2>2. UNCHANGED Recorded BY <2>1 DEF Recorded
  <2> QED BY <1>0, <1>2, <2>2, FoldMoves
<1>3. ASSUME NEW t \in Threads, Push(t) PROVE LineMoves
  <2>1. UNCHANGED <<appended, session>> BY <1>3 DEF Push, PushCounting
  <2>2. UNCHANGED Recorded BY <2>1 DEF Recorded
  <2> QED BY <1>0, <1>3, <2>2, PushMoves
<1>4. CASE Poll \/ FlushDrain
  <2>1. DrainOldest /\ UNCHANGED batch BY <1>4 DEF Poll, FlushDrain, threadVars
  <2> QED BY <2>1, DrainMoves
<1>5. ASSUME UNCHANGED Recorded, batch'[Folder] = batch[Folder],
             UNCHANGED rowQueue \/ rowQueue' = <<>>
      PROVE  LineMoves
  <2>1. rowQueue' = <<>> => Len(rowQueue') = 0 OBVIOUS
  <2>2. rowQueue' = <<>> => RowsOf(rowQueue') = {} BY DEF RowsOf
  <2>3. ASSUME NEW r, NEW q, Precedes(r, q)' PROVE Precedes(r, q)
    <3>1. CASE UNCHANGED rowQueue BY <1>0, <1>5, <2>3, <3>1, LineIs, LineIsNext
    <3>2. CASE rowQueue' = <<>> BY <1>0, <1>5, <2>1, <2>2, <2>3, <3>2, LineIs, LineIsNext
    <3> QED BY <1>5, <3>1, <3>2
  <2>4. \A r \in Line' : r \in Line BY <1>0, <1>5, <2>2, LineIs, LineIsNext
  <2> QED BY <1>0, <2>3, <2>4, PrecedesInLine DEF LineMoves
<1>6. CASE ConfigureQueue
  <2>1. rowQueue' = <<>> /\ UNCHANGED <<batch, appended, session>>
    BY <1>6 DEF ConfigureQueue, threadVars
  <2>2. UNCHANGED Recorded BY <2>1 DEF Recorded
  <2> QED BY <1>5, <2>1, <2>2
<1>7. CASE SealRow
  <2> DEFINE single == <<openRow>>
  <2>1. UNCHANGED <<rowQueue, appended, session>> BY <1>7 DEF SealRow, queueVars
  <2>2. UNCHANGED batch \/ batch' = [batch EXCEPT !["ui"] = single] BY <1>7 DEF SealRow
  <2> HIDE DEF single
  <2>3. batch'[Folder] = batch[Folder] BY <1>0, <2>2
  <2>4. UNCHANGED Recorded BY <2>1 DEF Recorded
  <2> QED BY <1>5, <2>1, <2>3, <2>4
<1>8. CASE UNCHANGED <<rowQueue, batch, appended>>
  <2>1. UNCHANGED Recorded
    <3>1. UNCHANGED session BY SessionStep
    <3> QED BY <1>8, <3>1 DEF Recorded
  <2> QED BY <1>5, <1>8, <2>1
<1>9. \/ \E t \in Threads : FoldSample(t) \/ Push(t)
      \/ Poll \/ FlushDrain \/ ConfigureQueue \/ SealRow
      \/ UNCHANGED <<rowQueue, batch, appended>>
  <2>1. \A t \in Threads : Enter(t) \/ Consumed(t) \/ Allocate(t) => UNCHANGED batch
    BY DEF Enter, Consumed, Allocate
  <2>2. WorkerTake \/ StageTake => UNCHANGED batch BY DEF WorkerTake, StageTake
  <2> QED BY <2>1, <2>2, Frames DEF ChangesThreads, ChangesQueue
<1> QED BY <1>2, <1>3, <1>4, <1>6, <1>7, <1>8, <1>9

LEMMA SealedGrows ==
  ASSUME [Next]_vars
  PROVE  sealed \subseteq sealed'
<1>1. SealRow => sealed \subseteq sealed' BY DEF SealRow
<1> QED BY <1>1, Frames

\* The user interface thread publishes what it sealed.
LEMMA UiSealedStep ==
  ASSUME IndInv, [Next]_vars, ToSet(batch["ui"]) \subseteq sealed
  PROVE  ToSet(batch'["ui"]) \subseteq sealed'
<1>0. /\ Typed /\ ThreadsInTurn /\ batch \in [Threads -> Seq(RowType)] /\ openRow \in RowType
      /\ "ui" \in Threads
  BY Constants DEF IndInv, Typed, ThreadTypes
<1>1. batch'["ui"] = batch["ui"] \/ ToSet(batch'["ui"]) = {} \/ ToSet(batch'["ui"]) \subseteq sealed'
  <2> DEFINE Goal == \/ batch'["ui"] = batch["ui"] \/ ToSet(batch'["ui"]) = {}
                     \/ ToSet(batch'["ui"]) \subseteq sealed'
  <2>1. ASSUME NEW t \in Threads, FoldSample(t) PROVE Goal
    <3> DEFINE longer == Append(batch[t], openRow)
    <3>1. UNCHANGED batch \/ batch' = [batch EXCEPT ![t] = longer] BY <2>1 DEF FoldSample
    <3>2. pc[t] = "fold" BY <2>1 DEF FoldSample
    <3>3. t # "ui" BY <1>0, <3>2 DEF ThreadsInTurn
    <3> HIDE DEF longer
    <3> QED BY <1>0, <3>1, <3>3
  <2>2. ASSUME NEW t \in Threads, Push(t) PROVE Goal
    <3> DEFINE none == <<>>
    <3>1. batch' = [batch EXCEPT ![t] = none] BY <2>2 DEF Push, PushCounting
    <3>2. ToSet(none) = {} BY EmptyQueueFacts
    <3> HIDE DEF none
    <3> QED BY <1>0, <3>1, <3>2
  <2>3. CASE SealRow /\ openRow # NoRow
    <3>1. PICK single \in Seq(RowType) :
            batch' = [batch EXCEPT !["ui"] = single] /\ ToSet(single) = {openRow}
      BY <2>3, SealShape DEF Sealing
    <3>2. sealed' = sealed \union {openRow} BY <2>3 DEF SealRow
    <3> QED BY <1>0, <3>1, <3>2
  <2>4. CASE SealRow /\ openRow = NoRow
    <3>1. UNCHANGED batch BY <2>4 DEF SealRow
    <3> QED BY <3>1
  <2>5. \A t \in Threads : Enter(t) \/ Consumed(t) \/ Allocate(t) => UNCHANGED batch
    BY DEF Enter, Consumed, Allocate
  <2>6. WorkerTake \/ StageTake => UNCHANGED batch BY DEF WorkerTake, StageTake
  <2> QED BY <2>1, <2>2, <2>3, <2>4, <2>5, <2>6, Frames DEF ChangesThreads
<1> QED BY <1>1, SealedGrows

\* Rows of a recording that is over, or was over before the drain, stay in order.
LEMMA AppendedOrderStep ==
  ASSUME IndInv, [Next]_vars, TimeOrder
  PROVE  \A i, j \in DOMAIN appended' :
           i < j /\ appended'[i].session = appended'[j].session =>
             \/ appended'[i].row.bucket < appended'[j].row.bucket
             \/ appended'[i].row \in sealed' \/ appended'[j].row \in sealed'
             \/ \E b \in serial' : origin'[b] = appended'[i].session
<1>0. /\ Typed /\ DOMAIN appended' = 1..Len(appended') /\ DOMAIN appended = 1..Len(appended)
      /\ Len(appended) \in Nat
  BY TypedStep, LenProperties DEF IndInv, Typed, QueueTypes
<1>1. \A r, q : InOrder(r, q) => (r.bucket < q.bucket \/ r \in sealed' \/ q \in sealed')
  BY SealedGrows DEF InOrder
<1>2. \A s : Overtaken(s) => \E b \in serial' : origin'[b] = s
  <2>1. ASSUME NEW s, Overtaken(s) PROVE \E b \in serial' : origin'[b] = s
    BY <2>1, OvertakenStays DEF Overtaken
  <2> QED BY <2>1
<1>3. \A i, j \in 1..Len(appended) :
        i < j /\ appended[i].session = appended[j].session =>
          InOrder(appended[i].row, appended[j].row) \/ Overtaken(appended[i].session)
  BY <1>0 DEF TimeOrder
<1> DEFINE Fine(i, j) ==
      \/ appended'[i].row.bucket < appended'[j].row.bucket
      \/ appended'[i].row \in sealed' \/ appended'[j].row \in sealed'
      \/ \E b \in serial' : origin'[b] = appended'[i].session
<1>4. CASE UNCHANGED appended
  <2>1. ASSUME NEW i \in 1..Len(appended'), NEW j \in 1..Len(appended'), i < j,
               appended'[i].session = appended'[j].session
        PROVE  Fine(i, j)
    <3>1. InOrder(appended[i].row, appended[j].row) \/ Overtaken(appended[i].session)
      BY <1>3, <1>4, <2>1
    <3> QED BY <1>1, <1>2, <1>4, <3>1
  <2> QED BY <1>0, <2>1
<1>5. CASE DrainOldest
  <2>1. PICK n \in 0..Len(rowQueue) : TakenAway(n) BY <1>0, <1>5, DrainShape
  <2>2. Overtaken(session) \/ \A r, q : Precedes(r, q) => InOrder(r, q)
    BY <1>0, PrecedesInLine DEF TimeOrder, InTime
  <2>3. \A i \in 1..Len(appended') :
          \/ i \in 1..Len(appended) /\ appended'[i] = appended[i]
          \/ \E g \in 1..n : /\ i = Len(appended) + g /\ g \in 1..Len(rowQueue)
                             /\ appended'[i].session = session /\ appended'[i].row = rowQueue[g].row
    BY <1>0, <2>1, AppendedRow
  <2>4. ASSUME NEW i \in 1..Len(appended'), NEW j \in 1..Len(appended'), i < j,
               appended'[i].session = appended'[j].session
        PROVE  Fine(i, j)
    <3>1. CASE j \in 1..Len(appended)
      <4>1. i \in 1..Len(appended) /\ i \in Int /\ j \in Int BY <1>0, <2>4, <3>1
      <4>2. \A k \in 1..Len(appended) : appended'[k] = appended[k] BY <2>1 DEF TakenAway
      <4>3. InOrder(appended[i].row, appended[j].row) \/ Overtaken(appended[i].session)
        BY <1>3, <2>4, <3>1, <4>1, <4>2
      <4> QED BY <1>1, <1>2, <3>1, <4>1, <4>2, <4>3
    <3>2. CASE j \notin 1..Len(appended)
      <4>1. PICK h \in 1..n : /\ j = Len(appended) + h /\ h \in 1..Len(rowQueue)
                              /\ appended'[j].session = session /\ appended'[j].row = rowQueue[h].row
        BY <2>3, <3>2
      <4>2. appended'[i].session = session BY <2>4, <4>1
      <4>3. Overtaken(session) => Fine(i, j) BY <1>2, <4>2
      <4>4. Precedes(appended'[i].row, appended'[j].row)
        <5>1. CASE i \in 1..Len(appended) /\ appended'[i] = appended[i]
          <6>1. appended'[i].row \in Recorded BY <1>0, <4>2, <5>1 DEF Recorded
          <6>2. appended'[j].row \in RowsOf(rowQueue) BY <1>0, <4>1, LineIs
          <6> QED BY <1>0, <6>1, <6>2, LineIs
        <5>2. ASSUME NEW g \in 1..n, i = Len(appended) + g, g \in 1..Len(rowQueue),
                     appended'[i].row = rowQueue[g].row
              PROVE  Precedes(appended'[i].row, appended'[j].row)
          <6>1. g \in Int /\ h \in Int /\ Len(appended) \in Int BY <1>0
          <6>2. g < h BY <2>4, <4>1, <5>2, <6>1
          <6> QED BY <1>0, <4>1, <5>2, <6>2, LineIs
        <5> QED BY <2>3, <5>1, <5>2
      <4>5. (\A r, q : Precedes(r, q) => InOrder(r, q)) => Fine(i, j) BY <1>1, <4>4
      <4> QED BY <2>2, <4>3, <4>5
    <3> QED BY <3>1, <3>2
  <2> QED BY <1>0, <2>4
<1> QED BY <1>4, <1>5, Frames DEF Poll, FlushDrain

\* A step that starts no recording keeps the line in order, unless a block is overtaken.
LEMMA InTimeStep ==
  ASSUME IndInv, [Next]_vars, ~StartRecording, ~timedOut, InTime,
         ToSet(batch["ui"]) \subseteq sealed, ~Overtaken(session)'
  PROVE  InTime'
<1>0. /\ Typed /\ ThreadsInTurn /\ openRow \in RowType /\ sealed \subseteq sealed'
      /\ Blocks \subseteq Nat
  BY SealedGrows, Constants DEF IndInv, Typed, ThreadTypes
<1>1. /\ pc[Other] = "idle"
      /\ \A b \in Blocks, i \in Nat : Pending(b, i) /\ openRow # NoRow => openRow.bucket <= Span[b][i]
      /\ \A r \in Line : Past(r)
      /\ \A r, q : Precedes(r, q) => InOrder(r, q)
  BY <1>0, PrecedesInLine DEF InTime
<1>2. LineMoves BY <1>1, LineStep
<1>3. \/ UNCHANGED openRow \/ openRow' = NoRow
      \/ \E t \in Threads : FoldSample(t) /\ openRow'.bucket = Span[hand[t]][cursor]
  <2>1. \A t \in Threads : Enter(t) => UNCHANGED openRow BY DEF Enter
  <2>2. SealRow => openRow' = NoRow BY DEF SealRow
  <2>3. ASSUME NEW t \in Threads, FoldSample(t) PROVE openRow'.bucket = Span[hand[t]][cursor]
    <3> DEFINE bucket == Span[hand[t]][cursor]
               s == <<hand[t], cursor>>
    <3>1. openRow' = IF openRow.bucket = bucket
                       THEN [openRow EXCEPT !.samples = @ \union {s}]
                       ELSE [bucket |-> bucket, samples |-> {s}, config |-> config]
      BY <2>3 DEF FoldSample
    <3> HIDE DEF bucket, s
    <3>2. openRow'.bucket = bucket BY <1>0, <3>1 DEF RowType
    <3> QED BY <3>2 DEF bucket
  <2> QED BY <2>1, <2>2, <2>3, Frames DEF ChangesFold
<1>4. \A t \in Threads : FoldSample(t) =>
         /\ Pending(hand[t], cursor) /\ hand[t] \in Blocks /\ cursor \in Nat
         /\ Span[hand[t]][cursor] \in Nat
         /\ \A b \in Blocks, i \in Nat : Pending(b, i) => Span[hand[t]][cursor] <= Span[b][i]
  <2> SUFFICES ASSUME NEW t \in Threads, FoldSample(t)
               PROVE  /\ Pending(hand[t], cursor) /\ hand[t] \in Blocks /\ cursor \in Nat
                      /\ Span[hand[t]][cursor] \in Nat
                      /\ \A b \in Blocks, i \in Nat : Pending(b, i) => Span[hand[t]][cursor] <= Span[b][i]
    OBVIOUS
  <2>1. \A b \in Blocks, i \in Nat : Pending(b, i) => Span[hand[t]][cursor] <= Span[b][i]
    BY <1>1, FoldsEarliest
  <2> QED BY <1>0, <2>1, FoldTypes, FoldsPending
<1>5. \A b \in Blocks, i \in Nat : Pending(b, i) => Span[b][i] \in Nat
  BY Constants DEF Pending
<1>6. \A b, i : Pending(b, i)' => Pending(b, i)
  <2> SUFFICES ASSUME NEW b, NEW i, Pending(b, i)' PROVE Pending(b, i) OBVIOUS
  <2> QED BY PendingStep
<1>7. pc'[Other] = "idle" BY <1>1, OtherStep
<1>8. ASSUME NEW b \in Blocks, NEW i \in Nat, Pending(b, i), openRow' # NoRow
      PROVE  openRow'.bucket <= Span[b][i]
  <2>1. CASE UNCHANGED openRow BY <1>1, <1>8, <2>1
  <2>2. ASSUME NEW t \in Threads, FoldSample(t), openRow'.bucket = Span[hand[t]][cursor]
        PROVE  openRow'.bucket <= Span[b][i]
    BY <1>4, <1>8, <2>2
  <2> QED BY <1>3, <1>8, <2>1, <2>2
\* What is still to be folded is later than a row of the line, or than the row just closed.
<1> DEFINE Passed(r) ==
      \/ r \in sealed'
      \/ /\ openRow' # NoRow => r.bucket < openRow'.bucket
         /\ \A b \in Blocks, i \in Nat : Pending(b, i)' => r.bucket < Span[b][i]
<1>9. ASSUME NEW r, Past(r) PROVE Passed(r)
  <2>1. CASE r \in sealed BY <1>0, <2>1
  <2>2. CASE /\ openRow # NoRow => r.bucket < openRow.bucket
             /\ \A b \in Blocks, i \in Nat : Pending(b, i) => r.bucket < Span[b][i]
    <3>1. openRow' # NoRow => r.bucket < openRow'.bucket BY <1>3, <1>4, <2>2
    <3> QED BY <1>6, <2>2, <3>1
  <2> QED BY <1>9, <2>1, <2>2 DEF Past
<1>10. ASSUME NEW r, Closes(r) PROVE Passed(r)
  <2>1. PICK t \in Threads : /\ FoldSample(t) /\ r = openRow /\ openRow # NoRow
                             /\ openRow.bucket # Span[hand[t]][cursor]
    BY <1>10 DEF Closes
  <2> DEFINE bucket == Span[hand[t]][cursor]
  <2>2. r.bucket \in Nat /\ r.bucket <= bucket /\ r.bucket # bucket /\ bucket \in Nat
    BY <1>0, <1>1, <1>4, <2>1 DEF RowType
  <2>3. openRow' # NoRow => openRow'.bucket = bucket
    <3> DEFINE s == <<hand[t], cursor>>
    <3>1. openRow' = [bucket |-> bucket, samples |-> {s}, config |-> config]
      BY <2>1 DEF FoldSample
    <3> HIDE DEF bucket, s
    <3> QED BY <3>1
  <2>4. \A b \in Blocks, i \in Nat : Pending(b, i)' => bucket <= Span[b][i] /\ Span[b][i] \in Nat
    BY <1>4, <1>5, <1>6, <2>1
  <2> HIDE DEF bucket
  <2>5. r.bucket < bucket BY <2>2
  <2>6. ASSUME NEW b \in Blocks, NEW i \in Nat, Pending(b, i)' PROVE r.bucket < Span[b][i]
    <3> DEFINE x == r.bucket
               y == Span[b][i]
    <3>1. x \in Nat /\ x < bucket /\ bucket \in Nat /\ bucket <= y /\ y \in Nat
      BY <2>2, <2>4, <2>5, <2>6
    <3> HIDE DEF x, y
    <3>2. x < y BY <3>1
    <3> QED BY <3>2 DEF x, y
  <2> QED BY <2>3, <2>5, <2>6
<1>11. \A r \in Line' : Passed(r)
  BY <1>1, <1>2, <1>0, <1>9, <1>10 DEF LineMoves
<1>12. ASSUME NEW r, NEW q, Precedes(r, q)'
       PROVE  r.bucket < q.bucket \/ r \in sealed' \/ q \in sealed'
  <2>1. CASE Precedes(r, q) BY <1>0, <1>1, <2>1 DEF InOrder
  <2>2. CASE r \in Line /\ Closes(q)
    <3>1. q = openRow /\ openRow # NoRow BY <2>2 DEF Closes
    <3> QED BY <1>0, <1>1, <2>2, <3>1 DEF Past
  <2>3. CASE r \in sealed \/ q \in sealed BY <1>0, <2>3
  <2> QED BY <1>2, <1>12, <2>1, <2>2, <2>3 DEF LineMoves
<1>13. \A r \in Line' : Past(r)'
  <2> SUFFICES ASSUME NEW r \in Line' PROVE Past(r)' OBVIOUS
  <2>1. Passed(r) BY <1>11
  <2> QED BY <2>1 DEF Past
<1>14. \A r, q \in Line' : Precedes(r, q)' => InOrder(r, q)'
  <2> SUFFICES ASSUME NEW r \in Line', NEW q \in Line', Precedes(r, q)' PROVE InOrder(r, q)' OBVIOUS
  <2> QED BY <1>12 DEF InOrder
<1>15. \A b \in Blocks, i \in Nat : Pending(b, i)' /\ openRow' # NoRow => openRow'.bucket <= Span[b][i]
  BY <1>6, <1>8
<1>16. Other' = Other BY DEF Other
<1> QED BY <1>7, <1>13, <1>14, <1>15, <1>16 DEF InTime

\* A recording begins with an empty line.
LEMMA InTimeStarts ==
  ASSUME IndInv, [Next]_vars, StartRecording, ~timedOut
  PROVE  InTime'
<1>0. /\ Typed /\ ThreadsInTurn /\ ClosesSettled
      /\ session \in Int /\ \A i \in DOMAIN appended : appended[i].session <= session
  BY DEF IndInv, Typed, ControlTypes, OwnRecording
<1>a. Typed' /\ Threads = {"worker", "stage", "ui"} BY TypedStep, Constants
<1>1. /\ OnTheWay' = {} /\ \A x \in Stations \ {"source"} : Station(x)' = {} BY StartsEmpty
<1>2. /\ control = "configure" /\ openRow' = NoRow /\ session' = session + 1
      /\ UNCHANGED <<pc, appended>>
  BY DEF StartRecording, threadVars
<1>3. pc'[Other] = "idle"
  <2>1. Quiet BY <1>0, <1>2 DEF ClosesSettled
  <2> QED BY <1>2, <2>1 DEF Quiet, Other
<1>4. Recorded' = {}
  <2> SUFFICES ASSUME NEW i \in DOMAIN appended, appended[i].session = session + 1 PROVE FALSE
    BY <1>2 DEF Recorded
  <2>1. appended[i].session <= session BY <1>0
  <2>2. \A k \in DOMAIN appended : appended[k].session \in Int
    <3>1. appended \in Seq(AppendedRows) BY <1>0 DEF Typed, QueueTypes
    <3>2. \A k \in DOMAIN appended : appended[k] \in AppendedRows
      BY <3>1, LenProperties, ElementOfSeq
    <3> QED BY <3>2 DEF AppendedRows
  <2> QED BY <1>0, <2>1, <2>2
<1>5. Line' = {}
  <2>1. Line' = Recorded' \union RowsOf(rowQueue') \union ToSet(batch'[Folder])
    BY <1>a, LineIsNext
  <2>2. OnTheWay' = ({openRow'} \ {NoRow}) \union ToSet(batch'["worker"])
                      \union ToSet(batch'["stage"]) \union ToSet(batch'["ui"]) \union RowsOf(rowQueue')
    BY <1>a, NextPlaces DEF OnTheWay
  <2>3. Folder \in {"worker", "stage"} BY DEF Folder
  <2> QED BY <1>1, <1>4, <2>1, <2>2, <2>3
<1>6. Other' = Other BY DEF Other
<1>7. \A r \in Line' : Past(r)' BY <1>5
<1>8. \A r, q \in Line' : Precedes(r, q)' => InOrder(r, q)' BY <1>5
<1> QED BY <1>2, <1>3, <1>6, <1>7, <1>8 DEF InTime

LEMMA TimeStep ==
  ASSUME IndInv, [Next]_vars
  PROVE  TimeInv'
<1>1. CASE timedOut' BY <1>1 DEF TimeInv
<1>2. CASE ~timedOut'
  <2>1. ~timedOut
    <3>1. FlushTimeout => timedOut' = TRUE BY DEF FlushTimeout
    <3> QED BY <1>2, <3>1, SessionStep
  <2>2. TimeOrder BY <2>1 DEF IndInv, TimeInv
  <2>3. ToSet(batch["ui"]) \subseteq sealed BY <2>2 DEF TimeOrder
  <2>4. ToSet(batch["ui"])' \subseteq sealed'
    <3>1. ToSet(batch["ui"])' = ToSet(batch'["ui"]) BY DEF ToSet
    <3> QED BY <2>3, <3>1, UiSealedStep
  <2>5. Overtaken(session)' \/ InTime'
    <3>1. CASE StartRecording BY <2>1, <3>1, InTimeStarts
    <3>2. CASE ~StartRecording
      <4>1. session' = session BY <3>2, SessionStep
      <4>2. Overtaken(session) => Overtaken(session)'
        <5> SUFFICES ASSUME Overtaken(session) PROVE Overtaken(session)' OBVIOUS
        <5>1. PICK s : s = session OBVIOUS
        <5>2. Overtaken(s)' BY <5>1, OvertakenStays
        <5> QED BY <4>1, <5>1, <5>2 DEF Overtaken
      <4>3. Overtaken(session) \/ InTime BY <2>2 DEF TimeOrder
      <4> QED BY <2>1, <2>3, <3>2, <4>2, <4>3, InTimeStep
    <3> QED BY <3>1, <3>2
  <2>6. (\A i, j \in DOMAIN appended :
           i < j /\ appended[i].session = appended[j].session =>
             InOrder(appended[i].row, appended[j].row) \/ Overtaken(appended[i].session))'
    BY <2>2, AppendedOrderStep DEF InOrder, Overtaken
  <2>7. TimeOrder' BY <2>4, <2>5, <2>6 DEF TimeOrder
  <2> QED BY <2>7 DEF TimeInv
<1> QED BY <1>1, <1>2

-----------------------------------------------------------------------------
(* The theorems                                                              *)

LEMMA NothingAtFirst ==
  ASSUME Init
  PROVE  /\ Typed /\ ThreadsInTurn
         /\ \A x \in Stations \ {"source"} : Station(x) = {}
         /\ \A p \in DOMAIN Places : Places[p] = {}
         /\ Line = {}
<1>0. \A t \in Threads : pc[t] = "idle" /\ hand[t] = 0 /\ batch[t] = <<>> BY DEF Init
<1>1. Typed
  <2>1. 1 \in 1..MaxBlocks + 1 /\ 0 \in 0..MaxSessions BY Constants
  <2>2. NoRow \in RowType BY DEF NoRow, RowType
  <2>3. /\ <<>> \in Seq(Blocks) /\ <<>> \in Seq(RowType) /\ <<>> \in Seq(QueuedRows)
        /\ <<>> \in Seq(AppendedRows) /\ Len(<<>>) = 0
    BY EmptySeq
  <2>4. SourceTypes
    <3>1. /\ nextBlock = 1 /\ accepting = FALSE /\ input = <<>> /\ stageQueue = <<>>
          /\ origin = [b \in Blocks |-> 0] /\ serial = {}
      BY DEF Init
    <3>2. Len(stageQueue) <= StageCapacity BY <2>3, <3>1, Constants
    <3>3. accepting \in BOOLEAN BY <3>1, Zenon
    <3>4. nextBlock \in 1..MaxBlocks + 1 /\ origin \in [Blocks -> Int] /\ serial \subseteq Blocks
      BY <2>1, <3>1
    <3>5. input \in Seq(Blocks) /\ stageQueue \in Seq(Blocks) BY <2>3, <3>1
    <3> QED BY <3>2, <3>3, <3>4, <3>5, Zenon DEF SourceTypes
  <2>5. ThreadTypes BY <2>2, <2>3 DEF Init, ThreadTypes
  <2>6. QueueTypes BY <2>3, Constants DEF Init, QueueTypes
  <2>7. ControlTypes
    <3>1. control = "idle" /\ session = 0 /\ timedOut = FALSE /\ flushesLeft = 0 BY DEF Init
    <3>2. timedOut \in BOOLEAN BY <3>1, Zenon
    <3>3. flushesLeft \in Int /\ session \in 0..MaxSessions /\ control # "configure" BY <2>1, <3>1
    <3> QED BY <3>1, <3>2, <3>3, Zenon DEF ControlTypes
  <2> QED BY <2>4, <2>5, <2>6, <2>7 DEF Typed
<1>2. ThreadsInTurn
  <2>1. control = "idle" /\ stageQueue = <<>> BY DEF Init
  <2> QED BY <1>0, <2>1 DEF ThreadsInTurn, Threads
<1>3. \A x \in Stations \ {"source"} : Station(x) = {}
  <2>1. input = <<>> /\ stageQueue = <<>> BY DEF Init
  <2> QED BY <1>0, <2>1, EmptyQueueFacts DEF Stations, Station, Threads
<1>4. \A p \in DOMAIN Places : Places[p] = {}
  <2>1. /\ openRow = NoRow /\ rowQueue = <<>> /\ appended = <<>> /\ lost = {} /\ vanished = {}
    BY DEF Init
  <2>2. RowsOf(<<>>) = {} BY DEF RowsOf
  <2> QED BY <1>0, <2>1, <2>2, PlacesAre, EmptyQueueFacts DEF PlaceNames, Threads
<1>5. Line = {}
  <2>1. Recorded = {}
    <3>1. appended = <<>> BY DEF Init
    <3> QED BY <3>1 DEF Recorded
  <2>2. RowsOf(rowQueue) = {} /\ ToSet(batch[Folder]) = {}
    BY <1>4, PlacesAre, LineIs, <1>1 DEF PlaceNames
  <2> QED BY <2>1, <2>2 DEF Line
<1> QED BY <1>1, <1>2, <1>3, <1>4, <1>5

LEMMA InitEstablishes ==
  ASSUME Init
  PROVE  IndInv
<1>0. /\ Typed /\ ThreadsInTurn
      /\ \A x \in Stations \ {"source"} : Station(x) = {}
      /\ \A p \in DOMAIN Places : Places[p] = {}
      /\ Line = {}
  BY NothingAtFirst
<1>1. /\ input = <<>> /\ stageQueue = <<>> /\ rowQueue = <<>> /\ appended = <<>>
      /\ \A t \in Threads : pc[t] = "idle" /\ batch[t] = <<>>
      /\ openRow = NoRow /\ taken = {} /\ serial = {} /\ lost = {} /\ reported = 0
      /\ config = 0 /\ session = 0 /\ control = "idle" /\ accepting = FALSE /\ timedOut = FALSE
      /\ metrics = [pushed |-> 0, drained |-> 0, dropped |-> 0] /\ Len(<<>>) = 0
  BY DEF Init
<1>2. BlocksInOrder
  <2>1. Sorted(<<>>) BY DEF Sorted
  <2>2. \A x, y \in Stations : Ahead(x, y) => x # "source" BY DEF Ahead
  <2> QED BY <1>0, <1>1, <2>1, <2>2 DEF BlocksInOrder
<1>3. FoldedOnce BY <1>1 DEF FoldedOnce
<1>4. AllRows = {} BY <1>0 DEF AllRows
<1>5. EachInOnePlace /\ RowsApart BY <1>0, <1>1, <1>4 DEF EachInOnePlace, RowsApart
<1>6. ListedOnce BY <1>1, EmptyQueueFacts DEF ListedOnce, Distinct
<1>7. LostCounted BY <1>1, FS_EmptySet DEF LostCounted
<1>8. GridKept BY <1>1, EmptyQueueFacts DEF GridKept, MetadataMatchesRow
<1>9. ClosesSettled BY <1>1, Constants DEF ClosesSettled, Quiet
<1>10. OnTheWay = {} BY <1>0, PlacesAre DEF OnTheWay, PlaceNames
<1>11. OwnRecording BY <1>0, <1>1, <1>10 DEF OwnRecording, SessionHoldsItsOwn
<1>12. IdsGrow BY <1>1 DEF IdsGrow
<1>13. ServedArrived BY <1>1 DEF ServedArrived
<1>14. TimeInv
  <2>1. InTime BY <1>0, <1>1 DEF InTime, Other, Threads
  <2>2. ToSet(batch["ui"]) = {} BY <1>1, EmptyQueueFacts DEF Threads
  <2> QED BY <1>1, <2>1, <2>2 DEF TimeInv, TimeOrder
<1> QED BY <1>0, <1>2, <1>3, <1>5, <1>6, <1>7, <1>8, <1>9, <1>11, <1>12, <1>13, <1>14 DEF IndInv

LEMMA NextKeeps ==
  ASSUME IndInv, [Next]_vars
  PROVE  IndInv'
BY TypedStep, ThreadsStep, OrderStep, FoldedOnceStep, PlacesStep, LostStep, GridStep, ClosesStep,
   OwnStep, IdsStep, ServedStep, TimeStep DEF IndInv

\* The inductive invariant: every row in one place, every block at one station, the line of a
\* recording in the order of time.
THEOREM RowsInvariant == Spec => []IndInv
<1>1. Init => IndInv BY InitEstablishes
<1>2. IndInv /\ [Next]_vars => IndInv' BY NextKeeps
<1> QED BY <1>1, <1>2, PTL DEF Spec

\* The variables have their types, and a batch belongs to a thread exactly while the thread
\* folds or publishes it (ProcessingEngine::publishWaterfallRows).
THEOREM WaterfallTyped == Spec => []TypeOK
<1>1. IndInv => TypeOK
  <2> SUFFICES ASSUME IndInv PROVE TypeOK OBVIOUS
  <2>1. Typed /\ ThreadsInTurn BY DEF IndInv
  <2> QED BY <2>1 DEF TypeOK, Typed, SourceTypes, ThreadTypes, QueueTypes, ControlTypes, ThreadsInTurn
<1> QED BY <1>1, RowsInvariant, PTL

\* However many blocks, however deep the queues and whatever is dropped, reset or given up on:
\* every folded sample is in exactly one row, every row in exactly one place, and every row
\* the queue drops is counted and reported (WaterfallAggregator, WaterfallRowQueue).
THEOREM NoSampleLost == Spec => []SamplesAccounted
<1>1. IndInv => SamplesAccounted
  <2> SUFFICES ASSUME IndInv PROVE SamplesAccounted OBVIOUS
  <2>1. /\ Typed /\ RowsApart /\ EachInOnePlace /\ ListedOnce /\ LostCounted
        /\ rowQueue \in Seq(QueuedRows) /\ appended \in Seq(AppendedRows)
    BY DEF IndInv, Typed, QueueTypes
  <2>2. UNION {row.samples : row \in AllRows} = taken BY <2>1 DEF RowsApart
  <2>3. Cardinality(RowsOf(appended)) = Len(appended) /\ Cardinality(RowsOf(rowQueue)) = Len(rowQueue)
    BY <2>1, RowsByPlace DEF ListedOnce
  <2>4. SamplesConserved BY <2>1, <2>2, <2>3 DEF SamplesConserved, RowsApart, EachInOnePlace
  <2>5. DropsAccounted BY <2>1 DEF DropsAccounted, LostCounted
  <2> QED BY <2>4, <2>5 DEF SamplesAccounted
<1> QED BY <1>1, RowsInvariant, PTL

\* A row is queued and stored with the grid it was folded on, and in the recording its samples
\* were accepted in unless a flush has given up (RecordingController::stopRecording).
THEOREM RowsKeepTheirRecording == Spec => []RowsBelong
<1>1. IndInv => RowsBelong
  BY DEF IndInv, GridKept, OwnRecording, RowsBelong, SessionHoldsItsOwn
<1> QED BY <1>1, RowsInvariant, PTL

\* The rows of a recording are numbered upwards, and come in the order of time but for rows that
\* a flush closed early, as long as the worker did not overtake its stage in that recording.
THEOREM StoredInOrder == Spec => []StoredInTimeOrder
<1>1. IndInv => StoredInTimeOrder
  <2> SUFFICES ASSUME IndInv, ~timedOut,
                      NEW i \in DOMAIN appended, NEW j \in DOMAIN appended,
                      i < j, appended[i].session = appended[j].session
               PROVE  /\ appended[i].id < appended[j].id
                      /\ \/ appended[i].row.bucket < appended[j].row.bucket
                         \/ {appended[i].row, appended[j].row} \intersect sealed # {}
                         \/ \E b \in serial : origin[b] = appended[i].session
    BY DEF StoredInTimeOrder
  <2>1. appended[i].id < appended[j].id BY DEF IndInv, IdsGrow
  <2>2. TimeOrder BY DEF IndInv, TimeInv
  <2>3. InOrder(appended[i].row, appended[j].row) \/ Overtaken(appended[i].session)
    BY <2>2 DEF TimeOrder
  <2> QED BY <2>1, <2>3 DEF InOrder, Overtaken
<1> QED BY <1>1, RowsInvariant, PTL
=============================================================================
