------------------------ MODULE MCWaterfallDelivery ------------------------
(* The waterfall for TLC: the way of its rows (WaterfallDelivery) and their     *)
(* window on the screen (WaterfallView).  With Rows.cfg the initial state picks *)
(* one of three setups: a stage folds the blocks, the worker helps out and the  *)
(* row queue refuses new rows; the worker alone folds them, the row queue drops *)
(* its oldest rows and flushes give up; or the window is turned through two     *)
(* recordings, and the rows stay at rest.  With RowsLostAtStop.cfg a stop finds *)
(* more rows in the queue than its flushes drain.                              *)
EXTENDS WaterfallDelivery, WaterfallView

\* Blocks shorter and longer than a row, and one that shares a row with the block before it.
Overlapping == [b \in Blocks |-> IF b % 2 = 1 THEN <<b, b + 1>> ELSE <<b>>]

\* Every block closes the row of the block before it.
OneEach == [b \in Blocks |-> <<b>>]

VARIABLE setup
allVars == <<setup, vars, viewVars>>

\* The safety properties do not depend on these constants but for the depth of the stage.
Alone == INSTANCE WaterfallDelivery WITH
  StageCapacity <- 0, OverflowPolicy <- "DropOldest", FlushMayTimeOut <- TRUE

\* The second recording begins before the rows of the first one.
ClockSetBack == <<4, 1>>

ASSUME Alone!DeliveryAssumption

-----------------------------------------------------------------------------
InitOfOne ==
  /\ setup \in {"stage", "sequential", "view"}
  /\ Init /\ ViewInit

NextOfOne ==
  /\ \/ setup = "stage" /\ Next /\ UNCHANGED viewVars
     \/ setup = "sequential" /\ Alone!Next /\ UNCHANGED viewVars
     \/ setup = "view" /\ ViewNext /\ UNCHANGED vars
  /\ UNCHANGED setup

InStage(step) == setup = "stage" /\ step /\ UNCHANGED <<setup, viewVars>>
InView(step) == setup = "view" /\ step /\ UNCHANGED <<setup, vars>>

\* The fairness of FairSpec and ViewFairSpec; none where flushes give up.
SpecOfOne ==
  /\ InitOfOne /\ [][NextOfOne]_allVars
  /\ WF_allVars(InStage(WorkerStep) \/ InView(TakeRequest))
  /\ WF_allVars(InStage(StageStep) \/ InView(LoadHistoryRows))
  /\ WF_allVars(InStage(UiStep) \/ InView(ApplyHistoryLoadResult))

BacklogInit == setup = "stage" /\ Init /\ ViewInit

BacklogSpec == BacklogInit /\ [][NextOfOne]_allVars

-----------------------------------------------------------------------------
\* stopRecording, when no flush gives up: every block of the recording ends stored,
\* reported as not visible, or counted as lost (StopSettlesSamples).
FlushedStopSettles == setup = "stage" => StopSettlesSamples
=============================================================================
