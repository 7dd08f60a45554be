-------------------------- MODULE SnapshotDelivery --------------------------
(***************************************************************************)
(* How the summaries of the processing stages reach the scan.  A stage      *)
(* aggregates under its mutex and publishes after releasing it, into an     *)
(* exchange that keeps the latest value only; the GUI thread flushes,       *)
(* reconfigures, forces and polls the same aggregators and exchanges.  A    *)
(* handler of the GUI thread that stages can interleave with is a list of   *)
(* steps in `gui`, and no other handler runs until it is empty.             *)
(***************************************************************************)
EXTENDS Integers, Sequences, FiniteSets

CONSTANTS
  Stages,         \* the stages that publish: spectrum, bearing, parameters
  None,           \* no snapshot
  MaxBlocks,      \* bound: blocks ingested
  MaxRecordings,  \* bound: recordings started
  MaxScans,       \* bound: scans started
  MaxTimeouts     \* bound: flushes that time out

ASSUME SnapshotAssumption ==
  /\ Stages \subseteq {"spectrum", "bearing", "parameters"}
  /\ {"bearing", "parameters"} \subseteq Stages
  /\ {MaxBlocks, MaxRecordings, MaxScans, MaxTimeouts} \subseteq Nat
  /\ None \notin [id : Nat, blocks : SUBSET Nat]

VARIABLES
  \* the engine
  source,     \* the source delivers blocks
  todo,       \* blocks each stage has still to consume
  open,       \* blocks in its open window; all of them for the parameters
  nextId,     \* m_nextSnapshotSequenceId, m_nextSequenceId
  forced,     \* m_forceNextSnapshot
  held,       \* the snapshot a stage has built and not yet published
  latest,     \* SnapshotExchange
  \* the GUI thread
  gui,        \* steps left of the running handler
  built,      \* the snapshot it has built and not yet published
  flushed,    \* result of its last flush
  recording,  \* recordings started so far
  active,     \* RecordingController.recordingActive
  state,      \* ScanController.m_state; "idle" without a session
  scan,       \* scans started so far
  timers,     \* flushProcessingAsync: flushes to start
  posted,     \* flush callbacks in the event queue
  adapterLast, controllerLast,  \* last sequence ids seen, by stage
  bearings,   \* m_lastBearingResults, as the blocks they come from
  params,     \* m_latestDataPlaneSignalParameters, likewise
  \* history
  origin,     \* the recording of each block
  since,      \* the recording under way when the scan began to sweep
  timeouts,   \* flushes timed out
  overrun,    \* a recording ended with a flush that timed out
  result      \* what the last completed scan reported

stageVars == <<todo, open, nextId, forced, held>>
recordVars == <<recording, active, flushed, overrun, timeouts>>
scanVars == <<state, scan, timers, posted, since, result>>
seenVars == <<adapterLast, controllerLast, bearings, params>>
vars == <<source, stageVars, latest, gui, built, recordVars, scanVars, seenVars, origin>>

Of(r) == {b \in 1..Len(origin) : origin[b] = r}
Init ==
  /\ source = FALSE /\ origin = <<>>
  /\ todo = [s \in Stages |-> <<>>] /\ open = [s \in Stages |-> {}]
  /\ nextId = [s \in Stages |-> 1] /\ forced = TRUE
  /\ held = [s \in Stages |-> None] /\ latest = [s \in Stages |-> None]
  /\ gui = <<>> /\ built = None
  /\ recording = 0 /\ active = FALSE /\ flushed = TRUE
  /\ overrun = FALSE /\ timeouts = 0
  /\ state = "idle" /\ scan = 0 /\ timers = <<>> /\ posted = <<>>
  /\ since = 0 /\ result = None
  /\ adapterLast = [s \in Stages |-> 0] /\ controllerLast = [s \in Stages |-> 0]
  /\ bearings = {} /\ params = {}

-----------------------------------------------------------------------------
(* The stages.                                                               *)

Ingest ==
  /\ source /\ Len(origin) < MaxBlocks
  /\ origin' = Append(origin, recording)
  /\ todo' = [s \in Stages |-> Append(todo[s], Len(origin) + 1)]
  /\ UNCHANGED <<source, open, nextId, forced, held, latest, gui, built, recordVars,
                 scanVars, seenVars>>

Snapshot(s) == [id |-> nextId[s], blocks |-> open[s]]

\* A block of a later window closes the open one; the parameters of all the
\* blocks so far are published when the policy says so, and for the first block
Consume(s, publishes) ==
  /\ todo[s] # <<>> /\ held[s] = None
  /\ todo' = [todo EXCEPT ![s] = Tail(todo[s])]
  /\ IF s = "parameters"
     THEN /\ forced => publishes
          /\ open' = [open EXCEPT ![s] = @ \cup {Head(todo[s])}]
          /\ held' = [held EXCEPT ![s] = IF publishes
                                         THEN [id |-> nextId[s], blocks |-> open'[s]]
                                         ELSE None]
          /\ forced' = (forced /\ ~publishes)
     ELSE /\ publishes => open[s] # {}
          /\ open' = [open EXCEPT ![s] = (IF publishes THEN {} ELSE @) \cup {Head(todo[s])}]
          /\ held' = [held EXCEPT ![s] = IF publishes THEN Snapshot(s) ELSE None]
          /\ UNCHANGED forced
  /\ nextId' = [nextId EXCEPT ![s] = IF publishes THEN @ + 1 ELSE @]
  /\ UNCHANGED <<source, latest, gui, built, recordVars, scanVars, seenVars, origin>>

Publish(s) ==
  /\ held[s] # None
  /\ latest' = [latest EXCEPT ![s] = held[s]]
  /\ held' = [held EXCEPT ![s] = None]
  /\ UNCHANGED <<source, todo, open, nextId, forced, gui, built, recordVars, scanVars,
                 seenVars, origin>>

-----------------------------------------------------------------------------
(* The steps of the GUI thread's handlers.                                   *)

Step(op, s) == [op |-> op, stage |-> s]

\* flushAggregators: the parts of the engine that are configured
Flushed(s) == IF s \in Stages THEN <<Step("build", s), Step("publish", s)>> ELSE <<>>
FlushSteps ==
  <<Step("await", "none")>> \o Flushed("spectrum") \o Flushed("bearing") \o Flushed("parameters")
StartSteps == <<Step("reset", "bearing"), Step("configure", "bearing"),
                Step("reset", "parameters"), Step("configure", "parameters"),
                Step("sourceOn", "none")>>
\* Variant: the flush runs before the source is stopped.
StopStepsFlushFirst == FlushSteps \o <<Step("sourceOff", "none"), Step("recorded", "none")>>
StopSteps == <<Step("sourceOff", "none")>> \o FlushSteps \o <<Step("recorded", "none")>>

\* Variant: a stage that holds a snapshot is taken as done.
DrainedQueues == \A s \in Stages : todo[s] = <<>>
Drained == \A s \in Stages : todo[s] = <<>> /\ held[s] = None

Doing(op) == gui # <<>> /\ Head(gui).op = op
Proceed == gui' = Tail(gui)

\* flush of the engine: wait until everything is drained, or time out and flush nothing
AwaitDrained ==
  /\ Doing("await") /\ Drained
  /\ Proceed /\ flushed' = TRUE
  /\ UNCHANGED <<source, stageVars, latest, built, recording, active, overrun, timeouts,
                 scanVars, seenVars, origin>>

AwaitTimesOut ==
  /\ Doing("await") /\ ~Drained /\ timeouts < MaxTimeouts
  /\ timeouts' = timeouts + 1
  /\ gui' = SubSeq(gui, Len(FlushSteps) + 1, Len(gui))
  /\ flushed' = FALSE
  /\ overrun' = (overrun \/ \E i \in 1..Len(gui) : gui[i].op = "recorded")
  /\ UNCHANGED <<source, stageVars, latest, built, recording, active, scanVars, seenVars,
                 origin>>

\* An empty window is not published; forceSnapshot always is
Build ==
  /\ Doing("build") /\ Proceed
  /\ LET s == Head(gui).stage
         builds == s = "parameters" \/ open[s] # {}
     IN /\ built' = IF builds THEN Snapshot(s) ELSE None
        /\ nextId' = [nextId EXCEPT ![s] = IF builds THEN @ + 1 ELSE @]
        /\ open' = [open EXCEPT ![s] = IF s = "parameters" THEN @ ELSE {}]
        /\ forced' = (forced /\ s # "parameters")
  /\ UNCHANGED <<source, todo, held, latest, recordVars, scanVars, seenVars, origin>>

PublishBuilt ==
  /\ Doing("publish") /\ Proceed
  /\ LET s == Head(gui).stage
     IN latest' = [latest EXCEPT ![s] = IF built # None THEN built ELSE @]
  /\ built' = None
  /\ UNCHANGED <<source, stageVars, recordVars, scanVars, seenVars, origin>>

Reset ==
  /\ Doing("reset") /\ Proceed
  /\ latest' = [latest EXCEPT ![Head(gui).stage] = None]
  /\ UNCHANGED <<source, stageVars, built, recordVars, scanVars, seenVars, origin>>

Configure ==
  /\ Doing("configure") /\ Proceed
  /\ LET s == Head(gui).stage
     IN /\ open' = [open EXCEPT ![s] = {}]
        /\ nextId' = [nextId EXCEPT ![s] = 1]
        /\ forced' = (forced \/ s = "parameters")
  /\ UNCHANGED <<source, todo, held, latest, built, recordVars, scanVars, seenVars, origin>>

SwitchSource ==
  /\ Doing("sourceOn") \/ Doing("sourceOff")
  /\ Proceed /\ source' = Doing("sourceOn")
  /\ UNCHANGED <<stageVars, latest, built, recordVars, scanVars, seenVars, origin>>

EndRecorded ==
  /\ Doing("recorded") /\ Proceed /\ active' = FALSE
  /\ UNCHANGED <<source, stageVars, latest, built, recording, flushed, overrun, timeouts,
                 scanVars, seenVars, origin>>

\* The end of beginSectorScan
Sweep ==
  /\ Doing("sweep") /\ Proceed
  /\ state' = "scanning" /\ since' = recording
  /\ UNCHANGED <<source, stageVars, latest, built, recordVars, scan, timers, posted,
                 result, seenVars, origin>>

\* The flush callback of flushProcessingAsync posts the rest to the event queue
PostResult ==
  /\ Doing("post") /\ Proceed
  /\ posted' = Append(posted, [Head(gui).stage EXCEPT !.ok = flushed])
  /\ UNCHANGED <<source, stageVars, latest, built, recordVars, state, scan, timers, since,
                 result, seenVars, origin>>

-----------------------------------------------------------------------------
(* The handlers.                                                             *)

Idle == gui = <<>>
Begin(steps) ==
  /\ gui' = steps
  /\ UNCHANGED <<source, stageVars, latest, built, flushed, overrun, timeouts, origin>>

StartRecording ==
  /\ Idle /\ ~active /\ recording < MaxRecordings
  /\ recording' = recording + 1 /\ active' = TRUE
  /\ Begin(StartSteps)
  /\ UNCHANGED <<scanVars, seenVars>>

StopRecording ==
  /\ Idle /\ active
  /\ Begin(StopSteps)
  /\ UNCHANGED <<recording, active, scanVars, seenVars>>

StartScan ==
  /\ Idle /\ state = "idle" /\ scan < MaxScans
  /\ state' = "moving" /\ scan' = scan + 1
  /\ bearings' = {} /\ params' = {}
  /\ controllerLast' = [s \in Stages |-> 0]
  /\ Begin(<<>>)
  /\ UNCHANGED <<recording, active, timers, posted, since, result, adapterLast>>

BeginSectorScan ==
  /\ Idle /\ state = "moving"
  /\ IF active THEN /\ Begin(<<Step("sweep", "none")>>)
                    /\ UNCHANGED <<recording, active>>
     ELSE /\ recording < MaxRecordings
          /\ recording' = recording + 1 /\ active' = TRUE
          /\ Begin(StartSteps \o <<Step("sweep", "none")>>)
  /\ UNCHANGED <<scanVars, seenVars>>

CompleteScan ==
  /\ Idle /\ state = "scanning"
  /\ state' = "completing" /\ timers' = Append(timers, scan)
  /\ Begin(<<>>)
  /\ UNCHANGED <<recording, active, scan, posted, since, result, seenVars>>

FlushProcessing ==
  /\ Idle /\ timers # <<>>
  /\ timers' = Tail(timers)
  /\ Begin(FlushSteps \o <<Step("post", [scan |-> Head(timers), ok |-> FALSE,
                                         owed |-> Of(recording)])>>)
  /\ UNCHANGED <<recording, active, state, scan, posted, since, result, seenVars>>

Sweeping == state \in {"scanning", "completing"}

\* acceptSignalParameterSnapshot
ParametersAfter ==
  LET s == latest["parameters"]
      new == s # None /\ s.id # controllerLast["parameters"] /\ Sweeping
  IN /\ params' = IF new THEN s.blocks ELSE params
     /\ controllerLast' = IF new THEN [controllerLast EXCEPT !["parameters"] = s.id]
                          ELSE controllerLast

EndScanRecording == Begin(IF active THEN StopSteps ELSE <<>>)

FinalizeCompletedScan ==
  /\ Idle /\ posted # <<>>
  /\ posted' = Tail(posted)
  /\ IF Head(posted).ok THEN ParametersAfter ELSE UNCHANGED <<params, controllerLast>>
  /\ IF Sweeping /\ Head(posted).scan = scan
     THEN /\ state' = "idle"
          /\ result' = [ok |-> Head(posted).ok, owed |-> Head(posted).owed,
                        restarted |-> since # recording, params |-> params']
          /\ EndScanRecording
     ELSE Begin(<<>>) /\ UNCHANGED <<state, result>>
  /\ UNCHANGED <<recording, active, scan, timers, since, adapterLast, bearings>>

\* stopScan, and failScan likewise; a scan on its way has not begun a recording
StopScan ==
  /\ Idle /\ state # "idle"
  /\ state' = "idle" /\ params' = {}
  /\ controllerLast' = [controllerLast EXCEPT !["parameters"] = 0]
  /\ IF Sweeping THEN EndScanRecording ELSE Begin(<<>>)
  /\ UNCHANGED <<recording, active, scan, timers, posted, since, result, adapterLast,
                 bearings>>

\* BearingSnapshotAdapter and ScanController::acceptBearingSnapshotSummary
PollBearing ==
  /\ Idle /\ state # "idle" /\ latest["bearing"] # None
  /\ LET s == latest["bearing"]
     IN /\ s.id # adapterLast["bearing"]
        /\ adapterLast' = [adapterLast EXCEPT !["bearing"] = s.id]
        /\ controllerLast' = [controllerLast EXCEPT !["bearing"] = s.id]
        /\ bearings' = IF Sweeping /\ s.id # controllerLast["bearing"]
                       THEN bearings \cup s.blocks ELSE bearings
  /\ Begin(<<>>)
  /\ UNCHANGED <<recording, active, scanVars, params>>

PollParameters ==
  /\ Idle /\ state # "idle" /\ latest["parameters"] # None
  /\ latest["parameters"].id # adapterLast["parameters"]
  /\ adapterLast' = [adapterLast EXCEPT !["parameters"] = latest["parameters"].id]
  /\ ParametersAfter
  /\ Begin(<<>>)
  /\ UNCHANGED <<recording, active, scanVars, bearings>>

Next ==
  \/ Ingest
  \/ \E s \in Stages : Publish(s) \/ \E publishes \in BOOLEAN : Consume(s, publishes)
  \/ AwaitDrained \/ AwaitTimesOut \/ Build \/ PublishBuilt
  \/ Reset \/ Configure \/ SwitchSource \/ EndRecorded \/ Sweep \/ PostResult
  \/ StartRecording \/ StopRecording
  \/ StartScan \/ BeginSectorScan \/ CompleteScan \/ FlushProcessing
  \/ FinalizeCompletedScan \/ StopScan \/ PollBearing \/ PollParameters

Spec == Init /\ [][Next]_vars

-----------------------------------------------------------------------------
(* Properties.                                                               *)

\* Blocks are known ones, and a published snapshot carries a number given out.
TypeOK ==
  /\ {source, forced, active, flushed, overrun} \subseteq BOOLEAN
  /\ timeouts \in 0..MaxTimeouts
  /\ origin \in Seq(1..MaxRecordings) /\ Len(origin) <= MaxBlocks
  /\ recording \in 0..MaxRecordings /\ since \in 0..recording /\ scan \in 0..MaxScans
  /\ state \in {"idle", "moving", "scanning", "completing"}
  /\ \A s \in Stages : /\ open[s] \subseteq 1..Len(origin) /\ nextId[s] \in Nat \ {0}
                       /\ \A i \in 1..Len(todo[s]) : todo[s][i] \in 1..Len(origin)
                       /\ \A x \in {latest[s], held[s], built} \ {None} :
                            x.id \in Nat \ {0} /\ x.blocks \subseteq 1..Len(origin)
  /\ bearings \cup params \subseteq 1..Len(origin)

\* A scan reports nothing of an earlier recording, although numbers of
\* snapshots start again with each, the exchanges keep the last snapshot of the
\* one before, and a late callback of an aborted scan takes what is there:
\* unless a recording once ended before its blocks were done.
ScanUsesItsOwn ==
  ~overrun /\ Sweeping => \A b \in bearings \cup params : origin[b] >= since

\* The signal parameters of a completed scan cover every block that had been
\* ingested when its final flush began, if that succeeded and the recording was
\* not restarted meanwhile: although a stage may then publish, over the forced
\* snapshot, one that it built before.
FinalParametersComplete ==
  result # None /\ result.ok /\ ~result.restarted /\ ~overrun
    => result.owed \subseteq result.params

\* Once a recording has ended with its blocks drained, the exchange shows the
\* newest parameters built: a stage's late snapshot may hide a forced one, and
\* the flush at the end puts that right.  (For a window nothing does: a window
\* flushed while blocks arrive may stay hidden behind the one before it.)
LastIsNewest ==
  ~active /\ Idle /\ ~overrun /\ latest["parameters"] # None
    => latest["parameters"].id = nextId["parameters"] - 1

\* SnapshotExchange, DataPlaneUiAdapter, ScanController: a scan reports results of its own
\* recording, complete, and the last one shown is the newest.
ScanReportsItsOwn == TypeOK /\ ScanUsesItsOwn /\ FinalParametersComplete /\ LastIsNewest
=============================================================================
