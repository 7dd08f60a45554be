---------------------------- MODULE ScanSession ----------------------------
(***************************************************************************)
(* A sector scan: ScanController on the user interface thread, the         *)
(* simulated antenna it commands, the thread that moves that antenna and   *)
(* reports its azimuth, the scan acquisition recorder, and the recording   *)
(* that a scan starts and ends through WaterfallScanRecordingAdapter.      *)
(*                                                                         *)
(* Azimuths are safe coordinates 0 .. MaxCoord, one tick of the antenna    *)
(* apart: the planner maps the circle without its blind zone to a segment, *)
(* and no path leaves it.  A handler that commands the antenna twice is    *)
(* several steps, since the antenna's thread runs between the commands;    *)
(* uiTodo is the rest of the handler under way, and no other event is      *)
(* handled until it is "none".                                             *)
(***************************************************************************)
EXTENDS Integers, Sequences, SequencesExt

CONSTANTS
    MaxCoord,   \* the largest safe coordinate, in ticks of the antenna
    MaxScans,   \* bound: scans started
    MaxPosted   \* bound: azimuth samples waiting in the event queue

ASSUME SessionAssumption ==
    /\ MaxCoord \in Nat \ {0}
    /\ MaxScans \in Nat \ {0}
    /\ MaxPosted \in Nat \ {0}

VARIABLES
    state,      \* ScanController::m_state
    hasSector,  \* m_selectedSector has a value
    active,     \* id of m_activeSession, 0 if there is none
    path,       \* its plannedPath
    metaId,     \* scanSessionId of its acquisitionMetadata, 0 before begin
    nextId,     \* m_nextSessionId
    current,    \* m_currentAzimuthDeg
    uiTodo,     \* rest of the handler that runs: none, begin, open
    posted,     \* queued calls to the controller, in order
    flushing,   \* scans whose singleShot flush has not fired
    outcomes,   \* what was signalled of each scan
    table,      \* scans appended to the result table
    recorder,   \* id of the recorder's active session, 0 if there is none
    closed,     \* ids of the recorder's closed sessions
    owner,      \* the adapter's m_activeScanSessionId, 0 if there is none
    recording,  \* RecordingController::m_recordingState between handlers
    antenna,    \* SimulatorAntennaState
    worker,     \* place of the azimuth thread in its loop
    seen,       \* what that thread decided on what it read
    raced       \* history: a command of this scan met a pending halt

vars == <<state, hasSector, active, path, metaId, nextId, current, uiTodo,
          posted, flushing, outcomes, table, recorder, closed, owner,
          recording, antenna, worker, seen, raced>>

sessionVars == <<active, path, metaId, nextId>>
recorderVars == <<recorder, closed>>
recordingVars == <<owner, recording>>
queueVars == <<posted, flushing>>
workerVars == <<worker, seen>>

Coords == 0 .. MaxCoord
ScanIds == 1 .. MaxScans
NoPath == [from |-> 0, to |-> 0]
Paths == {p \in [from : Coords, to : Coords] : p.from # p.to}
Directions == {"none", "Left", "Right"}
Antennas == [pos : Coords, target : Coords, moving : BOOLEAN,
             command : Paths \cup {NoPath}, manual : Directions]
Decisions == [pos : Coords, effect : {"keep", "halt", "stop"}]
Signals == {"completed", "cancelled", "failed"}
Events == [kind : {"azimuth"}, at : Coords] \cup [kind : {"finalize"}, id : ScanIds]

\* isActiveState
ActiveStates == {"MovingToStart", "Scanning", "Completing"}
scanActive == state \in ActiveStates

TypeOK ==
    /\ state \in {"Idle", "SectorSelected", "Completed", "Cancelled", "Failed"}
                   \cup ActiveStates
    /\ hasSector \in BOOLEAN
    /\ active \in 0 .. MaxScans
    /\ path \in Paths \cup {NoPath}
    /\ metaId \in 0 .. MaxScans
    /\ nextId \in 1 .. MaxScans + 1
    /\ current \in Coords
    /\ uiTodo \in {"none", "begin", "open"}
    /\ posted \in Seq(Events)
    /\ flushing \in Seq(ScanIds)
    /\ outcomes \in [ScanIds -> SUBSET Signals]
    /\ table \in Seq(ScanIds)
    /\ recorder \in 0 .. MaxScans
    /\ closed \in SUBSET ScanIds
    /\ owner \in 0 .. MaxScans
    /\ recording \in {"Idle", "Active", "Failed"}
    /\ antenna \in Antennas
    /\ worker \in {"idle", "move", "settle", "post"}
    /\ seen \in Decisions
    /\ raced \in BOOLEAN

Init ==
    /\ state = "Idle" /\ hasSector = FALSE
    /\ active = 0 /\ path = NoPath /\ metaId = 0 /\ nextId = 1
    /\ current = 0 /\ uiTodo = "none"
    /\ posted = <<>> /\ flushing = <<>>
    /\ outcomes = [id \in ScanIds |-> {}] /\ table = <<>>
    /\ recorder = 0 /\ closed = {}
    /\ owner = 0 /\ recording = "Idle"
    /\ antenna = [pos |-> 0, target |-> 0, moving |-> FALSE,
                  command |-> NoPath, manual |-> "none"]
    /\ worker = "idle" /\ seen = [pos |-> 0, effect |-> "keep"]
    /\ raced = FALSE

-----------------------------------------------------------------------------
(* AntennaMotionPlanner and the commands of SimulatorAntennaControl.       *)

Dist(a, b) == IF a <= b THEN b - a ELSE a - b

\* The nearer end of the sector is where the scan starts, the lower on a tie.
PlanFromCurrent(lo, hi, from) ==
    IF Dist(from, lo) <= Dist(from, hi) THEN [from |-> lo, to |-> hi]
                                        ELSE [from |-> hi, to |-> lo]

MoveTo(ant, coord) ==
    [pos |-> ant.pos, target |-> coord, moving |-> TRUE,
     command |-> NoPath, manual |-> "none"]

SectorScan(ant, p) ==
    [pos |-> ant.pos, target |-> p.to, moving |-> TRUE,
     command |-> p, manual |-> "none"]

Manual(ant, dir) ==
    [pos |-> ant.pos, target |-> IF dir = "Left" THEN 0 ELSE MaxCoord,
     moving |-> TRUE, command |-> NoPath, manual |-> dir]

Halted(ant) ==
    [pos |-> ant.pos, target |-> ant.pos, moving |-> FALSE,
     command |-> NoPath, manual |-> "none"]

\* The azimuth thread has read the antenna and is about to end its motion.
HaltPending == worker \in {"move", "settle"} /\ seen.effect # "keep"

-----------------------------------------------------------------------------
(* RecordingController, the adapter and the recorder, as the scan uses     *)
(* them: each is called on the user interface thread and returns before    *)
(* the handler goes on.                                                    *)

\* startRecordingCommand: a recording that runs is left alone, a start that
\* fails is cleaned up.
RecordingStarted(ok) ==
    recording' = IF recording = "Active" \/ ok THEN "Active" ELSE "Failed"

RecordingStopped(ok) ==
    recording' = IF recording # "Active" THEN recording
                 ELSE IF ok THEN "Idle" ELSE "Failed"

\* Variant: a recording the operator has stopped is not given up.
EndScanRecordingWhileActive(id) ==
    IF owner = 0 \/ recording # "Active"
        THEN UNCHANGED recordingVars
        ELSE /\ \E ok \in BOOLEAN : RecordingStopped(ok)
             /\ owner' = 0

\* endScanRecording: only the scan that owns the recording ends it, or id 0.
EndScanRecording(id) ==
    IF owner = 0 \/ (id # 0 /\ owner # id)
        THEN UNCHANGED recordingVars
        ELSE /\ \E ok \in BOOLEAN : RecordingStopped(ok)
             /\ owner' = 0

\* close: metadata of another session is refused and the session stays open.
CloseRecorder ==
    IF recorder # 0 /\ recorder = metaId
        THEN /\ closed' = closed \cup {recorder}
             /\ recorder' = 0
        ELSE UNCHANGED recorderVars

\* The session ends with this signal and the state that goes with it.
Settle(id, final, signal) ==
    /\ active' = 0 /\ path' = NoPath /\ metaId' = 0
    /\ state' = final
    /\ outcomes' = [outcomes EXCEPT ![id] = @ \cup {signal}]
    /\ UNCHANGED nextId

\* What stopScan and failScan do to an active scan.
Abandon(final, signal) ==
    /\ antenna' = Halted(antenna)
    /\ CloseRecorder
    /\ EndScanRecording(active)
    /\ Settle(active, final, signal)
    /\ uiTodo' = "none"
    /\ UNCHANGED <<hasSector, current, queueVars, table, workerVars, raced>>

-----------------------------------------------------------------------------
(* Handlers of the user interface thread.                                  *)

SelectSector ==
    /\ uiTodo = "none" /\ ~scanActive
    /\ hasSector' = TRUE
    /\ state' = "SectorSelected"
    /\ UNCHANGED <<sessionVars, current, uiTodo, queueVars, outcomes, table,
                   recorderVars, recordingVars, antenna, workerVars, raced>>

ClearSector ==
    /\ uiTodo = "none" /\ ~scanActive
    /\ hasSector
    /\ hasSector' = FALSE
    /\ state' = "Idle"
    /\ UNCHANGED <<sessionVars, current, uiTodo, queueVars, outcomes, table,
                   recorderVars, recordingVars, antenna, workerVars, raced>>

\* The scan begins in the same handler if the antenna was last reported at
\* the start of the path.
StartScan(lo, hi) ==
    LET plan == PlanFromCurrent(lo, hi, current) IN
    /\ uiTodo = "none" /\ ~scanActive
    /\ nextId <= MaxScans                       \* bound
    /\ hasSector' = TRUE
    /\ active' = nextId /\ nextId' = nextId + 1
    /\ path' = plan /\ metaId' = 0
    /\ state' = "MovingToStart"
    /\ antenna' = MoveTo(antenna, plan.from)
    /\ raced' = HaltPending
    /\ uiTodo' = IF current = plan.from THEN "begin" ELSE "none"
    /\ UNCHANGED <<current, queueVars, outcomes, table, recorderVars,
                   recordingVars, workerVars>>

\* moveToAzimuth is refused: the scan that was just set up fails.
StartScanRefused ==
    /\ uiTodo = "none" /\ ~scanActive
    /\ nextId <= MaxScans                       \* bound
    /\ hasSector' = TRUE
    /\ nextId' = nextId + 1
    /\ antenna' = Halted(antenna)
    /\ state' = "Failed"
    /\ outcomes' = [outcomes EXCEPT ![nextId] = @ \cup {"failed"}]
    /\ EndScanRecording(nextId)
    /\ UNCHANGED <<active, path, metaId, current, uiTodo, queueVars, table,
                   recorderVars, workerVars, raced>>

\* beginSectorScan: the command to the antenna ...
BeginSectorScan ==
    /\ uiTodo = "begin"
    /\ active # 0 /\ state = "MovingToStart"
    /\ \/ /\ antenna' = SectorScan(antenna, path)
          /\ raced' = HaltPending
          /\ uiTodo' = "open"
          /\ UNCHANGED <<state, hasSector, sessionVars, current, queueVars,
                         outcomes, table, recorderVars, recordingVars, workerVars>>
       \/ Abandon("Failed", "failed")

\* ... and then the recording and the acquisition session.  The adapter's
\* "already begun" and the recorder's refusal (a session that is open, an id
\* that is known) are not cases of their own: neither can happen, or the scan
\* would stay in this step and SweepsUnlessRaced be violated.
OpenAcquisition ==
    /\ uiTodo = "open"
    /\ \/ \* Recording and acquisition start.
          /\ owner = 0 /\ recorder = 0 /\ active \notin closed
          /\ RecordingStarted(TRUE) /\ owner' = active
          /\ recorder' = active
          /\ metaId' = active
          /\ state' = "Scanning"
          /\ uiTodo' = "none"
          /\ UNCHANGED <<hasSector, active, path, nextId, current, queueVars,
                         outcomes, table, closed, antenna, workerVars, raced>>
       \/ \* The recording does not start; it is "Failed" and has no owner.
          /\ owner = 0 /\ recording # "Active"
          /\ recording' = "Failed"
          /\ antenna' = Halted(antenna)
          /\ CloseRecorder
          /\ Settle(active, "Failed", "failed")
          /\ uiTodo' = "none"
          /\ UNCHANGED <<hasSector, current, queueVars, table, owner,
                         workerVars, raced>>

-----------------------------------------------------------------------------
(* Queued calls to the controller and the flush timer.                     *)

\* Variant: the sample at the end of the path does not count.
ReachedBeyond(p, coord) == IF p.from < p.to THEN coord > p.to ELSE coord < p.to

\* Progress has reached 1: the sample is at the end of the path or beyond.
Reached(p, coord) == IF p.from < p.to THEN coord >= p.to ELSE coord <= p.to

\* updateAzimuth, with the completeScan it may end in.  The time stamp of the
\* sample decides nothing.
UpdateAzimuth ==
    /\ uiTodo = "none"
    /\ posted # <<>> /\ Head(posted).kind = "azimuth"
    /\ posted' = Tail(posted)
    /\ LET at == Head(posted).at IN
       /\ current' = at
       /\ \/ \* beginSectorScan follows.
             /\ state = "MovingToStart" /\ at = path.from
             /\ uiTodo' = "begin"
             /\ UNCHANGED <<state, flushing, antenna>>
          \/ \* completeScan.
             /\ state = "Scanning" /\ Reached(path, at)
             /\ state' = "Completing"
             /\ antenna' = Halted(antenna)
             /\ flushing' = Append(flushing, active)
             /\ UNCHANGED uiTodo
          \/ /\ ~(state = "MovingToStart" /\ at = path.from)
             /\ ~(state = "Scanning" /\ Reached(path, at))
             /\ UNCHANGED <<state, flushing, antenna, uiTodo>>
    /\ UNCHANGED <<hasSector, sessionVars, outcomes, table, recorderVars,
                   recordingVars, workerVars, raced>>

\* Variant: a flush that times out does not call back.
FlushTimerSilent ==
    /\ uiTodo = "none"
    /\ flushing # <<>>
    /\ flushing' = Tail(flushing)
    /\ posted' \in {posted, Append(posted, [kind |-> "finalize", id |-> Head(flushing)])}
    /\ UNCHANGED <<state, hasSector, sessionVars, current, uiTodo, outcomes,
                   table, recorderVars, recordingVars, antenna, workerVars, raced>>

\* flushProcessingAsync: the timer fires, the flush succeeds or times out,
\* and the call back queues finalizeCompletedScan in both cases.
FlushTimer ==
    /\ uiTodo = "none"
    /\ flushing # <<>>
    /\ flushing' = Tail(flushing)
    /\ posted' = Append(posted, [kind |-> "finalize", id |-> Head(flushing)])
    /\ UNCHANGED <<state, hasSector, sessionVars, current, uiTodo, outcomes,
                   table, recorderVars, recordingVars, antenna, workerVars, raced>>

\* Variant: the call ends whatever scan is active.
FinalizeUnchecked ==
    /\ uiTodo = "none"
    /\ posted # <<>> /\ Head(posted).kind = "finalize"
    /\ posted' = Tail(posted)
    /\ LET id == Head(posted).id IN
       IF active # 0
           THEN /\ EndScanRecording(id)
                /\ CloseRecorder
                /\ table' \in {table, Append(table, id)}
                /\ Settle(id, "Completed", "completed")
           ELSE UNCHANGED <<recordingVars, recorderVars, table, sessionVars,
                            state, outcomes>>
    /\ UNCHANGED <<hasSector, current, uiTodo, flushing, antenna, workerVars, raced>>

\* finalizeCompletedScan: a call for a scan that has ended is ignored.
\* Appending to the result table may fail; the scan is completed all the same.
FinalizeCompletedScan ==
    /\ uiTodo = "none"
    /\ posted # <<>> /\ Head(posted).kind = "finalize"
    /\ posted' = Tail(posted)
    /\ LET id == Head(posted).id IN
       IF active = id
           THEN /\ EndScanRecording(id)
                /\ CloseRecorder
                /\ table' \in {table, Append(table, id)}
                /\ Settle(id, "Completed", "completed")
           ELSE UNCHANGED <<recordingVars, recorderVars, table, sessionVars,
                            state, outcomes>>
    /\ UNCHANGED <<hasSector, current, uiTodo, flushing, antenna, workerVars, raced>>

-----------------------------------------------------------------------------
(* The operator: stop, manual moves, and the recording buttons, which stay *)
(* enabled during a scan.                                                  *)

StopScan ==
    /\ uiTodo = "none"
    /\ \/ scanActive /\ Abandon("Cancelled", "cancelled")
       \/ /\ ~scanActive
          /\ antenna' = Halted(antenna)
          /\ UNCHANGED <<state, hasSector, sessionVars, current, uiTodo,
                         queueVars, outcomes, table, recorderVars,
                         recordingVars, workerVars, raced>>

StartManualMove(dir) ==
    /\ uiTodo = "none" /\ ~scanActive
    /\ antenna' = Manual(antenna, dir)
    /\ UNCHANGED <<state, hasSector, sessionVars, current, uiTodo, queueVars,
                   outcomes, table, recorderVars, recordingVars, workerVars, raced>>

StartRecording ==
    /\ uiTodo = "none" /\ recording # "Active"
    /\ \E ok \in BOOLEAN : RecordingStarted(ok)
    /\ UNCHANGED <<state, hasSector, sessionVars, current, uiTodo, queueVars,
                   outcomes, table, recorderVars, owner, antenna, workerVars, raced>>

StopRecording ==
    /\ uiTodo = "none" /\ recording = "Active"
    /\ \E ok \in BOOLEAN : RecordingStopped(ok)
    /\ UNCHANGED <<state, hasSector, sessionVars, current, uiTodo, queueVars,
                   outcomes, table, recorderVars, owner, antenna, workerVars, raced>>

-----------------------------------------------------------------------------
(* The azimuth thread: SimulatorAntennaAzimuthSource::generationLoop.  It  *)
(* reads the antenna, writes the position, ends the motion if it decided   *)
(* to, and reports the position; the antenna's lock is free in between.    *)

Toward(from, to) == IF from < to THEN from + 1 ELSE from - 1

\* Variant: the position is not clamped.
ManualTickUnclamped ==
    LET step == IF antenna.manual = "Left" THEN antenna.pos - 1 ELSE antenna.pos + 1
    IN  [pos |-> step, effect |-> IF step \in {0, MaxCoord} THEN "stop" ELSE "keep"]

\* A manual move ends at either limit.
ManualTick ==
    LET step == IF antenna.manual = "Left" THEN antenna.pos - 1 ELSE antenna.pos + 1
        next == IF step < 0 THEN 0 ELSE IF step > MaxCoord THEN MaxCoord ELSE step
    IN  [pos |-> next, effect |-> IF next \in {0, MaxCoord} THEN "stop" ELSE "keep"]

\* A scan jumps to its end once that is within a step or behind the antenna.
ScanTick ==
    LET p == antenna.command
        ahead == IF p.from < p.to THEN p.to - antenna.pos ELSE antenna.pos - p.to
    IN  IF ahead <= 1 THEN [pos |-> p.to, effect |-> "halt"]
                      ELSE [pos |-> Toward(antenna.pos, p.to), effect |-> "keep"]

TargetTick ==
    IF Dist(antenna.pos, antenna.target) <= 1
        THEN [pos |-> antenna.target, effect |-> "halt"]
        ELSE [pos |-> Toward(antenna.pos, antenna.target), effect |-> "keep"]

uiVars == <<state, hasSector, sessionVars, current, uiTodo, flushing, outcomes,
            table, recorderVars, recordingVars, raced>>

WorkerRead ==
    /\ worker = "idle"
    /\ \/ /\ ~antenna.moving
          /\ worker' = "post"
          /\ UNCHANGED seen
       \/ /\ antenna.moving
          /\ worker' = "move"
          /\ seen' = IF antenna.manual # "none" THEN ManualTick
                     ELSE IF antenna.command # NoPath THEN ScanTick
                     ELSE TargetTick
    /\ UNCHANGED <<uiVars, posted, antenna>>

WorkerMove ==
    /\ worker = "move"
    /\ antenna' = [antenna EXCEPT !.pos = seen.pos]
    /\ worker' = IF seen.effect = "keep" THEN "post" ELSE "settle"
    /\ UNCHANGED <<uiVars, posted, seen>>

\* setMoving(false) at the end of a path, stop() at a limit: whatever was
\* commanded since the thread read the antenna is ended too.
WorkerSettle ==
    /\ worker = "settle"
    /\ antenna' = IF seen.effect = "stop" THEN Halted(antenna)
                                          ELSE [antenna EXCEPT !.moving = FALSE]
    /\ worker' = "post"
    /\ UNCHANGED <<uiVars, posted, seen>>

WorkerPost ==
    /\ worker = "post"
    /\ Len(posted) < MaxPosted                  \* bound
    /\ posted' = Append(posted, [kind |-> "azimuth", at |-> antenna.pos])
    /\ worker' = "idle"
    /\ UNCHANGED <<uiVars, antenna, seen>>

Worker == WorkerRead \/ WorkerMove \/ WorkerSettle \/ WorkerPost

-----------------------------------------------------------------------------
Sectors == {s \in Coords \X Coords : s[1] < s[2]}

\* What the event loop does without the operator.
EventLoop ==
    \/ BeginSectorScan \/ OpenAcquisition
    \/ UpdateAzimuth \/ FinalizeCompletedScan

Operator ==
    \/ SelectSector \/ ClearSector
    \/ \E s \in Sectors : StartScan(s[1], s[2])
    \/ StartScanRefused
    \/ StopScan
    \/ \E dir \in {"Left", "Right"} : StartManualMove(dir)
    \/ StartRecording \/ StopRecording

Next == Operator \/ EventLoop \/ FlushTimer \/ Worker

Spec == Init /\ [][Next]_vars

\* The event loop handles what is queued and fires the timers that are due;
\* the azimuth thread runs.  Nothing makes the operator act.
FairSpec ==
    /\ Spec
    /\ WF_vars(EventLoop)
    /\ WF_vars(FlushTimer)
    /\ WF_vars(Worker)

-----------------------------------------------------------------------------
(* Properties.                                                             *)

\* The recorder's session, the ownership of the recording and the antenna's
\* scan command all follow the scan: both resources are held by exactly the
\* scan that is scanning or completing, only a scan that is starting or
\* scanning commands a sweep, and no scan leaves the antenna moving.
ResourcesFollowScan ==
    /\ active # 0 <=> scanActive
    /\ recorder = IF state \in {"Scanning", "Completing"} THEN active ELSE 0
    /\ owner = recorder
    /\ antenna.command # NoPath =>
           antenna.command = path /\ (state = "Scanning" \/ uiTodo = "open")
    /\ antenna.moving /\ antenna.manual = "none" =>
           state \in {"MovingToStart", "Scanning"}

\* Each scan that has ended was signalled as completed, cancelled or failed
\* exactly once, also when it is stopped while its flush is under way and the
\* finalization of the old scan meets a new one.  Completed scans are closed in
\* the recorder, and the result table has scans that completed, once each and
\* in order.
OneOutcome ==
    /\ \A id \in ScanIds :
          IF id < nextId /\ id # active
              THEN \E s \in Signals : outcomes[id] = {s}
              ELSE outcomes[id] = {}
    /\ \A id \in ScanIds : "completed" \in outcomes[id] => id \in closed
    /\ \A i \in DOMAIN table : "completed" \in outcomes[table[i]]
    /\ \A i, j \in DOMAIN table : i < j => table[i] < table[j]

\* A scan whose sweep is over does not stay in "completing": the flush, failed
\* or not, leads to the end of the scan.
ScanSettles == state = "Completing" ~> state # "Completing"

\* The antenna takes a scan to its start and along its path to the end, unless
\* the azimuth thread was about to end an earlier motion when the scan's
\* command was given.
SweepsUnlessRaced ==
    (state \in {"MovingToStart", "Scanning"} /\ ~raced)
        ~> (state \notin {"MovingToStart", "Scanning"} \/ raced)

\* tests/app/tst_scan_controller_simulator.cpp: "simulator path completes
\* sector scan".  A scan whose sweep has begun ends.
ScanSweeps == state = "Scanning" ~> state # "Scanning"
=============================================================================
