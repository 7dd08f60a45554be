------------------------- MODULE ScanSessionProofs -------------------------
(***************************************************************************)
(* Theorems about ScanSession, for every length of the antenna's path, any *)
(* number of scans and any length of the event queue.                      *)
(***************************************************************************)
EXTENDS ScanSession, TLAPS

-----------------------------------------------------------------------------
(* The inductive invariant.                                                *)

\* A scan is the last one numbered, its metadata is that of the recorder's
\* session, and a handler under way belongs to a scan that moves to its start.
Places ==
    /\ active # 0 => nextId = active + 1 /\ path \in Paths
    /\ metaId = recorder
    /\ uiTodo # "none" => active # 0 /\ state = "MovingToStart"

\* A flush or finalization under way is for a scan that has been started; for
\* the active scan only while it is completing.
Due(id) == id \in ScanIds /\ id < nextId /\ (id = active => state = "Completing")

Pending ==
    /\ \A i \in 1 .. Len(posted) : posted[i].kind = "finalize" => Due(posted[i].id)
    /\ \A i \in 1 .. Len(flushing) : Due(flushing[i])

IInv == TypeOK /\ ResourcesFollowScan /\ Places /\ Pending

-----------------------------------------------------------------------------
LEMMA AntennaFacts ==
    ASSUME TypeOK
    PROVE  /\ Halted(antenna) \in Antennas
           /\ Halted(antenna).command = NoPath /\ ~Halted(antenna).moving
           /\ \A dir \in {"Left", "Right"} : Manual(antenna, dir) \in Antennas
           /\ \A c \in Coords : MoveTo(antenna, c) \in Antennas
           /\ \A p \in Paths : SectorScan(antenna, p) \in Antennas
BY SessionAssumption DEF TypeOK, Antennas, Halted, Manual, MoveTo, SectorScan, Coords,
   Directions, Paths

LEMMA PlanFacts ==
    ASSUME NEW s \in Sectors, NEW c \in Coords
    PROVE  PlanFromCurrent(s[1], s[2], c) \in Paths
BY DEF PlanFromCurrent, Sectors, Paths, Coords

LEMMA TickFacts ==
    ASSUME TypeOK
    PROVE  /\ antenna.manual # "none" => ManualTick \in Decisions
           /\ antenna.command # NoPath => ScanTick \in Decisions
           /\ TargetTick \in Decisions
<1>1. antenna.manual # "none" => ManualTick \in Decisions
  BY SessionAssumption DEF TypeOK, Antennas, ManualTick, Decisions, Coords, Directions
<1>2. antenna.command # NoPath => ScanTick \in Decisions
  <2> SUFFICES ASSUME antenna.command # NoPath PROVE ScanTick \in Decisions OBVIOUS
  <2>1. antenna.command \in Paths /\ antenna.pos \in Coords BY DEF TypeOK, Antennas
  <2> QED BY <2>1, SessionAssumption DEF ScanTick, Toward, Paths, Decisions, Coords
<1>3. TargetTick \in Decisions
  BY SessionAssumption DEF TypeOK, Antennas, TargetTick, Toward, Dist, Decisions, Coords
<1> QED BY <1>1, <1>2, <1>3

LEMMA QueueFacts ==
    ASSUME TypeOK
    PROVE  /\ posted # <<>> => /\ Head(posted) \in Events
                               /\ Tail(posted) \in Seq(Events)
                               /\ Len(Tail(posted)) = Len(posted) - 1
                               /\ Head(posted) = posted[1]
                               /\ \A i \in 1 .. Len(Tail(posted)) : Tail(posted)[i] = posted[i + 1]
           /\ flushing # <<>> => /\ Head(flushing) \in ScanIds
                                 /\ Tail(flushing) \in Seq(ScanIds)
                                 /\ Len(Tail(flushing)) = Len(flushing) - 1
                                 /\ Head(flushing) = flushing[1]
                                 /\ \A i \in 1 .. Len(Tail(flushing)) : Tail(flushing)[i] = flushing[i + 1]
BY DEF TypeOK

LEMMA EndFacts ==
    ASSUME TypeOK, NEW id \in Nat, EndScanRecording(id)
    PROVE  /\ recording' \in {"Idle", "Active", "Failed"}
           /\ owner' \in 0 .. MaxScans
           /\ owner \in {0, id} => owner' = 0
BY SessionAssumption DEF EndScanRecording, RecordingStopped, TypeOK, recordingVars

LEMMA CloseFacts ==
    ASSUME TypeOK, metaId = recorder, CloseRecorder
    PROVE  /\ recorder' = 0
           /\ closed' = IF recorder = 0 THEN closed ELSE closed \cup {recorder}
           /\ closed' \in SUBSET ScanIds
<1>1. CASE recorder = 0 BY <1>1 DEF CloseRecorder, TypeOK, recorderVars
<1>2. CASE recorder # 0
  <2>1. recorder \in ScanIds BY <1>2, SessionAssumption DEF TypeOK, ScanIds
  <2>2. closed \subseteq ScanIds BY DEF TypeOK
  <2>3. closed' = closed \cup {recorder} /\ recorder' = 0 BY <1>2 DEF CloseRecorder
  <2> QED BY <1>2, <2>1, <2>2, <2>3
<1> QED BY <1>1, <1>2

\* An active scan that is stopped or fails gives everything up.
LEMMA AbandonStep ==
    ASSUME IInv, scanActive,
           NEW final \in {"Failed", "Cancelled"}, NEW signal \in Signals,
           Abandon(final, signal)
    PROVE  IInv'
<1>0. TypeOK /\ ResourcesFollowScan /\ Places /\ Pending BY DEF IInv
<1>1. active \in ScanIds /\ active \in Nat
  BY <1>0, SessionAssumption DEF TypeOK, ResourcesFollowScan, ScanIds
<1>2. /\ recording' \in {"Idle", "Active", "Failed"} /\ owner' = 0
  BY <1>0, <1>1, EndFacts DEF Abandon, ResourcesFollowScan
<1>3. recorder' = 0 /\ closed' \in SUBSET ScanIds
  BY <1>0, CloseFacts DEF Abandon, Places
<1>4. antenna' \in Antennas /\ antenna'.command = NoPath /\ ~antenna'.moving
  BY <1>0, AntennaFacts DEF Abandon
<1>5. outcomes' \in [ScanIds -> SUBSET Signals]
  BY <1>0, <1>1 DEF Abandon, Settle, TypeOK
<1>6. TypeOK'
  BY <1>0, <1>2, <1>3, <1>4, <1>5, SessionAssumption
  DEF Abandon, Settle, TypeOK, queueVars, workerVars
<1>7. ResourcesFollowScan'
  BY <1>2, <1>3, <1>4 DEF Abandon, Settle, ResourcesFollowScan, scanActive, ActiveStates
<1>8. Places' BY <1>3 DEF Abandon, Settle, Places
<1>9. Pending'
  <2>1. UNCHANGED <<posted, flushing, nextId>> /\ active' = 0
    BY DEF Abandon, Settle, queueVars
  <2>2. \A id : Due(id) => Due(id)' BY <2>1 DEF Due, ScanIds
  <2> QED BY <1>0, <2>1, <2>2 DEF Pending
<1> QED BY <1>6, <1>7, <1>8, <1>9 DEF IInv

LEMMA InvInit == Init => IInv
<1> SUFFICES ASSUME Init PROVE IInv OBVIOUS
<1>1. antenna \in Antennas /\ seen \in Decisions /\ current \in Coords
  BY SessionAssumption DEF Init, Antennas, Decisions, Coords, Directions
<1>2. posted \in Seq(Events) /\ flushing \in Seq(ScanIds) /\ table \in Seq(ScanIds)
      /\ Len(posted) = 0 /\ Len(flushing) = 0
  BY DEF Init
<1>3. outcomes \in [ScanIds -> SUBSET Signals] BY DEF Init
<1>7. /\ active \in 0 .. MaxScans /\ metaId \in 0 .. MaxScans /\ nextId \in 1 .. MaxScans + 1
      /\ recorder \in 0 .. MaxScans /\ owner \in 0 .. MaxScans
  BY SessionAssumption DEF Init
<1>8. hasSector \in BOOLEAN /\ raced \in BOOLEAN /\ closed \in SUBSET ScanIds
  BY DEF Init
<1>9. /\ state = "Idle" /\ path = NoPath /\ uiTodo = "none" /\ recording = "Idle"
      /\ worker = "idle"
  BY DEF Init
<1>6. TypeOK BY <1>1, <1>2, <1>3, <1>7, <1>8, <1>9 DEF TypeOK
<1>4. ResourcesFollowScan BY DEF Init, ResourcesFollowScan, scanActive, ActiveStates
<1>5. Places /\ Pending BY <1>2 DEF Init, Places, Pending
<1> QED BY <1>4, <1>5, <1>6 DEF IInv

\* What is due stays due while the scan and its state are left alone.
LEMMA PendingFrame ==
    ASSUME Pending, UNCHANGED <<active, nextId, state, posted, flushing>>
    PROVE  Pending'
<1>1. \A id : Due(id) => Due(id)' BY DEF Due, ScanIds
<1> QED BY <1>1 DEF Pending

\* The operator's commands while no scan is active.
LEMMA IdleStep ==
    ASSUME IInv, SelectSector \/ ClearSector \/ (StopScan /\ ~scanActive)
                 \/ \E dir \in {"Left", "Right"} : StartManualMove(dir)
    PROVE  IInv'
<1>0. TypeOK /\ ResourcesFollowScan /\ Places /\ Pending BY DEF IInv
<1>1. CASE SelectSector \/ ClearSector
  <2>1. /\ state' \in {"SectorSelected", "Idle"} /\ hasSector' \in BOOLEAN /\ ~scanActive
        /\ UNCHANGED <<sessionVars, current, uiTodo, queueVars, outcomes, table,
                       recorderVars, recordingVars, antenna, workerVars, raced>>
    BY <1>1 DEF SelectSector, ClearSector
  <2>2. TypeOK'
    BY <1>0, <2>1 DEF TypeOK, sessionVars, queueVars, recorderVars, recordingVars, workerVars
  <2>3. ResourcesFollowScan'
    BY <1>0, <2>1 DEF ResourcesFollowScan, scanActive, ActiveStates, sessionVars,
       recorderVars, recordingVars, Places
  <2>4. Places'
    BY <1>0, <2>1 DEF Places, sessionVars, recorderVars, ResourcesFollowScan
  <2>5. active = 0 /\ UNCHANGED <<active, nextId, posted, flushing>>
    BY <1>0, <2>1 DEF ResourcesFollowScan, sessionVars, queueVars
  <2>6. \A id : Due(id) => Due(id)' BY <2>5 DEF Due, ScanIds
  <2>7. Pending' BY <1>0, <2>5, <2>6 DEF Pending
  <2> QED BY <2>2, <2>3, <2>4, <2>7 DEF IInv
<1>2. CASE (StopScan /\ ~scanActive) \/ \E dir \in {"Left", "Right"} : StartManualMove(dir)
  <2>1. /\ antenna' \in Antennas /\ antenna'.command = NoPath
        /\ antenna'.moving => antenna'.manual # "none"
    <3>1. CASE StopScan /\ ~scanActive
      <4>1. antenna' = Halted(antenna) BY <3>1 DEF StopScan
      <4> QED BY <1>0, <4>1, AntennaFacts
    <3>2. ASSUME NEW dir \in {"Left", "Right"}, StartManualMove(dir)
          PROVE  /\ antenna' \in Antennas /\ antenna'.command = NoPath
                 /\ antenna'.manual # "none"
      <4>1. antenna' = Manual(antenna, dir) BY <3>2 DEF StartManualMove
      <4>2. antenna' \in Antennas BY <1>0, <4>1, AntennaFacts
      <4>3. antenna'.command = NoPath /\ antenna'.manual = dir BY <4>1 DEF Manual
      <4> QED BY <4>2, <4>3
    <3> QED BY <1>2, <3>1, <3>2
  <2>2. /\ ~scanActive
        /\ UNCHANGED <<state, hasSector, sessionVars, current, uiTodo, queueVars, outcomes,
                       table, recorderVars, recordingVars, workerVars, raced>>
    BY <1>2 DEF StopScan, StartManualMove
  <2>3. TypeOK'
    BY <1>0, <2>1, <2>2
    DEF TypeOK, sessionVars, queueVars, recorderVars, recordingVars, workerVars
  <2>4. ResourcesFollowScan'
    BY <1>0, <2>1, <2>2 DEF ResourcesFollowScan, scanActive, sessionVars,
       recorderVars, recordingVars
  <2>5. Places' BY <1>0, <2>2 DEF Places, sessionVars, recorderVars
  <2>6. Pending' BY <1>0, <2>2, PendingFrame DEF sessionVars, queueVars
  <2> QED BY <2>3, <2>4, <2>5, <2>6 DEF IInv
<1> QED BY <1>1, <1>2

\* The recording buttons touch nothing of the scan.
LEMMA RecordingStep ==
    ASSUME IInv, StartRecording \/ StopRecording
    PROVE  IInv'
<1>0. TypeOK /\ ResourcesFollowScan /\ Places /\ Pending BY DEF IInv
<1>1. /\ recording' \in {"Idle", "Active", "Failed"}
      /\ UNCHANGED <<state, hasSector, sessionVars, current, uiTodo, queueVars, outcomes,
                     table, recorderVars, owner, antenna, workerVars, raced>>
  BY <1>0 DEF StartRecording, StopRecording, RecordingStarted, RecordingStopped, TypeOK
<1>2. TypeOK'
  BY <1>0, <1>1 DEF TypeOK, sessionVars, queueVars, recorderVars, workerVars
<1>3. ResourcesFollowScan'
  BY <1>0, <1>1 DEF ResourcesFollowScan, scanActive, sessionVars, recorderVars
<1>4. Places' BY <1>0, <1>1 DEF Places, sessionVars, recorderVars
<1>5. Pending' BY <1>0, <1>1, PendingFrame DEF sessionVars, queueVars
<1> QED BY <1>2, <1>3, <1>4, <1>5 DEF IInv

LEMMA StartStep ==
    ASSUME IInv, NEW s \in Sectors, StartScan(s[1], s[2])
    PROVE  IInv'
<1>0. TypeOK /\ ResourcesFollowScan /\ Places /\ Pending BY DEF IInv
<1>1. path' \in Paths /\ path'.from \in Coords
  BY <1>0, PlanFacts DEF StartScan, TypeOK, Paths
<1>2. antenna' = MoveTo(antenna, path'.from) BY DEF StartScan
<1>3. antenna' \in Antennas /\ antenna'.command = NoPath
  BY <1>0, <1>1, <1>2, AntennaFacts DEF MoveTo
<1>4. /\ active = 0 /\ nextId \in ScanIds /\ active' = nextId /\ nextId' = nextId + 1
      /\ uiTodo' \in {"none", "begin"} /\ state' = "MovingToStart" /\ metaId' = 0
  BY <1>0 DEF StartScan, ResourcesFollowScan, TypeOK, ScanIds
<1>5. recorder = 0 /\ owner = 0
  BY <1>0 DEF StartScan, ResourcesFollowScan, scanActive, ActiveStates
<1>6. raced' \in BOOLEAN
  <2>1. raced' = HaltPending BY DEF StartScan
  <2> QED BY <2>1, ZenonT(10) DEF HaltPending
<1>7. TypeOK'
  BY <1>0, <1>1, <1>3, <1>4, <1>6, SessionAssumption
  DEF StartScan, TypeOK, ScanIds, ActiveStates, queueVars, recorderVars, recordingVars, workerVars
<1>8. ResourcesFollowScan'
  BY <1>3, <1>4, <1>5, SessionAssumption
  DEF StartScan, ResourcesFollowScan, scanActive, ActiveStates, ScanIds, recorderVars, recordingVars
<1>9. Places' BY <1>1, <1>4, <1>5, SessionAssumption DEF StartScan, Places, recorderVars, ScanIds
<1>10. Pending'
  <2>1. \A id : Due(id) => Due(id)' BY <1>4, SessionAssumption DEF Due, ScanIds
  <2> QED BY <1>0, <2>1 DEF Pending, StartScan, queueVars
<1> QED BY <1>7, <1>8, <1>9, <1>10 DEF IInv

LEMMA StartRefusedStep ==
    ASSUME IInv, StartScanRefused
    PROVE  IInv'
<1>0. TypeOK /\ ResourcesFollowScan /\ Places /\ Pending BY DEF IInv
<1>1. /\ active = 0 /\ owner = 0 /\ recorder = 0
      /\ nextId \in ScanIds /\ nextId \in Nat /\ nextId' = nextId + 1
  BY <1>0, SessionAssumption
  DEF StartScanRefused, ResourcesFollowScan, TypeOK, ScanIds, scanActive, ActiveStates
<1>2. antenna' \in Antennas /\ antenna'.command = NoPath /\ ~antenna'.moving
  BY <1>0, AntennaFacts DEF StartScanRefused
<1>3. recording' \in {"Idle", "Active", "Failed"} /\ owner' = 0
  BY <1>0, <1>1, EndFacts DEF StartScanRefused
<1>4. outcomes' \in [ScanIds -> SUBSET Signals]
  BY <1>0, <1>1 DEF StartScanRefused, TypeOK, Signals
<1>5. TypeOK'
  BY <1>0, <1>1, <1>2, <1>3, <1>4, SessionAssumption
  DEF StartScanRefused, TypeOK, ScanIds, queueVars, recorderVars, workerVars
<1>6. ResourcesFollowScan'
  BY <1>1, <1>2, <1>3
  DEF StartScanRefused, ResourcesFollowScan, scanActive, ActiveStates, recorderVars
<1>7. Places' BY <1>0, <1>1 DEF StartScanRefused, Places, recorderVars
<1>8. Pending'
  <2>1. \A id : Due(id) => Due(id)'
    BY <1>1, SessionAssumption DEF Due, ScanIds, StartScanRefused
  <2> QED BY <1>0, <2>1 DEF Pending, StartScanRefused, queueVars
<1> QED BY <1>5, <1>6, <1>7, <1>8 DEF IInv

LEMMA BeginStep ==
    ASSUME IInv, BeginSectorScan
    PROVE  IInv'
<1>0. TypeOK /\ ResourcesFollowScan /\ Places /\ Pending BY DEF IInv
<1>1. CASE Abandon("Failed", "failed")
  <2>1. scanActive BY DEF BeginSectorScan, scanActive, ActiveStates
  <2> QED BY <1>1, <2>1, AbandonStep DEF Signals
<1>2. CASE /\ antenna' = SectorScan(antenna, path)
           /\ raced' = HaltPending
           /\ uiTodo' = "open"
           /\ UNCHANGED <<state, hasSector, sessionVars, current, queueVars,
                          outcomes, table, recorderVars, recordingVars, workerVars>>
  <2>1. path \in Paths BY <1>0 DEF BeginSectorScan, Places
  <2>2. antenna' \in Antennas BY <1>0, <1>2, <2>1, AntennaFacts
  <2>3. antenna'.command = path BY <1>2 DEF SectorScan
  <2>4. raced' \in BOOLEAN BY <1>2, ZenonT(10) DEF HaltPending
  <2>5. TypeOK'
    BY <1>0, <1>2, <2>2, <2>4
    DEF TypeOK, sessionVars, queueVars, recorderVars, recordingVars, workerVars
  <2>6. ResourcesFollowScan'
    BY <1>0, <1>2, <2>3
    DEF BeginSectorScan, ResourcesFollowScan, scanActive, ActiveStates, sessionVars,
        recorderVars, recordingVars
  <2>7. Places' BY <1>0, <1>2 DEF BeginSectorScan, Places, sessionVars, recorderVars
  <2>8. Pending' BY <1>0, <1>2, PendingFrame DEF sessionVars, queueVars
  <2> QED BY <2>5, <2>6, <2>7, <2>8 DEF IInv
<1> QED BY <1>1, <1>2 DEF BeginSectorScan

LEMMA OpenStep ==
    ASSUME IInv, OpenAcquisition
    PROVE  IInv'
<1>0. TypeOK /\ ResourcesFollowScan /\ Places /\ Pending BY DEF IInv
<1>1. /\ active # 0 /\ state = "MovingToStart" /\ scanActive
      /\ active \in ScanIds /\ recorder = 0 /\ owner = 0
  BY <1>0, SessionAssumption
  DEF OpenAcquisition, Places, ResourcesFollowScan, scanActive, ActiveStates, TypeOK, ScanIds
<1>d. \A id : id # active /\ Due(id) /\ UNCHANGED nextId /\ active' \in {0, active} => Due(id)'
  BY <1>1 DEF Due, ScanIds
<1>e. \A id : Due(id) => id # active BY <1>1 DEF Due
<1>2. CASE \* the acquisition opens
           /\ RecordingStarted(TRUE) /\ owner' = active
           /\ recorder' = active /\ metaId' = active
           /\ state' = "Scanning" /\ uiTodo' = "none"
           /\ UNCHANGED <<hasSector, active, path, nextId, current, queueVars,
                          outcomes, table, closed, antenna, workerVars, raced>>
  <2>1. recording' = "Active" /\ owner' = active BY <1>1, <1>2 DEF RecordingStarted
  <2>2. TypeOK'
    BY <1>0, <1>1, <1>2, <2>1 DEF TypeOK, ActiveStates, queueVars, workerVars
  <2>3. ResourcesFollowScan'
    BY <1>0, <1>1, <1>2, <2>1 DEF ResourcesFollowScan, scanActive, ActiveStates
  <2>4. Places' BY <1>0, <1>2 DEF Places
  <2>5. Pending' BY <1>0, <1>2, <1>d, <1>e DEF Pending, queueVars
  <2> QED BY <2>2, <2>3, <2>4, <2>5 DEF IInv
<1>3. CASE \* the recording does not start
           /\ recording' = "Failed"
           /\ antenna' = Halted(antenna)
           /\ CloseRecorder
           /\ Settle(active, "Failed", "failed")
           /\ uiTodo' = "none"
           /\ UNCHANGED <<hasSector, current, queueVars, table, owner, workerVars, raced>>
  <2>1. recorder' = 0 /\ closed' \in SUBSET ScanIds BY <1>0, <1>3, CloseFacts DEF Places
  <2>2. antenna' \in Antennas /\ antenna'.command = NoPath /\ ~antenna'.moving
    BY <1>0, <1>3, AntennaFacts
  <2>3. outcomes' \in [ScanIds -> SUBSET Signals]
    BY <1>0, <1>1, <1>3 DEF Settle, TypeOK, Signals
  <2>4. TypeOK'
    BY <1>0, <1>3, <2>1, <2>2, <2>3, SessionAssumption DEF Settle, TypeOK, queueVars, workerVars
  <2>5. ResourcesFollowScan'
    BY <1>1, <1>3, <2>1, <2>2 DEF Settle, ResourcesFollowScan, scanActive, ActiveStates
  <2>6. Places' BY <1>3, <2>1 DEF Settle, Places
  <2>7. Pending' BY <1>0, <1>3, <1>d, <1>e DEF Pending, queueVars, Settle
  <2> QED BY <2>4, <2>5, <2>6, <2>7 DEF IInv
<1> QED BY <1>2, <1>3 DEF OpenAcquisition

LEMMA UpdateStep ==
    ASSUME IInv, UpdateAzimuth
    PROVE  IInv'
<1>0. TypeOK /\ ResourcesFollowScan /\ Places /\ Pending BY DEF IInv
<1> DEFINE at == Head(posted).at
<1>1. /\ at \in Coords /\ posted' \in Seq(Events) /\ posted' = Tail(posted)
      /\ \A i \in 1 .. Len(posted') :
            posted'[i] = posted[i + 1] /\ i + 1 \in 1 .. Len(posted)
  <2>1. Head(posted) \in Events /\ Head(posted).kind = "azimuth" /\ posted # <<>>
    BY <1>0, QueueFacts DEF UpdateAzimuth
  <2>2. at \in Coords BY <2>1 DEF Events
  <2> QED BY <1>0, <2>1, <2>2, QueueFacts DEF UpdateAzimuth, TypeOK
<1>2. /\ current' = at /\ uiTodo = "none"
      /\ UNCHANGED <<hasSector, sessionVars, outcomes, table, recorderVars,
                     recordingVars, workerVars, raced>>
  BY DEF UpdateAzimuth
<1>3. CASE UNCHANGED <<state, flushing, antenna>> /\ uiTodo' \in {"none", "begin"}
           /\ (uiTodo' = "begin" => state = "MovingToStart")
  <2>1. TypeOK'
    BY <1>0, <1>1, <1>2, <1>3 DEF TypeOK, sessionVars, recorderVars, recordingVars, workerVars
  <2>2. ResourcesFollowScan'
    BY <1>0, <1>2, <1>3 DEF ResourcesFollowScan, scanActive, sessionVars, recorderVars, recordingVars
  <2>3. Places'
    BY <1>0, <1>2, <1>3 DEF Places, ResourcesFollowScan, scanActive, ActiveStates,
       sessionVars, recorderVars
  <2>4. \A id : Due(id) => Due(id)' BY <1>2, <1>3 DEF Due, ScanIds, sessionVars
  <2>5. Pending' BY <1>0, <1>1, <1>3, <2>4 DEF Pending
  <2> QED BY <2>1, <2>2, <2>3, <2>5 DEF IInv
<1>4. CASE /\ state = "Scanning" /\ state' = "Completing"
           /\ antenna' = Halted(antenna)
           /\ flushing' = Append(flushing, active) /\ UNCHANGED uiTodo
  <2>1. antenna' \in Antennas /\ antenna'.command = NoPath /\ ~antenna'.moving
    BY <1>0, <1>4, AntennaFacts
  <2>2. active \in ScanIds /\ active # 0 /\ active < nextId
    BY <1>0, <1>4, SessionAssumption
    DEF TypeOK, ResourcesFollowScan, scanActive, ActiveStates, ScanIds, Places
  <2>3. /\ flushing' \in Seq(ScanIds)
        /\ \A i \in 1 .. Len(flushing') :
              flushing'[i] = active \/ (i \in 1 .. Len(flushing) /\ flushing'[i] = flushing[i])
    BY <1>0, <1>4, <2>2 DEF TypeOK
  <2>4. TypeOK'
    BY <1>0, <1>1, <1>2, <1>4, <2>1, <2>3
    DEF TypeOK, ActiveStates, sessionVars, recorderVars, recordingVars, workerVars
  <2>5. ResourcesFollowScan'
    BY <1>0, <1>2, <1>4, <2>1
    DEF ResourcesFollowScan, scanActive, ActiveStates, sessionVars, recorderVars, recordingVars
  <2>6. Places' BY <1>0, <1>2, <1>4 DEF Places, sessionVars, recorderVars
  <2>7. \A id : Due(id) => Due(id)' BY <1>2, <1>4 DEF Due, ScanIds, sessionVars
  <2>8. Due(active)' BY <1>2, <1>4, <2>2 DEF Due, ScanIds, sessionVars
  <2>9. Pending' BY <1>0, <1>1, <1>2, <2>3, <2>7, <2>8 DEF Pending, sessionVars
  <2> QED BY <2>4, <2>5, <2>6, <2>9 DEF IInv
<1> QED BY <1>2, <1>3, <1>4 DEF UpdateAzimuth

LEMMA FlushStep ==
    ASSUME IInv, FlushTimer
    PROVE  IInv'
<1>0. TypeOK /\ ResourcesFollowScan /\ Places /\ Pending BY DEF IInv
<1> DEFINE event == [kind |-> "finalize", id |-> Head(flushing)]
<1>1. /\ flushing # <<>> /\ flushing' = Tail(flushing) /\ posted' = Append(posted, event)
      /\ UNCHANGED <<state, hasSector, sessionVars, current, uiTodo, outcomes,
                     table, recorderVars, recordingVars, antenna, workerVars, raced>>
  BY DEF FlushTimer
<1>2. /\ Head(flushing) \in ScanIds /\ flushing' \in Seq(ScanIds) /\ Due(Head(flushing))
      /\ \A i \in 1 .. Len(flushing') :
            flushing'[i] = flushing[i + 1] /\ i + 1 \in 1 .. Len(flushing)
  <2>1. 1 \in 1 .. Len(flushing) BY <1>0, <1>1 DEF TypeOK
  <2> QED BY <1>0, <1>1, <2>1, QueueFacts DEF Pending, TypeOK
<1>3. event \in Events BY <1>2 DEF Events
<1>4. /\ posted' \in Seq(Events)
      /\ \A i \in 1 .. Len(posted') :
            posted'[i] = event \/ (i \in 1 .. Len(posted) /\ posted'[i] = posted[i])
  <2> HIDE DEF event
  <2> QED BY <1>0, <1>1, <1>3 DEF TypeOK
<1>5. TypeOK'
  BY <1>0, <1>1, <1>2, <1>4
  DEF TypeOK, sessionVars, recorderVars, recordingVars, workerVars
<1>6. ResourcesFollowScan'
  BY <1>0, <1>1 DEF ResourcesFollowScan, scanActive, sessionVars, recorderVars, recordingVars
<1>7. Places' BY <1>0, <1>1 DEF Places, sessionVars, recorderVars
<1>8. \A id : Due(id) => Due(id)' BY <1>1 DEF Due, ScanIds, sessionVars
<1>9. Pending' BY <1>0, <1>2, <1>4, <1>8 DEF Pending
<1> QED BY <1>5, <1>6, <1>7, <1>9 DEF IInv

LEMMA FinalizeStep ==
    ASSUME IInv, FinalizeCompletedScan
    PROVE  IInv'
<1>0. TypeOK /\ ResourcesFollowScan /\ Places /\ Pending BY DEF IInv
<1> DEFINE id == Head(posted).id
<1>1. /\ posted # <<>> /\ Head(posted).kind = "finalize" /\ posted' = Tail(posted)
      /\ uiTodo = "none"
      /\ UNCHANGED <<hasSector, current, uiTodo, flushing, antenna, workerVars, raced>>
  BY DEF FinalizeCompletedScan
<1>2. /\ posted' \in Seq(Events)
      /\ \A i \in 1 .. Len(posted') :
            posted'[i] = posted[i + 1] /\ i + 1 \in 1 .. Len(posted)
  BY <1>0, <1>1, QueueFacts DEF TypeOK
<1>3. Due(id) /\ id \in ScanIds
  <2>1. 1 \in 1 .. Len(posted) /\ Head(posted) = posted[1] BY <1>0, <1>1 DEF TypeOK
  <2> QED BY <1>0, <1>1, <2>1 DEF Pending, Due
<1>4. CASE active = id
  <2> HIDE DEF id
  <2>1. /\ EndScanRecording(id) /\ CloseRecorder
        /\ table' \in {table, Append(table, id)}
        /\ Settle(id, "Completed", "completed")
    BY <1>4 DEF FinalizeCompletedScan, id
  <2>2. state = "Completing" BY <1>3, <1>4 DEF Due
  <2>3. antenna.command = NoPath /\ ~(antenna.moving /\ antenna.manual = "none")
    BY <1>0, <1>1, <2>2 DEF ResourcesFollowScan
  <2>4. recorder' = 0 /\ closed' \in SUBSET ScanIds BY <1>0, <2>1, CloseFacts DEF Places
  <2>5. recording' \in {"Idle", "Active", "Failed"} /\ owner' = 0
    BY <1>0, <1>3, <1>4, <2>1, <2>2, EndFacts DEF ResourcesFollowScan, ScanIds
  <2>6. outcomes' \in [ScanIds -> SUBSET Signals] /\ table' \in Seq(ScanIds)
    <3>1. outcomes \in [ScanIds -> SUBSET Signals] /\ "completed" \in Signals
          /\ table \in Seq(ScanIds)
      BY <1>0 DEF TypeOK, Signals
    <3>2. outcomes' = [outcomes EXCEPT ![id] = @ \cup {"completed"}] BY <2>1 DEF Settle
    <3>3. outcomes' \in [ScanIds -> SUBSET Signals] BY <3>1, <3>2
    <3>4. table' \in Seq(ScanIds) BY <1>3, <2>1, <3>1
    <3> QED BY <3>3, <3>4
  <2>7. TypeOK'
    BY <1>0, <1>1, <1>2, <2>1, <2>4, <2>5, <2>6, SessionAssumption DEF Settle, TypeOK, workerVars
  <2>8. ResourcesFollowScan'
    BY <1>1, <2>1, <2>3, <2>4, <2>5 DEF Settle, ResourcesFollowScan, scanActive, ActiveStates
  <2>9. Places' BY <1>1, <2>1, <2>4 DEF Settle, Places
  <2>10. \A j : Due(j) => Due(j)' BY <2>1 DEF Due, ScanIds, Settle
  <2>11. Pending' BY <1>0, <1>1, <1>2, <2>10 DEF Pending
  <2> QED BY <2>7, <2>8, <2>9, <2>11 DEF IInv
<1>5. CASE active # id
  <2> HIDE DEF id
  <2>1. UNCHANGED <<recordingVars, recorderVars, table, sessionVars, state, outcomes>>
    BY <1>5 DEF FinalizeCompletedScan, id
  <2>2. TypeOK'
    BY <1>0, <1>1, <1>2, <2>1 DEF TypeOK, sessionVars, recorderVars, recordingVars, workerVars
  <2>3. ResourcesFollowScan'
    BY <1>0, <1>1, <2>1
    DEF ResourcesFollowScan, scanActive, sessionVars, recorderVars, recordingVars
  <2>4. Places' BY <1>0, <1>1, <2>1 DEF Places, sessionVars, recorderVars
  <2>5. \A j : Due(j) => Due(j)' BY <2>1 DEF Due, ScanIds, sessionVars
  <2>6. Pending' BY <1>0, <1>1, <1>2, <2>5 DEF Pending
  <2> QED BY <2>2, <2>3, <2>4, <2>6 DEF IInv
<1> QED BY <1>4, <1>5

LEMMA WorkerMoves ==
    ASSUME IInv, Worker
    PROVE  IInv'
<1>0. TypeOK /\ ResourcesFollowScan /\ Places /\ Pending BY DEF IInv
<1>1. UNCHANGED uiVars BY DEF Worker, WorkerRead, WorkerMove, WorkerSettle, WorkerPost
<1>2. worker' \in {"idle", "move", "settle", "post"}
  BY DEF Worker, WorkerRead, WorkerMove, WorkerSettle, WorkerPost
<1>3. seen' \in Decisions
  BY <1>0, TickFacts DEF Worker, WorkerRead, WorkerMove, WorkerSettle, WorkerPost, TypeOK
<1>4. /\ antenna' \in Antennas
      /\ antenna'.command \in {antenna.command, NoPath}
      /\ antenna'.moving => antenna.moving /\ antenna'.manual = antenna.manual
  <2>1. CASE UNCHANGED antenna BY <1>0, <2>1 DEF TypeOK
  <2>2. CASE WorkerMove
    <3>1. antenna \in Antennas /\ seen.pos \in Coords BY <1>0 DEF TypeOK, Decisions
    <3>2. antenna' = [antenna EXCEPT !.pos = seen.pos] BY <2>2 DEF WorkerMove
    <3> QED BY <3>1, <3>2 DEF Antennas
  <2>3. CASE antenna' = Halted(antenna) BY <1>0, <2>3, AntennaFacts
  <2>4. CASE antenna' = [antenna EXCEPT !.moving = FALSE] BY <1>0, <2>4 DEF TypeOK, Antennas
  <2> QED BY <2>1, <2>2, <2>3, <2>4 DEF Worker, WorkerRead, WorkerSettle, WorkerPost
<1>5. /\ posted' \in Seq(Events)
      /\ \A i \in 1 .. Len(posted') :
            posted'[i].kind # "finalize" \/ (i \in 1 .. Len(posted) /\ posted'[i] = posted[i])
  <2>1. CASE UNCHANGED posted BY <1>0, <2>1 DEF TypeOK
  <2>2. CASE WorkerPost
    <3> DEFINE event == [kind |-> "azimuth", at |-> antenna.pos]
    <3>1. posted' = Append(posted, event) BY <2>2 DEF WorkerPost
    <3>2. event \in Events /\ event.kind = "azimuth"
      BY <1>0 DEF TypeOK, Antennas, Events
    <3> HIDE DEF event
    <3> QED BY <1>0, <3>1, <3>2 DEF TypeOK
  <2> QED BY <2>1, <2>2 DEF Worker, WorkerRead, WorkerMove, WorkerSettle
<1>6. TypeOK'
  BY <1>0, <1>1, <1>2, <1>3, <1>4, <1>5
  DEF uiVars, TypeOK, sessionVars, recorderVars, recordingVars
<1>7. ResourcesFollowScan'
  BY <1>0, <1>1, <1>4
  DEF uiVars, ResourcesFollowScan, scanActive, sessionVars, recorderVars, recordingVars
<1>8. Places' BY <1>0, <1>1 DEF uiVars, Places, sessionVars, recorderVars
<1>9. \A id : Due(id) => Due(id)' BY <1>1 DEF uiVars, Due, ScanIds, sessionVars
<1>10. Pending' BY <1>0, <1>1, <1>5, <1>9 DEF Pending, uiVars
<1> QED BY <1>6, <1>7, <1>8, <1>10 DEF IInv

LEMMA InvStep == IInv /\ [Next]_vars => IInv'
<1> SUFFICES ASSUME IInv, [Next]_vars PROVE IInv' OBVIOUS
<1>1. CASE SelectSector \/ ClearSector BY <1>1, IdleStep
<1>2. CASE \E s \in Sectors : StartScan(s[1], s[2]) BY <1>2, StartStep
<1>3. CASE StartScanRefused BY <1>3, StartRefusedStep
<1>4. CASE StopScan
  <2>1. CASE scanActive /\ Abandon("Cancelled", "cancelled")
    BY <2>1, AbandonStep DEF Signals
  <2>2. CASE ~scanActive BY <1>4, <2>2, IdleStep
  <2> QED BY <1>4, <2>1, <2>2 DEF StopScan
<1>5. CASE \E dir \in {"Left", "Right"} : StartManualMove(dir) BY <1>5, IdleStep
<1>6. CASE StartRecording \/ StopRecording BY <1>6, RecordingStep
<1>7. CASE EventLoop BY <1>7, BeginStep, OpenStep, UpdateStep, FinalizeStep DEF EventLoop
<1>8. CASE FlushTimer BY <1>8, FlushStep
<1>9. CASE Worker BY <1>9, WorkerMoves
<1>10. CASE UNCHANGED vars
  <2>1. TypeOK /\ ResourcesFollowScan /\ Places /\ Pending BY DEF IInv
  <2>2. Pending' BY <1>10, <2>1, PendingFrame DEF vars, sessionVars, queueVars
  <2> QED BY <1>10, <2>1, <2>2
    DEF vars, IInv, TypeOK, ResourcesFollowScan, Places, scanActive, sessionVars,
        queueVars, recorderVars, recordingVars, workerVars
<1> QED
  BY <1>1, <1>2, <1>3, <1>4, <1>5, <1>6, <1>7, <1>8, <1>9, <1>10 DEF Next, Operator

\* Every variable of the scan keeps to its values.
THEOREM ScanTypeCorrect == Spec => []TypeOK
<1>1. IInv => TypeOK BY DEF IInv
<1> QED BY <1>1, InvInit, InvStep, PTL DEF Spec

\* The recorder, the recording and the antenna are held by the scan that scans
\* or completes and by no other, whatever the operator, the antenna's thread, a
\* late flush and a failing start do in between.
THEOREM ScanHoldsResources == Spec => []ResourcesFollowScan
<1>1. IInv => ResourcesFollowScan BY DEF IInv
<1> QED BY <1>1, InvInit, InvStep, PTL DEF Spec

-----------------------------------------------------------------------------
(* Outcomes: with IInv, OneOutcome is inductive.                           *)

LEMMA OutcomeFrame ==
    ASSUME OneOutcome, UNCHANGED <<active, nextId, outcomes, table>>, closed \subseteq closed'
    PROVE  OneOutcome'
BY DEF OneOutcome

\* A scan without an outcome gets one: it was the last one numbered, and the
\* recorder has closed it if it completed.
LEMMA OutcomeGiven ==
    ASSUME IInv, OneOutcome, NEW id \in ScanIds, NEW signal \in Signals,
           id = active \/ (active = 0 /\ id = nextId),
           active' = 0, nextId' = id + 1, closed \subseteq closed',
           outcomes' = [outcomes EXCEPT ![id] = @ \cup {signal}],
           table' = table \/ (signal = "completed" /\ table' = Append(table, id)),
           signal = "completed" => id \in closed'
    PROVE  OneOutcome'
<1>1. /\ TypeOK /\ Places /\ nextId \in Nat
      /\ \A j \in ScanIds : j \in Nat /\ j # 0
  BY SessionAssumption DEF IInv, TypeOK, ScanIds
<1>2. outcomes[id] = {} BY <1>1 DEF OneOutcome
<1>3. /\ outcomes'[id] = {signal}
      /\ \A j \in ScanIds : j # id => outcomes'[j] = outcomes[j]
  BY <1>1, <1>2 DEF TypeOK
<1>4. \A j \in ScanIds : j < nextId' /\ j # active' <=> j = id \/ (j < nextId /\ j # active)
  BY <1>1 DEF Places
<1>5. \A j \in ScanIds : IF j < nextId' /\ j # active'
                             THEN \E s \in Signals : outcomes'[j] = {s}
                             ELSE outcomes'[j] = {}
  BY <1>3, <1>4 DEF OneOutcome
<1>6. \A j \in ScanIds : "completed" \in outcomes'[j] => j \in closed'
  <2> SUFFICES ASSUME NEW j \in ScanIds, "completed" \in outcomes'[j] PROVE j \in closed'
    OBVIOUS
  <2>1. CASE j = id BY <1>3, <2>1
  <2>2. CASE j # id BY <1>3, <2>2 DEF OneOutcome
  <2> QED BY <2>1, <2>2
<1>7. \A i \in DOMAIN table : /\ table[i] \in ScanIds /\ table[i] < id
                               /\ "completed" \in outcomes[table[i]]
  <2> SUFFICES ASSUME NEW i \in DOMAIN table
               PROVE  /\ table[i] \in ScanIds /\ table[i] < id
                      /\ "completed" \in outcomes[table[i]]
    OBVIOUS
  <2>1. table[i] \in ScanIds BY <1>1 DEF TypeOK
  <2>2. "completed" \in outcomes[table[i]] BY DEF OneOutcome
  <2>3. table[i] < nextId /\ table[i] # active BY <2>1, <2>2 DEF OneOutcome
  <2> QED BY <1>1, <2>1, <2>2, <2>3 DEF Places
<1>8. CASE table' = table
  <2>1. \A i \in DOMAIN table' : "completed" \in outcomes'[table'[i]] BY <1>1, <1>3, <1>7, <1>8
  <2>2. \A i, j \in DOMAIN table' : i < j => table'[i] < table'[j] BY <1>8 DEF OneOutcome
  <2> QED BY <1>5, <1>6, <2>1, <2>2 DEF OneOutcome
<1>9. CASE signal = "completed" /\ table' = Append(table, id)
  <2>1. /\ DOMAIN table' = 1 .. Len(table) + 1 /\ DOMAIN table = 1 .. Len(table)
        /\ Len(table) \in Nat
        /\ \A i \in 1 .. Len(table) : table'[i] = table[i]
        /\ table'[Len(table) + 1] = id
    BY <1>1, <1>9 DEF TypeOK
  <2>2. \A i \in DOMAIN table' : "completed" \in outcomes'[table'[i]]
    <3> SUFFICES ASSUME NEW i \in DOMAIN table' PROVE "completed" \in outcomes'[table'[i]]
      OBVIOUS
    <3>1. CASE i \in DOMAIN table BY <1>1, <1>3, <1>7, <2>1, <3>1
    <3>2. CASE i = Len(table) + 1 BY <1>3, <1>9, <2>1, <3>2
    <3> QED BY <2>1, <3>1, <3>2
  <2>3. \A i, j \in DOMAIN table' : i < j => table'[i] < table'[j]
    <3> SUFFICES ASSUME NEW i \in DOMAIN table', NEW j \in DOMAIN table', i < j
                 PROVE  table'[i] < table'[j]
      OBVIOUS
    <3>1. i \in DOMAIN table BY <2>1
    <3>2. CASE j \in DOMAIN table BY <2>1, <3>1, <3>2 DEF OneOutcome
    <3>3. CASE j = Len(table) + 1 BY <1>7, <2>1, <3>1, <3>3
    <3> QED BY <2>1, <3>2, <3>3
  <2> QED BY <1>5, <1>6, <2>2, <2>3 DEF OneOutcome
<1> QED BY <1>8, <1>9

LEMMA OutcomeStep == IInv /\ OneOutcome /\ [Next]_vars => OneOutcome'
<1> SUFFICES ASSUME IInv, OneOutcome, [Next]_vars PROVE OneOutcome' OBVIOUS
<1>0. TypeOK /\ ResourcesFollowScan /\ Places /\ Pending BY DEF IInv
<1>a. scanActive => active \in ScanIds /\ nextId = active + 1
  BY <1>0, SessionAssumption DEF TypeOK, ResourcesFollowScan, ScanIds, Places
<1>c. CloseRecorder => closed \subseteq closed' BY DEF CloseRecorder, recorderVars
<1>g. ASSUME NEW final, NEW signal \in Signals \ {"completed"}, scanActive, CloseRecorder,
             Settle(active, final, signal), table' = table
      PROVE  OneOutcome'
  <2>1. /\ active' = 0 /\ nextId' = active + 1 /\ closed \subseteq closed'
        /\ outcomes' = [outcomes EXCEPT ![active] = @ \cup {signal}]
    BY <1>a, <1>c, <1>g DEF Settle
  <2> QED BY <1>a, <1>g, <2>1, OutcomeGiven
<1>1. CASE SelectSector \/ ClearSector
  BY <1>1, OutcomeFrame DEF SelectSector, ClearSector, sessionVars, recorderVars
<1>2. CASE \E s \in Sectors : StartScan(s[1], s[2])
  <2>1. /\ active = 0 /\ active' = nextId /\ nextId' = nextId + 1 /\ nextId \in Nat
        /\ UNCHANGED <<outcomes, table, closed>>
    BY <1>0, <1>2 DEF StartScan, recorderVars, ResourcesFollowScan, TypeOK
  <2>2. \A j \in ScanIds : j \in Nat /\ j # 0 BY SessionAssumption DEF ScanIds
  <2>3. \A j \in ScanIds : j < nextId' /\ j # active' <=> j < nextId /\ j # active
    BY <2>1, <2>2
  <2> QED BY <2>1, <2>3 DEF OneOutcome
<1>3. CASE StartScanRefused
  <2>1. /\ active = 0 /\ nextId \in ScanIds
    BY <1>0, <1>3, SessionAssumption DEF StartScanRefused, ResourcesFollowScan, TypeOK, ScanIds
  <2>2. /\ active' = 0 /\ nextId' = nextId + 1 /\ table' = table /\ closed \subseteq closed'
        /\ outcomes' = [outcomes EXCEPT ![nextId] = @ \cup {"failed"}]
    BY <1>3, <2>1 DEF StartScanRefused, recorderVars
  <2>3. "failed" \in Signals /\ "failed" # "completed" BY DEF Signals
  <2> QED BY <2>1, <2>2, <2>3, OutcomeGiven
<1>4. CASE StopScan
  <2>1. CASE scanActive /\ Abandon("Cancelled", "cancelled")
    BY <2>1, <1>g DEF Abandon, Signals
  <2>2. CASE UNCHANGED <<sessionVars, outcomes, table, recorderVars>>
    BY <2>2, OutcomeFrame DEF sessionVars, recorderVars
  <2> QED BY <1>4, <2>1, <2>2 DEF StopScan
<1>5. CASE \E dir \in {"Left", "Right"} : StartManualMove(dir)
  BY <1>5, OutcomeFrame DEF StartManualMove, sessionVars, recorderVars
<1>6. CASE StartRecording \/ StopRecording
  BY <1>6, OutcomeFrame DEF StartRecording, StopRecording, sessionVars, recorderVars
<1>7. CASE BeginSectorScan
  <2>1. scanActive BY <1>7 DEF BeginSectorScan, scanActive, ActiveStates
  <2>2. CASE Abandon("Failed", "failed") BY <2>1, <2>2, <1>g DEF Abandon, Signals
  <2>3. CASE UNCHANGED <<sessionVars, outcomes, table, recorderVars>>
    BY <2>3, OutcomeFrame DEF sessionVars, recorderVars
  <2> QED BY <1>7, <2>2, <2>3 DEF BeginSectorScan
<1>8. CASE OpenAcquisition
  <2>1. scanActive
    BY <1>0, <1>8 DEF OpenAcquisition, Places, scanActive, ActiveStates
  <2>2. CASE UNCHANGED <<active, nextId, outcomes, table, closed>> BY <2>2, OutcomeFrame
  <2>3. CASE CloseRecorder /\ Settle(active, "Failed", "failed") /\ table' = table
    BY <2>1, <2>3, <1>g DEF Signals
  <2> QED BY <1>8, <2>2, <2>3 DEF OpenAcquisition, Abandon
<1>9. CASE UpdateAzimuth
  BY <1>9, OutcomeFrame DEF UpdateAzimuth, sessionVars, recorderVars
<1>10. CASE FinalizeCompletedScan
  <2> DEFINE id == Head(posted).id
  <2>1. CASE active = id
    <3> HIDE DEF id
    <3>1. /\ CloseRecorder /\ table' \in {table, Append(table, id)}
          /\ Settle(id, "Completed", "completed")
      BY <1>10, <2>1 DEF FinalizeCompletedScan, id
    <3>2. 1 \in 1 .. Len(posted) /\ posted[1].kind = "finalize" /\ posted[1].id = id
      BY <1>0, <1>10 DEF FinalizeCompletedScan, TypeOK, id
    <3>3. Due(id) BY <1>0, <3>2 DEF Pending
    <3>4. id \in ScanIds /\ scanActive /\ state = "Completing"
      BY <2>1, <3>3 DEF Due, scanActive, ActiveStates
    <3>5. recorder = id /\ metaId = id BY <1>0, <2>1, <3>4 DEF ResourcesFollowScan, Places
    <3>6. id \in closed' /\ closed \subseteq closed'
      BY <1>0, <1>a, <3>1, <3>4, <3>5, CloseFacts, SessionAssumption
      DEF Places, ScanIds, CloseRecorder
    <3>7. /\ active' = 0 /\ nextId' = id + 1
          /\ outcomes' = [outcomes EXCEPT ![id] = @ \cup {"completed"}]
      BY <1>a, <2>1, <3>1, <3>4 DEF Settle
    <3>8. "completed" \in Signals BY DEF Signals
    <3> QED BY <2>1, <3>1, <3>4, <3>6, <3>7, <3>8, OutcomeGiven
  <2>2. CASE active # id
    BY <1>10, <2>2, OutcomeFrame DEF FinalizeCompletedScan, sessionVars, recorderVars
  <2> QED BY <2>1, <2>2
<1>11. CASE FlushTimer BY <1>11, OutcomeFrame DEF FlushTimer, sessionVars, recorderVars
<1>12. CASE Worker
  BY <1>12, OutcomeFrame
  DEF Worker, WorkerRead, WorkerMove, WorkerSettle, WorkerPost, uiVars, sessionVars, recorderVars
<1>13. CASE UNCHANGED vars BY <1>13, OutcomeFrame DEF vars, sessionVars, recorderVars
<1> QED
  BY <1>1, <1>2, <1>3, <1>4, <1>5, <1>6, <1>7, <1>8, <1>9, <1>10, <1>11, <1>12, <1>13
  DEF Next, Operator, EventLoop

\* Every scan that has ended was signalled once, and the recorder and the result
\* table agree with the signal, although calls queued for one scan may be handled
\* while another is active.
THEOREM ScanEndsOnce == Spec => []OneOutcome
<1>1. Init => OneOutcome
  <2> SUFFICES ASSUME Init PROVE OneOutcome OBVIOUS
  <2>1. \A id \in ScanIds : outcomes[id] = {} /\ ~(id < nextId)
    BY SessionAssumption DEF Init, ScanIds
  <2>2. DOMAIN table = {} BY DEF Init
  <2> QED BY <2>1, <2>2 DEF OneOutcome
<1> QED BY <1>1, InvInit, InvStep, OutcomeStep, PTL DEF Spec
=============================================================================
