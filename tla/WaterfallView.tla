---------------------------- MODULE WaterfallView ----------------------------
(***************************************************************************)
(* The waterfall on the screen: WaterfallController keeps a viewport on the  *)
(* time line of one session and a ring buffer with the rows in it.  Live     *)
(* rows are pushed into the ring buffer as they are stored; a change of the  *)
(* viewport asks the history worker for the rows, whose answer comes back    *)
(* through the event queue and replaces the ring buffer.                    *)
(*                                                                          *)
(* The sessions are those of SessionStore.  Times count row periods.         *)
(***************************************************************************)
EXTENDS SessionStore, Sequences, SequencesExt

CONSTANTS
  Height,        \* WaterfallControllerConfig::visibleRowCount
  WheelStep,     \* kRowsPerWheelStep
  Ranges,        \* bound: frequency ranges of the viewport, shown in this order
  MaxRequests    \* bound: history requests

ASSUME ViewAssumption ==
  /\ StoreAssumption
  /\ Height \in Nat \ {0} /\ WheelStep \in 1..Height /\ MaxRequests \in Nat
  /\ Ranges \in Nat \ {0}

VARIABLES
  activeSession, \* m_activeSessionId while m_sessionActive, else 0
  view,          \* m_timelineViewport
  range,         \* m_viewMinHz, m_viewMaxHz
  retuning,      \* m_retuning with m_retuneTimer
  requestId,     \* m_latestHistoryRequestId
  pending,       \* m_pendingHistoryRequest, at most one
  working,       \* the request the history worker has taken
  results,       \* answers in the event queue
  loading,       \* m_historyLoading
  ring,          \* WaterfallRingBuffer::m_data
  lastLive,      \* m_lastLiveRowUtcMs, 0 if none
  raced          \* history: whether a row came that the ring buffer has no place for

loadVars == <<requestId, pending, working, results, loading>>
screenVars == <<ring, lastLive, raced>>
viewVars == <<storeVars, activeSession, view, range, retuning, loadVars, screenVars>>

\* A slot is blank or holds a row as resampled to a frequency range.
BlankSlot == [row |-> 0, range |-> 0]
Blank == [k \in 1..Height |-> BlankSlot]
Live(v) == v.mode = "live"

ViewInit ==
  /\ StoreInit
  /\ activeSession = 0
  /\ view = [session |-> 0, top |-> 0, mode |-> "history"]
  /\ range = 1 /\ retuning = FALSE
  /\ requestId = 0 /\ pending = <<>> /\ working = <<>> /\ results = <<>>
  /\ loading = FALSE
  /\ ring = Blank /\ lastLive = 0 /\ raced = FALSE

-----------------------------------------------------------------------------
(* Loading history                                                           *)

\* loadHistoryRows, WaterfallTimelineMapper: the rows of the viewport in the slots
\* of their times, newest first.
Slots(i, top, f) ==
  LET rows == LoadRows(i, top - Height + 1, top, 2 * Height) IN
  [k \in 1..Height |->
     IF top - k + 1 \in rows THEN [row |-> top - k + 1, range |-> f] ELSE BlankSlot]

\* updateRenderBuffer for a viewport v and a frequency range f: the newest request
\* replaces one that the worker has not taken yet.
UpdateRenderBuffer(v, f) ==
  /\ lastLive' = 0
  /\ raced' = FALSE
  /\ IF v.session = 0
       THEN ring' = Blank /\ loading' = FALSE /\ UNCHANGED <<requestId, pending>>
       ELSE /\ requestId < MaxRequests
            /\ requestId' = requestId + 1
            /\ pending' = <<[id |-> requestId + 1, session |-> v.session, top |-> v.top,
                             range |-> f]>>
            /\ loading' = TRUE
            /\ UNCHANGED ring
  /\ UNCHANGED <<working, results>>

\* historyWorkerLoop, under m_historyMutex.
TakeRequest ==
  /\ pending # <<>> /\ working = <<>>
  /\ working' = pending /\ pending' = <<>>
  /\ UNCHANGED <<storeVars, activeSession, view, range, retuning, requestId, results,
                 loading, screenVars>>

\* loadHistoryRows on the worker: the sessions may have changed since the request.
LoadHistoryRows ==
  /\ working # <<>>
  /\ LET r == working[1] IN
     results' = Append(results, [id |-> r.id, rows |-> Slots(r.session, r.top, r.range)])
  /\ working' = <<>>
  /\ UNCHANGED <<storeVars, activeSession, view, range, retuning, requestId, pending,
                 loading, screenVars>>

\* Variant: the answer to any request is shown.
ApplyAnyResult ==
  /\ results # <<>>
  /\ results' = Tail(results)
  /\ ring' = Head(results).rows /\ loading' = FALSE
  /\ UNCHANGED <<storeVars, activeSession, view, range, retuning, requestId, pending,
                 working, lastLive, raced>>

\* Variant: an answer that comes while a new frequency range is awaited is dropped.
ApplyResultWhenIdle ==
  /\ results # <<>>
  /\ results' = Tail(results)
  /\ IF Head(results).id = requestId /\ ~retuning
       THEN ring' = Head(results).rows /\ loading' = FALSE
       ELSE UNCHANGED <<ring, loading>>
  /\ UNCHANGED <<storeVars, activeSession, view, range, retuning, requestId, pending,
                 working, lastLive, raced>>

\* applyHistoryLoadResult, an event of the user interface thread: only the answer to
\* the latest request counts.
ApplyHistoryLoadResult ==
  /\ results # <<>>
  /\ results' = Tail(results)
  /\ IF Head(results).id = requestId
       THEN ring' = Head(results).rows /\ loading' = FALSE
       ELSE UNCHANGED <<ring, loading>>
  /\ UNCHANGED <<storeVars, activeSession, view, range, retuning, requestId, pending,
                 working, lastLive, raced>>

-----------------------------------------------------------------------------
(* Recording and live rows                                                   *)

\* startRecording: the viewport follows the new session from its start.
BeginRecording ==
  /\ activeSession = 0
  /\ \E i \in Ids \ DOMAIN store, rotated \in SUBSET DOMAIN store :
       /\ \A j \in Ids : j < i => j \in DOMAIN store \/ \E k \in DOMAIN store : k > j
       /\ Cardinality(rotated) <= 1
       /\ StartSession(i, rotated, {})
       /\ activeSession' = i
       /\ view' = [session |-> i, top |-> StartUtc[i], mode |-> "live"]
  /\ UpdateRenderBuffer(view', range)
  /\ UNCHANGED <<range, retuning>>

\* Variant: the viewport stays live.
FinishRecordingStaysLive ==
  /\ activeSession # 0
  /\ \E end \in {StartUtc[activeSession]} \union store[activeSession].rows :
       CloseSession(activeSession, end)
  /\ activeSession' = 0 /\ lastLive' = 0
  /\ UNCHANGED <<view, range, retuning, loadVars, ring, raced>>

\* stopRecording, after the flush: what is shown stays.
FinishRecording ==
  /\ activeSession # 0
  /\ \E end \in {StartUtc[activeSession]} \union store[activeSession].rows :
       CloseSession(activeSession, end)
  /\ activeSession' = 0
  /\ view' = [view EXCEPT !.mode = "history"]
  /\ lastLive' = 0
  /\ UNCHANGED <<range, retuning, loadVars, ring, raced>>

PushLines(lines) == SubSeq(lines \o ring, 1, Height)

\* appendRenderRow: blank lines for the rows that are missing since the last live
\* row, no more than the ring buffer is high.
Gap(r) ==
  LET missing == IF lastLive = 0 THEN 0 ELSE Later(r - lastLive - 1, 0) IN
  [k \in 1..Sooner(missing, Height - 1) |-> BlankSlot]

\* A row of the time of a stored one, or of an earlier time: after a flush of the live
\* rows, or when a thread has overtaken another one, rows do not come in the order of time.
OutOfTurn(r) == \E q \in store[activeSession].rows : q >= r

\* appendRenderRow for a row with visible cells.  Its time counts from the time base of
\* the recording, where the session starts; it may be that of a stored row or an earlier
\* one.  The row is stored, and shown if the viewport is live: on top, even if rows below
\* it are later.  The branches for a row of another width are left out: adaptQueuedRow
\* makes it as wide as the ring buffer.
AppendRenderRow ==
  /\ activeSession # 0
  /\ \E r \in Rows :
       /\ r >= StartUtc[activeSession]
       /\ AppendRow(activeSession, r)
       /\ IF Live(view)
            THEN /\ view' = [view EXCEPT !.top = r]
                 /\ ring' = PushLines(<<[row |-> r, range |-> range]>> \o Gap(r))
                 /\ lastLive' = Later(lastLive, r)
                 /\ raced' = (raced \/ loading \/ OutOfTurn(r)
                                \/ (lastLive = 0 /\ ring # Blank /\ r # view.top + 1))
            ELSE /\ raced' = (raced \/ (view.session = activeSession /\ r <= view.top))
                 /\ UNCHANGED <<view, ring, lastLive>>
  /\ UNCHANGED <<activeSession, range, retuning, loadVars>>

-----------------------------------------------------------------------------
(* The time line                                                             *)

NewestTop(i) == Later(store[i].start, store[i].end)

\* Variant: the window may reach one row less far back.
OldestTopShort(i) ==
  Sooner(NewestTop(i), Later(store[i].start, store[i].start + Height))

\* oldestViewportTop: the window is full if the session is long enough.
OldestTop(i) ==
  Sooner(NewestTop(i), Later(store[i].start, store[i].start + Height - 1))

At(i, top, mode) == [session |-> i, top |-> top, mode |-> mode]

\* selectLatestSession
Latest(v) ==
  IF LatestSession = 0 THEN v ELSE At(LatestSession, NewestTop(LatestSession), "history")

\* scrollOlder, from the viewport v by a number of rows.
Older(v, rows) ==
  LET i == v.session IN
  IF i \notin DOMAIN store THEN Latest(v)
  ELSE IF v.top - rows >= OldestTop(i) THEN At(i, v.top - rows, "history")
  ELSE IF v.top # OldestTop(i) THEN At(i, OldestTop(i), "history")
  ELSE LET p == PreviousSession(i) IN
       IF p = 0 THEN v ELSE At(p, NewestTop(p), "history")

ModeAt(i, atTop) ==
  IF activeSession # 0 /\ i = activeSession /\ atTop THEN "live" ELSE "history"

\* scrollTowardLive: the end of the active session is live.
TowardLive(v, rows) ==
  LET i == v.session IN
  IF i \notin DOMAIN store THEN v
  ELSE IF v.top + rows <= NewestTop(i)
         THEN At(i, v.top + rows, ModeAt(i, v.top + rows = NewestTop(i)))
  ELSE IF v.top # NewestTop(i) THEN At(i, NewestTop(i), ModeAt(i, TRUE))
  ELSE LET n == NextSession(i) IN
       IF n = 0 THEN v ELSE At(n, NewestTop(n), ModeAt(n, TRUE))

\* scrollHistory and jumpToLive: the rows are asked for when the viewport changed.
ScrollTo(v) ==
  /\ v # view
  /\ view' = v
  /\ UpdateRenderBuffer(v, range)
  /\ UNCHANGED <<storeVars, activeSession, range, retuning>>

ScrollHistory == ScrollTo(Older(view, WheelStep)) \/ ScrollTo(TowardLive(view, WheelStep))

JumpToLive ==
  activeSession # 0 /\ ScrollTo(At(activeSession, NewestTop(activeSession), "live"))

\* onViewportChanged, scheduleRetune: the new range counts at once, the rows are
\* asked for when the timer expires.
ScheduleRetune ==
  /\ range < Ranges /\ range' = range + 1
  /\ retuning' = TRUE
  /\ UNCHANGED <<storeVars, activeSession, view, loadVars, screenVars>>

CommitViewport ==
  /\ retuning
  /\ retuning' = FALSE
  /\ UpdateRenderBuffer(view, range)
  /\ UNCHANGED <<storeVars, activeSession, view, range>>

-----------------------------------------------------------------------------
ViewNext ==
  \/ TakeRequest \/ LoadHistoryRows \/ ApplyHistoryLoadResult
  \/ BeginRecording \/ FinishRecording \/ AppendRenderRow
  \/ ScrollHistory \/ JumpToLive \/ ScheduleRetune \/ CommitViewport

ViewSpec == ViewInit /\ [][ViewNext]_viewVars

\* The worker and the event loop run; nobody has to scroll or to record.
ViewFairSpec ==
  /\ ViewSpec
  /\ WF_viewVars(TakeRequest) /\ WF_viewVars(LoadHistoryRows)
  /\ WF_viewVars(ApplyHistoryLoadResult)

-----------------------------------------------------------------------------
(* Properties                                                                *)

\* The types of the variables, and that a live viewport is on the active session.
ViewTypeOK ==
  /\ activeSession \in Ids \union {0}
  /\ view \in [session : Ids \union {0}, top : Nat, mode : {"live", "history"}]
  /\ Live(view) => activeSession # 0 /\ view.session = activeSession
  /\ range \in 1..Ranges /\ retuning \in BOOLEAN
  /\ requestId \in 0..MaxRequests
  /\ Len(pending) <= 1 /\ Len(working) <= 1
  /\ Len(ring) = Height
  /\ lastLive \in Rows \union {0}

\* applyHistoryLoadResult, appendRenderRow: when nothing is being loaded, the ring
\* buffer shows the rows of the session at the times of the viewport, in its
\* frequency range, whatever requests were replaced and whatever live rows came in
\* between, unless a live row raced with a request (display-data-audit.md, D10),
\* followed an answer after a gap, or came out of turn, which only the next request
\* repairs.
RingShowsStore ==
  ~loading /\ ~retuning /\ ~raced /\ view.session \in DOMAIN store
    => ring = Slots(view.session, view.top, range)

\* WaterfallController: what the window shows is the store's, and only an active session
\* is live.
ViewShowsStore == ViewTypeOK /\ RingShowsStore

\* The viewports met by turning the wheel n times, the older rows first.
OlderPath(n) ==
  ToSet(FoldLeft(LAMBDA met, k : <<Older(Head(met), WheelStep)>> \o met, <<Latest(view)>>,
                 [k \in 1..n |-> k]))

LivePath(n) ==
  ToSet(FoldLeft(LAMBDA met, k : <<TowardLive(Head(met), WheelStep)>> \o met, <<view>>,
                 [k \in 1..n |-> k]))

Turns == (Cardinality(Rows) + 1) * (Cardinality(Ids) + 1)

\* scrollOlder, scrollTowardLive: every stored row can be scrolled to from the end
\* of the time line, and from the time before the end of the active session the
\* wheel leads back to live.
TimelineConnected ==
  /\ LET met == OlderPath(Turns) IN
     \A i \in DOMAIN store : \A r \in store[i].rows :
       \E v \in met : v.session = i /\ v.top - Height < r /\ r <= v.top
  /\ (activeSession # 0 /\ view.session \in DOMAIN store
        /\ (Earlier(view.session, activeSession)
              \/ (view.session = activeSession /\ view.top < NewestTop(activeSession))))
       => \E v \in LivePath(Turns) : Live(v)

\* The answer to the latest request is not lost among those to earlier ones.
LoadingEnds == loading ~> ~loading
=============================================================================
