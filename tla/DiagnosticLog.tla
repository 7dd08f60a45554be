---------------------------- MODULE DiagnosticLog ----------------------------
(***************************************************************************)
(* Diagnostic events on their way to the log file and to the windows.       *)
(* Any thread publishes: it appends the event to the log writer's queue     *)
(* and then posts it to the GUI thread.  The queue is bounded and gives up  *)
(* its oldest events; the writer's thread reports how many, writes one      *)
(* event after the other, and may end only when nothing is left.            *)
(***************************************************************************)
EXTENDS Integers, Sequences

CONSTANTS
  Threads,         \* threads that publish
  MaxQueuedEvents, \* capacity of the writer's queue
  MaxRecentEvents, \* m_maxRecentEvents
  NoEvent,         \* nothing
  MaxEvents        \* bound: events published

ASSUME LogAssumption ==
  /\ {MaxQueuedEvents, MaxRecentEvents} \subseteq Nat \ {0}
  /\ MaxEvents \in Nat
  /\ NoEvent \notin [id : Nat, thread : Threads \cup {NoEvent},
                      severity : {"Info", "Warning", "Error"}, dropped : Nat]

VARIABLES
  \* DiagnosticLogWriter
  queue,          \* m_queue
  droppedEvents,  \* m_droppedEvents
  stopRequested,  \* m_stopRequested
  taken,          \* the line in the writer's hands
  gone,           \* the writer's thread has ended
  lines,          \* history: what was to be written, whether the file could be opened, and
                  \* for how many events the lines stand up to this one
  \* DiagnosticsService
  unposted,       \* by thread: appended to the log and not posted yet
  posted,         \* events in the event queue
  recent,         \* m_recentEvents
  lastError,      \* m_lastError
  count           \* history: events published

writerVars == <<queue, droppedEvents, stopRequested, taken, gone, lines>>
serviceVars == <<posted, recent, lastError>>
logVars == <<writerVars, unposted, serviceVars, count>>

Event(n, t, severity) == [id |-> n, thread |-> t, severity |-> severity, dropped |-> 0]
Overflow(n) == [id |-> 0, thread |-> NoEvent, severity |-> "Warning", dropped |-> n]

LogInit ==
  /\ queue = <<>> /\ droppedEvents = 0 /\ stopRequested = FALSE
  /\ taken = NoEvent /\ gone = FALSE /\ lines = <<>>
  /\ unposted = [t \in Threads |-> NoEvent]
  /\ posted = <<>> /\ recent = <<>> /\ lastError = NoEvent
  /\ count = 0

-----------------------------------------------------------------------------
(* DiagnosticsService.                                                       *)

\* publish, as far as the log
AppendEvent(t, severity) ==
  /\ ~stopRequested /\ unposted[t] = NoEvent /\ count < MaxEvents
  /\ count' = count + 1
  /\ LET event == Event(count + 1, t, severity)
         full == Len(queue) = MaxQueuedEvents
     IN /\ queue' = Append(IF full THEN Tail(queue) ELSE queue, event)
        /\ droppedEvents' = droppedEvents + (IF full THEN 1 ELSE 0)
        /\ unposted' = [unposted EXCEPT ![t] = event]
  /\ UNCHANGED <<stopRequested, taken, gone, lines, serviceVars>>

PostEvent(t) ==
  /\ unposted[t] # NoEvent
  /\ posted' = Append(posted, unposted[t])
  /\ unposted' = [unposted EXCEPT ![t] = NoEvent]
  /\ UNCHANGED <<writerVars, recent, lastError, count>>

AcceptEvent ==
  /\ posted # <<>> /\ posted' = Tail(posted)
  /\ LET event == Head(posted)
         longer == Append(recent, event)
     IN /\ recent' = IF Len(longer) > MaxRecentEvents THEN Tail(longer) ELSE longer
        /\ lastError' = IF event.severity = "Error" THEN event ELSE lastError
  /\ UNCHANGED <<writerVars, unposted, count>>

-----------------------------------------------------------------------------
(* DiagnosticLogWriter.                                                      *)

\* Variant: the queue goes first, and what it lost is reported when it is empty.
TakeLineQueueFirst ==
  /\ taken = NoEvent /\ ~gone
  /\ IF queue # <<>> THEN /\ taken' = Head(queue) /\ queue' = Tail(queue)
                          /\ UNCHANGED droppedEvents
     ELSE /\ droppedEvents > 0 /\ taken' = Overflow(droppedEvents)
          /\ droppedEvents' = 0 /\ UNCHANGED queue
  /\ UNCHANGED <<stopRequested, gone, lines, unposted, serviceVars, count>>

\* What the queue has lost is reported before anything else of it.
TakeLine ==
  /\ taken = NoEvent /\ ~gone
  /\ IF droppedEvents > 0 THEN /\ taken' = Overflow(droppedEvents)
                               /\ droppedEvents' = 0 /\ UNCHANGED queue
     ELSE /\ queue # <<>> /\ taken' = Head(queue) /\ queue' = Tail(queue)
          /\ UNCHANGED droppedEvents
  /\ UNCHANGED <<stopRequested, gone, lines, unposted, serviceVars, count>>

\* The events a line stands for, and those that all lines written stand for
Stands(line) == IF line.id # 0 THEN 1 ELSE line.dropped
Told == IF lines = <<>> THEN 0 ELSE lines[Len(lines)].told

WriteEvent(opened) ==
  /\ taken # NoEvent /\ taken' = NoEvent
  /\ lines' = Append(lines, [line |-> taken, opened |-> opened,
                             told |-> Told + Stands(taken)])
  /\ UNCHANGED <<queue, droppedEvents, stopRequested, gone, unposted, serviceVars, count>>

\* The destructor; no thread publishes any more
RequestStop ==
  /\ ~stopRequested /\ \A t \in Threads : unposted[t] = NoEvent
  /\ stopRequested' = TRUE
  /\ UNCHANGED <<queue, droppedEvents, taken, gone, lines, unposted, serviceVars, count>>

LogWriterExit ==
  /\ stopRequested /\ queue = <<>> /\ droppedEvents = 0 /\ taken = NoEvent /\ ~gone
  /\ gone' = TRUE
  /\ UNCHANGED <<queue, droppedEvents, stopRequested, taken, lines, unposted, serviceVars,
                 count>>

LogNext ==
  \/ \E t \in Threads : PostEvent(t) \/ \E s \in {"Info", "Error"} : AppendEvent(t, s)
  \/ AcceptEvent
  \/ TakeLine \/ \E opened \in BOOLEAN : WriteEvent(opened)
  \/ RequestStop \/ LogWriterExit

LogSpec == LogInit /\ [][LogNext]_logVars

-----------------------------------------------------------------------------
(* Properties.                                                               *)

LogTypeOK ==
  /\ Len(queue) <= MaxQueuedEvents /\ Len(recent) <= MaxRecentEvents
  /\ droppedEvents \in 0..MaxEvents /\ {stopRequested, gone} \subseteq BOOLEAN
  /\ gone => stopRequested /\ taken = NoEvent

\* The log accounts for every event at its place, however the queue overflows while
\* the writer is at work: ahead of an event stand, line by line or in a report of what
\* was dropped, all the events published before it and no other, but for lines whose
\* file did not open; and when the writer has ended, for all the events there were
\* (append, writerLoop).
LogAccountsForAll ==
  /\ \A k \in DOMAIN lines : lines[k].line.id # 0 => lines[k].line.id = lines[k].told
  /\ gone => Told = count

\* Events of one thread reach the windows in the order of the log, although another
\* thread may publish between the two halves of publish().
WindowsInOrder ==
  LET shown == recent \o posted
  IN \A i, j \in DOMAIN shown : i < j /\ shown[i].thread = shown[j].thread
                                 => shown[i].id < shown[j].id

\* DiagnosticLogWriter and DiagnosticsService: the log accounts for every event at its
\* place, and the windows show the events of a thread in their order.
LogComplete == LogTypeOK /\ LogAccountsForAll /\ WindowsInOrder
=============================================================================
