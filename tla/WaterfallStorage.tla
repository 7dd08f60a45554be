-------------------------- MODULE WaterfallStorage --------------------------
(***************************************************************************)
(* BinaryWaterfallSessionStorage: the user interface thread keeps the        *)
(* sessions and their recent rows in memory under m_mutex, a writer thread   *)
(* brings the rows to waterfall.bin and waterfall.idx under m_fileMutex and  *)
(* rewrites metadata.json after each, and the history loader reads the       *)
(* files and then the recent rows.  No lock is held from one of these steps  *)
(* to the next.  The process may crash in any of them; the next one scans    *)
(* what is on the disk.                                                      *)
(***************************************************************************)
EXTENDS Integers, Sequences, FiniteSets, SequencesExt

CONSTANTS
  Recordings,      \* bound: the recordings that are started
  StartUtc,        \* their start times
  Rows,            \* rows by their time; bound on what is recorded
  MaxSessions,     \* Config::maxSessions
  RecentCap,       \* kRecentRowsPerSession
  Queries,         \* the ranges asked for: [from, to, maxRows]
  MaxFailures,     \* bound: appends, commits and removals that fail
  MaxExits         \* bound: how often the process ends

Ids == 1..Recordings

ASSUME StorageAssumption ==
  /\ Recordings \in Nat /\ Rows \subseteq Nat \ {0} /\ IsFiniteSet(Rows)
  /\ StartUtc \in [Ids -> Nat \ {0}]
  /\ MaxSessions \in Nat \ {0} /\ RecentCap \in Nat \ {0}
  /\ Queries \subseteq [from : Nat, to : Nat, maxRows : Nat]
  /\ MaxFailures \in Nat /\ MaxExits \in Nat

VARIABLES
  sessions,   \* m_sessions with m_sessionDirs, under m_mutex
  recentRows, \* m_recentRows
  writeQueue, \* m_writeQueue
  batch,      \* the rows the writer has swapped out of the queue
  writer,     \* where the writer is in appendRowSync
  position,   \* fileOffset there: where the row begins in waterfall.bin
  copy,       \* the metadata it has copied and not yet written
  ui,         \* where the user interface thread is
  active,     \* the session being recorded, 0 if none
  load,       \* a loadRows between the files and the recent rows
  disk,       \* the session directories
  mode,       \* of the process: running, stopping, stopped, down
  exits,      \* how often it ended
  started,    \* recordings started so far
  fresh,      \* rows not yet produced
  seen,       \* the rows that could be read when the process ended, by session
  cut,        \* whether a repair of an index was cut short since
  failures,   \* disk operations that have failed
  failed      \* rows whose write failed or whose files were lost, by session

memoryVars == <<sessions, recentRows>>
procVars == <<writeQueue, batch, writer, position, copy, load>>
uiVars   == <<ui, active, started, fresh>>
modeVars == <<mode, exits, seen, cut>>
faultVars == <<failures, failed>>
vars == <<memoryVars, procVars, uiVars, disk, modeVars, faultVars>>

\* A record of waterfall.bin is a row, a stub -r of the row r with its header whole and
\* its bins cut off, or Torn, cut in the header.  An index record names a row and the
\* place where it begins; a damaged one is Broken.
Torn == 0
Broken == [row |-> Torn, at |-> 0]

Metadata == [start : Nat, end : Nat, closed : BOOLEAN]
NoMetadata == [start |-> 0, end |-> 0, closed |-> FALSE]

\* A directory with the parts of it that exist.
NoDirectory == [parts |-> {}, meta |-> NoMetadata, bin |-> <<>>, idx |-> <<>>]

NoLoad == [session |-> 0, query |-> [from |-> 0, to |-> 0, maxRows |-> 0],
           named |-> {}, found |-> {}, readable |-> {}, given |-> {}]

Later(t, u) == IF t > u THEN t ELSE u
Sooner(t, u) == IF t < u THEN t ELSE u

\* readRowAt: the row that is read at a place.  The bytes behind a stub complete it.
RowAt(records, at) ==
  IF at \notin DOMAIN records THEN Torn
  ELSE IF records[at] < 0 /\ at < Len(records) THEN -records[at]
  ELSE Later(records[at], Torn)

\* readIndexRecords: behind a damaged record the others are misaligned.
Intact(index) ==
  LET damaged == {k \in DOMAIN index : index[k] = Broken} IN
  IF damaged = {} THEN index ELSE SubSeq(index, 1, Min(damaged) - 1)

\* rebuildIndexFromBin: a record for each row up to the first that is not whole.  A stub
\* with something behind it looks whole, what follows it does not.
Parsed(records) ==
  LET bad == {k \in DOMAIN records : records[k] <= Torn}
      end == IF bad = {} THEN Len(records)
             ELSE IF RowAt(records, Min(bad)) = Torn THEN Min(bad) - 1 ELSE Min(bad)
  IN [k \in 1..end |-> [row |-> RowAt(records, k), at |-> k]]

\* The rows that are whole in waterfall.bin, where their index records say.
Indexed(index, records) ==
  {e.row : e \in {f \in ToSet(Intact(index)) :
                   f.at \in DOMAIN records /\ records[f.at] = f.row}}

Readable(i) == Indexed(disk[i].idx, disk[i].bin)

InRange(query, rows) ==
  {r \in rows : Sooner(query.from, query.to) <= r /\ r <= Later(query.from, query.to)}

\* The newest n of the rows, all of them if n is 0.
Newest(rows, n) == {r \in rows : n = 0 \/ Cardinality({q \in rows : q > r}) < n}

\* sessionEarlier, under the order rotateSessionsIfNeededLocked looks for a session
\* to remove: closed sessions first.
RemovedBefore(all, i, j) ==
  \/ all[i].closed /\ ~all[j].closed
  \/ /\ all[i].closed = all[j].closed
     /\ \/ all[i].start < all[j].start
        \/ all[i].start = all[j].start /\ i < j

\* rotateSessionsIfNeededLocked: the first n it removes for the current session.
FirstToGo(all, current, n) ==
  LET others == DOMAIN all \ {current} IN
  {i \in others : Cardinality({j \in others : RemovedBefore(all, j, i)}) < n}

Excess(all) == Later(Cardinality(DOMAIN all) - MaxSessions, 0)

Init ==
  /\ sessions = << >>
  /\ recentRows = [i \in Ids |-> {}]
  /\ writeQueue = <<>> /\ batch = <<>> /\ writer = "wait" /\ position = 0
  /\ copy = NoMetadata
  /\ ui = "idle" /\ active = 0
  /\ started = 0 /\ fresh = Rows
  /\ load = NoLoad
  /\ disk = [i \in Ids |-> NoDirectory]
  /\ mode = "running" /\ exits = 0
  /\ seen = [i \in Ids |-> {}] /\ cut = FALSE
  /\ failures = 0 /\ failed = {}

-----------------------------------------------------------------------------
(* The user interface thread                                                 *)

\* One of the bounded number of times that the disk refuses.
DiskFails == failures < MaxFailures /\ failures' = failures + 1

\* startSession, ensureSessionFiles: the files are created anew.  The model takes
\* it that they can be.
StartFiles ==
  /\ mode = "running" /\ ui = "idle" /\ active = 0
  /\ started + 1 \in Ids
  /\ started' = started + 1 /\ active' = started + 1
  /\ disk' = [disk EXCEPT ![started + 1] =
                               [NoDirectory EXCEPT !.parts = {"dir", "bin", "idx"}]]
  /\ ui' = "register"
  /\ UNCHANGED <<memoryVars, procVars, fresh, modeVars, faultVars>>

\* removeRecursively, when it fails: it removes what it can, but the directory stays.
Without(directory, stripped) ==
  [parts |-> directory.parts \ stripped,
   meta |-> IF "meta" \in stripped THEN NoMetadata ELSE directory.meta,
   bin |-> IF "bin" \in stripped THEN <<>> ELSE directory.bin,
   idx |-> IF "idx" \in stripped THEN <<>> ELSE directory.idx]

\* The rows that were in the files of a session when they were stripped.
Spilt(i, stripped) ==
  IF stripped \subseteq {"meta"} THEN {} ELSE {<<i, r>> : r \in Rows \intersect ToSet(disk[i].bin)}

\* startSession under m_mutex: the session becomes known and old ones are removed
\* until one cannot be, which stays known without the files that were stripped.
\* m_fileMutex is not taken.
StartRegister ==
  /\ ui = "register"
  /\ ui' = "describe"
  /\ LET new == [start |-> StartUtc[active], end |-> StartUtc[active], closed |-> FALSE]
         all == [i \in DOMAIN sessions \union {active} |->
                   IF i = active THEN new ELSE sessions[i]]
     IN \E n \in 0..Excess(all), stripped \in SUBSET {"bin", "idx", "meta"} :
          LET gone == FirstToGo(all, active, n)
              spoilt == FirstToGo(all, active, n + 1) \ gone
          IN /\ IF n = Excess(all) THEN stripped = {} /\ UNCHANGED failures ELSE DiskFails
             /\ sessions' = [i \in DOMAIN all \ gone |-> all[i]]
             /\ recentRows' = [i \in Ids |-> IF i \in gone \union {active} THEN {}
                                         ELSE recentRows[i]]
             /\ disk' = [i \in Ids |-> IF i \in gone THEN NoDirectory
                                      ELSE IF i \in spoilt THEN Without(disk[i], stripped)
                                      ELSE disk[i]]
             /\ failed' = {f \in failed : f[1] \notin gone}
                            \union UNION {Spilt(i, stripped) : i \in spoilt}
  /\ UNCHANGED <<procVars, active, started, fresh, modeVars>>

\* writeMetadata: mkpath brings a missing directory back, the file is replaced as
\* a whole or not at all.
Describe(i, metadata) ==
  \/ /\ disk' = [disk EXCEPT ![i].parts = @ \union {"dir"}, ![i].meta = metadata]
     /\ UNCHANGED failures
  \/ /\ DiskFails
     /\ disk' = [disk EXCEPT ![i].parts = @ \union {"dir"}]

\* The end of startSession and of closeSession: only this thread removes
\* directories, so the path cannot change between its two reads.
StartDescribe ==
  /\ ui = "describe"
  /\ ui' = "idle"
  /\ Describe(active, [start |-> StartUtc[active],
                       end |-> StartUtc[active], closed |-> FALSE])
  /\ UNCHANGED <<memoryVars, procVars, active, started, fresh, modeVars, failed>>

\* rememberRecentRowLocked: a late row may be the first to go.
Remember(rows, r) == Newest(rows \union {r}, RecentCap)

\* appendRow: memory under m_mutex, then the queue under m_writeMutex.  The
\* program appends to the session it records, which no rotation removes.
AppendRow ==
  /\ mode = "running" /\ ui = "idle" /\ active # 0
  /\ \E r \in fresh :
       /\ fresh' = fresh \ {r}
       /\ recentRows' = [recentRows EXCEPT ![active] = Remember(@, r)]
       /\ sessions' = [sessions EXCEPT ![active].start = Sooner(@, r),
                                         ![active].end = Later(@, r)]
       /\ writeQueue' = Append(writeQueue, [session |-> active, row |-> r])
  /\ UNCHANGED <<batch, writer, position, copy, load, ui, active, started, disk, modeVars,
                 faultVars>>

\* Variant: the end of the session is set to what the caller believes it to be.
CloseSessionAt ==
  /\ mode = "running" /\ ui = "idle" /\ active # 0
  /\ sessions' = [sessions EXCEPT ![active].end = StartUtc[active],
                                       ![active].closed = TRUE]
  /\ ui' = "close"
  /\ UNCHANGED <<recentRows, procVars, active, started, fresh, disk, modeVars,
                 faultVars>>

\* closeSession under m_mutex.  The caller has read the end of the session before
\* it waited for the last rows, so the end may be an old one.
CloseSession ==
  /\ mode = "running" /\ ui = "idle" /\ active # 0
  /\ \E end \in {StartUtc[active]} \union recentRows[active] :
       sessions' = [sessions EXCEPT ![active].end = Later(@, end),
                                         ![active].closed = TRUE]
  /\ ui' = "close"
  /\ UNCHANGED <<recentRows, procVars, active, started, fresh, disk, modeVars,
                 faultVars>>

CloseDescribe ==
  /\ ui = "close"
  /\ ui' = "idle" /\ active' = 0
  /\ Describe(active, sessions[active])
  /\ UNCHANGED <<memoryVars, procVars, started, fresh, modeVars, failed>>

-----------------------------------------------------------------------------
(* The writer thread                                                         *)

Job == Head(batch)

\* Variant: the writer looks for another row behind the last one.
RowDoneLooksOn == batch' = Tail(batch) /\ writer' = "look"

\* The writer is done with a row and goes to the next one of its batch.
RowDone ==
  /\ batch' = Tail(batch)
  /\ writer' = IF Len(batch) = 1 THEN "wait" ELSE "look"

\* writerLoop: the whole queue is taken at once.
TakeBatch ==
  /\ mode \in {"running", "stopping"} /\ writer = "wait" /\ writeQueue # <<>>
  /\ batch' = writeQueue /\ writeQueue' = <<>> /\ writer' = "look"
  /\ UNCHANGED <<memoryVars, position, copy, load, uiVars, disk, modeVars, faultVars>>

\* appendRowSync: the path, under m_mutex.  A removed session has none.
LookUp ==
  /\ writer = "look"
  /\ IF Job.session \in DOMAIN sessions
       THEN writer' = "bin" /\ UNCHANGED batch
       ELSE RowDone
  /\ UNCHANGED <<memoryVars, writeQueue, position, copy, load, uiVars, disk, modeVars,
                 faultVars>>

\* The disk with what was written of a record to one of the files of the job.  Opening
\* a file creates it.
Exists(i) == "dir" \in disk[i].parts
WithBin(written) ==
  [disk EXCEPT ![Job.session].parts = @ \union {"bin"}, ![Job.session].bin = @ \o written]
WithIdx(written) ==
  [disk EXCEPT ![Job.session].parts = @ \union {"idx"}, ![Job.session].idx = @ \o written]

\* A write to a file that fails may come to nothing, or leave a part of the record.
BinCut == {disk} \union {WithBin(written) : written \in {<<>>, <<Torn>>, <<-Job.row>>}}
IdxCut == {disk} \union {WithIdx(written) : written \in {<<>>, <<Broken>>}}

JobFails == failed' = failed \union {<<Job.session, Job.row>>}

\* The directory of the session is gone since the path was read.
Refused == ~Exists(Job.session) /\ RowDone /\ UNCHANGED <<disk, position, faultVars>>

\* appendRowSync: the row goes to the end of waterfall.bin.  A write that fails ends it,
\* but the row mostly stays in a buffer until flush, whose failure nobody looks at.
WriteRow ==
  /\ writer = "bin"
  /\ \/ Refused
     \/ /\ Exists(Job.session)
        /\ disk' = WithBin(<<Job.row>>)
        /\ writer' = "idx" /\ position' = Len(disk[Job.session].bin) + 1
        /\ UNCHANGED <<batch, faultVars>>
     \/ /\ Exists(Job.session) /\ DiskFails /\ JobFails
        /\ disk' \in BinCut
        /\ \/ RowDone /\ UNCHANGED position
           \/ /\ writer' = "idx" /\ position' = Len(disk[Job.session].bin) + 1
              /\ UNCHANGED batch
  /\ UNCHANGED <<memoryVars, writeQueue, copy, load, uiVars, modeVars>>

\* appendRowSync: then its record goes to waterfall.idx, whole or not, behind a damaged
\* one if there is one, where it cannot be read.
WriteIndex ==
  /\ writer = "idx"
  /\ UNCHANGED position
  /\ \/ Refused
     \/ /\ Exists(Job.session)
        /\ disk' = WithIdx(<<[row |-> Job.row, at |-> position]>>)
        /\ writer' = "copy"
        /\ IF Broken \in ToSet(disk[Job.session].idx) THEN JobFails ELSE UNCHANGED failed
        /\ UNCHANGED <<batch, failures>>
     \/ /\ Exists(Job.session) /\ DiskFails /\ JobFails
        /\ disk' \in IdxCut
        /\ RowDone \/ (writer' = "copy" /\ UNCHANGED batch)
  /\ UNCHANGED <<memoryVars, writeQueue, copy, load, uiVars, modeVars>>

\* session(id), then the path in writeMetadata: the session is copied under
\* m_mutex, and nothing keeps it from changing before the copy is written.
CopyMetadata ==
  /\ writer = "copy"
  /\ IF Job.session \in DOMAIN sessions
       THEN copy' = sessions[Job.session] /\ writer' = "meta" /\ UNCHANGED batch
       ELSE UNCHANGED copy /\ RowDone
  /\ UNCHANGED <<memoryVars, writeQueue, position, load, uiVars, disk, modeVars, faultVars>>

WriteMetadata ==
  /\ writer = "meta"
  /\ Describe(Job.session, copy)
  /\ copy' = NoMetadata
  /\ RowDone
  /\ UNCHANGED <<memoryVars, writeQueue, position, load, uiVars, modeVars, failed>>

-----------------------------------------------------------------------------
(* The history loader                                                        *)

\* The rows of a session among the jobs of a queue, and those that failed.
RowsIn(jobs, i) == {r \in Rows : \E k \in DOMAIN jobs : jobs[k] = [session |-> i, row |-> r]}
Failed(i) == {r \in Rows : <<i, r>> \in failed}

\* What the session has been given and has not lost, wherever it is.
Given(i) ==
  recentRows[i] \union Readable(i) \union RowsIn(writeQueue, i) \union RowsIn(batch, i)

\* Rows that failed are not lost for good: the repair of an index may bring them back.
Held(i) == Given(i) \union Failed(i)

\* The index records that loadRows keeps for a query: the newest in the range.
Selected(query, index) ==
  LET here == {e \in ToSet(Intact(index)) : InRange(query, {e.row}) # {}} IN
  {e \in here : e.row \in Newest({f.row : f \in here}, query.maxRows)}

\* loadRows: the files, under m_fileMutex.  Only when the records are chosen are their
\* rows read, and those that cannot be read passed over.
LoadFiles ==
  /\ mode = "running" /\ load = NoLoad
  /\ \E i \in DOMAIN sessions, query \in Queries :
       LET records == Selected(query, disk[i].idx) IN
       load' = [session |-> i, query |-> query, named |-> {e.row : e \in records},
                found |-> {RowAt(disk[i].bin, e.at) : e \in records} \ {Torn},
                readable |-> InRange(query, Readable(i)), given |-> InRange(query, Given(i))]
  /\ UNCHANGED <<memoryVars, writeQueue, batch, writer, position, copy, uiVars, disk,
                 modeVars, faultVars>>

\* Variant: the recent rows only fill what the files leave free.
FilesFirst ==
  LET n == load.query.maxRows
      late == InRange(load.query, recentRows[load.session])
  IN IF n # 0 /\ Cardinality(load.found) >= n THEN Newest(load.found, n)
     ELSE Newest(load.found \union late, n)

\* loadRows: the newest rows of both places, each once.
Answer ==
  Newest(load.found \union InRange(load.query, recentRows[load.session]),
         load.query.maxRows)

LoadRecent ==
  /\ mode = "running" /\ load # NoLoad
  /\ load' = NoLoad
  /\ UNCHANGED <<memoryVars, writeQueue, batch, writer, position, copy, uiVars, disk,
                 modeVars, faultVars>>

-----------------------------------------------------------------------------
(* The end of the process and its start                                      *)

\* The destructor asks the writer to stop; its owner makes no calls any more.
Stop ==
  /\ mode = "running" /\ ui = "idle" /\ load = NoLoad
  /\ exits < MaxExits
  /\ mode' = "stopping"
  /\ UNCHANGED <<memoryVars, procVars, uiVars, disk, exits, seen, cut, faultVars>>

\* Variant: the request to stop ends the writer with rows in the queue.
WriterExitAtOnce ==
  /\ mode = "stopping" /\ writer = "wait"
  /\ mode' = "stopped"
  /\ UNCHANGED <<memoryVars, procVars, uiVars, disk, exits, seen, cut, faultVars>>

\* writerLoop ends when the queue is empty.
WriterExit ==
  /\ mode = "stopping" /\ writer = "wait" /\ writeQueue = <<>>
  /\ mode' = "stopped"
  /\ UNCHANGED <<memoryVars, procVars, uiVars, disk, exits, seen, cut, faultVars>>

\* All of the memory is gone.
Forgotten ==
  /\ sessions' = << >> /\ recentRows' = [i \in Ids |-> {}]
  /\ writeQueue' = <<>> /\ batch' = <<>> /\ writer' = "wait" /\ position' = 0
  /\ copy' = NoMetadata
  /\ ui' = "idle" /\ active' = 0 /\ load' = NoLoad
  /\ mode' = "down" /\ exits' = exits + 1 /\ failed' = {}

\* The process is gone, after its stop or without one.  The record the writer was
\* in the middle of may be left damaged.
Exit ==
  /\ mode # "down" /\ exits < MaxExits
  /\ Forgotten
  /\ seen' = [i \in Ids |-> Readable(i)] /\ cut' = FALSE
  /\ UNCHANGED <<started, fresh, failures>>
  /\ \/ UNCHANGED disk
     \/ writer = "bin" /\ Exists(Job.session) /\ disk' \in BinCut
     \/ writer = "idx" /\ Exists(Job.session) /\ disk' \in IdxCut

\* scanExistingSessions passes over a directory without metadata or rows.
Recovered == {i \in Ids : "bin" \in disk[i].parts /\ disk[i].meta # NoMetadata}

\* Variant: a damaged index is truncated and not rebuilt.
ScannedEmpty(i) == IF Broken \in ToSet(disk[i].idx) THEN <<>> ELSE disk[i].idx

\* scanExistingSessions, rebuildIndexFromBin: only an index that is missing or ends in
\* the middle of a record is rebuilt.
ToRepair(i) == "idx" \notin disk[i].parts \/ Broken \in ToSet(disk[i].idx)
Scanned(i) == IF ToRepair(i) THEN Parsed(disk[i].bin) ELSE disk[i].idx

WithIndex(i, index) == [disk[i] EXCEPT !.parts = @ \union {"idx"}, !.idx = index]

Restart ==
  /\ mode = "down"
  /\ mode' = "running"
  /\ disk' = [i \in Ids |-> IF i \in Recovered THEN WithIndex(i, Scanned(i)) ELSE disk[i]]
  /\ sessions' = [i \in Recovered |-> disk[i].meta]
  /\ UNCHANGED <<recentRows, procVars, uiVars, exits, seen, cut, faultVars>>

\* The process crashes in the middle of rebuildIndexFromBin: the index has been
\* truncated and holds the first records only.
RebuildCut ==
  /\ mode = "down" /\ exits < MaxExits
  /\ \E i \in Recovered :
       /\ ToRepair(i)
       /\ \E n \in 0..Len(Scanned(i)) - 1 :
            disk' = [disk EXCEPT ![i] = WithIndex(i, SubSeq(Scanned(i), 1, n))]
  /\ exits' = exits + 1 /\ cut' = TRUE
  /\ UNCHANGED <<memoryVars, procVars, uiVars, mode, seen, faultVars>>

-----------------------------------------------------------------------------
WriterStep ==
  TakeBatch \/ LookUp \/ WriteRow \/ WriteIndex \/ CopyMetadata \/ WriteMetadata

Next ==
  \/ StartFiles \/ StartRegister \/ StartDescribe \/ AppendRow
  \/ CloseSession \/ CloseDescribe
  \/ WriterStep
  \/ LoadFiles \/ LoadRecent
  \/ Stop \/ WriterExit \/ Exit \/ Restart \/ RebuildCut

Spec == Init /\ [][Next]_vars

-----------------------------------------------------------------------------
(* Properties                                                                *)

\* The types of the variables, and that the writer holds a row exactly while it is
\* in appendRowSync.
TypeOK ==
  /\ DOMAIN sessions \subseteq Ids
  /\ \A i \in DOMAIN sessions : sessions[i] \in Metadata
  /\ recentRows \in [Ids -> SUBSET Rows]
  /\ \A k \in DOMAIN writeQueue : writeQueue[k] \in [session : Ids, row : Rows]
  /\ writer \in {"wait", "look", "bin", "idx", "copy", "meta"}
  /\ (batch = <<>>) <=> (writer = "wait")
  /\ copy \in Metadata /\ position \in Nat
  /\ ui \in {"idle", "register", "describe", "close"} /\ active \in Ids \union {0}
  /\ \A i \in Ids : /\ disk[i].parts \subseteq {"dir", "bin", "idx"}
                    /\ disk[i].meta \in Metadata
                    /\ ToSet(disk[i].bin) \subseteq Rows \union {-r : r \in Rows} \union {Torn}
                    /\ ToSet(disk[i].idx) \subseteq [row : Rows, at : Nat] \union {Broken}
  /\ mode \in {"running", "stopping", "stopped", "down"} /\ exits \in 0..MaxExits

\* What SessionStore knows of the sessions: the memory of a process that runs, and what
\* the next process will find while none does.
Down == mode = "down"
Known == IF Down THEN Recovered ELSE DOMAIN sessions
Entry(i) ==
  LET metadata == IF Down THEN disk[i].meta ELSE sessions[i] IN
  [rows  |-> IF Down THEN Indexed(Scanned(i), disk[i].bin) ELSE Held(i),
   start |-> metadata.start, end |-> metadata.end, closed |-> metadata.closed]
Stored == [i \in Known |-> Entry(i)]

Store == INSTANCE SessionStore WITH store <- Stored, running <- ~Down

\* loadRows reads the files and the recent rows at different times, with the writer
\* between the two and perhaps far behind: the newest rows of a session, as many
\* as stay in memory, are always found, and older ones once they can be read.  Rows that
\* an index names and that cannot be read count among the rows asked for.
LoadedRowsComplete ==
  (load # NoLoad /\ load' = NoLoad /\ mode' = "running" /\ load.session \in DOMAIN sessions)
    => \A r \in load.given :
         \/ r \in Answer
         \/ /\ load.query.maxRows # 0
            /\ Cardinality({q \in Answer \union (load.named \ load.found) : q > r})
                 >= load.query.maxRows
         \/ /\ r \notin load.readable
            /\ r \notin Newest(Given(load.session), RecentCap)

LoadIsComplete == [][LoadedRowsComplete]_vars

\* BinaryWaterfallSessionStorage behaves as the store in memory does: a session
\* keeps each row it was given, wherever the row is on its way, until rotation
\* removes the session or the process ends; and what a restart finds is part of
\* that, with no row twice, in another session or from a removed one; and loadRows
\* misses no row it has to know.
ActsAsStore == Store!StoreSpec /\ LoadIsComplete

\* The destructor drains the queue: when it has returned, every row of a session
\* that is still kept can be read back from the disk, unless its write failed or a
\* removal took its file.
StopWritesAll ==
  mode = "stopped" =>
    \A i \in DOMAIN sessions : Held(i) \ Failed(i) \subseteq Readable(i)

\* archive-format.md: a corrupted waterfall.idx is recoverable when waterfall.bin can
\* be scanned.  The rows of an intact waterfall.bin that could be read when the
\* process ended can be read when the next one has started, until a removal takes them.
Damaged(i) == ~(ToSet(disk[i].bin) \subseteq Rows)
IndexRecoverable ==
  mode = "running" =>
    \A i \in DOMAIN sessions : ~Damaged(i) => seen[i] \ Failed(i) \subseteq Readable(i)

\* scanExistingSessions: the same, as long as the repair of an index is not cut
\* short by another crash.
RestartFindsRows == cut \/ IndexRecoverable

\* Rows survive the end of the process: the destructor leaves nothing unwritten, and the
\* next process finds what could be read.
RowsSurvive == StopWritesAll /\ RestartFindsRows
=============================================================================
