----------------------------- MODULE ResultTable -----------------------------
(***************************************************************************)
(* The result table: a scan hands over its bearings on the user interface   *)
(* thread, ScanBandResultAggregator makes one row of each band, a worker    *)
(* appends the rows to result_table.bin and result_table.idx, and what was  *)
(* saved goes back through the event queue to ResultTableModel.  A reload   *)
(* reads the whole file on the worker and replaces the model's rows.  A     *)
(* write may fail, leaving a part of a record behind.  A record that fits   *)
(* the buffer of QFile fails where it is flushed, and append does not look  *)
(* at that: it goes on and succeeds.  The process may crash between any two *)
(* writes.                                                                  *)
(***************************************************************************)
EXTENDS Integers, Sequences, FiniteSets, SequencesExt

CONSTANTS
  Scans,        \* what scans hand over: [results, parameters]
  Cut,          \* the rest of a record whose write did not complete
  MaxAppends,   \* bound: calls of appendBearingResults
  MaxReloads,   \* bound: calls of reload
  MaxTableFailures, \* bound: writes that fail, and crashes
  MaxTasks      \* bound: tasks waiting for the worker

AllResults == UNION {s.results : s \in Scans}
Bands == {r.band : r \in AllResults}

ASSUME TableAssumption ==
  /\ \A s \in Scans : /\ IsFiniteSet(s.results)
                     /\ s.parameters \in [Bands -> [pri : Nat, width : Nat]]
  /\ AllResults \subseteq [band : Nat, sample : Nat, time : Nat, quality : 0..100,
                           frequencies : SUBSET Nat]
  /\ MaxAppends \in Nat /\ MaxReloads \in Nat /\ MaxTableFailures \in Nat
  /\ MaxTasks \in Nat \ {0}

VARIABLES
  table,      \* ResultTableModel::m_rows, the first one on top
  loaded,     \* m_loaded
  pending,    \* m_pendingKeys
  tasks,      \* m_tasks
  job,        \* the task the worker runs, and how far it is
  tableCalls, \* calls queued to the user interface thread
  process,    \* running, stopping (the destructor waits for the worker), down
  bin,        \* the records of result_table.bin
  idx,        \* how many records result_table.idx has
  metaRows,   \* rowCount in metadata.json
  lost,       \* history: rows append succeeded for though the flush of their record failed
  unsaved,    \* history: rows reported as not saved
  kept,       \* history: rows accepted, less those a crash took from the queue
  appends, reloads, tableFailures

modelVars == <<table, loaded>>
queueVars == <<pending, tasks, tableCalls>>
diskVars == <<bin, idx, metaRows, lost>>
boundVars == <<appends, reloads, tableFailures>>
tableVars == <<modelVars, queueVars, job, process, diskVars, unsaved, kept, boundVars>>

-----------------------------------------------------------------------------
(* ScanBandResultAggregator and the rows made of its results.  A quality or  *)
(* a duration of 0 stands for an absent one.                                 *)

\* betterRepresentative, a strict order on the results of a band.
Better(r, s) ==
  \/ r.quality > s.quality
  \/ r.quality = s.quality /\ r.time > s.time
  \/ r.quality = s.quality /\ r.time = s.time /\ r.sample > s.sample

Representative(group) ==
  CHOOSE r \in group : \A s \in group \ {r} : ~Better(s, r)

\* A duration is dropped with the other one when no pulse fits into its period.
Usable(p) ==
  IF p.pri > 0 /\ p.width >= p.pri THEN [pri |-> 0, width |-> 0] ELSE p

RowOfBand(scan, b) ==
  LET group == {r \in scan.results : r.band = b}
      best  == Representative(group)
      p     == Usable(scan.parameters[b])
  IN [band |-> b, sample |-> best.sample, time |-> best.time, quality |-> best.quality,
      frequencies |-> UNION {r.frequencies : r \in group},
      pri |-> p.pri, width |-> p.width]

\* aggregateByBand: a band without a frequency makes no valid result.
RowsOf(scan) ==
  {r \in {RowOfBand(scan, b) : b \in {q.band : q \in scan.results}} : r.frequencies # {}}

ResultRows == UNION {RowsOf(s) : s \in Scans}
Key(row) == <<row.sample, row.time, row.band>>
Keys(rows) == {Key(r) : r \in rows}

\* A set as a sequence, sorted: the i-th element has i - 1 elements before it.
ByRank(S, Before(_, _)) ==
  [i \in 1..Cardinality(S) |->
     CHOOSE r \in S : Cardinality({q \in S : Before(q, r)}) = i - 1]

\* The order of the bands in which aggregateByBand lists its results.
LowerBand(r, s) == r.band < s.band
ByBand(rows) == ByRank(rows, LowerBand)

\* The order of resetRows: the newest row first.
Newer(r, s) ==
  \/ r.time > s.time
  \/ r.time = s.time /\ r.sample > s.sample
  \/ r.time = s.time /\ r.sample = s.sample /\ r.band < s.band
NewestFirst(rows) == ByRank(rows, Newer)

\* Variant: the keys that m_rowKeys holds are not looked at.
AppendRowsUnchecked(rows) == rows \o table

LowerPlace(i, j) == i < j

\* ResultTableModel::appendRows: the rows whose key is new, on top of the others.
AppendRows(rows) ==
  LET new == {i \in DOMAIN rows : /\ Key(rows[i]) \notin Keys(ToSet(table))
                                 /\ \A j \in 1..(i - 1) : Key(rows[j]) # Key(rows[i])}
      place == ByRank(new, LowerPlace)
  IN [i \in 1..Cardinality(new) |-> rows[place[i]]] \o table

-----------------------------------------------------------------------------
(* The files.                                                                *)

\* readAll: up to the first damaged record; of several records of a key, one.
Whole == {bin[i] : i \in {n \in DOMAIN bin : \A k \in 1..n : bin[k] # Cut}}
ReadAll == {CHOOSE r \in Whole : Key(r) = key : key \in Keys(Whole)}

NoJob == [kind |-> "idle", rows |-> <<>>, left |-> <<>>, saved |-> <<>>, step |-> "data"]

TableTypeOK ==
  /\ ToSet(table) \subseteq ResultRows /\ loaded \in BOOLEAN
  /\ pending \subseteq Keys(ResultRows)
  /\ \A i \in DOMAIN tasks :
       /\ tasks[i].kind \in {"append", "reload"} /\ ToSet(tasks[i].rows) \subseteq ResultRows
       /\ Keys(ToSet(tasks[i].rows)) \subseteq pending
  /\ job.kind \in {"idle", "append"} /\ ToSet(job.left) \cup ToSet(job.saved) \subseteq ToSet(job.rows)
  /\ ToSet(job.rows) \subseteq ResultRows /\ Keys(ToSet(job.rows)) \subseteq pending
  /\ job.step \in {"data", "index", "metadata"}
  /\ \A i \in DOMAIN tableCalls :
       /\ tableCalls[i].kind \in {"append", "reset"}
       /\ ToSet(tableCalls[i].rows) \subseteq ResultRows
  /\ process \in {"running", "stopping", "down"}
  /\ ToSet(bin) \subseteq ResultRows \cup {Cut}
  /\ idx \in Nat /\ metaRows \in 0..idx
  /\ lost \subseteq ResultRows /\ unsaved \subseteq ResultRows /\ kept \subseteq ResultRows
  /\ appends \in 0..MaxAppends /\ reloads \in 0..MaxReloads
  /\ tableFailures \in 0..MaxTableFailures

TableInit ==
  /\ table = <<>> /\ loaded = FALSE /\ pending = {} /\ tasks = <<>> /\ job = NoJob
  /\ tableCalls = <<>> /\ process = "running"
  /\ bin = <<>> /\ idx = 0 /\ metaRows = 0 /\ lost = {}
  /\ unsaved = {} /\ kept = {}
  /\ appends = 0 /\ reloads = 0 /\ tableFailures = 0

-----------------------------------------------------------------------------
(* The user interface thread.                                                *)

\* appendBearingResults: the rows that neither the model shows nor a task holds.
AppendBearingResults(scan) ==
  LET rows == {r \in RowsOf(scan) :
                 Key(r) \notin pending /\ Key(r) \notin Keys(ToSet(table))}
  IN /\ process = "running" /\ appends < MaxAppends /\ Len(tasks) < MaxTasks
     /\ rows # {}
     /\ pending' = pending \cup Keys(rows)
     /\ tasks' = Append(tasks, [kind |-> "append", rows |-> ByBand(rows)])
     /\ kept' = kept \cup rows
     /\ appends' = appends + 1
     /\ UNCHANGED <<modelVars, tableCalls, job, process, diskVars, unsaved, reloads,
                    tableFailures>>

Reload ==
  /\ process = "running" /\ reloads < MaxReloads /\ Len(tasks) < MaxTasks
  /\ loaded' = FALSE
  /\ tasks' = Append(tasks, [kind |-> "reload", rows |-> <<>>])
  /\ reloads' = reloads + 1
  /\ UNCHANGED <<table, pending, tableCalls, job, process, diskVars, unsaved, kept,
                 appends, tableFailures>>

\* The event loop runs the oldest queued call.
RunPosted ==
  /\ process = "running" /\ tableCalls # <<>>
  /\ IF Head(tableCalls).kind = "append"
     THEN table' = AppendRows(Head(tableCalls).rows) /\ UNCHANGED loaded
     ELSE table' = NewestFirst(ToSet(Head(tableCalls).rows)) /\ loaded' = TRUE
  /\ tableCalls' = Tail(tableCalls)
  /\ UNCHANGED <<pending, tasks, job, process, diskVars, unsaved, kept, boundVars>>

\* The destructor asks the worker to stop; from here on enqueue refuses.
StopWorker ==
  /\ process = "running"
  /\ process' = "stopping"
  /\ UNCHANGED <<modelVars, queueVars, job, diskVars, unsaved, kept, boundVars>>

-----------------------------------------------------------------------------
(* The worker.                                                               *)

TakeTask(kind) ==
  /\ process # "down" /\ job = NoJob /\ tasks # <<>> /\ Head(tasks).kind = kind
  /\ tasks' = Tail(tasks)

StartAppend ==
  /\ TakeTask("append")
  /\ job' = [NoJob EXCEPT !.kind = "append", !.rows = Head(tasks).rows,
                                !.left = Head(tasks).rows]
  /\ UNCHANGED <<modelVars, pending, tableCalls, process, diskVars, unsaved, kept, boundVars>>

ReloadOnWorker ==
  /\ TakeTask("reload")
  /\ tableCalls' = Append(tableCalls, [kind |-> "reset", rows |-> NewestFirst(ReadAll)])
  /\ UNCHANGED <<modelVars, pending, job, process, diskVars, unsaved, kept, boundVars>>

Appending(step) == job.kind = "append" /\ job.left # <<>> /\ job.step = step

\* The record of the row is in result_table.bin: it is written and flushed.
WriteTableData ==
  /\ Appending("data")
  /\ bin' = Append(bin, Head(job.left))
  /\ job' = [job EXCEPT !.step = "index"]
  /\ UNCHANGED <<modelVars, queueVars, process, idx, metaRows, lost, unsaved, kept, boundVars>>

WriteTableIndex ==
  /\ Appending("index")
  /\ idx' = idx + 1
  /\ job' = [job EXCEPT !.step = "metadata"]
  /\ UNCHANGED <<modelVars, queueVars, process, bin, metaRows, lost, unsaved, kept, boundVars>>

\* The flush of result_table.bin fails after the record has gone to the buffer of the
\* file: nothing of it or a part of it is there, and append goes on to the index.
LoseTableData ==
  /\ Appending("data") /\ tableFailures < MaxTableFailures
  /\ bin' \in {bin, Append(bin, Cut)}
  /\ lost' = lost \cup {Head(job.left)}
  /\ job' = [job EXCEPT !.step = "index"]
  /\ tableFailures' = tableFailures + 1
  /\ UNCHANGED <<modelVars, queueVars, process, idx, metaRows, unsaved, kept, appends,
                 reloads>>

\* append succeeds: the row is among those the model will show.
RowSaved ==
  job' = [job EXCEPT !.step = "data", !.left = Tail(@), !.saved = Append(@, Head(job.left))]

\* The flush of result_table.idx fails: its size, which cannot be told then, is written
\* to metadata.json as 0 rows, and append succeeds.
LoseTableIndex ==
  /\ Appending("index") /\ tableFailures < MaxTableFailures
  /\ metaRows' = 0
  /\ RowSaved
  /\ tableFailures' = tableFailures + 1
  /\ UNCHANGED <<modelVars, queueVars, process, bin, idx, lost, unsaved, kept, appends,
                 reloads>>

WriteTableMetadata ==
  /\ Appending("metadata")
  /\ metaRows' = idx
  /\ RowSaved
  /\ UNCHANGED <<modelVars, queueVars, process, bin, idx, lost, unsaved, kept, boundVars>>

\* append fails in either file and says so: the file cannot be opened, or the record is
\* larger than the buffer of QFile and its write fails.  A part of the record may be left
\* in result_table.bin.
FailAppend ==
  /\ Appending("data") \/ Appending("index")
  /\ tableFailures < MaxTableFailures
  /\ \/ UNCHANGED bin
     \/ job.step = "data" /\ bin' = Append(bin, Cut)
  /\ unsaved' = unsaved \cup {Head(job.left)}
  /\ job' = [job EXCEPT !.step = "data", !.left = Tail(@)]
  /\ tableFailures' = tableFailures + 1
  /\ UNCHANGED <<modelVars, queueVars, process, idx, metaRows, lost, kept, appends, reloads>>

\* Variant: m_pendingKeys is cleared when one task of several ends.
EndAppendClearsAll ==
  /\ job.kind = "append" /\ job.left = <<>>
  /\ pending' = {}
  /\ tableCalls' = IF job.saved = <<>> THEN tableCalls
                   ELSE Append(tableCalls, [kind |-> "append", rows |-> job.saved])
  /\ job' = NoJob
  /\ UNCHANGED <<modelVars, tasks, process, diskVars, unsaved, kept, boundVars>>

\* The end of appendRowsOnWorker: the rows are no longer pending, and those saved are
\* queued to the model.  The two are one step only to this thread: until RunPosted
\* neither the pending keys nor the model have them.
EndAppend ==
  /\ job.kind = "append" /\ job.left = <<>>
  /\ pending' = pending \ Keys(ToSet(job.rows))
  /\ tableCalls' = IF job.saved = <<>> THEN tableCalls
                   ELSE Append(tableCalls, [kind |-> "append", rows |-> job.saved])
  /\ job' = NoJob
  /\ UNCHANGED <<modelVars, tasks, process, diskVars, unsaved, kept, boundVars>>

-----------------------------------------------------------------------------
(* The end of the process, and the next one.                                 *)

Gone ==
  /\ process' = "down" /\ table' = <<>> /\ loaded' = FALSE /\ pending' = {}
  /\ tasks' = <<>> /\ tableCalls' = <<>> /\ job' = NoJob

\* Variant: the loop ends on m_stopRequested, whatever m_tasks holds.
WorkerEndsAtOnce ==
  /\ process = "stopping" /\ job = NoJob
  /\ Gone
  /\ UNCHANGED <<diskVars, unsaved, kept, boundVars>>

\* The worker has run every task; what it queued to the model goes with the model.
WorkerEnds ==
  /\ process = "stopping" /\ tasks = <<>> /\ job = NoJob
  /\ Gone
  /\ UNCHANGED <<diskVars, unsaved, kept, boundVars>>

Queued == (UNION {ToSet(tasks[i].rows) : i \in DOMAIN tasks}) \cup ToSet(job.left)

\* A crash takes what is queued, and may cut the record that is being written.
Crash ==
  /\ process # "down" /\ tableFailures < MaxTableFailures
  /\ Gone
  /\ \/ UNCHANGED bin
     \/ Appending("data") /\ bin' = Append(bin, Cut)
  /\ kept' = kept \ (Queued \ ToSet(bin))
  /\ tableFailures' = tableFailures + 1
  /\ UNCHANGED <<idx, metaRows, lost, unsaved, appends, reloads>>

\* ApplicationBootstrap builds the controller; its reload is the next step of the model.
Reopen ==
  /\ process = "down"
  /\ process' = "running"
  /\ UNCHANGED <<modelVars, queueVars, job, diskVars, unsaved, kept, boundVars>>

TableNext ==
  \/ \E scan \in Scans : AppendBearingResults(scan)
  \/ Reload \/ RunPosted \/ StopWorker
  \/ StartAppend \/ ReloadOnWorker
  \/ WriteTableData \/ WriteTableIndex \/ WriteTableMetadata \/ FailAppend
  \/ LoseTableData \/ LoseTableIndex \/ EndAppend
  \/ WorkerEnds \/ Crash \/ Reopen

TableSpec == TableInit /\ [][TableNext]_tableVars

-----------------------------------------------------------------------------
(* Properties.                                                               *)

\* Nothing is on its way between the controller, the worker and the model.
AtRest == tasks = <<>> /\ job = NoJob /\ tableCalls = <<>>

\* The model shows no result twice, whatever was handed over twice while the first
\* copy was between the worker and the model; at rest it shows, once it is loaded,
\* every readable row except those whose append was reported as failed, and nothing
\* that is not in the file, unless the failed flush of its record went unnoticed
\* (appendBearingResults, appendRowsOnWorker, reloadOnWorker, append).
TableShowsFile ==
  /\ \A i, j \in DOMAIN table : Key(table[i]) = Key(table[j]) => i = j
  /\ ToSet(table) \subseteq ToSet(bin) \cup lost
  /\ AtRest /\ loaded => Keys(ReadAll) \subseteq Keys(ToSet(table) \cup unsaved)

\* A row that was accepted is queued, in the file, reported as not saved, or lost in the
\* flush of its own record: the destructor runs the tasks it finds, and a row that fails,
\* noticed or not, does not take the rest of its batch with it (workerLoop,
\* appendRowsOnWorker).
AcceptedIsKept ==
  kept \subseteq Queued \cup ToSet(bin) \cup unsaved \cup lost

\* ResultTableController: the table shows what the file holds, and a row it has accepted
\* is in the file, on its way, or reported as not saved, but for the rows of a failed
\* flush, which append does not notice.
ResultsKept == TableTypeOK /\ TableShowsFile /\ AcceptedIsKept
=============================================================================
