---------------------------- MODULE SessionStore ----------------------------
(***************************************************************************)
(* What IWaterfallSessionStorage promises, as its reference implementation  *)
(* InMemoryWaterfallSessionStorage keeps the promise: a session holds every  *)
(* row appended to it for as long as the session is known.  The end of the  *)
(* process is the only time at which something may be lost.                 *)
(***************************************************************************)
EXTENDS Integers, FiniteSets

CONSTANTS
  Ids,        \* session identifiers
  StartUtc,   \* the start time of each session
  Rows        \* rows, each named by its time

StoreAssumption ==
  /\ Ids \subseteq Nat \ {0} /\ Rows \subseteq Nat
  /\ StartUtc \in [Ids -> Nat]

VARIABLES
  store,    \* InMemoryWaterfallSessionStorage::m_sessions
  running   \* whether a process has the store open

storeVars == <<store, running>>

Session == [rows : SUBSET Rows, start : Nat, end : Nat, closed : BOOLEAN]

Later(t, u) == IF t > u THEN t ELSE u
Sooner(t, u) == IF t < u THEN t ELSE u

\* The newest n of the rows, all of them if n is 0.
Newest(rows, n) == {r \in rows : n = 0 \/ Cardinality({q \in rows : q > r}) < n}

\* loadRows, for the ends of the range in either order.
LoadRows(i, from, to, n) ==
  IF i \notin DOMAIN store THEN {}
  ELSE Newest({r \in store[i].rows : Sooner(from, to) <= r /\ r <= Later(from, to)}, n)

\* sessionEarlier
Earlier(i, j) ==
  \/ store[i].start < store[j].start
  \/ store[i].start = store[j].start /\ i < j

\* The last of the sessions, 0 if there is none.
LatestOf(some) ==
  IF some = {} THEN 0 ELSE CHOOSE i \in some : \A j \in some \ {i} : Earlier(j, i)

\* latestSession
LatestSession == LatestOf(DOMAIN store)

\* previousSession, from a session that is not known the latest one.
PreviousSession(i) ==
  IF i \notin DOMAIN store THEN LatestSession
  ELSE LatestOf({j \in DOMAIN store : Earlier(j, i)})

\* nextSession
NextSession(i) ==
  LET some == {j \in DOMAIN store : Earlier(i, j)} IN
  IF some = {} THEN 0 ELSE CHOOSE j \in some : \A k \in some \ {j} : Earlier(j, k)

StoreInit == store = << >> /\ running = TRUE

\* startSession: the session begins empty and open.  The rotation forgets the
\* sessions in rotated for it, and breaks off in those in spoilt, where rows that had
\* been lost in the files may come back; the store in memory forgets none.
StartSession(i, rotated, spoilt) ==
  /\ running /\ i \notin DOMAIN store
  /\ \E back \in [spoilt -> SUBSET Rows] :
       store' = [j \in (DOMAIN store \ rotated) \union {i} |->
                   IF j = i THEN [rows |-> {}, start |-> StartUtc[i],
                                  end |-> StartUtc[i], closed |-> FALSE]
                   ELSE IF j \in spoilt
                     THEN [store[j] EXCEPT !.rows = @ \union back[j]]
                   ELSE store[j]]
  /\ UNCHANGED running

\* appendRow: the program appends to the session it has open.  The store in memory
\* lets the first row move the start of the session forward as well.
AppendRow(i, r) ==
  /\ running /\ i \in DOMAIN store /\ ~store[i].closed
  /\ \E start \in {Sooner(r, store[i].start)}
                    \union (IF store[i].rows = {} THEN {r} ELSE {}) :
       store' = [store EXCEPT ![i].rows = @ \union {r}, ![i].start = start,
                                 ![i].end = Later(r, @)]
  /\ UNCHANGED running

\* closeSession: the end of a session never moves back.
CloseSession(i, end) ==
  /\ running /\ i \in DOMAIN store
  /\ store' = [store EXCEPT ![i].end = Later(end, @), ![i].closed = TRUE]
  /\ UNCHANGED running

\* The process ends, in a crash or not.  What the next one finds is part of what
\* was held: no row is invented, moved to another session or brought back.
Exit ==
  /\ running' = FALSE
  /\ DOMAIN store' \subseteq DOMAIN store
  /\ \A i \in DOMAIN store' :
       /\ store'[i] \in Session
       /\ store'[i].rows \subseteq store[i].rows
       /\ store'[i].start >= store[i].start /\ store'[i].end <= store[i].end
       /\ store'[i].closed => store[i].closed

\* The next process opens the store.
Open ==
  /\ ~running /\ running' = TRUE
  /\ UNCHANGED store

\* Most steps of an implementation change nothing that the store promises.
StoreNext ==
  \/ UNCHANGED storeVars \/ Exit \/ Open
  \/ \E i \in Ids \intersect (DOMAIN store' \ DOMAIN store) :
       \E rotated \in SUBSET DOMAIN store, spoilt \in SUBSET DOMAIN store :
         StartSession(i, rotated, spoilt)
  \/ \E i \in Ids, r \in Rows : AppendRow(i, r)
  \/ \E i \in Ids, end \in Rows \union {StartUtc[j] : j \in Ids} : CloseSession(i, end)

StoreSpec == StoreInit /\ [][StoreNext]_storeVars
=============================================================================
