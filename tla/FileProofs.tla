----------------------------- MODULE FileProofs -----------------------------
(***************************************************************************)
(* Theorems about the files the program writes, for any number of           *)
(* recordings and rows, any bound on failures and crashes, and any number    *)
(* of threads that publish events:                                           *)
(*   - WaterfallStorage: types, RowsSurvive, and that it implements           *)
(*     SessionStore and misses no row it has to know (ActsAsStore);           *)
(*   - DiagnosticLog: LogComplete;                                            *)
(*   - ResultTable: ResultsKept, for any scans.                               *)
(***************************************************************************)
EXTENDS WaterfallStorage, DiagnosticLog, ResultTable, QueueLemmas, FiniteSetTheorems,
        WellFoundedInduction, SequenceTheorems

-----------------------------------------------------------------------------
(* Numbers.                                                                  *)

\* Every set of numbers has a least one: the intervals up to its elements do.
LEMMA NatMin ==
  ASSUME NEW S, S \subseteq Nat, S # {}
  PROVE  \E x \in S : \A y \in S : x <= y
<1> DEFINE R == StrictSubsetOrdering(Nat)
           F == FiniteSubsetsOf(Nat)
           T == {1..x : x \in S}
<1>1. IsWellFoundedOn(R, F) BY FS_StrictSubsetOrderingWellFounded
<1>2. T \subseteq F
  <2> SUFFICES ASSUME NEW x \in S PROVE 1..x \in F OBVIOUS
  <2>1. IsFiniteSet(1..x) /\ 1..x \subseteq Nat BY FS_Interval
  <2> QED BY <2>1 DEF FiniteSubsetsOf
<1>3. T # {} OBVIOUS
<1>4. PICK m \in T : \A n \in T : <<n, m>> \notin R
  <2> HIDE DEF R, F, T
  <2> QED BY <1>1, <1>2, <1>3, WFMin
<1>5. PICK x \in S : m = 1..x OBVIOUS
<1>6. ASSUME NEW y \in S, y < x PROVE FALSE
  <2>1. 1..y \subseteq 1..x /\ x \in 1..x /\ x \notin 1..y /\ 1..x \subseteq Nat BY <1>6
  <2>2. <<1..y, 1..x>> \in R BY <2>1 DEF StrictSubsetOrdering
  <2> QED BY <2>2, <1>4, <1>5
<1> QED BY <1>6

\* The newest n of the rows: with enough newer rows among all of them there are enough
\* among the newest, and a row with few newer ones is one of the newest.
LEMMA EnoughNewer ==
  ASSUME NEW S, S \subseteq Nat, IsFiniteSet(S), NEW n \in Nat \ {0}, NEW r \in Nat,
         Cardinality({q \in S : q > r}) >= n
  PROVE  Cardinality({q \in Newest(S, n) : q > r}) >= n
<1> DEFINE Above(m) == {q \in S : q > m}
           Late == {m \in Above(r) : Cardinality(Above(m)) >= n}
           Top == {q \in Newest(S, n) : q > r}
<1>1. \A m \in S : IsFiniteSet(Above(m)) /\ Cardinality(Above(m)) \in Nat
  BY FS_Subset, FS_CardinalityType
<1>2. IsFiniteSet(Above(r)) /\ IsFiniteSet(Top) /\ Top \subseteq S
  BY FS_Subset DEF Newest
<1>3. CASE Late = {}
  <2>1. Above(r) \subseteq Top
    <3> SUFFICES ASSUME NEW q \in Above(r) PROVE q \in Top OBVIOUS
    <3>1. q \in S /\ q > r /\ ~(Cardinality(Above(q)) >= n) BY <1>3
    <3>2. Cardinality(Above(q)) < n BY <3>1, <1>1
    <3> QED BY <3>1, <3>2 DEF Newest
  <2> QED BY <2>1, <1>2, FS_Subset, FS_CardinalityType
<1>4. CASE Late # {}
  <2> DEFINE Sizes == {Cardinality(Above(m)) : m \in Late}
  <2>1. Sizes \subseteq Nat /\ Sizes # {} BY <1>1, <1>4
  <2>2. PICK m \in Late : \A k \in Late : Cardinality(Above(m)) <= Cardinality(Above(k))
    <3>1. PICK x \in Sizes : \A y \in Sizes : x <= y
      <4> HIDE DEF Sizes
      <4> QED BY <2>1, NatMin
    <3> HIDE DEF Late, Above
    <3> QED BY <3>1
  <2>3. m \in S /\ m > r /\ Cardinality(Above(m)) >= n BY <2>2
  <2>4. Above(m) \subseteq Top
    <3> SUFFICES ASSUME NEW q \in Above(m) PROVE q \in Top OBVIOUS
    <3>1. q \in S /\ q > m /\ q > r BY <2>3
    <3>2. q \in Nat /\ m \in Nat /\ \A p \in S : p \in Nat BY <3>1, <2>3
    <3>3. Above(q) \subseteq Above(m) /\ q \in Above(m) /\ q \notin Above(q)
      <4>1. ASSUME NEW p \in Above(q) PROVE p \in Above(m)
        <5>1. p \in S /\ p > q /\ p \in Nat BY <3>2
        <5> QED BY <5>1, <3>1, <3>2
      <4>2. q \in Above(m) BY <3>1
      <4>3. q \notin Above(q) BY <3>2
      <4> HIDE DEF Above
      <4> QED BY <4>1, <4>2, <4>3
    <3>4. Cardinality(Above(q)) < Cardinality(Above(m))
      <4>1. Above(q) # Above(m) BY <3>3
      <4> HIDE DEF Above
      <4> QED BY <3>3, <3>1, <4>1, <1>1, <2>3, FS_Subset, FS_CardinalityType
    <3>5. q \notin Late BY <3>4, <2>2, <1>1, <3>1, <2>3
    <3>6. Cardinality(Above(q)) < n BY <3>5, <3>1, <1>1
    <3> QED BY <3>6, <3>1 DEF Newest
  <2>5. Cardinality(Above(m)) <= Cardinality(Top) BY <2>4, <1>2, FS_Subset
  <2> QED BY <2>5, <2>3, <1>1, <1>2, FS_CardinalityType
<1> QED BY <1>3, <1>4

LEMMA FewerNewer ==
  ASSUME NEW S, S \subseteq Nat, IsFiniteSet(S), NEW T \in SUBSET S, NEW n \in Nat
  PROVE  \A q \in Newest(S, n) : q \in T => q \in Newest(T, n)
<1> SUFFICES ASSUME NEW q \in Newest(S, n), q \in T, n # 0
             PROVE  Cardinality({p \in T : p > q}) < n
  BY DEF Newest
<1>1. Cardinality({p \in S : p > q}) < n BY DEF Newest
<1>2. {p \in T : p > q} \subseteq {p \in S : p > q} /\ IsFiniteSet({p \in S : p > q})
  BY FS_Subset
<1>3. /\ Cardinality({p \in T : p > q}) <= Cardinality({p \in S : p > q})
      /\ Cardinality({p \in T : p > q}) \in Nat /\ Cardinality({p \in S : p > q}) \in Nat
  BY <1>2, FS_Subset, FS_CardinalityType
<1> QED BY <1>1, <1>3

-----------------------------------------------------------------------------
(* Files.                                                                    *)

\* The records in front of the first damaged one are a prefix without damage, the whole
\* file if nothing in it is damaged.
LEMMA IntactIs ==
  ASSUME NEW S, NEW f \in Seq(S)
  PROVE  \E n \in 0..Len(f) : /\ Intact(f) = SubSeq(f, 1, n)
                              /\ \A j \in 1..n : f[j] # Broken
                              /\ n < Len(f) => f[n + 1] = Broken
                              /\ n = Len(f) => Intact(f) = f
<1> DEFINE I == {j \in DOMAIN f : f[j] = Broken}
<1>0. Len(f) \in Nat /\ DOMAIN f = 1..Len(f) BY LenProperties
<1>1. CASE I = {}
  <2>1. Intact(f) = f BY <1>1 DEF Intact
  <2>2. SubSeq(f, 1, Len(f)) = f BY <1>0, SubSeqFull
  <2>3. \A j \in 1..Len(f) : f[j] # Broken BY <1>0, <1>1
  <2> Len(f) \in 0..Len(f) BY <1>0
  <2> WITNESS Len(f) \in 0..Len(f)
  <2> QED BY <1>0, <2>1, <2>2, <2>3
<1>2. CASE I # {}
  <2>1. PICK x \in I : \A y \in I : x <= y
    <3>1. I \subseteq Nat BY <1>0
    <3> HIDE DEF I
    <3> QED BY <1>2, <3>1, NatMin
  <2>2. Min(I) \in I /\ \A y \in I : Min(I) <= y BY <2>1 DEF Min
  <2> DEFINE k == Min(I)
  <2>3. Intact(f) = SubSeq(f, 1, k - 1) BY <1>2 DEF Intact
  <2>4. k \in 1..Len(f) /\ f[k] = Broken /\ \A j \in 1..Len(f) : f[j] = Broken => k <= j
    BY <1>0, <2>2
  <2> HIDE DEF k
  <2>5. k - 1 \in 0..Len(f) /\ k - 1 < Len(f) /\ (k - 1) + 1 = k
        /\ \A j \in 1..(k - 1) : f[j] # Broken
    BY <1>0, <2>4
  <2> k - 1 \in 0..Len(f) BY <2>5
  <2> WITNESS k - 1 \in 0..Len(f)
  <2> QED BY <2>3, <2>4, <2>5
<1> QED BY <1>1, <1>2

LEMMA IntactFacts ==
  ASSUME NEW S, NEW f \in Seq(S)
  PROVE  /\ Intact(f) \in Seq(S)
         /\ ToSet(Intact(f)) \subseteq ToSet(f) \ {Broken}
         /\ Broken \notin ToSet(f) => Intact(f) = f
<1>1. PICK n \in 0..Len(f) : /\ Intact(f) = SubSeq(f, 1, n)
                             /\ \A j \in 1..n : f[j] # Broken
                             /\ n < Len(f) => f[n + 1] = Broken
                             /\ n = Len(f) => Intact(f) = f
  BY IntactIs
<1>2. ToSet(f) = {f[i] : i \in 1..Len(f)} /\ Len(f) \in Nat BY Members, LenProperties
<1>3. Intact(f) \in Seq(S) /\ Len(Intact(f)) = n /\ \A i \in 1..n : Intact(f)[i] = f[i]
  BY <1>1, FrontPlaces
<1>4. ToSet(Intact(f)) = {Intact(f)[i] : i \in 1..n} BY <1>3, Members
<1>5. Broken \notin ToSet(f) => n = Len(f) BY <1>1, <1>2
<1> QED BY <1>1, <1>2, <1>3, <1>4, <1>5

\* A record at the end of a file takes nothing from what can be read, and a damaged one
\* adds nothing.
LEMMA IntactAppend ==
  ASSUME NEW S, NEW f \in Seq(S), NEW e \in S
  PROVE  /\ ToSet(Intact(f)) \subseteq ToSet(Intact(Append(f, e)))
         /\ ToSet(Intact(Append(f, e))) \subseteq ToSet(Intact(f)) \union {e}
         /\ Broken \in ToSet(f) => ToSet(Intact(Append(f, e))) = ToSet(Intact(f))
<1> DEFINE g == Append(f, e)
<1>0. /\ g \in Seq(S) /\ Len(g) = Len(f) + 1 /\ g[Len(f) + 1] = e
      /\ \A i \in 1..Len(f) : g[i] = f[i]
      /\ Len(f) \in Nat
  BY AppendProperties, LenProperties
<1> HIDE DEF g
<1>1. PICK n \in 0..Len(f) : /\ Intact(f) = SubSeq(f, 1, n)
                             /\ \A j \in 1..n : f[j] # Broken
                             /\ n < Len(f) => f[n + 1] = Broken
                             /\ n = Len(f) => Intact(f) = f
  BY IntactIs
<1>2. PICK m \in 0..Len(g) : /\ Intact(g) = SubSeq(g, 1, m)
                             /\ \A j \in 1..m : g[j] # Broken
                             /\ m < Len(g) => g[m + 1] = Broken
                             /\ m = Len(g) => Intact(g) = g
  BY <1>0, IntactIs
<1>3. Intact(f) \in Seq(S) /\ Len(Intact(f)) = n /\ \A i \in 1..n : Intact(f)[i] = f[i]
  BY <1>1, FrontPlaces
<1>4. Intact(g) \in Seq(S) /\ Len(Intact(g)) = m /\ \A i \in 1..m : Intact(g)[i] = g[i]
  BY <1>0, <1>2, FrontPlaces
<1>5. /\ ToSet(Intact(f)) = {Intact(f)[i] : i \in 1..n}
      /\ ToSet(Intact(g)) = {Intact(g)[i] : i \in 1..m}
      /\ ToSet(f) = {f[i] : i \in 1..Len(f)}
  BY <1>3, <1>4, Members
<1>6. n <= m
  <2> SUFFICES ASSUME m < n PROVE FALSE OBVIOUS
  <2>1. m + 1 \in 1..n /\ m + 1 \in 1..Len(f) /\ m < Len(g) BY <1>0
  <2>2. g[m + 1] = f[m + 1] /\ f[m + 1] # Broken /\ g[m + 1] = Broken BY <1>0, <1>1, <1>2, <2>1
  <2> QED BY <2>2
<1>7. m <= n \/ (n = Len(f) /\ m = n + 1)
  <2> SUFFICES ASSUME n < m, n < Len(f) PROVE FALSE BY <1>0
  <2>1. n + 1 \in 1..m /\ n + 1 \in 1..Len(f) BY <1>0
  <2>2. g[n + 1] = f[n + 1] /\ g[n + 1] # Broken /\ f[n + 1] = Broken BY <1>0, <1>1, <1>2, <2>1
  <2> QED BY <2>2
<1>8. ToSet(Intact(f)) \subseteq ToSet(Intact(g))
  <2> SUFFICES ASSUME NEW i \in 1..n PROVE Intact(f)[i] \in ToSet(Intact(g)) BY <1>5
  <2>1. i \in 1..m /\ i \in 1..Len(f) BY <1>0, <1>6
  <2>2. Intact(f)[i] = Intact(g)[i] BY <1>0, <1>3, <1>4, <2>1
  <2> QED BY <1>5, <2>1, <2>2
<1>9. ToSet(Intact(g)) \subseteq ToSet(Intact(f)) \union {e}
  BY <1>0, <1>3, <1>4, <1>5, <1>6, <1>7
<1>10. ASSUME Broken \in ToSet(f) PROVE ToSet(Intact(g)) = ToSet(Intact(f))
  <2>1. n # Len(f) BY <1>1, <1>5, <1>10
  <2>2. m = n BY <2>1, <1>0, <1>6, <1>7
  <2>3. \A i \in 1..n : Intact(g)[i] = Intact(f)[i] BY <1>0, <1>3, <1>4, <2>2
  <2> QED BY <1>5, <2>2, <2>3
<1> QED BY <1>8, <1>9, <1>10 DEF g

\* A record or nothing, behind the others.
LEMMA Extended ==
  ASSUME NEW S, NEW f \in Seq(S), NEW e \in S
  PROVE  f \o <<>> = f /\ f \o <<e>> = Append(f, e)
BY ConcatEmptySeq, AppendIsConcat

-----------------------------------------------------------------------------
(* WaterfallStorage: types.                                                  *)

Jobs == [session : Ids, row : Rows]
Records == Rows \union {-r : r \in Rows} \union {Torn}
Entries == [row : Rows, at : Nat] \union {Broken}
Parts == {"dir", "bin", "idx"}
Directories == [parts : SUBSET Parts, meta : Metadata, bin : Seq(Records), idx : Seq(Entries)]
Loads == [session : Ids \union {0}, query : [from : Nat, to : Nat, maxRows : Nat],
          named : SUBSET Rows, found : SUBSET Rows, readable : SUBSET Rows, given : SUBSET Rows]

\* The types of the variables.  The writer holds a batch exactly while it is in
\* appendRowSync.
StorageTypes ==
  /\ DOMAIN sessions \subseteq Ids /\ sessions \in [DOMAIN sessions -> Metadata]
  /\ recentRows \in [Ids -> SUBSET Rows]
  /\ writeQueue \in Seq(Jobs) /\ batch \in Seq(Jobs)
  /\ writer \in {"wait", "look", "bin", "idx", "copy", "meta"}
  /\ (batch = <<>>) <=> (writer = "wait")
  /\ copy \in Metadata /\ position \in Nat
  /\ ui \in {"idle", "register", "describe", "close"} /\ active \in Ids \union {0}
  /\ started \in 0..Recordings /\ fresh \subseteq Rows
  /\ load \in Loads
  /\ disk \in [Ids -> Directories]
  /\ mode \in {"running", "stopping", "stopped", "down"} /\ exits \in 0..MaxExits
  /\ seen \in [Ids -> SUBSET Rows] /\ cut \in BOOLEAN
  /\ failures \in Nat /\ failed \subseteq Ids \X Rows

LEMMA Constants ==
  /\ Rows \subseteq Nat \ {0} /\ IsFiniteSet(Rows) /\ Torn \notin Rows /\ Rows \subseteq Records
  /\ Torn \in Records /\ \A r \in Rows : -r \in Records /\ -r \notin Rows
  /\ Broken \in Entries /\ Recordings \in Nat /\ Ids = 1..Recordings /\ 0 \notin Ids
  /\ StartUtc \in [Ids -> Nat \ {0}] /\ MaxExits \in Nat /\ MaxFailures \in Nat
  /\ RecentCap \in Nat \ {0}
  /\ Queries \subseteq [from : Nat, to : Nat, maxRows : Nat]
BY StorageAssumption DEF Ids, Torn, Records, Entries

LEMMA EntryFacts ==
  ASSUME NEW e \in Entries
  PROVE  /\ e # Broken => e.row \in Rows /\ e.at \in Nat
         /\ e.row \notin Rows => e = Broken
         /\ Broken.row = Torn
<1>1. Broken.row = Torn BY DEF Broken
<1>2. e # Broken => e.row \in Rows /\ e.at \in Nat BY DEF Entries
<1> QED BY <1>1, <1>2

\* What an index finds in a data file are rows of it.
LEMMA IndexedFacts ==
  ASSUME NEW index \in Seq(Entries), NEW records \in Seq(Records)
  PROVE  /\ Indexed(index, records) \subseteq Rows
         /\ Indexed(index, records) \subseteq ToSet(records)
<1>1. ToSet(Intact(index)) \subseteq ToSet(index) \ {Broken} /\ ToSet(index) \subseteq Entries
  BY IntactFacts, Members
<1> SUFFICES ASSUME NEW e \in ToSet(Intact(index)), e.at \in DOMAIN records,
                    records[e.at] = e.row
             PROVE  e.row \in Rows /\ e.row \in ToSet(records)
  BY DEF Indexed
<1>2. e \in Entries /\ e # Broken BY <1>1
<1> QED BY <1>2, EntryFacts DEF ToSet

\* A record more in the data file takes nothing from what is found, and adds itself at most.
LEMMA IndexedMore ==
  ASSUME NEW index \in Seq(Entries), NEW records \in Seq(Records), NEW e \in Records
  PROVE  /\ Indexed(index, records) \subseteq Indexed(index, Append(records, e))
         /\ Indexed(index, Append(records, e))
              \subseteq Indexed(index, records) \union (Rows \intersect {e})
<1> DEFINE more == Append(records, e)
<1>1. /\ more \in Seq(Records) /\ Len(more) = Len(records) + 1 /\ more[Len(records) + 1] = e
      /\ \A k \in 1..Len(records) : more[k] = records[k]
      /\ Len(records) \in Nat /\ DOMAIN records = 1..Len(records) /\ DOMAIN more = 1..Len(more)
  BY AppendProperties, LenProperties
<1> HIDE DEF more
<1>2. Indexed(index, records) \subseteq Indexed(index, more)
  <2> SUFFICES ASSUME NEW f \in ToSet(Intact(index)), f.at \in DOMAIN records,
                      records[f.at] = f.row
               PROVE  f.at \in DOMAIN more /\ more[f.at] = f.row
    BY DEF Indexed
  <2> QED BY <1>1
<1>3. Indexed(index, more) \subseteq Indexed(index, records) \union (Rows \intersect {e})
  <2> SUFFICES ASSUME NEW r \in Indexed(index, more), r # e PROVE r \in Indexed(index, records)
    BY <1>1, IndexedFacts
  <2>1. PICK f \in ToSet(Intact(index)) : f.at \in DOMAIN more /\ more[f.at] = f.row /\ r = f.row
    BY DEF Indexed
  <2>2. f.at \in 1..Len(records) BY <1>1, <2>1
  <2>3. f.at \in DOMAIN records /\ records[f.at] = f.row BY <1>1, <2>1, <2>2
  <2> QED BY <2>1, <2>3 DEF Indexed
<1> QED BY <1>2, <1>3 DEF more

\* So does a record more in the index; a damaged one adds nothing, and one that says where
\* its row is adds it, unless there is a damaged one before it.
LEMMA IndexedEntry ==
  ASSUME NEW index \in Seq(Entries), NEW records \in Seq(Records), NEW e \in Entries
  PROVE  /\ Indexed(index, records) \subseteq Indexed(Append(index, e), records)
         /\ Indexed(Append(index, e), records)
              \subseteq Indexed(index, records) \union (Rows \intersect {e.row})
         /\ Broken \notin ToSet(index) /\ e # Broken /\ e.at \in DOMAIN records
              /\ records[e.at] = e.row => e.row \in Indexed(Append(index, e), records)
<1> DEFINE more == Append(index, e)
<1>1. more \in Seq(Entries) /\ ToSet(more) = ToSet(index) \union {e} BY PushBack
<1>2. /\ ToSet(Intact(index)) \subseteq ToSet(Intact(more))
      /\ ToSet(Intact(more)) \subseteq ToSet(Intact(index)) \union {e}
  BY IntactAppend
<1> HIDE DEF more
<1>3. Indexed(index, records) \subseteq Indexed(more, records) BY <1>2 DEF Indexed
<1>4. Indexed(more, records) \subseteq Indexed(index, records) \union (Rows \intersect {e.row})
  <2> SUFFICES ASSUME NEW r \in Indexed(more, records), r # e.row PROVE r \in Indexed(index, records)
    BY <1>1, IndexedFacts
  <2>1. PICK f \in ToSet(Intact(more)) : f.at \in DOMAIN records /\ records[f.at] = f.row /\ r = f.row
    BY DEF Indexed
  <2> QED BY <1>2, <2>1 DEF Indexed
<1>5. ASSUME Broken \notin ToSet(index), e # Broken, e.at \in DOMAIN records, records[e.at] = e.row
      PROVE  e.row \in Indexed(more, records)
  <2>1. Intact(more) = more BY <1>1, <1>5, IntactFacts
  <2>2. e \in ToSet(Intact(more)) BY <1>1, <2>1
  <2> QED BY <1>5, <2>2 DEF Indexed
<1> QED BY <1>3, <1>4, <1>5 DEF more

LEMMA RecordFacts ==
  ASSUME NEW e \in Records
  PROVE  e \in Int /\ (e > Torn <=> e \in Rows) /\ (e < 0 => -e \in Rows)
<1>1. \A r \in Rows : r \in Nat \ {0} BY Constants
<1> QED BY <1>1 DEF Records, Torn

\* What rebuildIndexFromBin makes of a data file: an undamaged index of whole rows, of all
\* of them if the file is not damaged.
LEMMA ParsedFacts ==
  ASSUME NEW records \in Seq(Records)
  PROVE  /\ Parsed(records) \in Seq(Entries) /\ Broken \notin ToSet(Parsed(records))
         /\ ToSet(records) \subseteq Rows => Indexed(Parsed(records), records) = ToSet(records)
<1> DEFINE bad == {k \in DOMAIN records : records[k] <= Torn}
           end == IF bad = {} THEN Len(records)
                  ELSE IF RowAt(records, Min(bad)) = Torn THEN Min(bad) - 1 ELSE Min(bad)
           entry(k) == [row |-> RowAt(records, k), at |-> k]
<1>1. Parsed(records) = [k \in 1..end |-> entry(k)] BY DEF Parsed
<1>2. /\ Len(records) \in Nat /\ DOMAIN records = 1..Len(records)
      /\ \A k \in 1..Len(records) : records[k] \in Records
  BY LenProperties, ElementOfSeq
<1>3. \A k \in 1..Len(records) :
        records[k] > Torn => records[k] \in Rows /\ RowAt(records, k) = records[k]
  <2> SUFFICES ASSUME NEW k \in 1..Len(records), records[k] > Torn
               PROVE  records[k] \in Rows /\ RowAt(records, k) = records[k]
    OBVIOUS
  <2>1. records[k] \in Int /\ records[k] \in Rows BY <1>2, RecordFacts
  <2> QED BY <1>2, <2>1 DEF RowAt, Later, Torn
<1>4. \A k \in 1..Len(records) : RowAt(records, k) # Torn => RowAt(records, k) \in Rows
  <2> SUFFICES ASSUME NEW k \in 1..Len(records), RowAt(records, k) # Torn
               PROVE  RowAt(records, k) \in Rows
    OBVIOUS
  <2>1. records[k] \in Int /\ (records[k] < 0 => -records[k] \in Rows) BY <1>2, RecordFacts
  <2>2. CASE records[k] > Torn BY <1>3, <2>2
  <2>3. CASE ~(records[k] > Torn) BY <1>2, <2>1, <2>3 DEF RowAt, Later, Torn
  <2> QED BY <2>2, <2>3
<1>5. end \in 0..Len(records) /\ \A k \in 1..end : RowAt(records, k) # Torn
  <2>1. CASE bad = {}
    <3>1. \A k \in 1..Len(records) : records[k] > Torn
      BY <1>2, <2>1, RecordFacts DEF Torn
    <3>2. \A k \in 1..Len(records) : RowAt(records, k) # Torn BY <1>3, <3>1, Constants
    <3> QED BY <1>2, <2>1, <3>2
  <2>2. CASE bad # {}
    <3>1. PICK x \in bad : \A y \in bad : x <= y
      <4>1. bad \subseteq Nat BY <1>2
      <4> HIDE DEF bad
      <4> QED BY <2>2, <4>1, NatMin
    <3>2. Min(bad) \in bad /\ \A y \in bad : Min(bad) <= y BY <3>1 DEF Min
    <3> DEFINE m == Min(bad)
    <3>3. m \in 1..Len(records) /\ \A k \in 1..Len(records) : k < m => records[k] > Torn
      <4>1. m \in 1..Len(records) BY <1>2, <3>2
      <4>2. ASSUME NEW k \in 1..Len(records), k < m PROVE records[k] > Torn
        <5>1. k \notin bad BY <4>1, <4>2, <3>2
        <5>2. records[k] \in Int BY <1>2, RecordFacts
        <5> QED BY <1>2, <5>1, <5>2 DEF Torn
      <4> QED BY <4>1, <4>2
    <3>4. \A k \in 1..Len(records) : k < m => RowAt(records, k) # Torn
      BY <1>3, <3>3, Constants
    <3>5. end = IF RowAt(records, m) = Torn THEN m - 1 ELSE m BY <2>2
    <3> HIDE DEF m, end, bad
    <3> QED BY <1>2, <3>3, <3>4, <3>5
  <2> QED BY <2>1, <2>2
<1> HIDE DEF end, bad
<1>6. \A k \in 1..end : /\ entry(k) \in Entries /\ entry(k) # Broken
                        /\ entry(k).row = RowAt(records, k) /\ entry(k).at = k
  <2> SUFFICES ASSUME NEW k \in 1..end
               PROVE  entry(k) \in Entries /\ entry(k) # Broken
    OBVIOUS
  <2>1. RowAt(records, k) \in Rows /\ k \in Nat BY <1>2, <1>4, <1>5
  <2>2. entry(k) \in Entries BY <2>1 DEF Entries
  <2>3. entry(k).row # Broken.row BY <2>1, Constants DEF Broken
  <2> QED BY <2>2, <2>3
<1> HIDE DEF entry
<1>7. Parsed(records) \in Seq(Entries) /\ Len(Parsed(records)) = end
  <2>1. end \in Nat BY <1>2, <1>5
  <2> QED BY <1>1, <1>6, <2>1, IsASeq
<1>8. ToSet(Parsed(records)) = {entry(k) : k \in 1..end}
  <2>1. ToSet(Parsed(records)) = {Parsed(records)[k] : k \in 1..end} BY <1>7, Members
  <2> QED BY <1>1, <2>1
<1>9. Broken \notin ToSet(Parsed(records)) BY <1>6, <1>8
<1>10. ASSUME ToSet(records) \subseteq Rows
       PROVE  Indexed(Parsed(records), records) = ToSet(records)
  <2>1. \A k \in 1..Len(records) : records[k] > Torn
    BY <1>2, <1>10, Constants, RecordFacts DEF ToSet
  <2>2. end = Len(records)
    <3>1. bad = {} BY <1>2, <2>1, RecordFacts DEF bad, Torn
    <3> QED BY <3>1 DEF end
  <2>3. Intact(Parsed(records)) = Parsed(records) BY <1>7, <1>9, IntactFacts
  <2>4. ASSUME NEW k \in 1..Len(records) PROVE records[k] \in Indexed(Parsed(records), records)
    <3>1. /\ entry(k) \in ToSet(Intact(Parsed(records)))
          /\ entry(k).at = k /\ entry(k).row = records[k]
      BY <1>3, <1>6, <1>8, <2>1, <2>2, <2>3
    <3>2. entry(k).at \in DOMAIN records /\ records[entry(k).at] = entry(k).row BY <1>2, <3>1
    <3> QED BY <3>1, <3>2 DEF Indexed
  <2>5. ToSet(records) = {records[k] : k \in 1..Len(records)} BY Members
  <2>6. Indexed(Parsed(records), records) \subseteq ToSet(records) BY <1>7, IndexedFacts
  <2> QED BY <2>4, <2>5, <2>6
<1> QED BY <1>7, <1>9, <1>10

\* What the disk may hold after one record more, or none, in one of the files of the row
\* in the writer's hands.
OneMore(e) == {<<>>, <<e>>}

LEMMA BinWritten ==
  ASSUME StorageTypes, NEW s \in Ids, s = Job.session, NEW e \in Records,
         NEW written \in OneMore(e), disk' = WithBin(written)
  PROVE  /\ disk' \in [Ids -> Directories]
         /\ \A i \in Ids \ {s} : disk'[i] = disk[i]
         /\ disk'[s].parts = disk[s].parts \union {"bin"} /\ disk'[s].meta = disk[s].meta
         /\ disk'[s].idx = disk[s].idx
         /\ disk'[s].bin = IF written = <<>> THEN disk[s].bin ELSE Append(disk[s].bin, e)
         /\ disk'[s].bin \in Seq(Records)
<1>1. disk \in [Ids -> Directories] BY DEF StorageTypes
<1>2. /\ disk[s].bin \in Seq(Records) /\ disk[s].parts \in SUBSET Parts
      /\ disk[s].meta \in Metadata /\ disk[s].idx \in Seq(Entries)
  BY <1>1 DEF Directories
<1>3. /\ disk[s].bin \o written \in Seq(Records)
      /\ disk[s].bin \o written = IF written = <<>> THEN disk[s].bin ELSE Append(disk[s].bin, e)
  <2>1. Append(disk[s].bin, e) \in Seq(Records) BY <1>2, AppendProperties
  <2>2. disk[s].bin \o <<>> = disk[s].bin /\ disk[s].bin \o <<e>> = Append(disk[s].bin, e)
    BY <1>2, Extended
  <2>3. <<e>> # <<>> OBVIOUS
  <2> QED BY <1>2, <2>1, <2>2, <2>3 DEF OneMore
<1> PICK data, parts : data = disk[s].bin \o written /\ parts = disk[s].parts \union {"bin"} OBVIOUS
<1>4. disk' = [disk EXCEPT ![s].parts = parts, ![s].bin = data] BY DEF WithBin
<1>5. parts \in SUBSET Parts /\ data \in Seq(Records) BY <1>2, <1>3 DEF Parts
<1>6. disk[s] \in Directories BY <1>1
<1>7. PICK d : d = [disk[s] EXCEPT !.parts = parts, !.bin = data] OBVIOUS
<1>8. /\ d \in Directories /\ d.parts = parts /\ d.bin = data
      /\ d.meta = disk[s].meta /\ d.idx = disk[s].idx
  <2> HIDE DEF Records, Entries, Metadata, Parts
  <2> QED BY <1>5, <1>6, <1>7 DEF Directories
<1>9. disk'[s] = d /\ \A i \in Ids \ {s} : disk'[i] = disk[i] BY <1>1, <1>4, <1>7
<1>10. disk' \in [Ids -> Directories] BY <1>1, <1>4, <1>8, <1>9
<1> QED BY <1>3, <1>5, <1>8, <1>9, <1>10

LEMMA IdxWritten ==
  ASSUME StorageTypes, NEW s \in Ids, s = Job.session, NEW e \in Entries,
         NEW written \in OneMore(e), disk' = WithIdx(written)
  PROVE  /\ disk' \in [Ids -> Directories]
         /\ \A i \in Ids \ {s} : disk'[i] = disk[i]
         /\ disk'[s].parts = disk[s].parts \union {"idx"} /\ disk'[s].meta = disk[s].meta
         /\ disk'[s].bin = disk[s].bin
         /\ disk'[s].idx = IF written = <<>> THEN disk[s].idx ELSE Append(disk[s].idx, e)
         /\ disk'[s].idx \in Seq(Entries)
<1>1. disk \in [Ids -> Directories] BY DEF StorageTypes
<1>2. /\ disk[s].bin \in Seq(Records) /\ disk[s].parts \in SUBSET Parts
      /\ disk[s].meta \in Metadata /\ disk[s].idx \in Seq(Entries)
  BY <1>1 DEF Directories
<1>3. /\ disk[s].idx \o written \in Seq(Entries)
      /\ disk[s].idx \o written = IF written = <<>> THEN disk[s].idx ELSE Append(disk[s].idx, e)
  <2>1. Append(disk[s].idx, e) \in Seq(Entries) BY <1>2, AppendProperties
  <2>2. disk[s].idx \o <<>> = disk[s].idx /\ disk[s].idx \o <<e>> = Append(disk[s].idx, e)
    BY <1>2, Extended
  <2>3. <<e>> # <<>> OBVIOUS
  <2> QED BY <1>2, <2>1, <2>2, <2>3 DEF OneMore
<1> PICK index, parts : index = disk[s].idx \o written /\ parts = disk[s].parts \union {"idx"} OBVIOUS
<1>4. disk' = [disk EXCEPT ![s].parts = parts, ![s].idx = index] BY DEF WithIdx
<1>5. parts \in SUBSET Parts /\ index \in Seq(Entries) BY <1>2, <1>3 DEF Parts
<1>6. disk[s] \in Directories BY <1>1
<1>7. PICK d : d = [disk[s] EXCEPT !.parts = parts, !.idx = index] OBVIOUS
<1>8. /\ d \in Directories /\ d.parts = parts /\ d.idx = index
      /\ d.meta = disk[s].meta /\ d.bin = disk[s].bin
  <2> HIDE DEF Records, Entries, Metadata, Parts
  <2> QED BY <1>5, <1>6, <1>7 DEF Directories
<1>9. disk'[s] = d /\ \A i \in Ids \ {s} : disk'[i] = disk[i] BY <1>1, <1>4, <1>7
<1>10. disk' \in [Ids -> Directories] BY <1>1, <1>4, <1>8, <1>9
<1> QED BY <1>3, <1>5, <1>8, <1>9, <1>10

LEMMA ReadableRows ==
  ASSUME StorageTypes, NEW i \in Ids
  PROVE  /\ disk[i] \in Directories
         /\ disk[i].bin \in Seq(Records) /\ disk[i].idx \in Seq(Entries)
         /\ disk[i].meta \in Metadata /\ disk[i].parts \subseteq Parts
         /\ Readable(i) \subseteq Rows /\ Readable(i) \subseteq ToSet(disk[i].bin)
         /\ Given(i) \subseteq Rows /\ Held(i) \subseteq Rows
<1>1. disk[i] \in Directories BY DEF StorageTypes
<1>2. disk[i].bin \in Seq(Records) /\ disk[i].idx \in Seq(Entries)
      /\ disk[i].meta \in Metadata /\ disk[i].parts \subseteq Parts
  BY <1>1 DEF Directories
<1>3. Readable(i) \subseteq Rows /\ Readable(i) \subseteq ToSet(disk[i].bin)
  BY <1>2, IndexedFacts DEF Readable
<1>4. Given(i) \subseteq Rows BY <1>3 DEF Given, RowsIn, StorageTypes
<1>5. Held(i) \subseteq Rows BY <1>4 DEF Held, Failed
<1> QED BY <1>1, <1>2, <1>3, <1>4, <1>5

LEMMA RecordTypes ==
  ASSUME NEW d \in Directories, NEW m \in Metadata, NEW parts \in SUBSET Parts,
         NEW index \in Seq(Entries), NEW stripped
  PROVE  /\ [d EXCEPT !.parts = parts] \in Directories
         /\ [d EXCEPT !.parts = parts, !.meta = m] \in Directories
         /\ [d EXCEPT !.parts = parts, !.idx = index] \in Directories
         /\ Without(d, stripped) \in Directories
<1>1. /\ [d EXCEPT !.parts = parts] \in Directories
      /\ [d EXCEPT !.parts = parts, !.meta = m] \in Directories
      /\ [d EXCEPT !.parts = parts, !.idx = index] \in Directories
  <2> HIDE DEF Records, Entries, Metadata, Parts
  <2> QED BY DEF Directories
<1>2. Without(d, stripped) \in Directories
  <2>1. /\ d.parts \in SUBSET Parts /\ d.meta \in Metadata /\ d.bin \in Seq(Records)
        /\ d.idx \in Seq(Entries)
    BY DEF Directories
  <2>2. NoMetadata \in Metadata BY DEF NoMetadata, Metadata
  <2>3. <<>> \in Seq(Records) /\ <<>> \in Seq(Entries) OBVIOUS
  <2> HIDE DEF Records, Entries, Metadata, Parts
  <2>4. d.parts \ stripped \in SUBSET Parts BY <2>1
  <2> QED BY <2>1, <2>2, <2>3, <2>4 DEF Without, Directories
<1> QED BY <1>1, <1>2

StartParts == [NoDirectory EXCEPT !.parts = {"dir", "bin", "idx"}]

LEMMA NoDirectoryType ==
  /\ NoDirectory \in Directories /\ NoMetadata \in Metadata /\ NoLoad \in Loads
  /\ StartParts \in Directories
  /\ NoDirectory.parts = {} /\ StartParts.parts = {"dir", "bin", "idx"}
  /\ \A d \in {NoDirectory, StartParts} :
       d.bin = <<>> /\ d.idx = <<>> /\ d.meta = NoMetadata
<1>1. <<>> \in Seq(Records) /\ <<>> \in Seq(Entries) OBVIOUS
<1>2. NoMetadata \in Metadata BY DEF NoMetadata, Metadata
<1>3. NoDirectory \in Directories
  <2> HIDE DEF Records, Entries, Metadata
  <2> QED BY <1>1, <1>2 DEF NoDirectory, Directories, Parts
<1>4. NoLoad \in Loads BY DEF NoLoad, Loads
<1>5. PICK made : made = {"dir", "bin", "idx"} OBVIOUS
<1>6. made \in SUBSET Parts BY <1>5 DEF Parts
<1>9. [NoDirectory EXCEPT !.parts = made] \in Directories
  BY <1>1, <1>2, <1>3, <1>6, RecordTypes
<1>7. NoDirectory.parts = {} /\ StartParts.parts = {"dir", "bin", "idx"} BY DEF NoDirectory, StartParts
<1>8. \A d \in {NoDirectory, StartParts} : d.bin = <<>> /\ d.idx = <<>> /\ d.meta = NoMetadata
  BY DEF NoDirectory, StartParts
<1> QED BY <1>2, <1>3, <1>4, <1>5, <1>7, <1>8, <1>9 DEF StartParts

LEMMA JobTypes ==
  ASSUME StorageTypes, writer # "wait"
  PROVE  /\ Job \in Jobs /\ Job.session \in Ids /\ Job.row \in Rows /\ batch # <<>>
         /\ Tail(batch) \in Seq(Jobs) /\ Len(batch) \in Nat \ {0} /\ Tail(batch) # batch
         /\ Tail(batch) = <<>> <=> Len(batch) = 1
<1>1. batch \in Seq(Jobs) /\ batch # <<>> BY DEF StorageTypes
<1>2. Head(batch) \in Jobs /\ Tail(batch) \in Seq(Jobs) /\ Len(Tail(batch)) = Len(batch) - 1
      /\ Len(batch) \in Nat
  BY <1>1, PopFront, LenProperties
<1>3. Tail(batch) = <<>> <=> Len(Tail(batch)) = 0 BY <1>2, EmptySeq
<1>4. batch = <<>> <=> Len(batch) = 0 BY <1>1, EmptySeq
<1>5. Tail(batch) # batch
  <2> PICK n, m : n = Len(batch) /\ m = Len(Tail(batch)) OBVIOUS
  <2>1. m = n - 1 /\ n \in Nat BY <1>2
  <2>2. m # n BY <2>1
  <2>3. Len(Tail(batch)) # Len(batch) BY <2>2
  <2> QED BY <2>3, Zenon
<1>6. Job \in Jobs /\ Job.session \in Ids /\ Job.row \in Rows BY <1>2 DEF Job, Jobs
<1>7. Len(batch) # 0 BY <1>1, <1>4
<1>8. Len(batch) \in Nat \ {0} /\ (Tail(batch) = <<>> <=> Len(batch) = 1) BY <1>2, <1>3, <1>7
<1>9. Tail(batch) \in Seq(Jobs) BY <1>2
<1> QED BY <1>1, <1>5, <1>6, <1>8, <1>9

LEMMA RowDoneTypes ==
  ASSUME StorageTypes, writer # "wait", RowDone
  PROVE  /\ batch' \in Seq(Jobs) /\ writer' \in {"wait", "look"}
         /\ (batch' = <<>>) <=> (writer' = "wait")
BY JobTypes DEF RowDone

LEMMA StorageTypesInit ==
  ASSUME Init
  PROVE  StorageTypes
<1>1. DOMAIN sessions = {} /\ sessions \in [DOMAIN sessions -> Metadata] BY DEF Init
<1>2. writeQueue \in Seq(Jobs) /\ batch \in Seq(Jobs) /\ batch = <<>> BY DEF Init
<1>3. recentRows \in [Ids -> SUBSET Rows] /\ seen \in [Ids -> SUBSET Rows] BY DEF Init
<1>4. disk \in [Ids -> Directories] BY NoDirectoryType DEF Init
<1>5. copy \in Metadata /\ load \in Loads BY NoDirectoryType DEF Init
<1>6. started \in 0..Recordings /\ exits \in 0..MaxExits /\ failures \in Nat BY Constants DEF Init
<1>7. fresh \subseteq Rows /\ failed \subseteq Ids \X Rows BY DEF Init
<1> QED BY <1>1, <1>2, <1>3, <1>4, <1>5, <1>6, <1>7 DEF Init, StorageTypes

LEMMA DescribeTypes ==
  ASSUME StorageTypes, NEW i \in Ids, NEW m \in Metadata, Describe(i, m)
  PROVE  /\ disk' \in [Ids -> Directories] /\ failures' \in Nat
         /\ \A j \in Ids \ {i} : disk'[j] = disk[j]
         /\ disk'[i].bin = disk[i].bin /\ disk'[i].idx = disk[i].idx
         /\ disk'[i].meta \in {disk[i].meta, m}
         /\ disk'[i].parts = disk[i].parts \union {"dir"}
<1>1. disk \in [Ids -> Directories] /\ failures \in Nat BY DEF StorageTypes
<1> PICK made : made = disk[i].parts \union {"dir"} OBVIOUS
<1>2. disk[i] \in Directories /\ made \in SUBSET Parts BY ReadableRows DEF Parts
<1>3. \/ /\ disk' = [disk EXCEPT ![i].parts = made, ![i].meta = m]
         /\ UNCHANGED failures
      \/ /\ DiskFails
         /\ disk' = [disk EXCEPT ![i].parts = made]
  BY DEF Describe
<1>4. failures' \in Nat BY <1>1, <1>3 DEF DiskFails
<1>5. \A j \in Ids \ {i} : disk'[j] = disk[j] BY <1>1, <1>3
<1>6. disk'[i] = [disk[i] EXCEPT !.parts = made, !.meta = m]
      \/ disk'[i] = [disk[i] EXCEPT !.parts = made]
  BY <1>1, <1>3
<1>7. disk'[i] \in Directories
  <2>1. disk[i].idx \in Seq(Entries) BY ReadableRows
  <2>2. /\ [disk[i] EXCEPT !.parts = made, !.meta = m] \in Directories
        /\ [disk[i] EXCEPT !.parts = made] \in Directories
    BY <1>2, <2>1, RecordTypes
  <2> QED BY <1>6, <2>2
<1>8. disk' \in [Ids -> Directories] BY <1>1, <1>3, <1>5, <1>7
<1>9. /\ disk'[i].bin = disk[i].bin /\ disk'[i].idx = disk[i].idx
      /\ disk'[i].meta \in {disk[i].meta, m} /\ disk'[i].parts = made
  <2> HIDE DEF Records, Entries, Metadata, Parts
  <2> QED BY <1>2, <1>6 DEF Directories
<1> QED BY <1>4, <1>5, <1>8, <1>9

-----------------------------------------------------------------------------
(* WaterfallStorage: the steps keep the types.                               *)

\* A write that fails leaves the disk as it was, or with a part of the record.
LEMMA BinCutForms ==
  ASSUME StorageTypes, writer # "wait", disk' \in BinCut
  PROVE  \/ UNCHANGED disk
         \/ \E e \in {Torn, -Job.row} : \E written \in OneMore(e) : disk' = WithBin(written)
<1>1. UNCHANGED disk \/ \E written \in {<<>>, <<Torn>>, <<-Job.row>>} : disk' = WithBin(written)
  BY DEF BinCut
<1>2. ASSUME NEW written \in {<<>>, <<Torn>>, <<-Job.row>>}
      PROVE  \E e \in {Torn, -Job.row} : written \in OneMore(e)
  BY DEF OneMore
<1> QED BY <1>1, <1>2

LEMMA IdxCutForms ==
  ASSUME disk' \in IdxCut
  PROVE  UNCHANGED disk \/ \E written \in OneMore(Broken) : disk' = WithIdx(written)
BY DEF IdxCut, OneMore

\* What a step of the writer may do to the files, with a record more or none in one of them.
OneWrite ==
  \/ UNCHANGED disk
  \/ \E e \in {Job.row, Torn, -Job.row} : \E written \in OneMore(e) : disk' = WithBin(written)
  \/ \E e \in {[row |-> Job.row, at |-> position], Broken} :
       \E written \in OneMore(e) : disk' = WithIdx(written)

LEMMA OneWriteTypes ==
  ASSUME StorageTypes, writer # "wait", OneWrite
  PROVE  /\ disk' \in [Ids -> Directories]
         /\ \A i \in Ids : /\ disk'[i].meta = disk[i].meta
                           /\ disk[i].parts \subseteq disk'[i].parts
                           /\ disk'[i].parts \subseteq disk[i].parts \union {"bin", "idx"}
                           /\ i # Job.session => disk'[i] = disk[i]
<1>1. /\ Job.session \in Ids /\ disk \in [Ids -> Directories]
      /\ \A e \in {Job.row, Torn, -Job.row} : e \in Records
      /\ \A e \in {[row |-> Job.row, at |-> position], Broken} : e \in Entries
  <2>1. Job.session \in Ids /\ Job.row \in Rows BY JobTypes
  <2>2. position \in Nat /\ disk \in [Ids -> Directories] BY DEF StorageTypes
  <2>3. \A e \in {Job.row, Torn, -Job.row} : e \in Records
    <3> HIDE DEF Records, Torn
    <3> QED BY <2>1, Constants
  <2>4. [row |-> Job.row, at |-> position] \in Entries BY <2>1, <2>2 DEF Entries
  <2>5. Broken \in Entries BY Constants
  <2> QED BY <2>1, <2>2, <2>3, <2>4, <2>5
<1>2. CASE UNCHANGED disk BY <1>1, <1>2
<1>3. ASSUME NEW e \in Records, NEW written \in OneMore(e), disk' = WithBin(written)
      PROVE  /\ disk' \in [Ids -> Directories]
             /\ \A i \in Ids : /\ disk'[i].meta = disk[i].meta
                               /\ disk[i].parts \subseteq disk'[i].parts
                               /\ disk'[i].parts \subseteq disk[i].parts \union {"bin", "idx"}
                               /\ i # Job.session => disk'[i] = disk[i]
  BY <1>1, <1>3, BinWritten
<1>4. ASSUME NEW e \in Entries, NEW written \in OneMore(e), disk' = WithIdx(written)
      PROVE  /\ disk' \in [Ids -> Directories]
             /\ \A i \in Ids : /\ disk'[i].meta = disk[i].meta
                               /\ disk[i].parts \subseteq disk'[i].parts
                               /\ disk'[i].parts \subseteq disk[i].parts \union {"bin", "idx"}
                               /\ i # Job.session => disk'[i] = disk[i]
  BY <1>1, <1>4, IdxWritten
<1> QED BY <1>1, <1>2, <1>3, <1>4 DEF OneWrite

\* Where appendRowSync goes, and what it takes for failed.
WriteEnds ==
  /\ \/ RowDone /\ UNCHANGED position
     \/ writer' \in {"idx", "copy"} /\ UNCHANGED batch
  /\ position' \in Nat
  /\ failed' \in {failed, failed \union {<<Job.session, Job.row>>}}
  /\ failures' \in {failures, failures + 1}

LEMMA WritesOne ==
  ASSUME StorageTypes, WriteRow \/ WriteIndex
  PROVE  writer # "wait" /\ OneWrite /\ WriteEnds
<1>1. position \in Nat /\ writer \in {"bin", "idx"} /\ writer # "wait"
  BY DEF WriteRow, WriteIndex, StorageTypes
<1>2. \A i \in Ids : Len(disk[i].bin) + 1 \in Nat
  <2> SUFFICES ASSUME NEW i \in Ids PROVE Len(disk[i].bin) + 1 \in Nat OBVIOUS
  <2>1. disk[i].bin \in Seq(Records) BY ReadableRows
  <2>2. Len(disk[i].bin) \in Nat BY <2>1, LenProperties
  <2> QED BY <2>2
<1>3. Job.session \in Ids BY <1>1, JobTypes
<1>4. CASE WriteRow
  <2>1. CASE Refused
    BY <1>1, <1>4, <2>1 DEF Refused, OneWrite, WriteEnds, faultVars
  <2>2. CASE ~Refused
    <3>1. OneWrite
      <4>1. disk' = WithBin(<<Job.row>>) \/ disk' \in BinCut BY <1>4, <2>2 DEF WriteRow
      <4>2. <<Job.row>> \in OneMore(Job.row) BY DEF OneMore
      <4>3. CASE disk' = WithBin(<<Job.row>>) BY <4>2, <4>3 DEF OneWrite
      <4>4. CASE disk' \in BinCut
        <5>1. UNCHANGED disk
              \/ \E e \in {Torn, -Job.row} : \E written \in OneMore(e) : disk' = WithBin(written)
          BY <1>1, <4>4, BinCutForms
        <5> QED BY <5>1 DEF OneWrite
      <4> QED BY <4>1, <4>3, <4>4
    <3>2. WriteEnds
      BY <1>1, <1>2, <1>3, <1>4, <2>2 DEF WriteRow, WriteEnds, DiskFails, JobFails, faultVars
    <3> QED BY <1>1, <3>1, <3>2
  <2> QED BY <2>1, <2>2
<1>5. CASE WriteIndex
  <2>1. CASE Refused
    BY <1>1, <1>5, <2>1 DEF Refused, OneWrite, WriteEnds, faultVars
  <2>2. CASE ~Refused
    <3> DEFINE e == [row |-> Job.row, at |-> position]
    <3>1. OneWrite
      <4>1. disk' = WithIdx(<<e>>) \/ disk' \in IdxCut BY <1>5, <2>2 DEF WriteIndex
      <4>2. <<e>> \in OneMore(e) BY DEF OneMore
      <4>3. CASE disk' = WithIdx(<<e>>) BY <4>2, <4>3 DEF OneWrite
      <4>4. CASE disk' \in IdxCut BY <4>4, IdxCutForms DEF OneWrite
      <4> QED BY <4>1, <4>3, <4>4
    <3>2. WriteEnds
      BY <1>1, <1>5, <2>2 DEF WriteIndex, WriteEnds, DiskFails, JobFails, faultVars
    <3> QED BY <1>1, <3>1, <3>2
  <2> QED BY <2>1, <2>2
<1> QED BY <1>4, <1>5

LEMMA WriterTypes ==
  ASSUME StorageTypes, WriterStep
  PROVE  StorageTypes'
<1>0. disk \in [Ids -> Directories] BY DEF StorageTypes
<1> USE DEF StorageTypes
<1>1. CASE TakeBatch
  BY <1>1 DEF TakeBatch, memoryVars, uiVars, modeVars, faultVars
<1>2. CASE LookUp
  <2>1. writer # "wait" BY <1>2 DEF LookUp
  <2>2. /\ batch' \in Seq(Jobs) /\ writer' \in {"wait", "look", "bin"}
        /\ (batch' = <<>>) <=> (writer' = "wait")
    BY <1>2, <2>1, RowDoneTypes DEF LookUp
  <2> QED BY <1>2, <2>2 DEF LookUp, memoryVars, uiVars, modeVars, faultVars
<1>3. CASE WriteRow \/ WriteIndex
  <2>1. writer # "wait" /\ OneWrite /\ WriteEnds BY <1>3, WritesOne
  <2>2. disk' \in [Ids -> Directories] BY <2>1, OneWriteTypes
  <2>3. /\ batch' \in Seq(Jobs) /\ writer' \in {"wait", "look", "idx", "copy"}
        /\ (batch' = <<>>) <=> (writer' = "wait")
    BY <2>1, RowDoneTypes DEF WriteEnds
  <2>4. <<Job.session, Job.row>> \in Ids \X Rows BY <2>1, JobTypes
  <2>5. failures' \in Nat /\ failed' \subseteq Ids \X Rows /\ position' \in Nat
    BY <2>1, <2>4 DEF WriteEnds
  <2>6. UNCHANGED <<memoryVars, writeQueue, copy, load, uiVars, modeVars>>
    BY <1>3 DEF WriteRow, WriteIndex
  <2> QED BY <2>2, <2>3, <2>5, <2>6 DEF memoryVars, uiVars, modeVars
<1>6. CASE CopyMetadata
  <2>1. writer # "wait" BY <1>6 DEF CopyMetadata
  <2>2. /\ batch' \in Seq(Jobs) /\ writer' \in {"wait", "look", "meta"}
        /\ (batch' = <<>>) <=> (writer' = "wait")
        /\ copy' \in Metadata
    BY <1>6, <2>1, RowDoneTypes DEF CopyMetadata
  <2> QED BY <1>6, <2>2 DEF CopyMetadata, memoryVars, uiVars, modeVars, faultVars
<1>7. CASE WriteMetadata
  <2>1. writer # "wait" BY <1>7 DEF WriteMetadata
  <2>2. /\ batch' \in Seq(Jobs) /\ writer' \in {"wait", "look"}
        /\ (batch' = <<>>) <=> (writer' = "wait")
    BY <1>7, <2>1, RowDoneTypes DEF WriteMetadata
  <2>3. disk' \in [Ids -> Directories] /\ failures' \in Nat
    <3>1. Job.session \in Ids BY <2>1, JobTypes
    <3> QED BY <1>7, <3>1, DescribeTypes DEF WriteMetadata
  <2> QED BY <1>7, <2>2, <2>3, NoDirectoryType DEF WriteMetadata, memoryVars, uiVars, modeVars
<1> QED BY <1>1, <1>2, <1>3, <1>6, <1>7 DEF WriterStep

\* What a rotation removes is known and not the session that begins.
LEMMA RotationTypes ==
  ASSUME NEW all, NEW i, NEW n
  PROVE  FirstToGo(all, i, n) \subseteq DOMAIN all \ {i}
BY DEF FirstToGo

\* startSession under m_mutex, with the sessions named that are removed and that lose
\* files although they stay.
Removal(removed, spoilt, stripped) ==
  /\ stripped \subseteq {"bin", "idx", "meta"}
  /\ removed \subseteq DOMAIN sessions \ {active}
  /\ spoilt \subseteq DOMAIN sessions \ ({active} \union removed)
  /\ sessions' = [i \in (DOMAIN sessions \union {active}) \ removed |->
                    IF i = active
                      THEN [start |-> StartUtc[active], end |-> StartUtc[active], closed |-> FALSE]
                      ELSE sessions[i]]
  /\ recentRows' = [i \in Ids |-> IF i \in removed \union {active} THEN {} ELSE recentRows[i]]
  /\ disk' = [i \in Ids |-> IF i \in removed THEN NoDirectory
                            ELSE IF i \in spoilt THEN Without(disk[i], stripped) ELSE disk[i]]
  /\ failed' = {f \in failed : f[1] \notin removed} \union UNION {Spilt(i, stripped) : i \in spoilt}
  /\ ui = "register" /\ ui' = "describe"
  /\ failures' \in {failures, failures + 1}
  /\ UNCHANGED <<procVars, active, started, fresh, modeVars>>

LEMMA Registered ==
  ASSUME StartRegister
  PROVE  \E removed, spoilt, stripped : Removal(removed, spoilt, stripped)
<1> DEFINE new == [start |-> StartUtc[active], end |-> StartUtc[active], closed |-> FALSE]
           all == [i \in DOMAIN sessions \union {active} |->
                     IF i = active THEN new ELSE sessions[i]]
<1>1. PICK n \in 0..Excess(all), stripped \in SUBSET {"bin", "idx", "meta"} :
        LET removed == FirstToGo(all, active, n)
            spoilt == FirstToGo(all, active, n + 1) \ removed
        IN /\ IF n = Excess(all) THEN stripped = {} /\ UNCHANGED failures ELSE DiskFails
           /\ sessions' = [i \in DOMAIN all \ removed |-> all[i]]
           /\ recentRows' = [i \in Ids |-> IF i \in removed \union {active} THEN {}
                                         ELSE recentRows[i]]
           /\ disk' = [i \in Ids |-> IF i \in removed THEN NoDirectory
                                    ELSE IF i \in spoilt THEN Without(disk[i], stripped)
                                    ELSE disk[i]]
           /\ failed' = {f \in failed : f[1] \notin removed}
                          \union UNION {Spilt(i, stripped) : i \in spoilt}
  BY DEF StartRegister
<1> PICK removed, spoilt : removed = FirstToGo(all, active, n)
                        /\ spoilt = FirstToGo(all, active, n + 1) \ removed
  OBVIOUS
<1>2. removed \subseteq DOMAIN all \ {active} /\ spoilt \subseteq DOMAIN all \ ({active} \union removed)
      /\ DOMAIN all = DOMAIN sessions \union {active}
  BY RotationTypes
<1>3. /\ sessions' = [i \in DOMAIN all \ removed |-> all[i]]
      /\ recentRows' = [i \in Ids |-> IF i \in removed \union {active} THEN {} ELSE recentRows[i]]
      /\ disk' = [i \in Ids |-> IF i \in removed THEN NoDirectory
                               ELSE IF i \in spoilt THEN Without(disk[i], stripped) ELSE disk[i]]
      /\ failed' = {f \in failed : f[1] \notin removed}
                     \union UNION {Spilt(i, stripped) : i \in spoilt}
  BY <1>1
<1>4. failures' \in {failures, failures + 1} BY <1>1 DEF DiskFails
<1>5. sessions' = [i \in (DOMAIN sessions \union {active}) \ removed |->
                     IF i = active THEN new ELSE sessions[i]]
  BY <1>3
<1>6. removed \subseteq DOMAIN sessions \ {active} /\ spoilt \subseteq DOMAIN sessions \ ({active} \union removed)
  BY <1>2
<1>7. /\ ui = "register" /\ ui' = "describe"
      /\ UNCHANGED <<procVars, active, started, fresh, modeVars>>
  BY DEF StartRegister
<1> HIDE DEF all, new
<1> SUFFICES Removal(removed, spoilt, stripped) OBVIOUS
<1> QED BY <1>3, <1>4, <1>5, <1>6, <1>7 DEF Removal, new

\* What it does to a session: one that is removed leaves nothing, one that loses files
\* keeps the rows that are in none of them, the others stay.
LEMMA RemovalFacts ==
  ASSUME StorageTypes, NEW removed, NEW spoilt, NEW stripped, Removal(removed, spoilt, stripped),
         NEW i \in Ids
  PROVE  /\ disk'[i] \in Directories /\ Failed(i)' \subseteq Rows
         /\ i \in removed => disk'[i] = NoDirectory /\ recentRows'[i] = {} /\ Failed(i)' = {}
         /\ i \notin removed => recentRows'[i] = IF i = active THEN {} ELSE recentRows[i]
         /\ i \notin removed \union spoilt => disk'[i] = disk[i] /\ Failed(i)' = Failed(i)
         /\ i \in spoilt => /\ disk'[i] = Without(disk[i], stripped)
                            /\ Failed(i)' = Failed(i) \union
                                 (IF stripped \subseteq {"meta"} THEN {}
                                  ELSE Rows \intersect ToSet(disk[i].bin))
<1>1. disk[i] \in Directories /\ disk[i].idx \in Seq(Entries)
  BY ReadableRows
<1>2. disk'[i] = IF i \in removed THEN NoDirectory
                 ELSE IF i \in spoilt THEN Without(disk[i], stripped) ELSE disk[i]
  BY DEF Removal
<1>3. Without(disk[i], stripped) \in Directories
  <2>1. disk[i].meta \in Metadata /\ disk[i].parts \in SUBSET Parts BY ReadableRows
  <2> QED BY <1>1, <2>1, RecordTypes
<1>4. disk'[i] \in Directories BY <1>1, <1>2, <1>3, NoDirectoryType
<1>5. recentRows'[i] = IF i \in removed \union {active} THEN {} ELSE recentRows[i] BY DEF Removal
<1>6. removed \intersect spoilt = {} /\ active \notin removed \union spoilt BY DEF Removal
<1>7. \A r : <<i, r>> \in failed' <=>
         \/ <<i, r>> \in failed /\ i \notin removed
         \/ i \in spoilt /\ <<i, r>> \in Spilt(i, stripped)
  <2> TAKE r
  <2>1. failed' = {f \in failed : f[1] \notin removed} \union UNION {Spilt(j, stripped) : j \in spoilt}
    BY DEF Removal
  <2>2. \A j : <<i, r>> \in Spilt(j, stripped) => j = i BY DEF Spilt
  <2> QED BY <2>1, <2>2
<1>8. \A r : <<i, r>> \in Spilt(i, stripped) <=>
               ~(stripped \subseteq {"meta"}) /\ r \in Rows \intersect ToSet(disk[i].bin)
  BY DEF Spilt
<1>9. Failed(i)' = {r \in Rows : <<i, r>> \in failed'} BY DEF Failed
<1>10. i \in removed => Failed(i)' = {} BY <1>6, <1>7, <1>9
<1>11. i \notin removed \union spoilt => Failed(i)' = Failed(i) BY <1>7, <1>9 DEF Failed
<1>12. i \in spoilt => Failed(i)' = Failed(i) \union
                          (IF stripped \subseteq {"meta"} THEN {} ELSE Rows \intersect ToSet(disk[i].bin))
  BY <1>6, <1>7, <1>8, <1>9 DEF Failed
<1> QED BY <1>2, <1>4, <1>5, <1>6, <1>9, <1>10, <1>11, <1>12

LEMMA SessionTypes ==
  ASSUME StorageTypes, NEW i \in DOMAIN sessions, NEW a \in Nat, NEW b \in Nat, NEW c \in BOOLEAN
  PROVE  /\ [sessions EXCEPT ![i].start = a, ![i].end = b] \in [DOMAIN sessions -> Metadata]
         /\ [sessions EXCEPT ![i].end = b, ![i].closed = c] \in [DOMAIN sessions -> Metadata]
         /\ sessions[i] \in Metadata
         /\ sessions[i].start \in Nat /\ sessions[i].end \in Nat /\ sessions[i].closed \in BOOLEAN
<1>1. sessions \in [DOMAIN sessions -> Metadata] BY DEF StorageTypes
<1>2. sessions[i] \in Metadata BY <1>1
<1>3. /\ [sessions[i] EXCEPT !.start = a, !.end = b] \in Metadata
      /\ [sessions[i] EXCEPT !.end = b, !.closed = c] \in Metadata
      /\ sessions[i].start \in Nat /\ sessions[i].end \in Nat /\ sessions[i].closed \in BOOLEAN
  BY <1>2 DEF Metadata
<1> HIDE DEF Metadata
<1> QED BY <1>1, <1>2, <1>3

LEMMA NewestSubset == \A S, n : Newest(S, n) \subseteq S
BY DEF Newest

\* The steps of the user interface thread.
LEMMA UserTypes ==
  ASSUME StorageTypes,
         StartFiles \/ StartRegister \/ StartDescribe \/ AppendRow \/ CloseSession \/ CloseDescribe,
         ui # "idle" => active # 0,
         active # 0 => (active \in DOMAIN sessions <=> ui # "register")
  PROVE  StorageTypes'
<1>1. CASE StartFiles
  <2>1. /\ started + 1 \in Ids /\ started' = started + 1 /\ active' = started + 1
        /\ disk' = [disk EXCEPT ![started + 1] = StartParts]
        /\ ui' = "register"
        /\ UNCHANGED <<memoryVars, procVars, fresh, modeVars, faultVars>>
    BY <1>1 DEF StartFiles, StartParts
  <2>2. disk' \in [Ids -> Directories] BY <2>1, NoDirectoryType DEF StorageTypes
  <2>3. started' \in 0..Recordings /\ active' \in Ids \union {0} BY <2>1, Constants
  <2> QED BY <2>1, <2>2, <2>3 DEF StorageTypes, memoryVars, procVars, modeVars, faultVars
<1>2. CASE StartRegister
  <2>1. PICK removed, spoilt, stripped : Removal(removed, spoilt, stripped) BY <1>2, Registered
  <2>2. active \in Ids BY <2>1 DEF Removal, StorageTypes
  <2>3. [start |-> StartUtc[active], end |-> StartUtc[active], closed |-> FALSE] \in Metadata
    BY <2>2, Constants DEF Metadata
  <2>4. DOMAIN sessions' \subseteq Ids /\ sessions' \in [DOMAIN sessions' -> Metadata]
    <3> HIDE DEF Metadata
    <3> QED BY <2>1, <2>2, <2>3 DEF Removal, StorageTypes
  <2>5. disk' \in [Ids -> Directories]
    <3>1. \A i \in Ids : disk'[i] \in Directories BY <2>1, RemovalFacts
    <3> HIDE DEF Directories
    <3> QED BY <2>1, <3>1 DEF Removal
  <2>6. recentRows' \in [Ids -> SUBSET Rows] BY <2>1 DEF Removal, StorageTypes
  <2>7. failures' \in Nat BY <2>1 DEF Removal, StorageTypes
  <2>8. failed' \subseteq Ids \X Rows
    <3>1. \A i \in spoilt : Spilt(i, stripped) \subseteq Ids \X Rows
      BY <2>1 DEF Removal, StorageTypes, Spilt
    <3> QED BY <2>1, <3>1 DEF Removal, StorageTypes
  <2> QED BY <2>1, <2>4, <2>5, <2>6, <2>7, <2>8 DEF Removal, StorageTypes, procVars, modeVars
<1>3. CASE StartDescribe
  <2>1. active \in Ids BY <1>3 DEF StartDescribe, StorageTypes
  <2>2. [start |-> StartUtc[active], end |-> StartUtc[active], closed |-> FALSE] \in Metadata
    BY <2>1, Constants DEF Metadata
  <2>3. disk' \in [Ids -> Directories] /\ failures' \in Nat
    BY <1>3, <2>1, <2>2, DescribeTypes DEF StartDescribe
  <2> QED BY <1>3, <2>3 DEF StartDescribe, StorageTypes, memoryVars, procVars, modeVars
<1>4. CASE AppendRow
  <2>1. PICK r \in fresh :
          /\ fresh' = fresh \ {r}
          /\ recentRows' = [recentRows EXCEPT ![active] = Remember(@, r)]
          /\ sessions' = [sessions EXCEPT ![active].start = Sooner(@, r),
                                         ![active].end = Later(@, r)]
          /\ writeQueue' = Append(writeQueue, [session |-> active, row |-> r])
    BY <1>4 DEF AppendRow
  <2>2. active \in DOMAIN sessions /\ active \in Ids /\ r \in Rows /\ r \in Nat
    BY <1>4, <2>1, Constants DEF AppendRow, StorageTypes
  <2>3. Sooner(sessions[active].start, r) \in Nat /\ Later(sessions[active].end, r) \in Nat
    BY <2>2, SessionTypes DEF Sooner, Later
  <2>4. sessions' \in [DOMAIN sessions -> Metadata] /\ DOMAIN sessions' = DOMAIN sessions
    <3>1. sessions' \in [DOMAIN sessions -> Metadata] BY <2>1, <2>2, <2>3, SessionTypes
    <3> HIDE DEF Metadata
    <3> QED BY <3>1
  <2>5. [session |-> active, row |-> r] \in Jobs BY <2>2 DEF Jobs
  <2>6. writeQueue' \in Seq(Jobs) BY <2>1, <2>5, AppendProperties DEF StorageTypes
  <2>7. recentRows' \in [Ids -> SUBSET Rows]
    BY <2>1, <2>2, NewestSubset DEF StorageTypes, Remember
  <2>8. fresh' \subseteq Rows BY <2>1 DEF StorageTypes
  <2> QED BY <1>4, <2>4, <2>6, <2>7, <2>8 DEF AppendRow, StorageTypes, modeVars, faultVars
<1>5. CASE CloseSession
  <2>1. PICK end \in {StartUtc[active]} \union recentRows[active] :
          sessions' = [sessions EXCEPT ![active].end = Later(@, end), ![active].closed = TRUE]
    BY <1>5 DEF CloseSession
  <2>2. active \in DOMAIN sessions /\ active \in Ids BY <1>5 DEF CloseSession, StorageTypes
  <2>3. end \in Nat /\ Later(sessions[active].end, end) \in Nat
    BY <2>1, <2>2, Constants, SessionTypes DEF Later, StorageTypes
  <2>4. sessions' \in [DOMAIN sessions -> Metadata] /\ DOMAIN sessions' = DOMAIN sessions
    <3>1. sessions' \in [DOMAIN sessions -> Metadata] BY <2>1, <2>2, <2>3, SessionTypes
    <3> HIDE DEF Metadata
    <3> QED BY <3>1
  <2> QED BY <1>5, <2>4 DEF CloseSession, StorageTypes, procVars, modeVars, faultVars
<1>6. CASE CloseDescribe
  <2>1. active \in DOMAIN sessions /\ active \in Ids BY <1>6 DEF CloseDescribe, StorageTypes
  <2>2. disk' \in [Ids -> Directories] /\ failures' \in Nat
    BY <1>6, <2>1, SessionTypes, DescribeTypes DEF CloseDescribe
  <2> QED BY <1>6, <2>2 DEF CloseDescribe, StorageTypes, memoryVars, procVars, modeVars
<1> QED BY <1>1, <1>2, <1>3, <1>4, <1>5, <1>6

\* What scanExistingSessions makes of an index.
\* What scanExistingSessions makes of an index.
LEMMA ScannedFacts ==
  ASSUME StorageTypes, NEW i \in Ids
  PROVE  /\ Scanned(i) \in Seq(Entries) /\ Broken \notin ToSet(Scanned(i))
         /\ Indexed(Scanned(i), disk[i].bin) \subseteq Rows \intersect ToSet(disk[i].bin)
         /\ ~ToRepair(i) => Scanned(i) = disk[i].idx
         /\ ToRepair(i) => /\ Scanned(i) = Parsed(disk[i].bin)
                           /\ ~Damaged(i) =>
                                Indexed(Scanned(i), disk[i].bin) = ToSet(disk[i].bin)
<1>1. disk[i].bin \in Seq(Records) /\ disk[i].idx \in Seq(Entries) BY ReadableRows
<1>2. Scanned(i) \in Seq(Entries) /\ Broken \notin ToSet(Scanned(i))
  BY <1>1, ParsedFacts DEF Scanned, ToRepair
<1>3. Indexed(Scanned(i), disk[i].bin) \subseteq Rows \intersect ToSet(disk[i].bin)
  BY <1>1, <1>2, IndexedFacts
<1>4. ~Damaged(i) => Indexed(Parsed(disk[i].bin), disk[i].bin) = ToSet(disk[i].bin)
  BY <1>1, ParsedFacts DEF Damaged
<1> QED BY <1>2, <1>3, <1>4 DEF Scanned

\* The index that scanExistingSessions leaves.
LEMMA WithIndexFacts ==
  ASSUME StorageTypes, NEW i \in Ids, NEW index \in Seq(Entries)
  PROVE  /\ WithIndex(i, index) \in Directories
         /\ WithIndex(i, index).parts = disk[i].parts \union {"idx"}
         /\ WithIndex(i, index).meta = disk[i].meta
         /\ WithIndex(i, index).bin = disk[i].bin
         /\ WithIndex(i, index).idx = index
<1>1. disk[i] \in Directories /\ disk[i].parts \in SUBSET Parts /\ disk[i].meta \in Metadata
  BY ReadableRows
<1> PICK parts : parts = disk[i].parts \union {"idx"} OBVIOUS
<1>2. parts \in SUBSET Parts BY <1>1 DEF Parts
<1>3. [disk[i] EXCEPT !.parts = parts, !.idx = index] \in Directories BY <1>1, <1>2, RecordTypes
<1>4. WithIndex(i, index) = [disk[i] EXCEPT !.parts = parts, !.idx = index] BY DEF WithIndex
<1>5. PICK d : d = [disk[i] EXCEPT !.parts = parts, !.idx = index] OBVIOUS
<1>6. d.parts = parts /\ d.meta = disk[i].meta /\ d.bin = disk[i].bin /\ d.idx = index
  <2> HIDE DEF Records, Entries, Metadata, Parts
  <2> QED BY <1>1, <1>5 DEF Directories
<1> QED BY <1>3, <1>4, <1>5, <1>6

\* What loadRows reads for the index records it keeps are rows.
LEMMA SelectedRows ==
  ASSUME StorageTypes, NEW i \in Ids, NEW query,
         NEW records, records = Selected(query, disk[i].idx)
  PROVE  /\ records \subseteq ToSet(Intact(disk[i].idx))
         /\ {e.row : e \in records} \subseteq Rows
         /\ {RowAt(disk[i].bin, e.at) : e \in records} \ {Torn} \subseteq Rows
<1>1. disk[i].bin \in Seq(Records) /\ disk[i].idx \in Seq(Entries) BY ReadableRows
<1>2. records \subseteq ToSet(Intact(disk[i].idx)) BY DEF Selected
<1>3. ToSet(Intact(disk[i].idx)) \subseteq Entries \ {Broken} BY <1>1, IntactFacts, Members
<1>4. \A e \in records : e.row \in Rows BY <1>2, <1>3, EntryFacts
<1>5. \A at : RowAt(disk[i].bin, at) \in Rows \union {Torn}
  <2> SUFFICES ASSUME NEW at, at \in DOMAIN disk[i].bin
               PROVE  RowAt(disk[i].bin, at) \in Rows \union {Torn}
    BY DEF RowAt
  <2>1. disk[i].bin[at] \in Records BY <1>1, ElementOfSeq, LenProperties
  <2> QED BY <2>1, RecordFacts DEF RowAt, Later, Torn
<1> QED BY <1>2, <1>4, <1>5

\* The record the writer is in the middle of when the process ends.
LEMMA ExitWrites ==
  ASSUME StorageTypes, Exit
  PROVE  \/ UNCHANGED disk
         \/ writer \in {"bin", "idx"} /\ Exists(Job.session) /\ OneWrite
<1>1. CASE writer = "bin" /\ Exists(Job.session) /\ disk' \in BinCut
  <2>1. \/ UNCHANGED disk
        \/ \E e \in {Torn, -Job.row} : \E written \in OneMore(e) : disk' = WithBin(written)
    BY <1>1, BinCutForms
  <2> QED BY <1>1, <2>1 DEF OneWrite
<1>2. CASE writer = "idx" /\ Exists(Job.session) /\ disk' \in IdxCut
  BY <1>2, IdxCutForms DEF OneWrite
<1> QED BY <1>1, <1>2 DEF Exit

\* The history loader, and the ends and the starts of the process.
LEMMA OtherTypes ==
  ASSUME StorageTypes,
         LoadFiles \/ LoadRecent \/ Stop \/ WriterExit \/ Exit \/ Restart \/ RebuildCut
  PROVE  StorageTypes'
<1>1. CASE LoadFiles
  <2>1. PICK i \in DOMAIN sessions, query \in Queries :
          LET records == Selected(query, disk[i].idx) IN
          load' = [session |-> i, query |-> query, named |-> {e.row : e \in records},
                   found |-> {RowAt(disk[i].bin, e.at) : e \in records} \ {Torn},
                   readable |-> InRange(query, Readable(i)), given |-> InRange(query, Given(i))]
    BY <1>1 DEF LoadFiles
  <2> PICK records : records = Selected(query, disk[i].idx) OBVIOUS
  <2>2. i \in Ids /\ query \in [from : Nat, to : Nat, maxRows : Nat]
    BY <2>1, Constants DEF StorageTypes
  <2>3. InRange(query, Readable(i)) \subseteq Rows /\ InRange(query, Given(i)) \subseteq Rows
    BY <2>2, ReadableRows DEF InRange
  <2>4. {e.row : e \in records} \subseteq Rows
        /\ {RowAt(disk[i].bin, e.at) : e \in records} \ {Torn} \subseteq Rows
    BY <2>2, SelectedRows
  <2>5. load' \in Loads BY <2>1, <2>2, <2>3, <2>4 DEF Loads
  <2> QED BY <1>1, <2>5 DEF LoadFiles, StorageTypes, memoryVars, uiVars, modeVars, faultVars
<1>2. CASE LoadRecent
  BY <1>2, NoDirectoryType
  DEF LoadRecent, StorageTypes, memoryVars, uiVars, modeVars, faultVars
<1>3. CASE Stop
  BY <1>3 DEF Stop, StorageTypes, memoryVars, procVars, uiVars, faultVars
<1>4. CASE WriterExit
  BY <1>4 DEF WriterExit, StorageTypes, memoryVars, procVars, uiVars, faultVars
<1>5. CASE Exit
  <2>1. /\ DOMAIN sessions' = {} /\ sessions' \in [DOMAIN sessions' -> Metadata]
        /\ recentRows' \in [Ids -> SUBSET Rows]
        /\ writeQueue' = <<>> /\ batch' = <<>> /\ writer' = "wait" /\ position' = 0
        /\ copy' \in Metadata /\ load' \in Loads
        /\ ui' = "idle" /\ active' = 0 /\ mode' = "down" /\ failed' = {}
    BY <1>5, NoDirectoryType DEF Exit, Forgotten
  <2>2. exits' \in 0..MaxExits
    <3>1. exits < MaxExits /\ exits' = exits + 1 BY <1>5 DEF Exit, Forgotten
    <3>2. exits \in 0..MaxExits BY DEF StorageTypes
    <3> QED BY <3>1, <3>2, Constants
  <2>3. seen' \in [Ids -> SUBSET Rows] BY <1>5, ReadableRows DEF Exit
  <2>4. disk' \in [Ids -> Directories]
    <3>1. disk \in [Ids -> Directories] BY DEF StorageTypes
    <3>2. ASSUME writer # "wait", OneWrite PROVE disk' \in [Ids -> Directories]
      BY <3>2, OneWriteTypes
    <3> QED BY <1>5, <3>1, <3>2, ExitWrites
  <2>5. UNCHANGED <<started, fresh, failures>> /\ cut' = FALSE BY <1>5 DEF Exit
  <2>6. writeQueue' \in Seq(Jobs) /\ batch' \in Seq(Jobs) BY <2>1
  <2> QED BY <2>1, <2>2, <2>3, <2>4, <2>5, <2>6 DEF StorageTypes
<1>6. CASE Restart
  <2>1. disk' \in [Ids -> Directories]
    <3>1. \A i \in Ids : disk[i] \in Directories /\ WithIndex(i, Scanned(i)) \in Directories
      BY ReadableRows, ScannedFacts, WithIndexFacts
    <3> HIDE DEF Directories
    <3> QED BY <1>6, <3>1 DEF Restart
  <2>2. DOMAIN sessions' \subseteq Ids /\ sessions' \in [DOMAIN sessions' -> Metadata]
    <3>1. \A i \in Recovered : i \in Ids /\ disk[i].meta \in Metadata BY ReadableRows DEF Recovered
    <3>2. sessions' = [i \in Recovered |-> disk[i].meta] BY <1>6 DEF Restart
    <3> HIDE DEF Metadata
    <3> QED BY <3>1, <3>2
  <2> QED BY <1>6, <2>1, <2>2 DEF Restart, StorageTypes, procVars, uiVars, faultVars
<1>7. CASE RebuildCut
  <2>1. PICK i \in Recovered : \E n \in 0..Len(Scanned(i)) - 1 :
          disk' = [disk EXCEPT ![i] = WithIndex(i, SubSeq(Scanned(i), 1, n))]
    BY <1>7 DEF RebuildCut
  <2>2. PICK n \in 0..Len(Scanned(i)) - 1 :
          disk' = [disk EXCEPT ![i] = WithIndex(i, SubSeq(Scanned(i), 1, n))]
    BY <2>1
  <2>3. i \in Ids /\ Scanned(i) \in Seq(Entries) BY ScannedFacts DEF Recovered
  <2>4. n \in 0..Len(Scanned(i)) BY <2>3, LenProperties
  <2>5. SubSeq(Scanned(i), 1, n) \in Seq(Entries) BY <2>3, <2>4, FrontPlaces
  <2>6. WithIndex(i, SubSeq(Scanned(i), 1, n)) \in Directories BY <2>3, <2>5, WithIndexFacts
  <2>7. disk \in [Ids -> Directories] BY DEF StorageTypes
  <2>8. disk' \in [Ids -> Directories]
    <3> HIDE DEF Directories
    <3> QED BY <2>2, <2>3, <2>6, <2>7
  <2>9. exits' \in 0..MaxExits /\ cut' \in BOOLEAN
    <3>1. exits \in 0..MaxExits /\ exits < MaxExits /\ exits' = exits + 1 /\ cut' = TRUE
      BY <1>7 DEF RebuildCut, StorageTypes
    <3> QED BY <3>1, Constants
  <2> QED BY <1>7, <2>8, <2>9
      DEF RebuildCut, StorageTypes, memoryVars, procVars, uiVars, faultVars
<1> QED BY <1>1, <1>2, <1>3, <1>4, <1>5, <1>6, <1>7

-----------------------------------------------------------------------------
(* WaterfallStorage: the inductive invariant.                                *)

\* Where the threads are.  The session that is being recorded is the last one started,
\* and known unless startSession is still at work; a process that is down has forgotten
\* everything, and one that has stopped has nothing left to write.
Posture ==
  /\ active \in {0, started}
  /\ ui # "idle" => active # 0
  /\ active # 0 => (active \in DOMAIN sessions <=> ui # "register")
  /\ DOMAIN sessions \subseteq 1..started
  /\ active # 0 /\ ui \in {"idle", "describe"} => ~sessions[active].closed
  /\ ui = "describe" => sessions[active] = [start |-> StartUtc[active],
                                            end |-> StartUtc[active], closed |-> FALSE]
  /\ mode # "running" => ui = "idle" /\ load = NoLoad
  /\ mode = "stopped" => writer = "wait" /\ writeQueue = <<>>
  /\ mode = "down" => /\ DOMAIN sessions = {} /\ writeQueue = <<>> /\ batch = <<>>
                      /\ active = 0 /\ failed = {}

NoJobs(i) == RowsIn(writeQueue, i) = {} /\ RowsIn(batch, i) = {}

\* A session that no startSession has made known yet has left no trace.
Unused(i) == i > started \/ (ui = "register" /\ i = active)
Untouched ==
  \A i \in Ids : Unused(i) =>
    /\ NoJobs(i) /\ seen[i] = {}
    /\ disk[i] = IF i > started THEN NoDirectory ELSE StartParts

\* Of a removed session nothing is remembered.
Forgot == \A i \in Ids \ DOMAIN sessions : recentRows[i] = {} /\ Failed(i) = {}

\* The directories.  Files are in one, and a known session has its own; a removed one has
\* none, even if the writer was in the middle of a row of it, unless a metadata.json brings one back;
\* and the row in the writer's hands is on the disk as far as the writer has come, or
\* has failed.
Files ==
  /\ \A i \in DOMAIN sessions : "dir" \in disk[i].parts
  /\ \A i \in Ids : disk[i].parts # {} => "dir" \in disk[i].parts
  /\ writer \in {"bin", "idx", "copy", "meta"} /\ Job.session \notin DOMAIN sessions
       => ~Exists(Job.session)
  /\ mode # "down" =>
       \A i \in Ids \ DOMAIN sessions : "bin" \in disk[i].parts => disk[i].meta = NoMetadata
  /\ writer = "idx" /\ Job.session \in DOMAIN sessions
       => \/ position \in DOMAIN disk[Job.session].bin
             /\ disk[Job.session].bin[position] = Job.row
          \/ Job.row \in Failed(Job.session)
  /\ writer \in {"copy", "meta"} /\ Job.session \in DOMAIN sessions
       => Job.row \in Readable(Job.session) \union Failed(Job.session)

\* What metadata.json says of a session, or is about to, was once true of it.
Within(m, n) == m.start >= n.start /\ m.end <= n.end /\ (m.closed => n.closed)
Described ==
  /\ \A i \in DOMAIN sessions :
       disk[i].meta # NoMetadata => Within(disk[i].meta, sessions[i])
  /\ writer = "meta" /\ Job.session \in DOMAIN sessions => Within(copy, sessions[Job.session])

\* Every row in memory is on the disk, on its way there, or known to have failed.  A
\* session of this process keeps its newest rows in memory; one found by the scan
\* changes no more, except that a removal may take its files.
Kept(i) ==
  Readable(i) \union Failed(i) \union RowsIn(writeQueue, i) \union RowsIn(batch, i)
RowsOfFile(i) == Rows \intersect ToSet(disk[i].bin)
Young(i) == RowsOfFile(i) \subseteq Kept(i) /\ Newest(Given(i), RecentCap) \subseteq recentRows[i]
Quiet(i) == /\ NoJobs(i) /\ active # i /\ recentRows[i] = {}
            /\ ToRepair(i) => RowsOfFile(i) \subseteq Kept(i)
RowsKept ==
  /\ \A i \in Ids : recentRows[i] \subseteq Kept(i)
  /\ \A i \in DOMAIN sessions : Young(i) \/ Quiet(i)

\* A load misses a row that could be read only for newer ones of its index records, and
\* it is of a session whose newest rows are in memory, or all it has to find could be read.
LoadKept ==
  /\ load.given \subseteq InRange(load.query, Rows)
  /\ \A r \in load.readable :
       \/ r \in load.found
       \/ /\ load.query.maxRows # 0
          /\ Cardinality({q \in load.named : q > r}) >= load.query.maxRows
  /\ load.session \in DOMAIN sessions => Young(load.session) \/ load.given \subseteq load.readable

\* What could be read when the process ended is still in the data file, and can be read
\* again, except for what has been lost since.
SeenKept ==
  \A i \in Known :
    /\ seen[i] \ Failed(i) \subseteq ToSet(disk[i].bin)
    /\ ~cut /\ ~Damaged(i) =>
         seen[i] \ Failed(i) \subseteq
           (IF Down THEN Indexed(Scanned(i), disk[i].bin) ELSE Readable(i))

StorageInv ==
  StorageTypes /\ Posture /\ Untouched /\ Forgot /\ Files /\ Described /\ RowsKept
    /\ LoadKept /\ SeenKept

-----------------------------------------------------------------------------
(* What the steps do to the queues and the files.                            *)

LEMMA RowsInIs ==
  ASSUME NEW q, NEW i
  PROVE  RowsIn(q, i) = {r \in Rows : [session |-> i, row |-> r] \in ToSet(q)}
BY DEF RowsIn, ToSet

LEMMA RowsInEmpty == \A i : RowsIn(<<>>, i) = {}
BY RowsInIs, EmptyQueueFacts

LEMMA RowsInAppend ==
  ASSUME NEW q \in Seq(Jobs), NEW i \in Ids, NEW s \in Ids, NEW r \in Rows
  PROVE  RowsIn(Append(q, [session |-> s, row |-> r]), i)
           = RowsIn(q, i) \union (IF i = s THEN {r} ELSE {})
<1> DEFINE j == [session |-> s, row |-> r]
<1>1. j \in Jobs BY DEF Jobs
<1>2. ToSet(Append(q, j)) = ToSet(q) \union {j} BY <1>1, PushBack
<1>3. \A x \in Rows : [session |-> i, row |-> x] = j <=> (i = s /\ x = r) OBVIOUS
<1>4. RowsIn(Append(q, j), i)
        = {x \in Rows : [session |-> i, row |-> x] \in ToSet(q) \union {j}}
  BY <1>2, RowsInIs
<1>5. RowsIn(q, i) = {x \in Rows : [session |-> i, row |-> x] \in ToSet(q)} BY RowsInIs
<1> HIDE DEF j
<1> QED BY <1>3, <1>4, <1>5 DEF j

\* The rows of a batch are the one in the writer's hands and those behind it.
LEMMA JobRows ==
  ASSUME StorageTypes, writer # "wait", NEW i \in Ids
  PROVE  RowsIn(batch, i) = RowsIn(Tail(batch), i) \union (IF i = Job.session THEN {Job.row} ELSE {})
<1>1. batch \in Seq(Jobs) /\ batch # <<>> /\ Job \in Jobs BY JobTypes DEF StorageTypes
<1>2. ToSet(batch) = {Job} \union ToSet(Tail(batch)) BY <1>1, PopFront DEF Job
<1>3. \A x \in Rows : [session |-> i, row |-> x] = Job <=> (i = Job.session /\ x = Job.row)
  BY <1>1 DEF Jobs
<1>4. RowsIn(batch, i)
        = {x \in Rows : [session |-> i, row |-> x] \in {Job} \union ToSet(Tail(batch))}
  BY <1>2, RowsInIs
<1>5. RowsIn(Tail(batch), i) = {x \in Rows : [session |-> i, row |-> x] \in ToSet(Tail(batch))}
  BY RowsInIs
<1>6. Job.row \in Rows BY JobTypes
<1> QED BY <1>3, <1>4, <1>5, <1>6

LEMMA ReadableNext ==
  ASSUME NEW i
  PROVE  Readable(i)' = Indexed(disk'[i].idx, disk'[i].bin)
BY DEF Readable

LEMMA FilesUnchanged ==
  ASSUME NEW i, disk'[i].bin = disk[i].bin, disk'[i].idx = disk[i].idx
  PROVE  /\ Readable(i)' = Readable(i) /\ RowsOfFile(i)' = RowsOfFile(i)
         /\ Damaged(i)' = Damaged(i)
         /\ ("idx" \in disk'[i].parts <=> "idx" \in disk[i].parts) =>
              (ToRepair(i)' <=> ToRepair(i)) /\ Scanned(i)' = Scanned(i)
<1>1. Readable(i)' = Readable(i) /\ RowsOfFile(i)' = RowsOfFile(i) /\ Damaged(i)' = Damaged(i)
  BY DEF Readable, RowsOfFile, Damaged
<1>2. ASSUME "idx" \in disk'[i].parts <=> "idx" \in disk[i].parts
      PROVE  (ToRepair(i)' <=> ToRepair(i)) /\ Scanned(i)' = Scanned(i)
  BY <1>2 DEF ToRepair, Scanned
<1> QED BY <1>1, <1>2

LEMMA GivenNext ==
  ASSUME NEW i
  PROVE  /\ Given(i)' = recentRows'[i] \union Readable(i)' \union RowsIn(writeQueue', i)
                          \union RowsIn(batch', i)
         /\ Kept(i)' = Readable(i)' \union Failed(i)' \union RowsIn(writeQueue', i)
                         \union RowsIn(batch', i)
         /\ Failed(i)' = {r \in Rows : <<i, r>> \in failed'}
         /\ Held(i)' = recentRows'[i] \union Kept(i)' /\ Held(i) = recentRows[i] \union Kept(i)
         /\ Given(i) \subseteq Held(i) /\ Held(i) = Given(i) \union Failed(i)
BY DEF Given, Kept, Failed, Held, RowsIn

\* One write adds at most the row in the writer's hands, and takes nothing.
LEMMA OneWriteRows ==
  ASSUME StorageTypes, writer # "wait", OneWrite, NEW i \in Ids
  PROVE  /\ Readable(i) \subseteq Readable(i)'
         /\ Readable(i)' \subseteq Readable(i) \union {Job.row}
         /\ ToSet(disk[i].bin) \subseteq ToSet(disk'[i].bin)
         /\ RowsOfFile(i)' \subseteq RowsOfFile(i) \union {Job.row}
<1> PICK s, r : s = Job.session /\ r = Job.row OBVIOUS
<1>1. /\ s \in Ids /\ r \in Rows /\ disk \in [Ids -> Directories]
      /\ disk[i].bin \in Seq(Records) /\ disk[i].idx \in Seq(Entries)
      /\ \A e \in {r, Torn, -r} : e \in Records /\ Rows \intersect {e} \subseteq {r}
      /\ \A e \in {[row |-> r, at |-> position], Broken} :
           e \in Entries /\ Rows \intersect {e.row} \subseteq {r}
  <2>1. s \in Ids /\ r \in Rows BY JobTypes
  <2>2. position \in Nat /\ disk \in [Ids -> Directories] BY DEF StorageTypes
  <2>3. \A e \in {r, Torn, -r} : e \in Records /\ Rows \intersect {e} \subseteq {r}
    <3> HIDE DEF Records, Torn
    <3>1. -r \notin Rows /\ Torn \notin Rows BY <2>1, Constants
    <3>2. r \in Records /\ Torn \in Records /\ -r \in Records BY <2>1, Constants
    <3> QED BY <3>1, <3>2
  <2>4. [row |-> r, at |-> position] \in Entries BY <2>1, <2>2 DEF Entries
  <2>5. Broken \in Entries /\ Broken.row \notin Rows BY Constants, EntryFacts
  <2> QED BY <2>1, <2>2, <2>3, <2>4, <2>5, ReadableRows
<1>2. CASE disk'[i] = disk[i] BY <1>2, FilesUnchanged
<1>3. ASSUME NEW e \in {r, Torn, -r}, NEW written \in OneMore(e), disk' = WithBin(written),
             disk'[i] # disk[i]
      PROVE  /\ Readable(i) \subseteq Readable(i)' /\ Readable(i)' \subseteq Readable(i) \union {r}
             /\ ToSet(disk[i].bin) \subseteq ToSet(disk'[i].bin)
             /\ RowsOfFile(i)' \subseteq RowsOfFile(i) \union {r}
  <2>1. e \in Records BY <1>1
  <2>2. /\ \A j \in Ids \ {s} : disk'[j] = disk[j]
        /\ disk'[s].idx = disk[s].idx
        /\ disk'[s].bin = IF written = <<>> THEN disk[s].bin ELSE Append(disk[s].bin, e)
    BY <1>1, <1>3, <2>1, BinWritten
  <2>3. i = s BY <1>3, <2>2
  <2>4. CASE written = <<>> BY <2>2, <2>3, <2>4, FilesUnchanged
  <2>5. CASE written # <<>>
    <3>1. disk'[i].bin = Append(disk[i].bin, e) /\ disk'[i].idx = disk[i].idx
      BY <2>2, <2>3, <2>5
    <3>2. ToSet(disk'[i].bin) = ToSet(disk[i].bin) \union {e} BY <1>1, <2>1, <3>1, PushBack
    <3>3. /\ Indexed(disk[i].idx, disk[i].bin) \subseteq Indexed(disk[i].idx, Append(disk[i].bin, e))
          /\ Indexed(disk[i].idx, Append(disk[i].bin, e))
               \subseteq Indexed(disk[i].idx, disk[i].bin) \union (Rows \intersect {e})
      BY <1>1, <2>1, IndexedMore
    <3>4. Readable(i)' = Indexed(disk[i].idx, Append(disk[i].bin, e))
          /\ Readable(i) = Indexed(disk[i].idx, disk[i].bin)
      BY <3>1, ReadableNext DEF Readable
    <3>5. RowsOfFile(i)' = Rows \intersect ToSet(disk'[i].bin) BY DEF RowsOfFile
    <3> QED BY <1>1, <3>2, <3>3, <3>4, <3>5 DEF RowsOfFile
  <2> QED BY <2>4, <2>5
<1>4. ASSUME NEW e \in {[row |-> r, at |-> position], Broken}, NEW written \in OneMore(e),
             disk' = WithIdx(written), disk'[i] # disk[i]
      PROVE  /\ Readable(i) \subseteq Readable(i)' /\ Readable(i)' \subseteq Readable(i) \union {r}
             /\ ToSet(disk[i].bin) \subseteq ToSet(disk'[i].bin)
             /\ RowsOfFile(i)' \subseteq RowsOfFile(i) \union {r}
  <2>1. e \in Entries /\ Rows \intersect {e.row} \subseteq {r} BY <1>1
  <2>2. /\ \A j \in Ids \ {s} : disk'[j] = disk[j]
        /\ disk'[s].bin = disk[s].bin
        /\ disk'[s].idx = IF written = <<>> THEN disk[s].idx ELSE Append(disk[s].idx, e)
    BY <1>1, <1>4, <2>1, IdxWritten
  <2>3. i = s BY <1>4, <2>2
  <2>4. CASE written = <<>> BY <2>2, <2>3, <2>4, FilesUnchanged
  <2>5. CASE written # <<>>
    <3>1. disk'[i].idx = Append(disk[i].idx, e) /\ disk'[i].bin = disk[i].bin
      BY <2>2, <2>3, <2>5
    <3>3. /\ Indexed(disk[i].idx, disk[i].bin) \subseteq Indexed(Append(disk[i].idx, e), disk[i].bin)
          /\ Indexed(Append(disk[i].idx, e), disk[i].bin)
               \subseteq Indexed(disk[i].idx, disk[i].bin) \union (Rows \intersect {e.row})
      BY <1>1, <2>1, IndexedEntry
    <3>4. Readable(i)' = Indexed(Append(disk[i].idx, e), disk[i].bin)
          /\ Readable(i) = Indexed(disk[i].idx, disk[i].bin)
      BY <3>1, ReadableNext DEF Readable
    <3>5. RowsOfFile(i)' = RowsOfFile(i) /\ ToSet(disk'[i].bin) = ToSet(disk[i].bin)
      BY <3>1 DEF RowsOfFile
    <3> QED BY <2>1, <3>3, <3>4, <3>5
  <2> QED BY <2>4, <2>5
<1> QED BY <1>2, <1>3, <1>4 DEF OneWrite

-----------------------------------------------------------------------------
(* What a step of the writer does.                                           *)

\* Nothing that it does takes a row from a known session or changes one that has no rows
\* in its queue; a data file only grows, by rows of its batch.
WriterEffect ==
  /\ UNCHANGED <<memoryVars, load, uiVars, modeVars>>
  /\ mode \notin {"stopped", "down"}
  /\ \A i \in Ids : RowsIn(writeQueue', i) \union RowsIn(batch', i)
                      \subseteq RowsIn(writeQueue, i) \union RowsIn(batch, i)
  /\ \A i \in Ids : NoJobs(i) => disk'[i] = disk[i] /\ Failed(i)' = Failed(i)
  /\ \A i \in Ids \ DOMAIN sessions : Failed(i)' = Failed(i)
  /\ \A i \in DOMAIN sessions : Kept(i)' = Kept(i)
  /\ \A i \in Ids : /\ Failed(i) \subseteq Failed(i)'
                    /\ Readable(i) \subseteq Readable(i)'
                    /\ Readable(i)' \subseteq Readable(i) \union RowsIn(batch, i)
                    /\ ToSet(disk[i].bin) \subseteq ToSet(disk'[i].bin)
                    /\ RowsOfFile(i)' \subseteq RowsOfFile(i) \union RowsIn(batch, i)

\* A step that concerns the row in the writer's hands.
LEMMA JobEffect ==
  ASSUME StorageTypes, writer # "wait",
         NEW s, s = Job.session, NEW r, r = Job.row,
         batch' \in {batch, Tail(batch)}, writeQueue' = writeQueue,
         \A i \in Ids \ {s} : disk'[i] = disk[i],
         failed \subseteq failed', failed' \subseteq failed \union {<<s, r>>},
         Readable(s) \subseteq Readable(s)', Readable(s)' \subseteq Readable(s) \union {r},
         ToSet(disk[s].bin) \subseteq ToSet(disk'[s].bin),
         RowsOfFile(s)' \subseteq RowsOfFile(s) \union {r},
         s \in DOMAIN sessions /\ batch' = Tail(batch) => r \in Readable(s)' \union Failed(s)',
         s \notin DOMAIN sessions => failed' = failed,
         UNCHANGED <<memoryVars, load, uiVars, modeVars>>, mode \notin {"stopped", "down"}
  PROVE  WriterEffect
<1>1. s \in Ids /\ r \in Rows /\ DOMAIN sessions \subseteq Ids BY JobTypes DEF StorageTypes
<1>2. /\ r \in RowsIn(batch, s)
      /\ \A i \in Ids : RowsIn(batch, i) = RowsIn(Tail(batch), i) \union (IF i = s THEN {r} ELSE {})
  BY <1>1, JobRows
<1>3. \A i \in Ids : RowsIn(batch', i) \in {RowsIn(batch, i), RowsIn(Tail(batch), i)}
                     /\ RowsIn(writeQueue', i) = RowsIn(writeQueue, i)
  OBVIOUS
<1>4. \A i \in Ids : RowsIn(writeQueue', i) \union RowsIn(batch', i)
                       \subseteq RowsIn(writeQueue, i) \union RowsIn(batch, i)
  BY <1>2, <1>3
<1>5. \A i \in Ids \ {s} : Failed(i)' = Failed(i) BY DEF Failed
<1>6. Failed(s) \subseteq Failed(s)' /\ Failed(s)' \subseteq Failed(s) \union {r} BY DEF Failed
<1>7. \A i \in Ids : NoJobs(i) => i # s BY <1>2 DEF NoJobs
<1>8. \A i \in Ids \ DOMAIN sessions : Failed(i)' = Failed(i) BY <1>5 DEF Failed
<1>9. ASSUME NEW i \in DOMAIN sessions
      PROVE  Kept(i)' = Kept(i)
  <2>1. CASE i # s
    <3>1. Readable(i)' = Readable(i) BY <1>1, <2>1, FilesUnchanged
    <3>2. RowsIn(batch', i) = RowsIn(batch, i) /\ RowsIn(writeQueue', i) = RowsIn(writeQueue, i)
      <4>1. i \in Ids BY <1>1
      <4>2. RowsIn(batch, i) = RowsIn(Tail(batch), i) BY <1>2, <2>1, <4>1
      <4>3. RowsIn(batch', i) \in {RowsIn(batch, i), RowsIn(Tail(batch), i)}
            /\ RowsIn(writeQueue', i) = RowsIn(writeQueue, i)
        BY <1>3, <4>1
      <4> QED BY <4>2, <4>3
    <3> QED BY <1>1, <1>5, <2>1, <3>1, <3>2, GivenNext DEF Kept
  <2>2. CASE i = s
    <3>1. RowsIn(writeQueue', i) = RowsIn(writeQueue, i) BY <1>1, <1>3
    <3>2. CASE batch' = batch
      <4>1. RowsIn(batch', i) = RowsIn(batch, i) BY <3>2
      <4> QED BY <1>2, <1>6, <2>2, <3>1, <4>1, GivenNext DEF Kept
    <3>3. CASE batch' = Tail(batch)
      <4>1. RowsIn(batch, i) = RowsIn(batch', i) \union {r} BY <1>1, <1>2, <2>2, <3>3
      <4>2. r \in Readable(s)' \union Failed(s)' BY <2>2, <3>3
      <4> QED BY <1>6, <2>2, <3>1, <4>1, <4>2, GivenNext DEF Kept
    <3> QED BY <3>2, <3>3
  <2> QED BY <2>1, <2>2
<1>10. ASSUME NEW i \in Ids
       PROVE  /\ Failed(i) \subseteq Failed(i)'
              /\ Readable(i) \subseteq Readable(i)'
              /\ Readable(i)' \subseteq Readable(i) \union RowsIn(batch, i)
              /\ ToSet(disk[i].bin) \subseteq ToSet(disk'[i].bin)
              /\ RowsOfFile(i)' \subseteq RowsOfFile(i) \union RowsIn(batch, i)
  <2>1. CASE i # s
    <3>1. disk'[i] = disk[i] BY <1>10, <2>1
    <3>2. Readable(i)' = Readable(i) /\ RowsOfFile(i)' = RowsOfFile(i) BY <3>1, FilesUnchanged
    <3> QED BY <1>5, <1>10, <2>1, <3>1, <3>2
  <2>2. CASE i = s BY <1>2, <1>6, <2>2
  <2> QED BY <2>1, <2>2
<1> QED BY <1>4, <1>5, <1>7, <1>8, <1>9, <1>10 DEF WriterEffect

\* The writer at work on a row.  Its session has a directory only if it is known.
LEMMA AtWork ==
  ASSUME StorageInv, writer # "wait"
  PROVE  /\ Job.session \in Ids /\ Job.row \in Rows /\ mode \notin {"stopped", "down"}
         /\ writer # "look" => (Exists(Job.session) <=> Job.session \in DOMAIN sessions)
<1>1. Job.session \in Ids /\ Job.row \in Rows BY JobTypes DEF StorageInv
<1>2. mode \notin {"stopped", "down"} BY DEF StorageInv, Posture, StorageTypes
<1>3. writer # "look" => writer \in {"bin", "idx", "copy", "meta"}
  BY DEF StorageInv, StorageTypes
<1> QED BY <1>1, <1>2, <1>3 DEF StorageInv, Files, Exists

\* What such a step has to show for the directories, for the session s of the row.
LEMMA FilesStep ==
  ASSUME StorageInv, NEW s \in Ids, sessions' = sessions, mode' = mode,
         \A i \in Ids \ {s} : disk'[i] = disk[i],
         "dir" \in disk[s].parts => "dir" \in disk'[s].parts,
         disk'[s].parts # {} => "dir" \in disk'[s].parts,
         s \notin DOMAIN sessions => "bin" \notin disk'[s].parts \/ disk'[s] = disk[s],
         \/ writer' \in {"wait", "look"}
         \/ /\ batch' = batch /\ s = Job.session /\ s \in DOMAIN sessions
            /\ writer' = "idx" =>
                 \/ position' \in DOMAIN disk'[s].bin /\ disk'[s].bin[position'] = Job.row
                 \/ Job.row \in Failed(s)'
            /\ writer' \in {"copy", "meta"} => Job.row \in Readable(s)' \union Failed(s)'
  PROVE  Files'
<1>1. DOMAIN sessions \subseteq Ids BY DEF StorageInv, StorageTypes
<1>2. \A i \in DOMAIN sessions : "dir" \in disk'[i].parts BY <1>1 DEF StorageInv, Files
<1>3. mode # "down" =>
        \A i \in Ids \ DOMAIN sessions : "bin" \in disk'[i].parts => disk'[i].meta = NoMetadata
  BY DEF StorageInv, Files
<1>4. \A i \in Ids : disk'[i].parts # {} => "dir" \in disk'[i].parts BY DEF StorageInv, Files
<1>5. CASE writer' \in {"wait", "look"} BY <1>2, <1>3, <1>4, <1>5 DEF Files
<1>6. CASE writer' \notin {"wait", "look"}
  <2>1. /\ batch' = batch /\ s = Job.session /\ s \in DOMAIN sessions
        /\ writer' = "idx" =>
             \/ position' \in DOMAIN disk'[s].bin /\ disk'[s].bin[position'] = Job.row
             \/ Job.row \in Failed(s)'
        /\ writer' \in {"copy", "meta"} => Job.row \in Readable(s)' \union Failed(s)'
    BY <1>6
  <2>2. Job' = Job BY <2>1 DEF Job
  <2>3. Job'.session \in DOMAIN sessions' BY <2>1, <2>2
  <2>4. Readable(Job.session)' = Readable(s)' /\ Failed(Job.session)' = Failed(s)'
    BY <2>1, <2>2 DEF Readable, Failed
  <2>5. writer' = "idx" =>
          \/ position' \in DOMAIN disk'[Job'.session].bin
             /\ disk'[Job'.session].bin[position'] = Job'.row
          \/ Job'.row \in Failed(Job.session)'
    BY <2>1, <2>2, <2>4
  <2> QED BY <1>2, <1>3, <1>4, <2>1, <2>2, <2>3, <2>4, <2>5 DEF Files
<1> QED BY <1>5, <1>6

LEMMA DescribedStep ==
  ASSUME StorageInv, NEW s \in Ids, sessions' = sessions,
         \A i \in Ids \ {s} : disk'[i] = disk[i],
         s \in DOMAIN sessions => \/ disk'[s].meta = disk[s].meta
                                  \/ Within(disk'[s].meta, sessions[s]),
         writer' = "meta" => batch' = batch /\ s = Job.session
                               /\ (s \in DOMAIN sessions => Within(copy', sessions[s]))
  PROVE  Described'
<1>1. DOMAIN sessions \subseteq Ids BY DEF StorageInv, StorageTypes
<1>2. \A i \in DOMAIN sessions :
        disk'[i].meta # NoMetadata => Within(disk'[i].meta, sessions[i])
  BY <1>1 DEF StorageInv, Described
<1>3. batch' = batch => Job' = Job BY DEF Job
<1> QED BY <1>2, <1>3 DEF Described

\* A write to one of the files, whole or not: it goes on with a row that has failed or is
\* there, and ends one that has failed.
LEMMA WriteEffect ==
  ASSUME StorageInv, writer \in {"bin", "idx"}, OneWrite,
         NEW s, s = Job.session, NEW r, r = Job.row,
         failed' \in {failed, failed \union {<<s, r>>}},
         s \in DOMAIN sessions \/ (UNCHANGED disk /\ failed' = failed),
         \/ batch' = Tail(batch) /\ writer' \in {"wait", "look"}
              /\ (s \in DOMAIN sessions => r \in Failed(s)')
         \/ /\ batch' = batch /\ s \in DOMAIN sessions /\ writer' \in {"idx", "copy"}
            /\ writer' = "idx" => \/ position' \in DOMAIN disk'[s].bin
                                     /\ disk'[s].bin[position'] = r
                                  \/ r \in Failed(s)'
            /\ writer' = "copy" => r \in Readable(s)' \union Failed(s)',
         UNCHANGED <<memoryVars, writeQueue, copy, load, uiVars, modeVars>>
  PROVE  WriterEffect /\ Files' /\ Described'
<1>0. /\ s \in Ids /\ r \in Rows /\ mode \notin {"stopped", "down"} /\ StorageTypes
      /\ writer # "wait" /\ Tail(batch) # batch
  BY AtWork, JobTypes DEF StorageInv
<1>1. \A i \in Ids : /\ disk'[i].meta = disk[i].meta
                     /\ disk[i].parts \subseteq disk'[i].parts
                     /\ i # s => disk'[i] = disk[i]
  BY <1>0, OneWriteTypes
<1>2. /\ Readable(s) \subseteq Readable(s)' /\ Readable(s)' \subseteq Readable(s) \union {r}
      /\ ToSet(disk[s].bin) \subseteq ToSet(disk'[s].bin)
      /\ RowsOfFile(s)' \subseteq RowsOfFile(s) \union {r}
  BY <1>0, OneWriteRows
<1>3. WriterEffect
  <2>1. failed \subseteq failed' /\ failed' \subseteq failed \union {<<s, r>>} OBVIOUS
  <2>2. s \in DOMAIN sessions /\ batch' = Tail(batch) => r \in Readable(s)' \union Failed(s)'
    BY <1>0
  <2>3. s \notin DOMAIN sessions => failed' = failed OBVIOUS
  <2>4. batch' \in {batch, Tail(batch)} /\ \A i \in Ids \ {s} : disk'[i] = disk[i] BY <1>1
  <2> QED BY <1>0, <1>2, <2>1, <2>2, <2>3, <2>4, JobEffect
<1>4. sessions' = sessions /\ mode' = mode BY DEF memoryVars, modeVars
<1>5. Files'
  <2>1. s \notin DOMAIN sessions => disk'[s] = disk[s] OBVIOUS
  <2>2. /\ \A i \in Ids \ {s} : disk'[i] = disk[i]
        /\ "dir" \in disk[s].parts => "dir" \in disk'[s].parts
        /\ disk'[s].parts # {} => "dir" \in disk'[s].parts
    BY <1>0, <1>1 DEF StorageInv, Files
  <2> QED BY <1>0, <1>4, <2>1, <2>2, FilesStep
<1>6. Described' BY <1>0, <1>1, <1>4, DescribedStep
<1> QED BY <1>3, <1>5, <1>6

LEMMA WriteRowEffect ==
  ASSUME StorageInv, WriteRow
  PROVE  WriterEffect /\ Files' /\ Described'
<1> PICK s, r : s = Job.session /\ r = Job.row OBVIOUS
<1>1. /\ writer = "bin" /\ writer # "wait" /\ StorageTypes
      /\ UNCHANGED <<memoryVars, writeQueue, copy, load, uiVars, modeVars>>
  BY DEF WriteRow, StorageInv
<1>2. s \in Ids /\ r \in Rows /\ (Exists(s) <=> s \in DOMAIN sessions) BY <1>1, AtWork
<1>3. OneWrite BY <1>1, WritesOne
<1>4. CASE Refused
  <2>1. /\ batch' = Tail(batch) /\ writer' \in {"wait", "look"}
        /\ UNCHANGED disk /\ failed' = failed /\ s \notin DOMAIN sessions
    BY <1>2, <1>4 DEF Refused, RowDone, faultVars
  <2> QED BY <1>1, <1>3, <2>1, WriteEffect
<1>5. CASE Exists(s) /\ disk' = WithBin(<<r>>) /\ writer' = "idx"
             /\ position' = Len(disk[s].bin) + 1 /\ UNCHANGED <<batch, faultVars>>
  <2>1. s \in DOMAIN sessions /\ failed' = failed BY <1>2, <1>5 DEF faultVars
  <2>2. position' \in DOMAIN disk'[s].bin /\ disk'[s].bin[position'] = r
    <3>1. disk'[s].bin = Append(disk[s].bin, r)
      <4>1. <<r>> \in OneMore(r) /\ <<r>> # <<>> /\ r \in Records BY <1>2, Constants DEF OneMore
      <4> QED BY <1>1, <1>2, <1>5, <4>1, BinWritten
    <3>2. disk[s].bin \in Seq(Records) /\ r \in Records BY <1>1, <1>2, ReadableRows, Constants
    <3>3. /\ disk'[s].bin \in Seq(Records) /\ Len(disk'[s].bin) = Len(disk[s].bin) + 1
          /\ disk'[s].bin[Len(disk[s].bin) + 1] = r
      BY <3>1, <3>2, AppendProperties
    <3>4. DOMAIN disk'[s].bin = 1..(Len(disk[s].bin) + 1) /\ Len(disk[s].bin) \in Nat
      BY <3>2, <3>3, LenProperties
    <3> QED BY <1>5, <3>3, <3>4
  <2> QED BY <1>1, <1>3, <1>5, <2>1, <2>2, WriteEffect
<1>6. CASE /\ Exists(s) /\ JobFails
           /\ \/ RowDone /\ UNCHANGED position
              \/ /\ writer' = "idx" /\ position' = Len(disk[s].bin) + 1
                 /\ UNCHANGED batch
  <2>1. s \in DOMAIN sessions /\ failed' = failed \union {<<s, r>>} /\ r \in Failed(s)'
    BY <1>2, <1>6 DEF JobFails, Failed
  <2>2. \/ batch' = Tail(batch) /\ writer' \in {"wait", "look"}
        \/ batch' = batch /\ writer' = "idx"
    BY <1>6 DEF RowDone
  <2> QED BY <1>1, <1>3, <2>1, <2>2, WriteEffect
<1> QED BY <1>4, <1>5, <1>6 DEF WriteRow

LEMMA WriteIndexEffect ==
  ASSUME StorageInv, WriteIndex
  PROVE  WriterEffect /\ Files' /\ Described'
<1> PICK s, r : s = Job.session /\ r = Job.row OBVIOUS
<1>1. /\ writer = "idx" /\ writer # "wait" /\ StorageTypes
      /\ UNCHANGED <<memoryVars, writeQueue, copy, load, uiVars, modeVars>>
  BY DEF WriteIndex, StorageInv
<1>2. s \in Ids /\ r \in Rows /\ (Exists(s) <=> s \in DOMAIN sessions) BY <1>1, AtWork
<1>3. OneWrite BY <1>1, WritesOne
<1>4. CASE Refused
  <2>1. /\ batch' = Tail(batch) /\ writer' \in {"wait", "look"}
        /\ UNCHANGED disk /\ failed' = failed /\ s \notin DOMAIN sessions
    BY <1>2, <1>4 DEF Refused, RowDone, faultVars
  <2> QED BY <1>1, <1>3, <2>1, WriteEffect
<1> PICK e : e = [row |-> r, at |-> position] OBVIOUS
<1>5. CASE /\ Exists(s) /\ disk' = WithIdx(<<e>>) /\ writer' = "copy"
           /\ IF Broken \in ToSet(disk[s].idx) THEN JobFails ELSE UNCHANGED failed
           /\ UNCHANGED <<batch, failures>>
  <2>1. s \in DOMAIN sessions /\ failed' \in {failed, failed \union {<<s, r>>}}
    BY <1>2, <1>5 DEF JobFails
  <2>2. r \in Readable(s)' \union Failed(s)'
    <3>1. CASE Broken \in ToSet(disk[s].idx) BY <1>2, <1>5, <3>1 DEF JobFails, Failed
    <3>2. CASE r \in Failed(s)
      <4>1. failed \subseteq failed' BY <2>1
      <4> QED BY <3>2, <4>1 DEF Failed
    <3>3. CASE Broken \notin ToSet(disk[s].idx) /\ r \notin Failed(s)
      <4>1. position \in DOMAIN disk[s].bin /\ disk[s].bin[position] = r
        BY <1>1, <2>1, <3>3 DEF StorageInv, Files
      <4>2. disk[s].bin \in Seq(Records) /\ disk[s].idx \in Seq(Entries) /\ position \in Nat
        BY <1>1, <1>2, ReadableRows DEF StorageTypes
      <4>3. e \in Entries /\ e.row = r /\ e.at = position /\ e # Broken
        BY <1>2, <4>2, Constants DEF Entries, Broken
      <4>4. disk'[s].idx = Append(disk[s].idx, e) /\ disk'[s].bin = disk[s].bin
        <5>1. <<e>> \in OneMore(e) /\ <<e>> # <<>> BY DEF OneMore
        <5> QED BY <1>1, <1>2, <1>5, <4>3, <5>1, IdxWritten
      <4>5. e.row \in Indexed(Append(disk[s].idx, e), disk[s].bin)
        BY <3>3, <4>1, <4>2, <4>3, IndexedEntry
      <4> QED BY <4>3, <4>4, <4>5, ReadableNext
    <3> QED BY <3>1, <3>2, <3>3
  <2> QED BY <1>1, <1>3, <1>5, <2>1, <2>2, WriteEffect
<1>6. CASE Exists(s) /\ JobFails /\ (RowDone \/ (writer' = "copy" /\ UNCHANGED batch))
  <2>1. s \in DOMAIN sessions /\ failed' = failed \union {<<s, r>>} /\ r \in Failed(s)'
    BY <1>2, <1>6 DEF JobFails, Failed
  <2>2. \/ batch' = Tail(batch) /\ writer' \in {"wait", "look"}
        \/ batch' = batch /\ writer' = "copy"
    BY <1>6 DEF RowDone
  <2> QED BY <1>1, <1>3, <2>1, <2>2, WriteEffect
<1> QED BY <1>4, <1>5, <1>6 DEF WriteIndex

LEMMA WriterEffects ==
  ASSUME StorageInv, WriterStep
  PROVE  WriterEffect /\ Files' /\ Described'
<1>0. StorageTypes BY DEF StorageInv
<1>1. CASE TakeBatch
  <2>1. /\ batch' = writeQueue /\ writeQueue' = <<>> /\ batch = <<>> /\ writer' = "look"
        /\ writer = "wait" /\ mode \in {"running", "stopping"}
        /\ UNCHANGED <<memoryVars, copy, load, uiVars, disk, modeVars, faultVars>>
    BY <1>0, <1>1 DEF TakeBatch, StorageTypes
  <2>2. \A i : RowsIn(writeQueue', i) = {} /\ RowsIn(batch, i) = {}
               /\ RowsIn(batch', i) = RowsIn(writeQueue, i)
    BY <2>1, RowsInEmpty
  <2>3. \A i : Readable(i)' = Readable(i) /\ Failed(i)' = Failed(i) /\ Kept(i)' = Kept(i)
               /\ RowsOfFile(i)' = RowsOfFile(i)
    <3> TAKE i
    <3>1. Readable(i)' = Readable(i) /\ RowsOfFile(i)' = RowsOfFile(i)
      BY <2>1 DEF Readable, RowsOfFile
    <3>2. Failed(i)' = Failed(i) BY <2>1 DEF Failed, faultVars
    <3> QED BY <2>2, <3>1, <3>2, GivenNext DEF Kept
  <2>4. WriterEffect BY <2>1, <2>2, <2>3 DEF WriterEffect
  <2>5. Files'
    BY <2>1 DEF StorageInv, Files, memoryVars, modeVars, faultVars
  <2>6. Described' BY <2>1 DEF StorageInv, Described, memoryVars
  <2> QED BY <2>4, <2>5, <2>6
<1>2. CASE WriteRow BY <1>2, WriteRowEffect
<1>3. CASE WriteIndex BY <1>3, WriteIndexEffect
<1> SUFFICES ASSUME LookUp \/ CopyMetadata \/ WriteMetadata
             PROVE WriterEffect /\ Files' /\ Described'
  BY <1>1, <1>2, <1>3 DEF WriterStep
<1> PICK s, r : s = Job.session /\ r = Job.row OBVIOUS
<1>4. writer # "wait" BY DEF LookUp, CopyMetadata, WriteMetadata
<1>5. /\ s \in Ids /\ r \in Rows /\ mode \notin {"stopped", "down"} /\ Tail(batch) # batch
      /\ writer # "look" => (Exists(s) <=> s \in DOMAIN sessions)
  BY <1>0, <1>4, AtWork, JobTypes
<1>6. CASE LookUp \/ CopyMetadata
  <2>1. /\ UNCHANGED <<memoryVars, writeQueue, load, uiVars, disk, modeVars, faultVars>>
        /\ \/ batch' = Tail(batch) /\ writer' \in {"wait", "look"} /\ s \notin DOMAIN sessions
           \/ batch' = batch /\ writer = "look" /\ writer' = "bin" /\ s \in DOMAIN sessions
           \/ batch' = batch /\ writer = "copy" /\ writer' = "meta" /\ s \in DOMAIN sessions
                /\ copy' = sessions[s]
    BY <1>6 DEF LookUp, CopyMetadata, RowDone
  <2>2. Readable(s)' = Readable(s) /\ Failed(s)' = Failed(s) /\ RowsOfFile(s)' = RowsOfFile(s)
    BY <2>1 DEF Readable, Failed, RowsOfFile, faultVars
  <2>3. s \in DOMAIN sessions /\ batch' = Tail(batch) => r \in Readable(s)' \union Failed(s)'
    BY <1>5, <2>1
  <2>4. WriterEffect
    <3>1. failed' = failed /\ disk' = disk BY <2>1 DEF faultVars
    <3> QED BY <1>0, <1>4, <1>5, <2>1, <2>2, <2>3, <3>1, JobEffect
  <2>5. writer' \in {"copy", "meta"} => r \in Readable(s)' \union Failed(s)'
    BY <2>1, <2>2 DEF StorageInv, Files
  <2>6. sessions' = sessions /\ mode' = mode BY <2>1 DEF memoryVars, modeVars
  <2>7. Files'
    <3>1. disk'[s].parts # {} => "dir" \in disk'[s].parts BY <1>5, <2>1 DEF StorageInv, Files
    <3> QED BY <1>5, <2>1, <2>5, <2>6, <3>1, FilesStep
  <2>8. s \in DOMAIN sessions => Within(sessions[s], sessions[s])
    <3>1. s \in DOMAIN sessions => sessions[s] \in Metadata
      <4> HIDE DEF Metadata
      <4> QED BY <1>0 DEF StorageTypes
    <3> QED BY <3>1 DEF Within, Metadata
  <2>9. Described' BY <1>5, <2>1, <2>6, <2>8, DescribedStep
  <2> QED BY <2>4, <2>7, <2>9
<1>7. CASE WriteMetadata
  <2>1. /\ writer = "meta" /\ Describe(s, copy) /\ batch' = Tail(batch)
        /\ writer' \in {"wait", "look"}
        /\ UNCHANGED <<memoryVars, writeQueue, load, uiVars, modeVars, failed>>
    BY <1>7 DEF WriteMetadata, RowDone
  <2>2. copy \in Metadata BY <1>0 DEF StorageTypes
  <2>3. /\ \A j \in Ids \ {s} : disk'[j] = disk[j]
        /\ disk'[s].bin = disk[s].bin /\ disk'[s].idx = disk[s].idx
        /\ disk'[s].meta \in {disk[s].meta, copy}
        /\ disk'[s].parts = disk[s].parts \union {"dir"}
    BY <1>0, <1>5, <2>1, <2>2, DescribeTypes
  <2>4. Readable(s)' = Readable(s) /\ RowsOfFile(s)' = RowsOfFile(s) BY <2>3, FilesUnchanged
  <2>5. Failed(s)' = Failed(s) /\ sessions' = sessions /\ mode' = mode
    BY <2>1 DEF Failed, memoryVars, modeVars
  <2>6. s \in DOMAIN sessions => r \in Readable(s)' \union Failed(s)'
    BY <2>1, <2>4, <2>5 DEF StorageInv, Files
  <2>7. WriterEffect
    <3>1. failed' = failed BY <2>1
    <3> QED BY <1>0, <1>4, <1>5, <2>1, <2>3, <2>4, <2>6, <3>1, JobEffect
  <2>8. s \notin DOMAIN sessions => "bin" \notin disk'[s].parts
    <3>1. ASSUME s \notin DOMAIN sessions PROVE "bin" \notin disk[s].parts
      BY <1>5, <2>1, <3>1 DEF StorageInv, Files, Exists
    <3> QED BY <2>3, <3>1
  <2>9. Files' BY <1>5, <2>1, <2>3, <2>5, <2>8, FilesStep
  <2>10. Described'
    <3>1. s \in DOMAIN sessions => Within(copy, sessions[s]) BY <2>1 DEF StorageInv, Described
    <3> QED BY <1>5, <2>1, <2>3, <2>5, <3>1, DescribedStep
  <2> QED BY <2>7, <2>9, <2>10
<1> QED BY <1>6, <1>7

\* Fewer rows with the newest of the old ones among them: these are still the newest.
LEMMA NewestOfFewer ==
  ASSUME NEW S \in SUBSET Rows, NEW T \in SUBSET S, NEW n \in Nat \ {0},
         NEW top \in SUBSET T, Newest(S, n) \subseteq top
  PROVE  Newest(T, n) \subseteq top
<1>1. S \subseteq Nat /\ IsFiniteSet(S) /\ IsFiniteSet(T) BY Constants, FS_Subset
<1> SUFFICES ASSUME NEW r \in Newest(T, n), r \notin top PROVE FALSE OBVIOUS
<1>2. r \in T /\ r \in S /\ r \in Nat /\ r \notin Newest(S, n) BY <1>1 DEF Newest
<1>3. /\ Cardinality({q \in S : q > r}) \in Nat /\ Cardinality({q \in T : q > r}) \in Nat
      /\ IsFiniteSet({q \in T : q > r})
  BY <1>1, FS_Subset, FS_CardinalityType
<1>4. Cardinality({q \in S : q > r}) >= n BY <1>2, <1>3 DEF Newest
<1>5. Cardinality({q \in Newest(S, n) : q > r}) >= n BY <1>1, <1>2, <1>4, EnoughNewer
<1>6. {q \in Newest(S, n) : q > r} \subseteq {q \in T : q > r} OBVIOUS
<1>7. Cardinality({q \in Newest(S, n) : q > r}) <= Cardinality({q \in T : q > r})
      /\ Cardinality({q \in Newest(S, n) : q > r}) \in Nat
  BY <1>3, <1>6, FS_Subset, FS_CardinalityType
<1>8. Cardinality({q \in T : q > r}) < n BY DEF Newest
<1> QED BY <1>3, <1>5, <1>7, <1>8

\* A session whose newest rows are in memory has them there after the step.
LEMMA WriterKeepsYoung ==
  ASSUME WriterEffect, StorageTypes, NEW i \in DOMAIN sessions
  PROVE  /\ Young(i) => Young(i)'
         /\ Quiet(i) => Quiet(i)'
         /\ Held(i)' = Held(i)
<1>1. i \in Ids /\ recentRows' = recentRows /\ active' = active
      /\ Kept(i)' = Kept(i) /\ RowsIn(batch, i) \subseteq Kept(i)
  BY DEF StorageTypes, WriterEffect, memoryVars, uiVars, Kept
<1>2. Held(i)' = Held(i) BY <1>1, GivenNext
<1>3. ASSUME Young(i) PROVE Young(i)'
  <2>1. RowsOfFile(i)' \subseteq Kept(i)'
    BY <1>1, <1>3 DEF Young, WriterEffect
  <2>2. Given(i)' \subseteq Given(i)
    BY <1>1, GivenNext DEF WriterEffect, Given
  <2>3. recentRows[i] \subseteq Given(i)' /\ Given(i) \subseteq Rows BY <1>1, GivenNext, ReadableRows
  <2>4. Newest(Given(i), RecentCap) \subseteq recentRows[i] BY <1>3 DEF Young
  <2>5. Newest(Given(i)', RecentCap) \subseteq recentRows[i]
    BY <2>2, <2>3, <2>4, Constants, NewestOfFewer
  <2> QED BY <1>1, <2>1, <2>5 DEF Young
<1>4. ASSUME Quiet(i) PROVE Quiet(i)'
  <2>1. NoJobs(i) BY <1>4 DEF Quiet
  <2>2. disk'[i] = disk[i] BY <1>1, <2>1 DEF WriterEffect
  <2>3. NoJobs(i)'
    <3>1. RowsIn(writeQueue', i) \union RowsIn(batch', i) = {}
      BY <1>1, <2>1 DEF WriterEffect, NoJobs
    <3> QED BY <3>1 DEF NoJobs, RowsIn
  <2>4. (ToRepair(i)' <=> ToRepair(i)) /\ RowsOfFile(i)' = RowsOfFile(i)
    BY <2>2, FilesUnchanged
  <2> QED BY <1>1, <1>4, <2>3, <2>4 DEF Quiet
<1> QED BY <1>2, <1>3, <1>4

LEMMA WriterKeeps ==
  ASSUME StorageInv, WriterEffect
  PROVE  Posture' /\ Untouched' /\ Forgot' /\ RowsKept' /\ LoadKept' /\ SeenKept'
<1>0. /\ StorageTypes /\ DOMAIN sessions \subseteq Ids
      /\ UNCHANGED <<sessions, recentRows, load, ui, active, started, fresh, mode, exits, seen, cut>>
      /\ mode \notin {"stopped", "down"}
  BY DEF StorageInv, StorageTypes, WriterEffect, memoryVars, uiVars, modeVars
<1>1. Posture' BY <1>0 DEF StorageInv, Posture
<1>2. Untouched'
  <2> SUFFICES ASSUME NEW i \in Ids, Unused(i)
               PROVE  NoJobs(i)' /\ disk'[i] = disk[i]
    BY <1>0 DEF StorageInv, Untouched, Unused
  <2>1. NoJobs(i) BY DEF StorageInv, Untouched
  <2>2. RowsIn(writeQueue', i) \union RowsIn(batch', i) = {} BY <2>1 DEF WriterEffect, NoJobs
  <2>3. NoJobs(i)' BY <2>2 DEF NoJobs, RowsIn
  <2> QED BY <2>1, <2>3 DEF WriterEffect
<1>3. Forgot' BY <1>0 DEF StorageInv, Forgot, WriterEffect
<1>4. RowsKept'
  <2>1. ASSUME NEW i \in Ids PROVE recentRows'[i] \subseteq Kept(i)'
    <3>1. CASE i \in DOMAIN sessions BY <1>0, <3>1 DEF StorageInv, RowsKept, WriterEffect
    <3>2. CASE i \notin DOMAIN sessions BY <1>0, <3>2 DEF StorageInv, Forgot
    <3> QED BY <3>1, <3>2
  <2> QED BY <1>0, <2>1, WriterKeepsYoung DEF StorageInv, RowsKept
<1>5. LoadKept' BY <1>0, WriterKeepsYoung DEF StorageInv, LoadKept
<1>6. SeenKept'
  <2> SUFFICES ASSUME NEW i \in DOMAIN sessions
               PROVE  /\ seen[i] \ Failed(i)' \subseteq ToSet(disk'[i].bin)
                      /\ ~cut /\ ~Damaged(i)' => seen[i] \ Failed(i)' \subseteq Readable(i)'
    BY <1>0 DEF SeenKept, Known, Down
  <2>1. i \in Known /\ ~Down /\ i \in Ids BY <1>0 DEF Known, Down
  <2>2. /\ seen[i] \ Failed(i) \subseteq ToSet(disk[i].bin)
        /\ ~cut /\ ~Damaged(i) => seen[i] \ Failed(i) \subseteq Readable(i)
    BY <2>1 DEF StorageInv, SeenKept
  <2>3. /\ Failed(i) \subseteq Failed(i)' /\ Readable(i) \subseteq Readable(i)'
        /\ ToSet(disk[i].bin) \subseteq ToSet(disk'[i].bin)
    BY <2>1 DEF WriterEffect
  <2>4. Damaged(i) => Damaged(i)' BY <2>3 DEF Damaged
  <2> QED BY <2>2, <2>3, <2>4
<1> QED BY <1>1, <1>2, <1>3, <1>4, <1>5, <1>6

-----------------------------------------------------------------------------
(* The invariant is inductive: the steps of the user interface thread.       *)

\* What holds of a session whose files and rows a step leaves alone.
LEMMA Same ==
  ASSUME NEW i, disk'[i].bin = disk[i].bin, disk'[i].idx = disk[i].idx,
         "idx" \in disk'[i].parts <=> "idx" \in disk[i].parts,
         RowsIn(writeQueue', i) = RowsIn(writeQueue, i), RowsIn(batch', i) = RowsIn(batch, i),
         Failed(i)' = Failed(i), recentRows'[i] = recentRows[i]
  PROVE  /\ Readable(i)' = Readable(i) /\ Scanned(i)' = Scanned(i)
         /\ Damaged(i)' = Damaged(i) /\ RowsOfFile(i)' = RowsOfFile(i)
         /\ Kept(i)' = Kept(i) /\ Held(i)' = Held(i) /\ Given(i)' = Given(i)
         /\ NoJobs(i)' = NoJobs(i)
         /\ Young(i) => Young(i)'
         /\ Quiet(i) /\ active' # i => Quiet(i)'
<1>1. Readable(i)' = Readable(i) /\ Scanned(i)' = Scanned(i) /\ Damaged(i)' = Damaged(i)
      /\ RowsOfFile(i)' = RowsOfFile(i) /\ (ToRepair(i)' <=> ToRepair(i))
  BY FilesUnchanged
<1>2. Kept(i)' = Kept(i) /\ Held(i)' = Held(i) /\ Given(i)' = Given(i)
  BY <1>1, GivenNext DEF Kept, Given
<1>3. NoJobs(i)' = NoJobs(i) BY DEF NoJobs, RowsIn
<1>4. Young(i) => Young(i)' BY <1>1, <1>2 DEF Young
<1>5. Quiet(i) /\ active' # i => Quiet(i)' BY <1>1, <1>2, <1>3 DEF Quiet
<1> QED BY <1>1, <1>2, <1>3, <1>4, <1>5

\* The row in the writer's hands is a row of its session.
LEMMA JobIsRow ==
  ASSUME StorageTypes, writer # "wait"
  PROVE  Job.session \in Ids /\ ~NoJobs(Job.session)
BY JobTypes, JobRows DEF NoJobs

LEMMA StartFilesKeeps ==
  ASSUME StorageInv, StartFiles
  PROVE  /\ Posture' /\ Untouched' /\ Forgot' /\ Files' /\ Described' /\ RowsKept' /\ LoadKept'
         /\ SeenKept'
<1> PICK s : s = started + 1 OBVIOUS
<1>0. /\ StorageTypes /\ DOMAIN sessions \subseteq Ids /\ mode = "running" /\ ui = "idle"
      /\ active = 0 /\ s \in Ids /\ started' = s /\ active' = s /\ ui' = "register"
      /\ disk' = [disk EXCEPT ![s] = StartParts]
      /\ UNCHANGED <<sessions, recentRows, writeQueue, batch, writer, position, copy, load,
                     fresh, mode, exits, seen, cut, failures, failed>>
  BY DEF StorageInv, StorageTypes, StartFiles, StartParts, memoryVars, procVars, modeVars, faultVars
<1>1. started \in Nat /\ started < s /\ DOMAIN sessions \subseteq 1..started /\ s \notin DOMAIN sessions
  BY <1>0, Constants DEF StorageInv, Posture, StorageTypes
<1>2. disk'[s] = StartParts /\ \A i \in Ids \ {s} : disk'[i] = disk[i]
  BY <1>0 DEF StorageTypes
<1>3. NoJobs(s) /\ seen[s] = {} /\ recentRows[s] = {} /\ Failed(s) = {}
  BY <1>0, <1>1 DEF StorageInv, Untouched, Unused, Forgot
<1>4. \A i : NoJobs(i)' = NoJobs(i) /\ Failed(i)' = Failed(i) BY <1>0 DEF NoJobs, RowsIn, Failed
<1>5. \A i \in Ids \ {s} :
        /\ Readable(i)' = Readable(i) /\ Scanned(i)' = Scanned(i) /\ Damaged(i)' = Damaged(i)
        /\ Kept(i)' = Kept(i) /\ (Young(i) => Young(i)') /\ (Quiet(i) => Quiet(i)')
  BY <1>0, <1>2, <1>4, Same
<1>6. Posture' BY <1>0, <1>1 DEF StorageInv, Posture
<1>7. Untouched'
  <2>1. ASSUME NEW i \in Ids, i # s, i > s \/ i = s
        PROVE  NoJobs(i)' /\ seen[i] = {} /\ disk'[i] = NoDirectory
    <3>1. i > started BY <1>1, <2>1, Constants
    <3> QED BY <1>2, <1>4, <2>1, <3>1 DEF StorageInv, Untouched, Unused
  <2>2. NoJobs(s)' /\ seen'[s] = {} /\ disk'[s] = StartParts BY <1>0, <1>2, <1>3, <1>4
  <2> SUFFICES ASSUME NEW i \in Ids, Unused(i)'
               PROVE  /\ NoJobs(i)' /\ seen'[i] = {}
                      /\ disk'[i] = IF i > s THEN NoDirectory ELSE StartParts
    BY <1>0 DEF Untouched
  <2>3. i > s \/ i = s BY <1>0 DEF Unused
  <2>4. CASE i = s
    <3>1. ~(i > s) BY <2>4, Constants
    <3> QED BY <2>2, <2>4, <3>1
  <2>5. CASE i # s BY <1>0, <2>1, <2>3, <2>5
  <2> QED BY <2>4, <2>5
<1>8. Forgot' BY <1>0, <1>4 DEF StorageInv, Forgot
<1>9. Files'
  <2>1. \A i \in DOMAIN sessions : "dir" \in disk'[i].parts BY <1>0, <1>1, <1>2 DEF StorageInv, Files
  <2>2. ASSUME writer # "wait" PROVE Job.session # s /\ disk'[Job.session] = disk[Job.session]
    BY <1>0, <1>2, <1>3, <2>2, JobIsRow
  <2>3. \A i \in Ids \ DOMAIN sessions : "bin" \in disk'[i].parts => disk'[i].meta = NoMetadata
    BY <1>0, <1>2, NoDirectoryType DEF StorageInv, Files
  <2>4. \A i \in Ids : disk'[i].parts # {} => "dir" \in disk'[i].parts
    BY <1>2, NoDirectoryType DEF StorageInv, Files
  <2>5. writer # "wait" => /\ Readable(Job.session)' = Readable(Job.session)
                           /\ Failed(Job.session)' = Failed(Job.session)
    <3> SUFFICES ASSUME writer # "wait" PROVE /\ Readable(Job.session)' = Readable(Job.session)
                                              /\ Failed(Job.session)' = Failed(Job.session)
      OBVIOUS
    <3>1. Job' = Job BY <1>0 DEF Job
    <3> QED BY <1>0, <2>2, <3>1 DEF Readable, Failed
  <2>6. Job' = Job BY <1>0 DEF Job
  <2>7. writer # "wait" => (Exists(Job.session)' <=> Exists(Job.session))
    BY <2>2, <2>6 DEF Exists
  <2> QED BY <1>0, <2>1, <2>2, <2>3, <2>4, <2>5, <2>6, <2>7 DEF StorageInv, Files
<1>10. Described'
  <2>1. Job' = Job BY <1>0 DEF Job
  <2> QED BY <1>0, <1>1, <1>2, <2>1 DEF StorageInv, Described
<1>11. RowsKept'
  <2>1. \A i \in Ids : recentRows[i] \subseteq Kept(i)'
    BY <1>3, <1>5 DEF StorageInv, RowsKept
  <2> QED BY <1>0, <1>1, <1>5, <2>1 DEF StorageInv, RowsKept
<1>12. LoadKept' BY <1>0, <1>1, <1>5 DEF StorageInv, LoadKept
<1>13. SeenKept'
  <2> SUFFICES ASSUME NEW i \in DOMAIN sessions
               PROVE  /\ seen[i] \ Failed(i)' \subseteq ToSet(disk'[i].bin)
                      /\ ~cut /\ ~Damaged(i)' => seen[i] \ Failed(i)' \subseteq Readable(i)'
    BY <1>0 DEF SeenKept, Known, Down
  <2>1. i \in Ids \ {s} /\ i \in Known /\ ~Down BY <1>0, <1>1 DEF Known, Down
  <2> QED BY <1>2, <1>4, <1>5, <2>1 DEF StorageInv, SeenKept
<1> QED BY <1>6, <1>7, <1>8, <1>9, <1>10, <1>11, <1>12, <1>13

\* An index or a data file that is removed finds nothing.
LEMMA IndexedNothing == \A f : Indexed(<<>>, f) = {} /\ Indexed(f, <<>>) = {}
<1>1. Intact(<<>>) = <<>>
  <2>1. <<>> \in Seq({}) /\ Broken \notin ToSet(<<>>) BY EmptyQueueFacts
  <2> QED BY <2>1, IntactFacts
<1>2. DOMAIN <<>> = {} OBVIOUS
<1> QED BY <1>1, <1>2, EmptyQueueFacts DEF Indexed

\* A session that the removal leaves known, or makes known: it has its files and rows, or
\* all of the rows of its data file are among those that are lost.
LEMMA Survives ==
  ASSUME StorageInv, NEW removed, NEW spoilt, NEW stripped, Removal(removed, spoilt, stripped),
         NEW i \in Ids \ removed
  PROVE  /\ "dir" \in disk[i].parts => "dir" \in disk'[i].parts
         /\ disk'[i].parts \subseteq disk[i].parts /\ disk'[i].meta \in {disk[i].meta, NoMetadata}
         /\ i \notin spoilt => disk'[i] = disk[i] /\ Failed(i)' = Failed(i)
         /\ disk'[i].bin = disk[i].bin \/ RowsOfFile(i) \subseteq Failed(i)'
         /\ Failed(i) \subseteq Failed(i)' /\ Readable(i)' \subseteq Readable(i)
         /\ Readable(i) \subseteq Readable(i)' \union Failed(i)'
         /\ Failed(i)' \subseteq Failed(i) \union RowsOfFile(i)
         /\ recentRows'[i] = recentRows[i]
         /\ Kept(i) \subseteq Kept(i)'
         /\ Young(i) => Young(i)'
         /\ Quiet(i) => Quiet(i)'
         /\ seen[i] \ Failed(i) \subseteq ToSet(disk[i].bin) =>
              /\ seen[i] \ Failed(i)' \subseteq ToSet(disk'[i].bin)
              /\ (~Damaged(i) => seen[i] \ Failed(i) \subseteq Readable(i)) =>
                   (~Damaged(i)' => seen[i] \ Failed(i)' \subseteq Readable(i)')
<1>1. /\ StorageTypes /\ active \notin spoilt /\ stripped \subseteq {"bin", "idx", "meta"}
      /\ UNCHANGED <<writeQueue, batch, active>> /\ ui = "register" /\ active # 0
  BY DEF StorageInv, Removal, procVars, Posture
<1>2. recentRows'[i] = recentRows[i]
  <2>1. recentRows'[i] = IF i = active THEN {} ELSE recentRows[i] BY <1>1, RemovalFacts
  <2>2. i = active => recentRows[i] = {} BY <1>1 DEF StorageInv, Posture, Forgot
  <2> QED BY <2>1, <2>2
<1>3. /\ RowsIn(writeQueue', i) = RowsIn(writeQueue, i) /\ RowsIn(batch', i) = RowsIn(batch, i)
      /\ NoJobs(i)' = NoJobs(i)
  BY <1>1 DEF NoJobs, RowsIn
<1>4. Quiet(i) => active' # i BY <1>1 DEF Quiet
<1>5. /\ disk[i] \in Directories /\ disk[i].parts \subseteq Parts /\ seen[i] \subseteq Rows
      /\ Given(i) \subseteq Rows /\ Readable(i) \subseteq RowsOfFile(i)
  BY <1>1, ReadableRows DEF StorageTypes, RowsOfFile
<1>6. CASE i \notin spoilt
  <2>1. disk'[i] = disk[i] /\ Failed(i)' = Failed(i) BY <1>1, <1>6, RemovalFacts
  <2>2. /\ Readable(i)' = Readable(i) /\ Damaged(i)' = Damaged(i) /\ Kept(i)' = Kept(i)
        /\ (Young(i) => Young(i)') /\ (Quiet(i) => Quiet(i)')
    BY <1>2, <1>3, <1>4, <2>1, Same
  <2> QED BY <1>2, <2>1, <2>2
<1>7. CASE i \in spoilt
  <2>1. /\ disk'[i] = Without(disk[i], stripped)
        /\ Failed(i)' = Failed(i) \union
             (IF stripped \subseteq {"meta"} THEN {} ELSE Rows \intersect ToSet(disk[i].bin))
    BY <1>1, <1>7, RemovalFacts
  <2>2. /\ disk'[i].parts = disk[i].parts \ stripped
        /\ disk'[i].meta \in {disk[i].meta, NoMetadata}
        /\ disk'[i].bin = IF "bin" \in stripped THEN <<>> ELSE disk[i].bin
        /\ disk'[i].idx = IF "idx" \in stripped THEN <<>> ELSE disk[i].idx
    <3>1. disk'[i].meta = IF "meta" \in stripped THEN NoMetadata ELSE disk[i].meta
      BY <2>1 DEF Without
    <3> QED BY <2>1, <3>1 DEF Without
  <2>3. "dir" \notin stripped BY <1>1
  <2>4. CASE stripped \subseteq {"meta"}
    <3>1. /\ disk'[i].bin = disk[i].bin /\ disk'[i].idx = disk[i].idx /\ Failed(i)' = Failed(i)
          /\ "idx" \in disk'[i].parts <=> "idx" \in disk[i].parts
      BY <2>1, <2>2, <2>4
    <3>2. /\ Readable(i)' = Readable(i) /\ Damaged(i)' = Damaged(i) /\ Kept(i)' = Kept(i)
          /\ (Young(i) => Young(i)') /\ (Quiet(i) => Quiet(i)')
      BY <1>2, <1>3, <1>4, <3>1, Same
    <3> QED BY <1>2, <1>7, <2>2, <2>3, <3>1, <3>2
  <2>5. CASE ~(stripped \subseteq {"meta"})
    <3>1. Failed(i)' = Failed(i) \union RowsOfFile(i) BY <2>1, <2>5 DEF RowsOfFile
    <3>2. RowsOfFile(i)' \subseteq RowsOfFile(i)
      BY <2>2, EmptyQueueFacts DEF RowsOfFile
    <3>3. Readable(i)' \subseteq Readable(i)
      <4>1. Readable(i)' = Indexed(disk'[i].idx, disk'[i].bin) BY ReadableNext
      <4> QED BY <2>2, <4>1, IndexedNothing DEF Readable
    <3>4. Kept(i) \subseteq Kept(i)' /\ Given(i)' \subseteq Given(i) /\ recentRows[i] \subseteq Given(i)'
      BY <1>2, <1>3, <1>5, <3>1, <3>3, GivenNext DEF Kept, Given
    <3>5. RowsOfFile(i)' \subseteq Kept(i)' BY <3>1, <3>2, GivenNext
    <3>6. Young(i) => Young(i)'
      <4> SUFFICES ASSUME Young(i) PROVE Young(i)' OBVIOUS
      <4>1. Newest(Given(i), RecentCap) \subseteq recentRows[i] BY DEF Young
      <4>2. Newest(Given(i)', RecentCap) \subseteq recentRows[i]
        BY <1>5, <3>4, <4>1, Constants, NewestOfFewer
      <4> QED BY <1>2, <3>5, <4>2 DEF Young
    <3>7. Quiet(i) => Quiet(i)' BY <1>2, <1>3, <1>4, <3>5 DEF Quiet
    <3>8. seen[i] \ Failed(i) \subseteq ToSet(disk[i].bin) => seen[i] \ Failed(i)' = {}
      BY <1>5, <3>1 DEF RowsOfFile
    <3> QED BY <1>2, <1>5, <1>7, <2>2, <2>3, <3>1, <3>3, <3>4, <3>6, <3>7, <3>8
  <2> QED BY <2>4, <2>5
<1> QED BY <1>6, <1>7

LEMMA StartRegisterKeeps ==
  ASSUME StorageInv, StartRegister
  PROVE  /\ Posture' /\ Untouched' /\ Forgot' /\ Files' /\ Described' /\ RowsKept' /\ LoadKept'
         /\ SeenKept'
<1>a. PICK removed, spoilt, stripped : Removal(removed, spoilt, stripped) BY Registered
<1> PICK s : s = active OBVIOUS
<1>1. /\ StorageTypes /\ DOMAIN sessions \subseteq Ids /\ s \in Ids /\ s = started
      /\ s \notin DOMAIN sessions /\ mode = "running" /\ DOMAIN sessions \subseteq 1..started
      /\ started \in Nat /\ Ids \subseteq Nat /\ ui = "register" /\ ui' = "describe"
      /\ removed \subseteq DOMAIN sessions /\ spoilt \subseteq DOMAIN sessions
      /\ UNCHANGED <<writeQueue, batch, writer, position, copy, load, active, started, fresh,
                     mode, exits, seen, cut>>
  <2>1. /\ UNCHANGED <<writeQueue, batch, writer, position, copy, load, active, started, fresh,
                       mode, exits, seen, cut>>
        /\ s = active /\ ui = "register" /\ ui' = "describe"
        /\ removed \subseteq DOMAIN sessions /\ spoilt \subseteq DOMAIN sessions
    BY <1>a DEF Removal, procVars, modeVars
  <2>2. Posture /\ StorageTypes BY DEF StorageInv
  <2>3. /\ DOMAIN sessions \subseteq Ids /\ active \in Ids \union {0} /\ started \in 0..Recordings
        /\ mode \in {"running", "stopping", "stopped", "down"}
    BY <2>2 DEF StorageTypes
  <2>4. /\ active = started /\ active # 0 /\ active \notin DOMAIN sessions
        /\ DOMAIN sessions \subseteq 1..started /\ mode = "running"
    BY <2>1, <2>2, <2>3 DEF Posture
  <2>5. started \in Nat /\ Ids \subseteq Nat BY <2>3, Constants
  <2> QED BY <2>1, <2>2, <2>3, <2>4, <2>5
<1>2. /\ DOMAIN sessions' = (DOMAIN sessions \union {s}) \ removed /\ s \notin removed \union spoilt
      /\ sessions'[s] = [start |-> StartUtc[s], end |-> StartUtc[s], closed |-> FALSE]
      /\ \A i \in DOMAIN sessions \ removed : sessions'[i] = sessions[i]
  BY <1>a, <1>1 DEF Removal
<1>3. \A i \in removed : disk'[i] = NoDirectory /\ recentRows'[i] = {} /\ Failed(i)' = {}
  BY <1>a, <1>1, RemovalFacts
<1>4. \A i \in Ids \ removed :
        /\ "dir" \in disk[i].parts => "dir" \in disk'[i].parts
        /\ disk'[i].parts \subseteq disk[i].parts /\ disk'[i].meta \in {disk[i].meta, NoMetadata}
        /\ i \notin spoilt => disk'[i] = disk[i] /\ Failed(i)' = Failed(i)
        /\ disk'[i].bin = disk[i].bin \/ RowsOfFile(i) \subseteq Failed(i)'
        /\ Failed(i) \subseteq Failed(i)' /\ Readable(i) \subseteq Readable(i)' \union Failed(i)'
        /\ recentRows'[i] = recentRows[i]
        /\ Kept(i) \subseteq Kept(i)' /\ (Young(i) => Young(i)') /\ (Quiet(i) => Quiet(i)')
        /\ seen[i] \ Failed(i) \subseteq ToSet(disk[i].bin) =>
             /\ seen[i] \ Failed(i)' \subseteq ToSet(disk'[i].bin)
             /\ (~Damaged(i) => seen[i] \ Failed(i) \subseteq Readable(i)) =>
                  (~Damaged(i)' => seen[i] \ Failed(i)' \subseteq Readable(i)')
  BY <1>a, Survives
<1>5. Unused(s) BY <1>1 DEF Unused
<1>6. /\ NoJobs(s) /\ seen[s] = {} /\ recentRows[s] = {} /\ Failed(s) = {}
      /\ disk[s] = StartParts
  <2>1. ~(s > started) BY <1>1
  <2> QED BY <1>1, <1>5, <2>1 DEF StorageInv, Untouched, Forgot
<1>7. disk'[s] = disk[s] /\ Failed(s)' = {} /\ recentRows'[s] = {} BY <1>1, <1>2, <1>4, <1>6
<1>8. \A i : NoJobs(i)' = NoJobs(i) BY <1>1 DEF NoJobs, RowsIn
<1>9. Young(s)'
  <2>1. disk'[s].bin = <<>> /\ disk'[s].idx = <<>> BY <1>6, <1>7, NoDirectoryType
  <2>2. Readable(s)' = {} /\ RowsOfFile(s)' = {}
    BY <2>1, EmptyQueueFacts, IndexedNothing DEF Readable, RowsOfFile
  <2>3. RowsIn(writeQueue', s) = {} /\ RowsIn(batch', s) = {} BY <1>1, <1>6 DEF NoJobs
  <2>4. Given(s)' = {} BY <1>7, <2>2, <2>3, GivenNext
  <2> QED BY <2>2, <2>4, NewestSubset DEF Young
<1>10. writer # "wait" => Job.session \in Ids \ {s} BY <1>1, <1>6, JobIsRow
<1>11. Job' = Job BY <1>1 DEF Job
<1>12. Posture'
  <2>1. DOMAIN sessions' \subseteq 1..started
    BY <1>1, <1>2, Constants
  <2>2. s \in DOMAIN sessions' /\ ~sessions'[s].closed BY <1>2
  <2> QED BY <1>1, <1>2, <2>1, <2>2 DEF StorageInv, Posture
<1>13. Untouched'
  <2> SUFFICES ASSUME NEW i \in Ids, i > started
               PROVE  NoJobs(i) /\ seen[i] = {} /\ disk'[i] = NoDirectory
    BY <1>1, <1>8 DEF Untouched, Unused
  <2>1. i \notin removed \union spoilt BY <1>1, Constants
  <2> QED BY <1>4, <2>1 DEF StorageInv, Untouched, Unused
<1>14. Forgot'
  <2> SUFFICES ASSUME NEW i \in Ids, i \notin DOMAIN sessions'
               PROVE  recentRows'[i] = {} /\ Failed(i)' = {}
    BY DEF Forgot
  <2>1. CASE i \in removed BY <1>3, <2>1
  <2>2. CASE i \notin removed
    <3>1. i \notin DOMAIN sessions /\ i # s /\ i \notin spoilt BY <1>1, <1>2, <2>2
    <3> QED BY <1>4, <2>2, <3>1 DEF StorageInv, Forgot
  <2> QED BY <2>1, <2>2
<1>15. Files'
  <2>1. \A i \in DOMAIN sessions' : "dir" \in disk'[i].parts
    <3> TAKE i \in DOMAIN sessions'
    <3>1. i \in Ids \ removed BY <1>1, <1>2
    <3>2. i = s \/ i \in DOMAIN sessions BY <1>2
    <3>3. "dir" \in disk[i].parts BY <1>6, <3>2, NoDirectoryType DEF StorageInv, Files
    <3> QED BY <1>4, <3>1, <3>3
  <2>2. \A i \in Ids : disk'[i].parts # {} => "dir" \in disk'[i].parts
    <3> TAKE i \in Ids
    <3>1. CASE i \in removed BY <1>3, <3>1, NoDirectoryType
    <3>2. CASE i \notin removed
      <4>1. disk[i].parts # {} => "dir" \in disk[i].parts BY DEF StorageInv, Files
      <4> QED BY <1>4, <3>2, <4>1
    <3> QED BY <3>1, <3>2
  <2>3. ASSUME writer \in {"bin", "idx", "copy", "meta"}, Job.session \notin DOMAIN sessions'
        PROVE  "dir" \notin disk'[Job.session].parts
    <3>1. Job.session \in Ids \ {s} BY <1>10, <2>3
    <3>2. CASE Job.session \in removed BY <1>3, <3>2, NoDirectoryType
    <3>3. CASE Job.session \notin removed
      <4>1. Job.session \notin DOMAIN sessions BY <1>2, <2>3, <3>3
      <4>2. "dir" \notin disk[Job.session].parts BY <2>3, <4>1 DEF StorageInv, Files, Exists
      <4> QED BY <1>4, <3>1, <3>3, <4>2
    <3> QED BY <3>2, <3>3
  <2>4. \A i \in Ids \ DOMAIN sessions' : "bin" \in disk'[i].parts => disk'[i].meta = NoMetadata
    <3> TAKE i \in Ids \ DOMAIN sessions'
    <3>1. CASE i \in removed BY <1>3, <3>1, NoDirectoryType
    <3>2. CASE i \notin removed
      <4>1. i \notin DOMAIN sessions BY <1>2, <3>2
      <4>2. "bin" \in disk[i].parts => disk[i].meta = NoMetadata
        BY <1>1, <4>1 DEF StorageInv, Files
      <4> QED BY <1>4, <3>2, <4>2
    <3> QED BY <3>1, <3>2
  <2> PICK t, r : t = Job.session /\ r = Job.row OBVIOUS
  <2>5. /\ Readable(Job.session)' = Readable(t)' /\ Failed(Job.session)' = Failed(t)'
        /\ Exists(Job.session)' <=> "dir" \in disk'[t].parts
    BY <1>11 DEF Readable, Failed, Exists
  <2>6. ASSUME writer # "wait", t \in DOMAIN sessions'
        PROVE  t \in DOMAIN sessions /\ t \in Ids \ removed /\ r \in Rows
    BY <1>1, <1>2, <1>10, <2>6, JobTypes
  <2>7. writer = "idx" /\ t \in DOMAIN sessions'
          => \/ position \in DOMAIN disk'[t].bin /\ disk'[t].bin[position] = r
             \/ r \in Failed(t)'
    <3> SUFFICES ASSUME writer = "idx", t \in DOMAIN sessions', r \notin Failed(t)'
                 PROVE  position \in DOMAIN disk'[t].bin /\ disk'[t].bin[position] = r
      OBVIOUS
    <3>1. r \notin Failed(t) BY <1>4, <2>6
    <3>2. position \in DOMAIN disk[t].bin /\ disk[t].bin[position] = r
      BY <2>6, <3>1 DEF StorageInv, Files
    <3>3. r \in RowsOfFile(t) BY <2>6, <3>2 DEF RowsOfFile, ToSet
    <3>4. disk'[t].bin = disk[t].bin BY <1>4, <2>6, <3>3
    <3> QED BY <3>2, <3>4
  <2>8. writer \in {"copy", "meta"} /\ t \in DOMAIN sessions' => r \in Readable(t)' \union Failed(t)'
    <3> SUFFICES ASSUME writer \in {"copy", "meta"}, t \in DOMAIN sessions'
                 PROVE  r \in Readable(t)' \union Failed(t)'
      OBVIOUS
    <3>1. r \in Readable(t) \union Failed(t) BY <2>6 DEF StorageInv, Files
    <3> QED BY <1>4, <2>6, <3>1
  <2> QED BY <1>1, <1>11, <2>1, <2>2, <2>3, <2>4, <2>5, <2>7, <2>8 DEF Files
<1>16. Described'
  <2>1. ASSUME NEW i \in DOMAIN sessions', disk'[i].meta # NoMetadata
        PROVE  Within(disk'[i].meta, sessions'[i])
    <3>1. i # s BY <1>6, <1>7, <2>1, NoDirectoryType
    <3>2. i \in DOMAIN sessions \ removed /\ i \in Ids \ removed BY <1>1, <1>2, <3>1
    <3>3. disk'[i].meta = disk[i].meta /\ sessions'[i] = sessions[i] BY <1>2, <1>4, <2>1, <3>2
    <3> QED BY <2>1, <3>2, <3>3 DEF StorageInv, Described
  <2>2. ASSUME writer = "meta", Job.session \in DOMAIN sessions'
        PROVE  Within(copy, sessions'[Job.session])
    <3>1. Job.session \in DOMAIN sessions \ removed BY <1>2, <1>10, <2>2
    <3> QED BY <1>2, <2>2, <3>1 DEF StorageInv, Described
  <2> QED BY <1>1, <1>11, <2>1, <2>2 DEF Described
<1>17. \A i \in DOMAIN sessions' : i = s \/ (i \in DOMAIN sessions /\ i \in Ids \ removed)
  BY <1>1, <1>2
<1>18. RowsKept'
  <2>1. ASSUME NEW i \in Ids PROVE recentRows'[i] \subseteq Kept(i)'
    <3>1. CASE i \in removed BY <1>3, <3>1
    <3>2. CASE i \notin removed BY <1>4, <3>2 DEF StorageInv, RowsKept
    <3> QED BY <3>1, <3>2
  <2>2. ASSUME NEW i \in DOMAIN sessions' PROVE Young(i)' \/ Quiet(i)'
    <3>1. CASE i = s BY <1>9, <3>1
    <3>2. CASE i \in DOMAIN sessions /\ i \in Ids \ removed
      BY <1>4, <3>2 DEF StorageInv, RowsKept
    <3> QED BY <1>17, <3>1, <3>2
  <2> QED BY <2>1, <2>2 DEF RowsKept
<1>19. LoadKept'
  <2>1. load.session \in DOMAIN sessions' => Young(load.session)' \/ load.given \subseteq load.readable
    <3> SUFFICES ASSUME load.session \in DOMAIN sessions'
                 PROVE  Young(load.session)' \/ load.given \subseteq load.readable
      OBVIOUS
    <3> PICK i : i = load.session OBVIOUS
    <3>1. Young(load.session)' <=> Young(i)'
      BY <1>1 DEF Young, RowsOfFile, Kept, Given, Readable, Failed, RowsIn
    <3>2. CASE i = s BY <1>9, <3>1, <3>2
    <3>3. CASE i \in DOMAIN sessions /\ i \in Ids \ removed
      BY <1>4, <3>1, <3>3 DEF StorageInv, LoadKept
    <3> QED BY <1>17, <3>2, <3>3
  <2> QED BY <1>1, <2>1 DEF StorageInv, LoadKept
<1>20. SeenKept'
  <2> SUFFICES ASSUME NEW i \in DOMAIN sessions'
               PROVE  /\ seen[i] \ Failed(i)' \subseteq ToSet(disk'[i].bin)
                      /\ ~cut /\ ~Damaged(i)' => seen[i] \ Failed(i)' \subseteq Readable(i)'
    BY <1>1 DEF SeenKept, Known, Down
  <2>1. CASE i = s BY <1>6, <2>1
  <2>2. CASE i \in DOMAIN sessions /\ i \in Ids \ removed
    <3>1. /\ seen[i] \ Failed(i) \subseteq ToSet(disk[i].bin)
          /\ ~cut /\ ~Damaged(i) => seen[i] \ Failed(i) \subseteq Readable(i)
      BY <1>1, <2>2 DEF StorageInv, SeenKept, Known, Down
    <3> QED BY <1>4, <2>2, <3>1
  <2> QED BY <1>17, <2>1, <2>2
<1> QED BY <1>12, <1>13, <1>14, <1>15, <1>16, <1>18, <1>19, <1>20

\* The end of startSession and of closeSession, for the metadata that is true of the session.
LEMMA DescribeKeeps ==
  ASSUME StorageInv, NEW s \in DOMAIN sessions, NEW m \in Metadata, Describe(s, m),
         Within(m, sessions[s]), s = active, ui # "idle", ui # "register", ui' = "idle",
         active' = 0 \/ (active' = active /\ ~sessions[s].closed),
         UNCHANGED <<memoryVars, procVars, started, fresh, modeVars, failed>>
  PROVE  /\ Posture' /\ Untouched' /\ Forgot' /\ Files' /\ Described' /\ RowsKept' /\ LoadKept'
         /\ SeenKept'
<1>1. /\ StorageTypes /\ DOMAIN sessions \subseteq Ids /\ s \in Ids /\ s = started
      /\ started \in Nat /\ Ids \subseteq Nat /\ mode = "running"
      /\ "dir" \in disk[s].parts
      /\ UNCHANGED <<sessions, recentRows, writeQueue, batch, writer, position, copy, load,
                     started, fresh, mode, exits, seen, cut, failed>>
  <2>1. StorageTypes /\ Posture /\ Files BY DEF StorageInv
  <2>2. started \in Nat /\ DOMAIN sessions \subseteq Ids /\ Ids \subseteq Nat
    BY <2>1, Constants DEF StorageTypes
  <2>3. s = started /\ mode = "running" BY <2>1 DEF Posture
  <2>4. "dir" \in disk[s].parts BY <2>1 DEF Files
  <2> QED BY <2>1, <2>2, <2>3, <2>4 DEF memoryVars, procVars, modeVars
<1>2. /\ \A j \in Ids \ {s} : disk'[j] = disk[j]
      /\ disk'[s].bin = disk[s].bin /\ disk'[s].idx = disk[s].idx
      /\ disk'[s].meta \in {disk[s].meta, m} /\ disk'[s].parts = disk[s].parts
  <2>1. StorageTypes /\ s \in Ids /\ m \in Metadata /\ Describe(s, m) BY <1>1
  <2>2. /\ \A j \in Ids \ {s} : disk'[j] = disk[j]
        /\ disk'[s].bin = disk[s].bin /\ disk'[s].idx = disk[s].idx
        /\ disk'[s].meta \in {disk[s].meta, m}
        /\ disk'[s].parts = disk[s].parts \union {"dir"}
    <3> HIDE DEF StorageTypes, Metadata, Describe, Ids
    <3> QED BY ONLY <2>1, DescribeTypes
  <2>3. "dir" \in disk[s].parts BY <1>1
  <2> QED BY <2>2, <2>3
<1>3. \A i \in Ids : /\ disk'[i].bin = disk[i].bin /\ disk'[i].idx = disk[i].idx
                     /\ disk'[i].parts = disk[i].parts
  BY <1>2
<1>4. \A i : Failed(i)' = Failed(i) /\ NoJobs(i)' = NoJobs(i) BY <1>1 DEF Failed, NoJobs, RowsIn
<1>5. \A i \in Ids :
        /\ Readable(i)' = Readable(i) /\ Scanned(i)' = Scanned(i) /\ Damaged(i)' = Damaged(i)
        /\ Kept(i)' = Kept(i) /\ (Young(i) => Young(i)') /\ (Quiet(i) => Quiet(i)')
  <2> TAKE i \in Ids
  <2>1. Quiet(i) => active' # i BY <1>1, Constants DEF Quiet
  <2> QED BY <1>1, <1>3, <1>4, <2>1, Same
<1>6. Job' = Job BY <1>1 DEF Job
<1>7. Posture' BY <1>1 DEF StorageInv, Posture
<1>8. Untouched'
  <2> SUFFICES ASSUME NEW i \in Ids, i > started
               PROVE NoJobs(i) /\ seen[i] = {} /\ disk'[i] = NoDirectory
    BY <1>1, <1>4 DEF Untouched, Unused
  <2>1. i # s BY <1>1
  <2> QED BY <1>2, <2>1 DEF StorageInv, Untouched, Unused
<1>9. Forgot' BY <1>1, <1>4 DEF StorageInv, Forgot
<1>10. Files'
  <2>1. writer # "wait" => Job.session \in Ids BY <1>1, JobIsRow
  <2>2. writer # "wait" => /\ disk'[Job.session].bin = disk[Job.session].bin
                           /\ Exists(Job.session)' <=> Exists(Job.session)
                           /\ Readable(Job.session)' = Readable(Job.session)
                           /\ Failed(Job.session)' = Failed(Job.session)
    BY <1>1, <1>3, <1>6, <2>1 DEF Exists, Readable, Failed
  <2>3. \A i \in Ids \ DOMAIN sessions : "bin" \in disk'[i].parts => disk'[i].meta = NoMetadata
    BY <1>1, <1>2 DEF StorageInv, Files
  <2>4. /\ \A i \in DOMAIN sessions : "dir" \in disk'[i].parts
        /\ \A i \in Ids : disk'[i].parts # {} => "dir" \in disk'[i].parts
    BY <1>1, <1>3 DEF StorageInv, Files
  <2> QED BY <1>1, <1>6, <2>2, <2>3, <2>4 DEF StorageInv, Files
<1>11. Described'
  <2>1. ASSUME NEW i \in DOMAIN sessions, disk'[i].meta # NoMetadata
        PROVE  Within(disk'[i].meta, sessions[i])
    BY <1>1, <1>2, <2>1 DEF StorageInv, Described
  <2> QED BY <1>1, <1>6, <2>1 DEF StorageInv, Described
<1>12. RowsKept' BY <1>1, <1>5 DEF StorageInv, RowsKept
<1>13. LoadKept' BY <1>1, <1>5 DEF StorageInv, LoadKept
<1>14. SeenKept' BY <1>1, <1>3, <1>4, <1>5 DEF StorageInv, SeenKept, Known, Down
<1> QED BY <1>7, <1>8, <1>9, <1>10, <1>11, <1>12, <1>13, <1>14

LEMMA WithinItself == \A m \in Metadata : Within(m, m)
BY DEF Metadata, Within

LEMMA DescribesKeep ==
  ASSUME StorageInv, StartDescribe \/ CloseDescribe
  PROVE  /\ Posture' /\ Untouched' /\ Forgot' /\ Files' /\ Described' /\ RowsKept' /\ LoadKept'
         /\ SeenKept'
<1> PICK s : s = active OBVIOUS
<1>1. /\ s \in DOMAIN sessions /\ ui # "idle" /\ ui # "register" /\ ui' = "idle"
      /\ UNCHANGED <<memoryVars, procVars, started, fresh, modeVars, failed>>
      /\ s \in Ids
  BY DEF StorageInv, StorageTypes, Posture, StartDescribe, CloseDescribe
<1>2. sessions[s] \in Metadata
  <2> HIDE DEF Metadata
  <2> QED BY <1>1 DEF StorageInv, StorageTypes
<1>3. Within(sessions[s], sessions[s]) BY <1>2, WithinItself
<1>4. CASE StartDescribe
  <2>1. Describe(s, sessions[s]) /\ active' = active /\ ~sessions[s].closed
    <3>1. sessions[active] = [start |-> StartUtc[active], end |-> StartUtc[active], closed |-> FALSE]
      BY <1>4 DEF StartDescribe, StorageInv, Posture
    <3>2. Describe(active, sessions[active]) BY <1>4, <3>1 DEF StartDescribe
    <3> QED BY <1>4, <3>1, <3>2 DEF StartDescribe
  <2> QED BY <1>1, <1>2, <1>3, <2>1, DescribeKeeps
<1>5. CASE CloseDescribe
  <2>1. Describe(s, sessions[s]) /\ active' = 0
    <3>1. Describe(active, sessions[active]) BY <1>5 DEF CloseDescribe
    <3> QED BY <1>5, <3>1 DEF CloseDescribe
  <2> QED BY <1>1, <1>2, <1>3, <2>1, DescribeKeeps
<1> QED BY <1>4, <1>5

\* A step that leaves the files, the writer and what is known alone.
LEMMA FilesStay ==
  ASSUME StorageInv, DOMAIN sessions' = DOMAIN sessions, mode' = "down" <=> mode = "down",
         UNCHANGED <<disk, writer, batch, position, failed>>
  PROVE  /\ Files'
         /\ \A i : Failed(i)' = Failed(i) /\ Readable(i)' = Readable(i) /\ Damaged(i)' = Damaged(i)
         /\ \A i : RowsIn(batch', i) = RowsIn(batch, i)
         /\ Job' = Job
<1>1. \A i : Failed(i)' = Failed(i) /\ Readable(i)' = Readable(i) /\ Damaged(i)' = Damaged(i)
  BY DEF Failed, Readable, Damaged
<1>2. Job' = Job BY DEF Job
<1>3. /\ Failed(Job.session)' = Failed(Job.session)
      /\ Readable(Job.session)' = Readable(Job.session)
      /\ Exists(Job.session)' <=> Exists(Job.session)
  BY <1>2 DEF Failed, Readable, Exists
<1>4. Files' BY <1>2, <1>3 DEF StorageInv, Files
<1> QED BY <1>1, <1>2, <1>4

\* What appendRow leaves in memory are the newest of the rows that the session has.
LEMMA RememberNewest ==
  ASSUME NEW H \in SUBSET Rows, NEW T \in SUBSET H, NEW r \in Rows,
         Newest(H, RecentCap) \subseteq T
  PROVE  Newest(H \union {r}, RecentCap) \subseteq Remember(T, r)
<1> SUFFICES ASSUME NEW q \in Newest(H \union {r}, RecentCap) PROVE q \in Remember(T, r)
  OBVIOUS
<1>1. /\ H \union {r} \subseteq Nat /\ IsFiniteSet(H \union {r}) /\ RecentCap \in Nat
      /\ H \in SUBSET (H \union {r}) /\ T \union {r} \in SUBSET (H \union {r})
  <2>1. H \union {r} \subseteq Rows OBVIOUS
  <2>2. IsFiniteSet(H \union {r}) BY <2>1, Constants, FS_Subset
  <2>3. H \union {r} \subseteq Nat /\ RecentCap \in Nat BY <2>1, Constants
  <2> QED BY <2>2, <2>3
<1>2. q \in T \union {r}
  <2>1. CASE q \in H
    <3>1. q \in Newest(H, RecentCap) BY <1>1, <2>1, FewerNewer
    <3> QED BY <3>1
  <2>2. CASE q = r BY <2>2
  <2> QED BY <2>1, <2>2, NewestSubset
<1>3. q \in Newest(T \union {r}, RecentCap) BY <1>1, <1>2, FewerNewer
<1> QED BY <1>3 DEF Remember

LEMMA AppendRowKeeps ==
  ASSUME StorageInv, AppendRow
  PROVE  /\ Posture' /\ Untouched' /\ Forgot' /\ Files' /\ Described' /\ RowsKept' /\ LoadKept'
         /\ SeenKept'
         /\ Held(active)' = Held(active) \union (fresh \ fresh')
         /\ \A i \in DOMAIN sessions \ {active} : Held(i)' = Held(i)
<1>1. PICK r \in fresh :
        /\ fresh' = fresh \ {r}
        /\ recentRows' = [recentRows EXCEPT ![active] = Remember(@, r)]
        /\ sessions' = [sessions EXCEPT ![active].start = Sooner(@, r),
                                        ![active].end = Later(@, r)]
        /\ writeQueue' = Append(writeQueue, [session |-> active, row |-> r])
  BY DEF AppendRow
<1> PICK s : s = active OBVIOUS
<1>2. /\ StorageTypes /\ DOMAIN sessions \subseteq Ids /\ s \in Ids /\ s \in DOMAIN sessions
      /\ s = started /\ r \in Rows /\ r \in Nat /\ Ids \subseteq Nat
      /\ ui = "idle" /\ mode = "running" /\ ~sessions[s].closed /\ fresh \ fresh' = {r}
      /\ UNCHANGED <<batch, writer, position, copy, load, ui, active, started, disk, mode, exits,
                     seen, cut, failures, failed>>
  <2>1. StorageTypes /\ Posture /\ fresh \subseteq Rows /\ DOMAIN sessions \subseteq Ids
    BY DEF StorageInv, StorageTypes
  <2>2. /\ mode = "running" /\ ui = "idle" /\ s # 0
        /\ UNCHANGED <<batch, writer, position, copy, load, ui, active, started, disk, modeVars,
                       faultVars>>
    BY DEF AppendRow
  <2>3. s = started /\ s \in DOMAIN sessions /\ ~sessions[s].closed BY <2>1, <2>2 DEF Posture
  <2>4. fresh \ fresh' = {r} BY <1>1
  <2>5. r \in Rows /\ r \in Nat /\ Ids \subseteq Nat BY <1>1, <2>1, Constants
  <2> QED BY <2>1, <2>2, <2>3, <2>4, <2>5 DEF modeVars, faultVars
<1>3. sessions[s] \in Metadata /\ sessions \in [DOMAIN sessions -> Metadata]
  <2> HIDE DEF Metadata
  <2> QED BY <1>2 DEF StorageTypes
<1>4. /\ DOMAIN sessions' = DOMAIN sessions
      /\ \A i \in DOMAIN sessions \ {s} : sessions'[i] = sessions[i]
      /\ sessions'[s] = [sessions[s] EXCEPT !.start = Sooner(@, r), !.end = Later(@, r)]
  <2> HIDE DEF Metadata
  <2> QED BY <1>1, <1>2, <1>3
<1>5. /\ sessions'[s].closed = sessions[s].closed
      /\ sessions'[s].start <= sessions[s].start /\ sessions[s].end <= sessions'[s].end
  BY <1>2, <1>3, <1>4 DEF Metadata, Sooner, Later
<1>6. /\ Files' /\ Job' = Job
      /\ \A i : Failed(i)' = Failed(i) /\ Readable(i)' = Readable(i) /\ Damaged(i)' = Damaged(i)
      /\ \A i : RowsIn(batch', i) = RowsIn(batch, i)
  BY <1>2, <1>4, FilesStay
<1>7. /\ RowsIn(writeQueue', s) = RowsIn(writeQueue, s) \union {r}
      /\ \A i \in Ids \ {s} : RowsIn(writeQueue', i) = RowsIn(writeQueue, i)
  <2>1. writeQueue \in Seq(Jobs) BY <1>2 DEF StorageTypes
  <2>2. writeQueue' = Append(writeQueue, [session |-> s, row |-> r]) BY <1>1
  <2>3. \A i \in Ids : RowsIn(Append(writeQueue, [session |-> s, row |-> r]), i)
                        = RowsIn(writeQueue, i) \union (IF i = s THEN {r} ELSE {})
    BY <1>2, <2>1, RowsInAppend
  <2>4. \A i \in Ids : RowsIn(writeQueue', i)
                        = RowsIn(writeQueue, i) \union (IF i = s THEN {r} ELSE {})
    BY <2>2, <2>3
  <2> QED BY <1>2, <2>4
<1>8. /\ recentRows'[s] = Remember(recentRows[s], r)
      /\ \A i \in Ids \ {s} : recentRows'[i] = recentRows[i]
      /\ recentRows[s] \subseteq Kept(s)
  BY <1>1, <1>2 DEF StorageInv, RowsKept, StorageTypes
<1>9. \A i \in Ids \ {s} :
        /\ Kept(i)' = Kept(i) /\ Held(i)' = Held(i) /\ NoJobs(i)' = NoJobs(i)
        /\ (Young(i) => Young(i)') /\ (Quiet(i) => Quiet(i)')
  BY <1>2, <1>6, <1>7, <1>8, Same DEF Quiet
<1>10. /\ Kept(s)' = Kept(s) \union {r} /\ recentRows'[s] \subseteq Kept(s)'
       /\ Held(s) = Kept(s) /\ Held(s)' = Held(s) \union {r}
  <2>1. Kept(s)' = Kept(s) \union {r} BY <1>6, <1>7, GivenNext DEF Kept
  <2>2. recentRows'[s] \subseteq recentRows[s] \union {r} BY <1>8, NewestSubset DEF Remember
  <2>3. Held(s) = Kept(s) /\ Held(s)' = Kept(s)'
    <3>1. Held(s) = recentRows[s] \union Kept(s) /\ Held(s)' = recentRows'[s] \union Kept(s)'
      BY GivenNext
    <3> QED BY <1>8, <2>1, <2>2, <3>1
  <2> QED BY <1>8, <2>1, <2>2, <2>3
<1>11. Young(s)'
  <2>1. Young(s) BY <1>2 DEF StorageInv, RowsKept, Quiet
  <2>2. RowsOfFile(s)' \subseteq Kept(s)' BY <1>2, <1>10, <2>1 DEF Young, RowsOfFile
  <2>3. /\ Given(s) \in SUBSET Rows /\ recentRows[s] \subseteq Given(s)
        /\ Newest(Given(s), RecentCap) \subseteq recentRows[s]
    BY <1>2, <2>1, ReadableRows DEF Given, Young
  <2>4. Newest(Given(s) \union {r}, RecentCap) \subseteq recentRows'[s]
    BY <1>2, <1>8, <2>3, RememberNewest
  <2>5. Given(s)' \subseteq Given(s) \union {r} /\ recentRows'[s] \subseteq Given(s)'
    <3>1. recentRows'[s] \subseteq recentRows[s] \union {r} BY <1>8, NewestSubset DEF Remember
    <3> QED BY <1>6, <1>7, <3>1, GivenNext DEF Given
  <2>6. Newest(Given(s)', RecentCap) \subseteq recentRows'[s]
    <3>1. /\ Given(s) \union {r} \in SUBSET Rows
          /\ Given(s)' \in SUBSET (Given(s) \union {r})
          /\ recentRows'[s] \in SUBSET Given(s)'
      BY <1>2, <2>3, <2>5
    <3> QED BY <2>4, <3>1, Constants, NewestOfFewer
  <2> QED BY <2>2, <2>6 DEF Young
<1>12. Posture' BY <1>2, <1>4, <1>5 DEF StorageInv, Posture
<1>13. Untouched'
  <2> SUFFICES ASSUME NEW i \in Ids, i > started
               PROVE NoJobs(i)' /\ seen[i] = {} /\ disk[i] = NoDirectory
    BY <1>2 DEF Untouched, Unused
  <2>1. i # s BY <1>2
  <2> QED BY <1>9, <2>1 DEF StorageInv, Untouched, Unused
<1>14. Forgot' BY <1>2, <1>4, <1>6, <1>8 DEF StorageInv, Forgot
<1>15. Described'
  <2>1. ASSUME NEW m \in Metadata, NEW i \in DOMAIN sessions, Within(m, sessions[i])
        PROVE  Within(m, sessions'[i])
    <3>1. CASE i = s
      <4>1. sessions'[s].start \in Nat /\ sessions'[s].end \in Nat
        BY <1>2, <1>3, <1>4 DEF Metadata, Sooner, Later
      <4> QED BY <1>3, <1>5, <2>1, <3>1, <4>1 DEF Within, Metadata
    <3>2. CASE i # s BY <1>4, <2>1, <3>2
    <3> QED BY <3>1, <3>2
  <2>2. copy \in Metadata /\ \A i \in Ids : disk[i].meta \in Metadata
    BY <1>2, ReadableRows DEF StorageTypes
  <2>3. \A i \in DOMAIN sessions :
          disk[i].meta # NoMetadata => Within(disk[i].meta, sessions'[i])
    BY <1>2, <2>1, <2>2 DEF StorageInv, Described
  <2>4. writer = "meta" /\ Job.session \in DOMAIN sessions => Within(copy, sessions'[Job.session])
    BY <2>1, <2>2 DEF StorageInv, Described
  <2> QED BY <1>2, <1>4, <1>6, <2>3, <2>4 DEF Described
<1>16. RowsKept'
  <2>1. \A i \in Ids : recentRows'[i] \subseteq Kept(i)'
    BY <1>8, <1>9, <1>10 DEF StorageInv, RowsKept
  <2> QED BY <1>2, <1>4, <1>9, <1>11, <2>1 DEF StorageInv, RowsKept
<1>17. LoadKept' BY <1>2, <1>4, <1>9, <1>11 DEF StorageInv, LoadKept
<1>18. SeenKept' BY <1>2, <1>4, <1>6 DEF StorageInv, SeenKept, Known, Down
<1>19. Held(active)' = Held(s)'
  <2>1. active' = s BY <1>2
  <2> QED BY <2>1
<1> QED BY <1>2, <1>6, <1>9, <1>10, <1>12, <1>13, <1>14, <1>15, <1>16, <1>17, <1>18, <1>19

LEMMA CloseSessionKeeps ==
  ASSUME StorageInv, CloseSession
  PROVE  /\ Posture' /\ Untouched' /\ Forgot' /\ Files' /\ Described' /\ RowsKept' /\ LoadKept'
         /\ SeenKept'
         /\ \A i \in DOMAIN sessions : Held(i)' = Held(i)
<1>1. PICK end \in {StartUtc[active]} \union recentRows[active] :
        sessions' = [sessions EXCEPT ![active].end = Later(@, end), ![active].closed = TRUE]
  BY DEF CloseSession
<1> PICK s : s = active OBVIOUS
<1>2. /\ StorageTypes /\ DOMAIN sessions \subseteq Ids /\ s \in Ids /\ s \in DOMAIN sessions
      /\ s = started /\ end \in Nat /\ Ids \subseteq Nat
      /\ ui = "idle" /\ mode = "running" /\ ui' = "close"
      /\ UNCHANGED <<recentRows, writeQueue, batch, writer, position, copy, load, active, started,
                     fresh, disk, mode, exits, seen, cut, failures, failed>>
  <2>1. StorageTypes /\ Posture BY DEF StorageInv
  <2>2. /\ ui = "idle" /\ mode = "running" /\ ui' = "close" /\ active # 0
        /\ UNCHANGED <<recentRows, writeQueue, batch, writer, position, copy, load, active,
                       started, fresh, disk, mode, exits, seen, cut, failures, failed>>
    BY DEF CloseSession, procVars, modeVars, faultVars
  <2>3. s = started /\ s \in DOMAIN sessions BY <2>1, <2>2 DEF Posture
  <2>4. DOMAIN sessions \subseteq Ids /\ Ids \subseteq Nat BY <2>1, Constants DEF StorageTypes
  <2>5. end \in Nat
    <3>1. recentRows[s] \subseteq Nat /\ StartUtc[s] \in Nat
      BY <2>1, <2>3, <2>4, Constants DEF StorageTypes
    <3> QED BY <1>1, <3>1
  <2> QED BY <2>1, <2>2, <2>3, <2>4, <2>5
<1>3. sessions[s] \in Metadata /\ sessions \in [DOMAIN sessions -> Metadata]
  <2> HIDE DEF Metadata
  <2> QED BY <1>2 DEF StorageTypes
<1>4. /\ DOMAIN sessions' = DOMAIN sessions
      /\ \A i \in DOMAIN sessions \ {s} : sessions'[i] = sessions[i]
      /\ sessions'[s] = [sessions[s] EXCEPT !.end = Later(@, end), !.closed = TRUE]
  <2> HIDE DEF Metadata
  <2> QED BY <1>1, <1>2, <1>3
<1>5. /\ Files' /\ Job' = Job
      /\ \A i : Failed(i)' = Failed(i) /\ Readable(i)' = Readable(i) /\ Damaged(i)' = Damaged(i)
      /\ \A i : RowsIn(batch', i) = RowsIn(batch, i)
  BY <1>2, <1>4, FilesStay
<1>6. \A i \in Ids :
        /\ Kept(i)' = Kept(i) /\ Held(i)' = Held(i) /\ NoJobs(i)' = NoJobs(i)
        /\ (Young(i) => Young(i)') /\ (Quiet(i) => Quiet(i)')
  BY <1>2, <1>5, Same DEF Quiet
<1>7. Posture'
  <2>1. DOMAIN sessions' = DOMAIN sessions /\ s # 0 BY <1>2, <1>4, Constants
  <2> QED BY <1>2, <2>1 DEF StorageInv, Posture
<1>8. Untouched' BY <1>2, <1>6 DEF StorageInv, Untouched, Unused
<1>9. Forgot' BY <1>2, <1>4, <1>5 DEF StorageInv, Forgot
<1>10. Described'
  <2>1. ASSUME NEW m \in Metadata, NEW i \in DOMAIN sessions, Within(m, sessions[i])
        PROVE  Within(m, sessions'[i])
    <3>1. CASE i = s
      <4>1. /\ sessions'[s].start = sessions[s].start /\ sessions'[s].closed
            /\ sessions'[s].end = Later(sessions[s].end, end)
            /\ sessions[s].start \in Nat /\ sessions[s].end \in Nat /\ m.end \in Nat
        BY <1>3, <1>4 DEF Metadata
      <4> QED BY <1>2, <2>1, <3>1, <4>1 DEF Within, Later
    <3>2. CASE i # s BY <1>4, <2>1, <3>2
    <3> QED BY <3>1, <3>2
  <2>2. copy \in Metadata /\ \A i \in Ids : disk[i].meta \in Metadata
    BY <1>2, ReadableRows DEF StorageTypes
  <2>3. \A i \in DOMAIN sessions :
          disk[i].meta # NoMetadata => Within(disk[i].meta, sessions'[i])
    BY <1>2, <2>1, <2>2 DEF StorageInv, Described
  <2>4. writer = "meta" /\ Job.session \in DOMAIN sessions => Within(copy, sessions'[Job.session])
    BY <2>1, <2>2 DEF StorageInv, Described
  <2> QED BY <1>2, <1>4, <1>5, <2>3, <2>4 DEF Described
<1>11. RowsKept' BY <1>2, <1>4, <1>6 DEF StorageInv, RowsKept
<1>12. LoadKept' BY <1>2, <1>4, <1>6 DEF StorageInv, LoadKept
<1>13. SeenKept' BY <1>2, <1>4, <1>5 DEF StorageInv, SeenKept, Known, Down
<1> QED BY <1>2, <1>5, <1>6, <1>7, <1>8, <1>9, <1>10, <1>11, <1>12, <1>13

-----------------------------------------------------------------------------
(* The invariant is inductive: the loader, the end of the process, its start. *)

\* A row that could be read is found, unless the index names enough newer ones.
LEMMA SelectedFinds ==
  ASSUME StorageTypes, NEW i \in Ids, NEW query \in [from : Nat, to : Nat, maxRows : Nat],
         NEW records, records = Selected(query, disk[i].idx),
         NEW r \in InRange(query, Readable(i))
  PROVE  \/ r \in {RowAt(disk[i].bin, e.at) : e \in records} \ {Torn}
         \/ /\ query.maxRows # 0
            /\ Cardinality({q \in {e.row : e \in records} : q > r}) >= query.maxRows
<1> PICK n : n = query.maxRows OBVIOUS
<1> DEFINE here == {e \in ToSet(Intact(disk[i].idx)) : InRange(query, {e.row}) # {}}
           named == {e.row : e \in here}
<1>1. n \in Nat /\ disk[i].bin \in Seq(Records) /\ disk[i].idx \in Seq(Entries)
  BY ReadableRows
<1>2. named \in SUBSET Rows
  <2> SUFFICES ASSUME NEW e \in ToSet(Intact(disk[i].idx)) PROVE e.row \in Rows
    OBVIOUS
  <2>1. Intact(disk[i].idx) \in Seq(Entries) /\ e # Broken BY <1>1, IntactFacts
  <2>2. e \in Entries BY <2>1, <1>1, Members, LenProperties
  <2> QED BY <2>1, <2>2, EntryFacts
<1>3. named \subseteq Nat /\ IsFiniteSet(named) BY <1>2, Constants, FS_Subset
<1>4. r \in Readable(i) /\ r \in InRange(query, {r}) /\ r \in Rows /\ r \in Nat /\ r # 0
  BY ReadableRows, Constants DEF InRange
<1>5. PICK e \in ToSet(Intact(disk[i].idx)) :
        e.at \in DOMAIN disk[i].bin /\ disk[i].bin[e.at] = e.row /\ e.row = r
  BY <1>4 DEF Readable, Indexed
<1>6. e \in here /\ r \in named BY <1>4, <1>5
<1>7. records = {f \in here : f.row \in Newest(named, n)} BY DEF Selected
<1>8. {f.row : f \in records} = Newest(named, n)
  <2>1. Newest(named, n) \subseteq named BY NewestSubset
  <2> QED BY <1>7, <2>1
<1> HIDE DEF here, named
<1>9. CASE r \in Newest(named, n)
  <2>1. e \in records BY <1>5, <1>6, <1>7, <1>9
  <2>2. RowAt(disk[i].bin, e.at) = r BY <1>4, <1>5 DEF RowAt, Later, Torn
  <2> QED BY <1>4, <2>1, <2>2 DEF Torn
<1>10. CASE r \notin Newest(named, n)
  <2>1. n # 0 /\ ~(Cardinality({q \in named : q > r}) < n) BY <1>6, <1>10 DEF Newest
  <2>2. Cardinality({q \in named : q > r}) \in Nat BY <1>3, FS_Subset, FS_CardinalityType
  <2>3. Cardinality({q \in named : q > r}) >= n BY <1>1, <2>1, <2>2
  <2>4. Cardinality({q \in Newest(named, n) : q > r}) >= n
    BY <1>1, <1>3, <1>4, <2>1, <2>3, EnoughNewer
  <2> QED BY <1>8, <2>1, <2>4
<1> QED BY <1>9, <1>10

LEMMA LoaderKeeps ==
  ASSUME StorageInv, LoadFiles \/ LoadRecent \/ Stop \/ WriterExit
  PROVE  /\ Posture' /\ Untouched' /\ Forgot' /\ Files' /\ Described' /\ RowsKept' /\ LoadKept'
         /\ SeenKept'
         /\ \A i : Held(i)' = Held(i)
<1>1. /\ StorageTypes /\ DOMAIN sessions \subseteq Ids /\ mode \in {"running", "stopping"}
      /\ mode' # "down" /\ mode # "down"
      /\ UNCHANGED <<sessions, recentRows, writeQueue, batch, writer, position, copy, ui, active,
                     started, fresh, disk, exits, seen, cut, failures, failed>>
  BY DEF StorageInv, StorageTypes, LoadFiles, LoadRecent, Stop, WriterExit, memoryVars,
         procVars, uiVars, modeVars, faultVars
<1>2. /\ Files' /\ Job' = Job
      /\ \A i : Failed(i)' = Failed(i) /\ Readable(i)' = Readable(i) /\ Damaged(i)' = Damaged(i)
      /\ \A i : RowsIn(batch', i) = RowsIn(batch, i)
  BY <1>1, FilesStay
<1>3. \A i :
        /\ Kept(i)' = Kept(i) /\ Held(i)' = Held(i) /\ NoJobs(i)' = NoJobs(i)
        /\ (Young(i) => Young(i)') /\ (Quiet(i) => Quiet(i)')
  BY <1>1, <1>2, Same DEF Quiet
<1>4. Untouched' BY <1>1, <1>3 DEF StorageInv, Untouched, Unused
<1>5. Forgot' BY <1>1, <1>2 DEF StorageInv, Forgot
<1>6. Described' BY <1>1, <1>2 DEF StorageInv, Described
<1>7. RowsKept' BY <1>1, <1>3 DEF StorageInv, RowsKept
<1>8. SeenKept' BY <1>1, <1>2 DEF StorageInv, SeenKept, Known, Down
<1>9. Posture' /\ LoadKept'
  <2>1. CASE LoadFiles
    <3>a. PICK i \in DOMAIN sessions, query \in Queries :
            load' = [session |-> i, query |-> query,
                     named |-> {e.row : e \in Selected(query, disk[i].idx)},
                     found |-> {RowAt(disk[i].bin, e.at) : e \in Selected(query, disk[i].idx)}
                                 \ {Torn},
                     readable |-> InRange(query, Readable(i)),
                     given |-> InRange(query, Given(i))]
      BY <2>1 DEF LoadFiles
    <3> PICK records : records = Selected(query, disk[i].idx) OBVIOUS
    <3>1. /\ records = Selected(query, disk[i].idx)
          /\ load' = [session |-> i, query |-> query, named |-> {e.row : e \in records},
                      found |-> {RowAt(disk[i].bin, e.at) : e \in records} \ {Torn},
                      readable |-> InRange(query, Readable(i)),
                      given |-> InRange(query, Given(i))]
      BY <3>a
    <3>2. i \in Ids /\ query \in [from : Nat, to : Nat, maxRows : Nat] BY <1>1, Constants
    <3>3. load'.given \subseteq InRange(load'.query, Rows)
      <4>1. Given(i) \subseteq Rows BY <1>1, <3>2, ReadableRows
      <4> QED BY <3>1, <4>1 DEF InRange
    <3>4. \A r \in InRange(query, Readable(i)) :
            \/ r \in {RowAt(disk[i].bin, e.at) : e \in records} \ {Torn}
            \/ /\ query.maxRows # 0
               /\ Cardinality({q \in {e.row : e \in records} : q > r}) >= query.maxRows
      BY <1>1, <3>1, <3>2, SelectedFinds
    <3>5. Young(i)' \/ load'.given \subseteq load'.readable
      <4>1. CASE Young(i) BY <1>3, <4>1
      <4>2. CASE Quiet(i)
        <5>1. Given(i) = Readable(i) BY <4>2 DEF Quiet, NoJobs, Given
        <5> QED BY <3>1, <5>1
      <4> QED BY <4>1, <4>2 DEF StorageInv, RowsKept
    <3>6. LoadKept'
      <4>1. load'.session = i /\ load'.query = query /\ load'.named = {e.row : e \in records}
            /\ load'.found = {RowAt(disk[i].bin, e.at) : e \in records} \ {Torn}
            /\ load'.readable = InRange(query, Readable(i))
        BY <3>1
      <4>2. \A r \in load'.readable :
              \/ r \in load'.found
              \/ /\ load'.query.maxRows # 0
                 /\ Cardinality({q \in load'.named : q > r}) >= load'.query.maxRows
        BY <3>4, <4>1
      <4>3. /\ Readable(load.session)' = Readable(i)' /\ Failed(load.session)' = Failed(i)'
            /\ RowsOfFile(load.session)' = RowsOfFile(i)'
            /\ RowsIn(writeQueue, load.session)' = RowsIn(writeQueue, i)'
            /\ RowsIn(batch, load.session)' = RowsIn(batch, i)'
        BY <4>1 DEF RowsOfFile, Readable, Failed, RowsIn
      <4>4. /\ Given(load.session)' = Given(i)' /\ Kept(load.session)' = Kept(i)'
            /\ recentRows'[load'.session] = recentRows'[i]
        BY <4>1, <4>3 DEF Given, Kept
      <4>5. Young(load.session)' <=> Young(i)' BY <4>3, <4>4 DEF Young
      <4>6. load'.session \in DOMAIN sessions'
              => Young(load.session)' \/ load'.given \subseteq load'.readable
        BY <3>5, <4>5
      <4> QED BY <3>3, <4>2, <4>6 DEF LoadKept
    <3>7. mode' = "running" BY <2>1 DEF LoadFiles, modeVars
    <3> QED BY <1>1, <3>6, <3>7 DEF StorageInv, Posture
  <2>2. CASE LoadRecent
    <3>1. load' = NoLoad /\ mode' = mode /\ mode = "running" BY <2>2 DEF LoadRecent, modeVars
    <3>2. LoadKept' BY <1>1, <3>1, Constants DEF LoadKept, NoLoad
    <3> QED BY <1>1, <3>1, <3>2 DEF StorageInv, Posture
  <2>3. CASE Stop
    <3>1. load' = load /\ mode' = "stopping" /\ load = NoLoad /\ ui = "idle"
      BY <2>3 DEF Stop, procVars
    <3> QED BY <1>1, <1>3, <3>1 DEF StorageInv, Posture, LoadKept
  <2>4. CASE WriterExit
    <3>1. load' = load /\ mode' = "stopped" /\ writer = "wait" /\ writeQueue = <<>>
          /\ mode = "stopping"
      BY <2>4 DEF WriterExit, procVars
    <3> QED BY <1>1, <1>3, <3>1 DEF StorageInv, Posture, LoadKept
  <2> QED BY <2>1, <2>2, <2>3, <2>4
<1> QED BY <1>2, <1>3, <1>4, <1>5, <1>6, <1>7, <1>8, <1>9

\* What the end of the process may do to the disk.
LEMMA ExitDisk ==
  ASSUME StorageInv, Exit
  PROVE  \A i \in Ids :
           /\ disk'[i].meta = disk[i].meta /\ disk[i].parts \subseteq disk'[i].parts
           /\ disk'[i].parts # {} => "dir" \in disk'[i].parts
           /\ ToSet(disk[i].bin) \subseteq ToSet(disk'[i].bin)
           /\ Readable(i) \subseteq Readable(i)'
           /\ Readable(i)' \subseteq Readable(i) \union RowsIn(batch, i)
           /\ RowsOfFile(i)' \subseteq RowsOfFile(i) \union RowsIn(batch, i)
           /\ "bin" \in disk'[i].parts => i \in DOMAIN sessions \/ "bin" \in disk[i].parts
           /\ NoJobs(i) => disk'[i] = disk[i]
<1>1. StorageTypes BY DEF StorageInv
<1>2. CASE UNCHANGED disk
  <2> TAKE i \in Ids
  <2>1. Readable(i)' = Readable(i) /\ RowsOfFile(i)' = RowsOfFile(i)
    BY <1>2 DEF Readable, RowsOfFile
  <2>2. disk[i].parts # {} => "dir" \in disk[i].parts BY DEF StorageInv, Files
  <2> QED BY <1>2, <2>1, <2>2
<1>3. CASE writer \in {"bin", "idx"} /\ Exists(Job.session) /\ OneWrite
  <2> TAKE i \in Ids
  <2>1. writer # "wait" /\ writer # "look" BY <1>3
  <2> PICK s, r : s = Job.session /\ r = Job.row OBVIOUS
  <2>2. s \in Ids /\ ~NoJobs(s) /\ s \in DOMAIN sessions /\ "dir" \in disk[s].parts
    BY <1>1, <1>3, <2>1, JobIsRow, AtWork DEF Exists
  <2>3. /\ disk'[i].meta = disk[i].meta /\ disk[i].parts \subseteq disk'[i].parts
        /\ disk'[i].parts \subseteq disk[i].parts \union {"bin", "idx"}
        /\ i # s => disk'[i] = disk[i]
    BY <1>1, <1>3, <2>1, OneWriteTypes
  <2>4. /\ Readable(i) \subseteq Readable(i)' /\ Readable(i)' \subseteq Readable(i) \union {r}
        /\ ToSet(disk[i].bin) \subseteq ToSet(disk'[i].bin)
        /\ RowsOfFile(i)' \subseteq RowsOfFile(i) \union {r}
    BY <1>1, <1>3, <2>1, OneWriteRows
  <2>5. i = s => r \in RowsIn(batch, i) BY <1>1, <2>1, JobRows
  <2>6. i # s => Readable(i)' = Readable(i) /\ RowsOfFile(i)' = RowsOfFile(i)
    BY <2>3 DEF Readable, RowsOfFile
  <2>7. disk[i].parts # {} => "dir" \in disk[i].parts BY DEF StorageInv, Files
  <2> QED BY <2>2, <2>3, <2>4, <2>5, <2>6, <2>7
<1> QED BY <1>1, <1>2, <1>3, ExitWrites

LEMMA ExitKeeps ==
  ASSUME StorageInv, Exit, StorageTypes'
  PROVE  /\ Posture' /\ Untouched' /\ Forgot' /\ Files' /\ Described' /\ RowsKept' /\ LoadKept'
         /\ SeenKept'
<1>1. /\ sessions' = << >> /\ recentRows' = [i \in Ids |-> {}]
      /\ writeQueue' = <<>> /\ batch' = <<>> /\ writer' = "wait"
      /\ ui' = "idle" /\ active' = 0 /\ load' = NoLoad
      /\ mode' = "down" /\ failed' = {} /\ cut' = FALSE /\ started' = started
      /\ seen' = [i \in Ids |-> Readable(i)]
  BY DEF Exit, Forgotten
<1>2. DOMAIN sessions' = {} BY <1>1
<1>3. \A i : NoJobs(i)' /\ Failed(i)' = {}
  <2> TAKE i
  <2>1. RowsIn(writeQueue', i) = {} /\ RowsIn(batch', i) = {} BY <1>1, RowsInEmpty
  <2>2. NoJobs(i)' BY <2>1 DEF NoJobs, RowsIn
  <2>3. Failed(i)' = {} BY <1>1 DEF Failed
  <2> QED BY <2>2, <2>3
<1>4. StorageTypes BY DEF StorageInv
<1>5. Posture' BY <1>1, <1>2 DEF Posture
<1>6. Untouched'
  <2> SUFFICES ASSUME NEW i \in Ids, i > started
               PROVE  Readable(i) = {} /\ disk'[i] = NoDirectory
    BY <1>1, <1>3 DEF Untouched, Unused
  <2>1. NoJobs(i) /\ disk[i] = NoDirectory BY DEF StorageInv, Untouched, Unused
  <2>2. Readable(i) = {} BY <2>1, NoDirectoryType, IndexedNothing DEF Readable
  <2> QED BY <2>1, <2>2, ExitDisk
<1>7. Forgot' BY <1>1, <1>3 DEF Forgot
<1>8. Files' BY <1>1, <1>2, ExitDisk DEF Files
<1>9. Described' BY <1>1, <1>2 DEF Described
<1>10. RowsKept' BY <1>1, <1>2 DEF RowsKept
<1>11. LoadKept' BY <1>1, <1>2 DEF LoadKept, NoLoad, InRange
<1>12. SeenKept'
  <2> SUFFICES ASSUME NEW i \in Ids
               PROVE  /\ Readable(i) \subseteq ToSet(disk'[i].bin)
                      /\ ~Damaged(i)' => Readable(i) \subseteq Indexed(Scanned(i)', disk'[i].bin)
    BY <1>1 DEF SeenKept, Known, Down, Recovered
  <2>1. disk'[i].bin \in Seq(Records)
    <3>1. disk' \in [Ids -> Directories] BY DEF StorageTypes
    <3>2. disk'[i] \in Directories BY <3>1
    <3> QED BY <3>2 DEF Directories
  <2>2. Readable(i) \subseteq ToSet(disk'[i].bin) /\ Readable(i) \subseteq Readable(i)'
    BY <1>4, ReadableRows, ExitDisk
  <2>3. ASSUME ~Damaged(i)' PROVE Readable(i) \subseteq Indexed(Scanned(i)', disk'[i].bin)
    <3>1. CASE ToRepair(i)'
      <4>1. Scanned(i)' = Parsed(disk'[i].bin) BY <3>1 DEF Scanned
      <4>2. ToSet(disk'[i].bin) \subseteq Rows BY <2>3 DEF Damaged
      <4>3. Indexed(Scanned(i)', disk'[i].bin) = ToSet(disk'[i].bin)
        BY <2>1, <4>1, <4>2, ParsedFacts
      <4> QED BY <2>2, <4>3
    <3>2. CASE ~ToRepair(i)'
      <4>1. Scanned(i)' = disk'[i].idx BY <3>2 DEF Scanned
      <4> QED BY <2>2, <4>1, ReadableNext
    <3> QED BY <3>1, <3>2
  <2> QED BY <2>2, <2>3
<1> QED BY <1>5, <1>6, <1>7, <1>8, <1>9, <1>10, <1>11, <1>12

\* A process that is down has nothing in memory.
LEMMA DownFacts ==
  ASSUME StorageInv, mode = "down"
  PROVE  /\ DOMAIN sessions = {} /\ active = 0 /\ ui = "idle" /\ load = NoLoad /\ writer = "wait"
         /\ failed = {}
         /\ \A i \in Ids : NoJobs(i) /\ recentRows[i] = {} /\ Failed(i) = {}
         /\ \A i \in Recovered : i \in Ids /\ i <= started /\ "dir" \in disk[i].parts
<1>1. /\ DOMAIN sessions = {} /\ active = 0 /\ ui = "idle" /\ load = NoLoad
      /\ writeQueue = <<>> /\ batch = <<>> /\ failed = {}
  BY DEF StorageInv, Posture
<1>2. writer = "wait" BY <1>1 DEF StorageInv, StorageTypes
<1>3. \A i \in Ids : NoJobs(i) BY <1>1, RowsInEmpty DEF NoJobs
<1>4. \A i \in Ids : recentRows[i] = {} /\ Failed(i) = {} BY <1>1 DEF StorageInv, Forgot
<1>5. ASSUME NEW i \in Recovered PROVE i \in Ids /\ i <= started /\ "dir" \in disk[i].parts
  <2>1. i \in Ids /\ "bin" \in disk[i].parts /\ i \in Nat BY <1>5, Constants DEF Recovered
  <2>2. ASSUME i > started PROVE FALSE
    <3>1. disk[i] = NoDirectory BY <2>1, <2>2 DEF StorageInv, Untouched, Unused
    <3> QED BY <2>1, <3>1, NoDirectoryType
  <2>3. started \in Nat BY DEF StorageInv, StorageTypes
  <2>4. "dir" \in disk[i].parts BY <2>1 DEF StorageInv, Files
  <2> QED BY <2>1, <2>2, <2>3, <2>4
<1> QED BY <1>1, <1>2, <1>3, <1>4, <1>5

\* The rows of a session that has been scanned are the rows that can be read.
LEMMA RestartDisk ==
  ASSUME StorageInv, Restart
  PROVE  /\ \A i \in Ids : disk'[i].meta = disk[i].meta /\ disk'[i].bin = disk[i].bin
         /\ \A i \in Ids \ Recovered : disk'[i] = disk[i]
         /\ \A i \in Recovered :
              /\ disk'[i].parts = disk[i].parts \union {"idx"}
              /\ disk'[i].idx = Scanned(i) /\ ~ToRepair(i)'
              /\ Readable(i)' = Indexed(Scanned(i), disk[i].bin)
<1>1. disk' = [i \in Ids |->
         IF i \in Recovered THEN WithIndex(i, Scanned(i)) ELSE disk[i]]
  BY DEF Restart
<1>2. StorageTypes BY DEF StorageInv
<1>3. \A i \in Ids \ Recovered : disk'[i] = disk[i] BY <1>1
<1>4. ASSUME NEW i \in Recovered
      PROVE  /\ disk'[i].meta = disk[i].meta /\ disk'[i].bin = disk[i].bin
             /\ disk'[i].parts = disk[i].parts \union {"idx"}
             /\ disk'[i].idx = Scanned(i) /\ ~ToRepair(i)'
             /\ Readable(i)' = Indexed(Scanned(i), disk[i].bin)
  <2>1. i \in Ids BY DEF Recovered
  <2>2. Scanned(i) \in Seq(Entries) /\ Broken \notin ToSet(Scanned(i))
    BY <1>2, <2>1, ScannedFacts
  <2>3. disk'[i] = WithIndex(i, Scanned(i)) BY <1>1, <2>1
  <2>4. /\ disk'[i].meta = disk[i].meta /\ disk'[i].bin = disk[i].bin
        /\ disk'[i].parts = disk[i].parts \union {"idx"} /\ disk'[i].idx = Scanned(i)
    BY <1>2, <2>1, <2>2, <2>3, WithIndexFacts
  <2>5. ~ToRepair(i)' BY <2>2, <2>4 DEF ToRepair
  <2>6. Readable(i)' = Indexed(Scanned(i), disk[i].bin) BY <2>4, ReadableNext
  <2> QED BY <2>4, <2>5, <2>6
<1> QED BY <1>3, <1>4

LEMMA RestartKeeps ==
  ASSUME StorageInv, Restart
  PROVE  /\ Posture' /\ Untouched' /\ Forgot' /\ Files' /\ Described' /\ RowsKept' /\ LoadKept'
         /\ SeenKept'
<1>1. /\ StorageTypes /\ mode = "down" /\ mode' = "running"
      /\ sessions' = [i \in Recovered |-> disk[i].meta] /\ DOMAIN sessions' = Recovered
      /\ UNCHANGED <<recentRows, writeQueue, batch, writer, position, copy, load, ui, active,
                     started, fresh, exits, seen, cut, failures, failed>>
  BY DEF StorageInv, Restart, procVars, uiVars, faultVars
<1>2. /\ DOMAIN sessions = {} /\ active = 0 /\ ui = "idle" /\ load = NoLoad /\ writer = "wait"
      /\ \A i \in Ids : NoJobs(i) /\ recentRows[i] = {} /\ Failed(i) = {}
      /\ \A i \in Recovered : i \in Ids /\ i <= started /\ "dir" \in disk[i].parts
  BY <1>1, DownFacts
<1>3. \A i : NoJobs(i)' = NoJobs(i) /\ Failed(i)' = Failed(i) BY <1>1 DEF NoJobs, RowsIn, Failed
<1>4. /\ \A i \in Ids : disk'[i].meta = disk[i].meta /\ disk'[i].bin = disk[i].bin
      /\ \A i \in Ids \ Recovered : disk'[i] = disk[i]
      /\ \A i \in Recovered :
           /\ disk'[i].parts = disk[i].parts \union {"idx"}
           /\ disk'[i].idx = Scanned(i) /\ ~ToRepair(i)'
           /\ Readable(i)' = Indexed(Scanned(i), disk[i].bin)
  BY RestartDisk
<1>5. started \in Nat /\ Ids \subseteq Nat \ {0} BY Constants DEF StorageInv, StorageTypes
<1>6. Posture'
  <2>1. \A i \in Recovered : i \in Nat \ {0} /\ i <= started BY <1>2, <1>5
  <2>2. \A i \in DOMAIN sessions' : i \in 1..started BY <1>1, <1>5, <2>1
  <2> QED BY <1>1, <1>2, <2>2 DEF Posture
<1>7. Untouched'
  <2> SUFFICES ASSUME NEW i \in Ids, i > started
               PROVE NoJobs(i) /\ seen[i] = {} /\ disk'[i] = NoDirectory
    BY <1>1, <1>2, <1>3 DEF Untouched, Unused
  <2>1. i \notin Recovered BY <1>2, <1>5
  <2> QED BY <1>4, <2>1 DEF StorageInv, Untouched, Unused
<1>8. Forgot' BY <1>1, <1>2, <1>3 DEF Forgot
<1>9. Files'
  <2>1. \A i \in Recovered : "dir" \in disk'[i].parts BY <1>2, <1>4
  <2>2. \A i \in Ids \ Recovered : "bin" \in disk'[i].parts => disk'[i].meta = NoMetadata
    BY <1>4 DEF Recovered
  <2>3. \A i \in Ids : disk'[i].parts # {} => "dir" \in disk'[i].parts
    BY <1>4, <2>1 DEF StorageInv, Files
  <2> QED BY <1>1, <1>2, <2>1, <2>2, <2>3 DEF Files
<1>10. Described'
  <2> SUFFICES ASSUME NEW i \in Recovered PROVE Within(disk'[i].meta, sessions'[i])
    BY <1>1, <1>2 DEF Described
  <2>1. disk[i].meta \in Metadata BY <1>1, <1>2, ReadableRows
  <2> QED BY <1>1, <1>2, <1>4, <2>1, WithinItself
<1>11. RowsKept'
  <2>1. \A i \in Recovered : Quiet(i)' BY <1>1, <1>2, <1>3, <1>4, <1>5 DEF Quiet
  <2> QED BY <1>1, <1>2, <2>1 DEF RowsKept
<1>12. LoadKept' BY <1>1, <1>2, <1>5 DEF LoadKept, NoLoad, InRange
<1>13. SeenKept'
  <2> SUFFICES ASSUME NEW i \in Recovered
               PROVE  /\ seen[i] \ Failed(i)' \subseteq ToSet(disk'[i].bin)
                      /\ ~cut /\ ~Damaged(i)' => seen[i] \ Failed(i)' \subseteq Readable(i)'
    BY <1>1 DEF SeenKept, Known, Down
  <2>1. Damaged(i)' <=> Damaged(i) BY <1>2, <1>4 DEF Damaged
  <2>2. /\ seen[i] \ Failed(i) \subseteq ToSet(disk[i].bin)
        /\ ~cut /\ ~Damaged(i) => seen[i] \ Failed(i) \subseteq Indexed(Scanned(i), disk[i].bin)
    BY <1>1 DEF StorageInv, SeenKept, Known, Down
  <2> QED BY <1>2, <1>3, <1>4, <2>1, <2>2
<1> QED BY <1>6, <1>7, <1>8, <1>9, <1>10, <1>11, <1>12, <1>13

\* A rebuild that is cut leaves some of the rows that it would have brought back.
LEMMA RebuildCutDisk ==
  ASSUME StorageInv, RebuildCut
  PROVE  \E s \in Recovered :
           /\ \A i \in Ids \ {s} : disk'[i] = disk[i]
           /\ disk'[s].parts = disk[s].parts \union {"idx"} /\ disk'[s].meta = disk[s].meta
           /\ disk'[s].bin = disk[s].bin
           /\ Scanned(s)' = disk'[s].idx
           /\ Indexed(disk'[s].idx, disk[s].bin) \subseteq Indexed(Scanned(s), disk[s].bin)
<1>1. PICK s \in Recovered : /\ ToRepair(s)
                             /\ \E n \in 0..Len(Scanned(s)) - 1 :
                                  disk' = [disk EXCEPT ![s] = WithIndex(s, SubSeq(Scanned(s), 1, n))]
  BY DEF RebuildCut
<1>2. PICK n \in 0..Len(Scanned(s)) - 1 :
        disk' = [disk EXCEPT ![s] = WithIndex(s, SubSeq(Scanned(s), 1, n))]
  BY <1>1
<1>3. StorageTypes /\ s \in Ids /\ disk \in [Ids -> Directories]
  BY DEF StorageInv, StorageTypes, Recovered
<1>4. Scanned(s) \in Seq(Entries) /\ Broken \notin ToSet(Scanned(s)) BY <1>3, ScannedFacts
<1>5. n \in 0..Len(Scanned(s)) /\ Len(Scanned(s)) \in Nat BY <1>4, LenProperties
<1> DEFINE new == SubSeq(Scanned(s), 1, n)
<1>6. /\ new \in Seq(Entries) /\ Len(new) = n /\ \A i \in 1..n : new[i] = Scanned(s)[i]
  BY <1>4, <1>5, FrontPlaces
<1>7. ToSet(new) \subseteq ToSet(Scanned(s))
  <2>1. ToSet(Scanned(s)) = {Scanned(s)[i] : i \in 1..Len(Scanned(s))} BY <1>4, Members
  <2> HIDE DEF new
  <2>2. ToSet(new) = {new[i] : i \in 1..n} BY <1>6, Members
  <2> QED BY <1>5, <1>6, <2>1, <2>2
<1>8. /\ \A i \in Ids \ {s} : disk'[i] = disk[i]
      /\ disk'[s] = WithIndex(s, new)
  BY <1>2, <1>3
<1> HIDE DEF new
<1>9. /\ disk'[s].parts = disk[s].parts \union {"idx"} /\ disk'[s].meta = disk[s].meta
      /\ disk'[s].bin = disk[s].bin /\ disk'[s].idx = new
  BY <1>3, <1>6, <1>8, WithIndexFacts
<1>10. Scanned(s)' = disk'[s].idx BY <1>4, <1>7, <1>9 DEF Scanned, ToRepair
<1>11. Indexed(new, disk[s].bin) \subseteq Indexed(Scanned(s), disk[s].bin)
  <2>1. Intact(new) = new /\ Intact(Scanned(s)) = Scanned(s) BY <1>4, <1>6, <1>7, IntactFacts
  <2> QED BY <1>7, <2>1 DEF Indexed
<1> QED BY <1>8, <1>9, <1>10, <1>11

LEMMA RebuildCutKeeps ==
  ASSUME StorageInv, RebuildCut
  PROVE  /\ Posture' /\ Untouched' /\ Forgot' /\ Files' /\ Described' /\ RowsKept' /\ LoadKept'
         /\ SeenKept'
<1>1. PICK s \in Recovered :
           /\ \A i \in Ids \ {s} : disk'[i] = disk[i]
           /\ disk'[s].parts = disk[s].parts \union {"idx"} /\ disk'[s].meta = disk[s].meta
           /\ disk'[s].bin = disk[s].bin
  BY RebuildCutDisk
<1>2. /\ StorageTypes /\ mode = "down" /\ mode' = "down" /\ cut' = TRUE
      /\ UNCHANGED <<sessions, recentRows, writeQueue, batch, writer, position, copy, load, ui,
                     active, started, fresh, seen, failures, failed>>
  BY DEF StorageInv, RebuildCut, memoryVars, procVars, uiVars, faultVars
<1>3. /\ DOMAIN sessions = {} /\ active = 0 /\ ui = "idle" /\ load = NoLoad /\ writer = "wait"
      /\ \A i \in Ids : NoJobs(i) /\ recentRows[i] = {} /\ Failed(i) = {}
      /\ \A i \in Recovered : i \in Ids /\ i <= started /\ "dir" \in disk[i].parts
  BY <1>2, DownFacts
<1>4. \A i : NoJobs(i)' = NoJobs(i) /\ Failed(i)' = Failed(i) BY <1>2 DEF NoJobs, RowsIn, Failed
<1>5. started \in Nat /\ Ids \subseteq Nat \ {0} BY Constants DEF StorageInv, StorageTypes
<1>6. Posture' BY <1>2, <1>3 DEF StorageInv, Posture
<1>7. Untouched'
  <2> SUFFICES ASSUME NEW i \in Ids, i > started
               PROVE NoJobs(i) /\ seen[i] = {} /\ disk'[i] = NoDirectory
    BY <1>2, <1>3, <1>4 DEF Untouched, Unused
  <2>1. i # s BY <1>3, <1>5
  <2> QED BY <1>1, <2>1 DEF StorageInv, Untouched, Unused
<1>8. Forgot' BY <1>2, <1>3, <1>4 DEF Forgot
<1>9. Files'
  <2>1. \A i \in Ids : disk'[i].parts # {} => "dir" \in disk'[i].parts
    BY <1>1, <1>3 DEF StorageInv, Files
  <2> QED BY <1>2, <1>3, <2>1 DEF Files
<1>10. Described' BY <1>2, <1>3 DEF Described
<1>11. RowsKept' BY <1>2, <1>3 DEF RowsKept
<1>12. LoadKept' BY <1>2, <1>3, <1>5 DEF LoadKept, NoLoad, InRange
<1>13. SeenKept'
  <2> SUFFICES ASSUME NEW i \in Ids, "bin" \in disk'[i].parts, disk'[i].meta # NoMetadata
               PROVE  seen[i] \ Failed(i)' \subseteq ToSet(disk'[i].bin)
    BY <1>2 DEF SeenKept, Known, Down, Recovered
  <2>1. i \in Recovered /\ disk'[i].bin = disk[i].bin BY <1>1 DEF Recovered
  <2> QED BY <1>2, <1>4, <2>1 DEF StorageInv, SeenKept, Known, Down
<1> QED BY <1>6, <1>7, <1>8, <1>9, <1>10, <1>11, <1>12, <1>13

-----------------------------------------------------------------------------
(* WaterfallStorage: the theorems.                                           *)

LEMMA StorageInvInit == Init => StorageInv
<1> SUFFICES ASSUME Init PROVE StorageInv OBVIOUS
<1>1. StorageTypes BY StorageTypesInit
<1>2. /\ DOMAIN sessions = {} /\ active = 0 /\ started = 0 /\ ui = "idle" /\ load = NoLoad
      /\ mode = "running" /\ writer = "wait" /\ writeQueue = <<>> /\ batch = <<>>
      /\ recentRows = [i \in Ids |-> {}] /\ seen = [i \in Ids |-> {}] /\ failed = {}
      /\ disk = [i \in Ids |-> NoDirectory]
  BY DEF Init
<1>3. \A i : NoJobs(i) /\ Failed(i) = {} BY <1>2, RowsInEmpty DEF NoJobs, Failed
<1>4. \A i \in Ids : disk[i] = NoDirectory /\ i > 0 BY <1>2, Constants
<1>5. Posture BY <1>2 DEF Posture
<1>6. Untouched BY <1>2, <1>3, <1>4 DEF Untouched, Unused
<1>7. Forgot BY <1>2, <1>3 DEF Forgot
<1>8. Files BY <1>2, <1>4, NoDirectoryType DEF Files
<1>9. Described BY <1>2 DEF Described
<1>10. RowsKept BY <1>2 DEF RowsKept
<1>11. LoadKept BY <1>2 DEF LoadKept, NoLoad, InRange
<1>12. SeenKept BY <1>2 DEF SeenKept, Known, Down
<1> QED BY <1>1, <1>5, <1>6, <1>7, <1>8, <1>9, <1>10, <1>11, <1>12 DEF StorageInv

LEMMA StorageInvNext == StorageInv /\ [Next]_vars => StorageInv'
<1> SUFFICES ASSUME StorageInv, [Next]_vars PROVE StorageInv' OBVIOUS
<1>0. /\ StorageTypes /\ (ui # "idle" => active # 0)
      /\ active # 0 => (active \in DOMAIN sessions <=> ui # "register")
  BY DEF StorageInv, Posture
<1>1. CASE WriterStep
  <2>1. StorageTypes' BY <1>0, <1>1, WriterTypes
  <2>2. WriterEffect /\ Files' /\ Described' BY <1>1, WriterEffects
  <2> QED BY <2>1, <2>2, WriterKeeps DEF StorageInv
<1>2. CASE StartFiles \/ StartRegister \/ StartDescribe \/ AppendRow \/ CloseSession \/ CloseDescribe
  <2>1. StorageTypes' BY <1>0, <1>2, UserTypes
  <2> QED BY <1>2, <2>1, StartFilesKeeps, StartRegisterKeeps, DescribesKeep, AppendRowKeeps,
             CloseSessionKeeps DEF StorageInv
<1>3. CASE LoadFiles \/ LoadRecent \/ Stop \/ WriterExit \/ Exit \/ Restart \/ RebuildCut
  <2>1. StorageTypes' BY <1>0, <1>3, OtherTypes
  <2> QED BY <1>3, <2>1, LoaderKeeps, ExitKeeps, RestartKeeps, RebuildCutKeeps DEF StorageInv
<1>4. CASE UNCHANGED vars
  <2>1. UNCHANGED <<sessions, recentRows, writeQueue, batch, writer, position, copy, ui, active, load,
                    disk, mode, exits, started, fresh, seen, cut, failures, failed>>
    BY <1>4 DEF vars, memoryVars, procVars, uiVars, modeVars, faultVars
  <2>2. /\ Files' /\ Job' = Job
        /\ \A i : Failed(i)' = Failed(i) /\ Readable(i)' = Readable(i) /\ Damaged(i)' = Damaged(i)
        /\ \A i : RowsIn(batch', i) = RowsIn(batch, i)
    BY <2>1, FilesStay
  <2>3. \A i : /\ Kept(i)' = Kept(i) /\ NoJobs(i)' = NoJobs(i) /\ Scanned(i)' = Scanned(i)
               /\ (Young(i) => Young(i)') /\ (Quiet(i) => Quiet(i)')
    BY <2>1, <2>2, Same DEF Quiet
  <2>4. StorageTypes' BY <1>0, <2>1 DEF StorageTypes
  <2>5. Posture' BY <2>1 DEF StorageInv, Posture
  <2>6. Untouched' BY <2>1, <2>3 DEF StorageInv, Untouched, Unused
  <2>7. Forgot' BY <2>1, <2>2 DEF StorageInv, Forgot
  <2>8. Described' BY <2>1, <2>2 DEF StorageInv, Described
  <2>9. RowsKept' BY <2>1, <2>3 DEF StorageInv, RowsKept
  <2>10. LoadKept' BY <2>1, <2>3 DEF StorageInv, LoadKept
  <2>11. SeenKept' BY <2>1, <2>2, <2>3 DEF StorageInv, SeenKept, Known, Down, Recovered
  <2> QED BY <2>2, <2>4, <2>5, <2>6, <2>7, <2>8, <2>9, <2>10, <2>11 DEF StorageInv
<1> QED BY <1>1, <1>2, <1>3, <1>4 DEF Next

LEMMA StorageInvariant == Spec => []StorageInv
BY StorageInvInit, StorageInvNext, PTL DEF Spec

\* The variables have their types, and the writer holds a row exactly while it is in
\* appendRowSync.
THEOREM StorageTypeOK == Spec => []TypeOK
<1>1. StorageInv => TypeOK
  <2> SUFFICES ASSUME StorageInv PROVE TypeOK OBVIOUS
  <2>1. StorageTypes BY DEF StorageInv
  <2>2. \A i \in DOMAIN sessions : sessions[i] \in Metadata
    <3> HIDE DEF Metadata
    <3> QED BY <2>1 DEF StorageTypes
  <2>3. \A k \in DOMAIN writeQueue : writeQueue[k] \in [session : Ids, row : Rows]
    <3>1. writeQueue \in Seq(Jobs) BY <2>1 DEF StorageTypes
    <3> QED BY <3>1, ElementOfSeq, LenProperties DEF Jobs
  <2>4. ASSUME NEW i \in Ids
        PROVE  /\ disk[i].parts \subseteq {"dir", "bin", "idx"}
               /\ disk[i].meta \in Metadata
               /\ ToSet(disk[i].bin) \subseteq Rows \union {-r : r \in Rows} \union {Torn}
               /\ ToSet(disk[i].idx) \subseteq [row : Rows, at : Nat] \union {Broken}
    <3>1. disk[i].bin \in Seq(Records) /\ disk[i].idx \in Seq(Entries) BY <2>1, ReadableRows
    <3>2. ToSet(disk[i].bin) \subseteq Records /\ ToSet(disk[i].idx) \subseteq Entries
      BY <3>1, Members
    <3>3. disk[i].parts \subseteq Parts /\ disk[i].meta \in Metadata BY <2>1, ReadableRows
    <3> QED BY <3>2, <3>3 DEF Records, Entries, Parts
  <2> QED BY <2>1, <2>2, <2>3, <2>4 DEF StorageTypes, TypeOK
<1> QED BY <1>1, StorageInvariant, PTL

\* The destructor leaves no row of a kept session unwritten, unless its write failed or a
\* removal took its files, and the next process reads what could be read when this one ended
\* (~BinaryWaterfallSessionStorage, scanExistingSessions).
THEOREM StorageRowsSurvive == Spec => []RowsSurvive
<1>1. StorageInv => StopWritesAll
  <2> SUFFICES ASSUME StorageInv, mode = "stopped", NEW i \in DOMAIN sessions
               PROVE  Held(i) \ Failed(i) \subseteq Readable(i)
    BY DEF StopWritesAll
  <2>1. i \in Ids /\ writeQueue = <<>> /\ batch = <<>>
    BY DEF StorageInv, StorageTypes, Posture
  <2>2. RowsIn(writeQueue, i) = {} /\ RowsIn(batch, i) = {} BY <2>1, RowsInEmpty
  <2>3. recentRows[i] \subseteq Kept(i) BY <2>1 DEF StorageInv, RowsKept
  <2> QED BY <2>2, <2>3, GivenNext DEF Kept
<1>2. StorageInv => RestartFindsRows
  BY DEF StorageInv, SeenKept, RestartFindsRows, IndexRecoverable, Known, Down
<1> QED BY <1>1, <1>2, StorageInvariant, PTL DEF RowsSurvive

-----------------------------------------------------------------------------
(* WaterfallStorage: what loadRows finds.                                    *)

\* With enough newer rows in two places there are enough of them among the newest of the
\* one and all of the other.
Above(rows, r) == {q \in rows : q > r}

LEMMA EnoughTogether ==
  ASSUME NEW B \in SUBSET Rows, NEW M \in SUBSET Rows, NEW n \in Nat \ {0}, NEW r \in Nat,
         Cardinality(Above(B \union M, r)) >= n
  PROVE  Cardinality(Above(Newest(B, n) \union M, r)) >= n
<1> PICK top : top = Newest(B, n) OBVIOUS
<1>1. top \subseteq B /\ B \subseteq Nat /\ IsFiniteSet(B) BY NewestSubset, Constants, FS_Subset
<1>2. \A S \in SUBSET Rows : IsFiniteSet(Above(S, r)) /\ Cardinality(Above(S, r)) \in Nat
  <2> TAKE S \in SUBSET Rows
  <2>1. Above(S, r) \subseteq Rows BY DEF Above
  <2> QED BY <2>1, Constants, FS_Subset, FS_CardinalityType
<1>3. top \union M \in SUBSET Rows /\ B \union M \in SUBSET Rows BY <1>1
<1>4. CASE Above(B, r) \subseteq top
  <2>1. Above(B \union M, r) \subseteq Above(top \union M, r) BY <1>4 DEF Above
  <2>2. Cardinality(Above(B \union M, r)) <= Cardinality(Above(top \union M, r))
    BY <1>2, <1>3, <2>1, FS_Subset
  <2> QED BY <1>2, <1>3, <2>2
<1>5. CASE ~(Above(B, r) \subseteq top)
  <2>1. PICK q \in B : q > r /\ q \notin top BY <1>5 DEF Above
  <2>2. q \in Nat BY <1>1, <2>1
  <2>3. ~(Cardinality({p \in B : p > q}) < n) BY <2>1 DEF Newest
  <2>4. Cardinality({p \in B : p > q}) \in Nat BY <1>1, FS_Subset, FS_CardinalityType
  <2>5. Cardinality({p \in B : p > q}) >= n BY <2>3, <2>4
  <2>6. Cardinality({p \in Newest(B, n) : p > q}) >= n BY <1>1, <2>2, <2>5, EnoughNewer
  <2> PICK later : later = {p \in top : p > q} OBVIOUS
  <2>7. later \subseteq Above(top \union M, r)
    <3> SUFFICES ASSUME NEW p \in top, p > q PROVE p > r BY DEF Above
    <3>1. p \in Nat BY <1>1
    <3> QED BY <2>1, <2>2, <3>1
  <2>8. Cardinality(later) <= Cardinality(Above(top \union M, r))
    BY <1>2, <1>3, <2>7, FS_Subset
  <2>9. IsFiniteSet(later) /\ Cardinality(later) \in Nat
    BY <1>2, <1>3, <2>7, FS_Subset, FS_CardinalityType
  <2>10. Cardinality(later) >= n BY <2>6
  <2> QED BY <1>2, <1>3, <2>8, <2>9, <2>10
<1> QED BY <1>4, <1>5

LEMMA LoadsComplete == StorageInv => LoadedRowsComplete
<1> SUFFICES ASSUME StorageInv, load # NoLoad, load.session \in DOMAIN sessions,
                    NEW r \in load.given
             PROVE  \/ r \in Answer
                    \/ /\ load.query.maxRows # 0
                       /\ Cardinality({q \in Answer \union (load.named \ load.found) : q > r})
                            >= load.query.maxRows
                    \/ /\ r \notin load.readable
                       /\ r \notin Newest(Given(load.session), RecentCap)
  BY DEF LoadedRowsComplete
<1> PICK s, n, late, found, missed :
      /\ s = load.session /\ n = load.query.maxRows
      /\ late = InRange(load.query, recentRows[load.session])
      /\ found = load.found /\ missed = load.named \ load.found
  OBVIOUS
<1>1. StorageTypes /\ s \in Ids /\ load \in Loads BY DEF StorageInv, StorageTypes
<1>2. /\ n \in Nat /\ found \in SUBSET Rows /\ missed \in SUBSET Rows
      /\ load.named \subseteq found \union missed
  BY <1>1 DEF Loads
<1>3. late \in SUBSET Rows BY <1>1 DEF InRange, StorageTypes
<1>4. r \in InRange(load.query, Rows) /\ r \in Rows /\ r \in Nat
  BY Constants DEF StorageInv, LoadKept, InRange
<1> PICK B : B = found \union late OBVIOUS
<1>5. B \in SUBSET Rows /\ Answer = Newest(B, n) BY <1>2, <1>3 DEF Answer
<1>6. ASSUME n # 0, NEW S \in SUBSET (B \union missed), Cardinality({q \in S : q > r}) >= n
      PROVE  Cardinality({q \in Answer \union missed : q > r}) >= n
  <2>1. Above(S, r) \subseteq Above(B \union missed, r) BY DEF Above
  <2>2. IsFiniteSet(Above(B \union missed, r))
    <3>1. Above(B \union missed, r) \subseteq Rows BY <1>2, <1>5 DEF Above
    <3> QED BY <3>1, Constants, FS_Subset
  <2>3. /\ Cardinality(Above(S, r)) <= Cardinality(Above(B \union missed, r))
        /\ Cardinality(Above(S, r)) \in Nat /\ Cardinality(Above(B \union missed, r)) \in Nat
    BY <2>1, <2>2, FS_Subset, FS_CardinalityType
  <2>4. Cardinality(Above(S, r)) >= n BY <1>6 DEF Above
  <2>5. Cardinality(Above(B \union missed, r)) >= n BY <1>2, <2>3, <2>4
  <2>6. Cardinality(Above(Newest(B, n) \union missed, r)) >= n
    BY <1>2, <1>4, <1>5, <1>6, <2>5, EnoughTogether
  <2> QED BY <1>5, <2>6 DEF Above
<1>7. CASE r \in B /\ r \notin Answer
  <2>1. n # 0 /\ ~(Cardinality({q \in B : q > r}) < n) BY <1>5, <1>7 DEF Newest
  <2>2. Cardinality({q \in B : q > r}) \in Nat
    BY <1>5, Constants, FS_Subset, FS_CardinalityType
  <2>3. Cardinality({q \in B : q > r}) >= n BY <1>2, <2>1, <2>2
  <2> QED BY <1>6, <2>1, <2>3
<1>8. CASE r \in load.readable /\ r \notin B
  <2>1. n # 0 /\ Cardinality({q \in load.named : q > r}) >= n
    BY <1>8 DEF StorageInv, LoadKept
  <2>2. load.named \in SUBSET (B \union missed) BY <1>2
  <2> QED BY <1>6, <2>1, <2>2
<1>9. CASE r \notin load.readable /\ r \notin B
  <2>1. Young(s) BY <1>9 DEF StorageInv, LoadKept
  <2>2. r \notin recentRows[s] BY <1>4, <1>9 DEF InRange
  <2>3. r \notin Newest(Given(s), RecentCap) BY <2>1, <2>2 DEF Young
  <2> QED BY <1>9, <2>3
<1> QED BY <1>7, <1>8, <1>9

-----------------------------------------------------------------------------
(* WaterfallStorage implements SessionStore.                                 *)

LEMMA StoredUp ==
  ASSUME mode # "down"
  PROVE  /\ Known = DOMAIN sessions /\ ~Down /\ DOMAIN Stored = DOMAIN sessions
         /\ Stored = [i \in DOMAIN sessions |->
              [rows |-> Held(i), start |-> sessions[i].start, end |-> sessions[i].end,
               closed |-> sessions[i].closed]]
BY DEF Stored, Known, Entry, Down

LEMMA StoredUpNext ==
  ASSUME mode' # "down"
  PROVE  /\ ~Down' /\ DOMAIN Stored' = DOMAIN sessions'
         /\ Stored' = [i \in DOMAIN sessions' |->
              [rows |-> Held(i)', start |-> sessions'[i].start, end |-> sessions'[i].end,
               closed |-> sessions'[i].closed]]
BY DEF Stored, Known, Entry, Down

LEMMA StoredDown ==
  ASSUME mode = "down"
  PROVE  /\ Down /\ DOMAIN Stored = Recovered
         /\ Stored = [i \in Recovered |->
              [rows |-> Indexed(Scanned(i), disk[i].bin), start |-> disk[i].meta.start,
               end |-> disk[i].meta.end, closed |-> disk[i].meta.closed]]
BY DEF Stored, Known, Entry, Down

LEMMA StoredDownNext ==
  ASSUME mode' = "down"
  PROVE  /\ Down' /\ DOMAIN Stored' = Recovered'
         /\ Stored' = [i \in Recovered' |->
              [rows |-> Indexed(Scanned(i)', disk'[i].bin), start |-> disk'[i].meta.start,
               end |-> disk'[i].meta.end, closed |-> disk'[i].meta.closed]]
<1>1. \A i : Indexed(Scanned(i), disk[i].bin)' = Indexed(Scanned(i)', disk'[i].bin)
  BY DEF Indexed, Intact, ToSet
<1> QED BY <1>1 DEF Stored, Known, Entry, Down

\* A step of which the store shows nothing.
LEMMA UnseenStoreStep ==
  ASSUME mode # "down", mode' # "down", sessions' = sessions,
         \A i \in DOMAIN sessions : Held(i)' = Held(i)
  PROVE  UNCHANGED Store!storeVars
<1>1. Stored' = Stored
  <2>1. Stored = [i \in DOMAIN sessions |->
              [rows |-> Held(i), start |-> sessions[i].start, end |-> sessions[i].end,
               closed |-> sessions[i].closed]]
    BY StoredUp
  <2>2. Stored' = [i \in DOMAIN sessions |->
              [rows |-> Held(i)', start |-> sessions[i].start, end |-> sessions[i].end,
               closed |-> sessions[i].closed]]
    BY StoredUpNext
  <2> QED BY <2>1, <2>2
<1>2. Down' = Down BY DEF Down
<1> QED BY <1>1, <1>2 DEF Store!storeVars

\* An entry of the store with other rows.
LEMMA EntryWithRows ==
  ASSUME NEW entry, NEW rows, NEW first, NEW last, NEW closed, NEW more,
         entry = [rows |-> rows, start |-> first, end |-> last, closed |-> closed]
  PROVE  [entry EXCEPT !.rows = more]
           = [rows |-> more, start |-> first, end |-> last, closed |-> closed]
<1>1. entry \in [rows : {rows}, start : {first}, end : {last}, closed : {closed}] OBVIOUS
<1>2. PICK f : f = [entry EXCEPT !.rows = more] OBVIOUS
<1>3. f \in [rows : {more}, start : {first}, end : {last}, closed : {closed}] BY <1>1, <1>2
<1>4. f = [rows |-> more, start |-> first, end |-> last, closed |-> closed] BY ONLY <1>3
<1> QED BY <1>2, <1>4

LEMMA StartsSession ==
  ASSUME StorageInv, StartRegister
  PROVE  Store!StoreNext
<1>a. PICK removed, spoilt, stripped : Removal(removed, spoilt, stripped) BY Registered
<1> PICK s : s = active OBVIOUS
<1>1. /\ DOMAIN sessions \subseteq Ids /\ s \in Ids /\ s \notin DOMAIN sessions
      /\ s = started /\ mode = "running" /\ mode' = "running" /\ s \notin removed
      /\ removed \in SUBSET DOMAIN sessions /\ spoilt \in SUBSET (DOMAIN sessions \ removed)
      /\ ui = "register" /\ StorageTypes
      /\ UNCHANGED <<writeQueue, batch>>
  BY <1>a DEF Removal, StorageInv, StorageTypes, Posture, procVars, modeVars
<1>2. /\ DOMAIN sessions' = (DOMAIN sessions \ removed) \union {s}
      /\ sessions'[s] = [start |-> StartUtc[s], end |-> StartUtc[s], closed |-> FALSE]
      /\ \A i \in DOMAIN sessions \ removed : sessions'[i] = sessions[i]
  BY <1>a, <1>1 DEF Removal
<1>3. ASSUME NEW i \in DOMAIN sessions \ removed
      PROVE  /\ Held(i) \subseteq Held(i)' /\ Held(i)' \subseteq Rows
             /\ i \notin spoilt => Held(i)' = Held(i)
  <2>1. i \in Ids \ removed BY <1>1
  <2>2. /\ i \notin spoilt => disk'[i] = disk[i] /\ Failed(i)' = Failed(i)
        /\ Readable(i)' \subseteq Readable(i) /\ recentRows'[i] = recentRows[i]
        /\ Kept(i) \subseteq Kept(i)'
    BY <1>a, <2>1, Survives
  <2>3. Failed(i)' \subseteq Rows BY <1>a, <1>1, <2>1, RemovalFacts
  <2>4. RowsIn(writeQueue', i) = RowsIn(writeQueue, i) /\ RowsIn(batch', i) = RowsIn(batch, i)
        /\ RowsIn(writeQueue, i) \subseteq Rows /\ RowsIn(batch, i) \subseteq Rows
    BY <1>1 DEF RowsIn
  <2>5. Readable(i) \subseteq Rows /\ recentRows[i] \subseteq Rows
    BY <1>1, <2>1, ReadableRows DEF StorageTypes
  <2>6. Held(i) \subseteq Held(i)' BY <2>2, GivenNext
  <2>7. Held(i)' \subseteq Rows BY <2>2, <2>3, <2>4, <2>5, GivenNext
  <2>8. i \notin spoilt => Held(i)' = Held(i) BY <2>2, <2>4, Same
  <2> QED BY <2>6, <2>7, <2>8
<1>4. Held(s)' = {}
  <2>1. Unused(s) /\ ~(s > started)
    BY <1>1, Constants DEF Unused, StorageInv, StorageTypes
  <2>2. NoJobs(s) /\ disk[s] = StartParts BY <1>1, <2>1 DEF StorageInv, Untouched
  <2>3. s \in Ids \ removed /\ s \notin removed \union spoilt BY <1>1
  <2>4. disk'[s] = disk[s] /\ recentRows'[s] = {} /\ Failed(s)' = Failed(s)
    BY <1>a, <1>1, <2>3, RemovalFacts
  <2>5. Failed(s) = {} BY <1>1 DEF StorageInv, Forgot
  <2>6. Readable(s)' = {} BY <2>2, <2>4, ReadableNext, NoDirectoryType, IndexedNothing
  <2>7. RowsIn(writeQueue', s) = {} /\ RowsIn(batch', s) = {} BY <1>1, <2>2 DEF NoJobs
  <2> QED BY <2>4, <2>5, <2>6, <2>7, GivenNext
<1>5. /\ ~Down /\ DOMAIN Stored = DOMAIN sessions
      /\ \A i \in DOMAIN sessions :
           Stored[i] = [rows |-> Held(i), start |-> sessions[i].start, end |-> sessions[i].end,
                        closed |-> sessions[i].closed]
  BY <1>1, StoredUp
<1> PICK back : back = [i \in spoilt |-> Held(i)'] OBVIOUS
<1> DEFINE New(i) == IF i = s THEN [rows |-> {}, start |-> StartUtc[s], end |-> StartUtc[s],
                                    closed |-> FALSE]
                     ELSE IF i \in spoilt THEN [Stored[i] EXCEPT !.rows = @ \union back[i]]
                     ELSE Stored[i]
           Old(i) == [rows |-> Held(i)', start |-> sessions'[i].start, end |-> sessions'[i].end,
                      closed |-> sessions'[i].closed]
<1>6. Stored' = [i \in DOMAIN sessions' |-> Old(i)] /\ ~Down' BY <1>1, StoredUpNext
<1>7. back \in [spoilt -> SUBSET Rows] BY <1>1, <1>3
<1>8. \A i \in DOMAIN sessions' : Old(i) = New(i)
  <2> TAKE i \in DOMAIN sessions'
  <2>1. CASE i = s
    <3>1. Old(s) = New(s) BY <1>2, <1>4
    <3> HIDE DEF Old, New
    <3> QED BY <2>1, <3>1
  <2>2. CASE i # s /\ i \notin spoilt
    <3>1. i \in DOMAIN sessions \ removed BY <1>2, <2>2
    <3> QED BY <1>2, <1>3, <1>5, <2>2, <3>1
  <2>3. CASE i # s /\ i \in spoilt
    <3>1. i \in DOMAIN sessions \ removed BY <1>2, <2>3
    <3>2. PICK entry, more : entry = Stored[i] /\ more = Held(i)' OBVIOUS
    <3>3. entry = [rows |-> Held(i), start |-> sessions'[i].start, end |-> sessions'[i].end,
                   closed |-> sessions'[i].closed]
      BY <1>2, <1>5, <3>1, <3>2
    <3>4. [entry EXCEPT !.rows = more]
            = [rows |-> more, start |-> sessions'[i].start, end |-> sessions'[i].end,
               closed |-> sessions'[i].closed]
      BY <3>3, EntryWithRows
    <3>5. entry.rows \union back[i] = more BY <1>3, <2>3, <3>1, <3>2, <3>3
    <3>6. New(i) = [entry EXCEPT !.rows = more] BY <2>3, <3>2, <3>5
    <3> QED BY <3>2, <3>4, <3>6
  <2> QED BY <2>1, <2>2, <2>3
<1>9. Stored' = [i \in (DOMAIN Stored \ removed) \union {s} |-> New(i)]
  <2>1. DOMAIN sessions' = (DOMAIN Stored \ removed) \union {s} BY <1>2, <1>5
  <2> HIDE DEF New, Old
  <2> QED BY <1>6, <1>8, <2>1
<1>10. Store!StartSession(s, removed, spoilt)
  BY <1>1, <1>5, <1>6, <1>7, <1>9 DEF Store!StartSession
<1>11. /\ s \in Ids \intersect (DOMAIN Stored' \ DOMAIN Stored)
       /\ removed \in SUBSET DOMAIN Stored /\ spoilt \in SUBSET DOMAIN Stored
  <2>1. DOMAIN Stored' = DOMAIN sessions' BY <1>6
  <2> QED BY <1>1, <1>2, <1>5, <2>1
<1> QED BY <1>10, <1>11 DEF Store!StoreNext

LEMMA AppendsRow ==
  ASSUME StorageInv, AppendRow
  PROVE  Store!StoreNext
<1>1. PICK r \in fresh :
        /\ fresh' = fresh \ {r}
        /\ sessions' = [sessions EXCEPT ![active].start = Sooner(@, r),
                                        ![active].end = Later(@, r)]
  BY DEF AppendRow
<1>a. /\ Held(active)' = Held(active) \union (fresh \ fresh')
      /\ \A i \in DOMAIN sessions \ {active} : Held(i)' = Held(i)
  BY AppendRowKeeps
<1> PICK s : s = active OBVIOUS
<1>2. /\ StorageTypes /\ DOMAIN sessions \subseteq Ids /\ s \in Ids /\ s \in DOMAIN sessions
      /\ mode # "down" /\ mode' # "down" /\ ~sessions[s].closed /\ r \in Rows /\ r \in Nat
      /\ fresh \ fresh' = {r} /\ active' = active
  <2>1. /\ StorageTypes /\ DOMAIN sessions \subseteq Ids /\ fresh \subseteq Rows
        /\ mode = "running" /\ mode' = mode /\ active' = active
        /\ ui = "idle" /\ s # 0
    BY DEF StorageInv, StorageTypes, AppendRow, modeVars
  <2>2. s \in DOMAIN sessions /\ ~sessions[s].closed BY <2>1 DEF StorageInv, Posture
  <2>3. fresh \ fresh' = {r} BY <1>1
  <2>4. r \in Rows /\ r \in Nat BY <1>1, <2>1, Constants
  <2> QED BY <2>1, <2>2, <2>3, <2>4
<1>3. Held(s)' = Held(s) \union {r} /\ \A i \in DOMAIN sessions \ {s} : Held(i)' = Held(i)
  <2>1. Held(s)' = Held(active)' BY <1>2 DEF Held, Given, Readable, Failed, RowsIn
  <2> QED BY <1>a, <1>2, <2>1
<1>4. sessions[s] \in Metadata /\ sessions \in [DOMAIN sessions -> Metadata]
  <2> HIDE DEF Metadata
  <2> QED BY <1>2 DEF StorageTypes
<1>5. /\ DOMAIN sessions' = DOMAIN sessions
      /\ \A i \in DOMAIN sessions \ {s} : sessions'[i] = sessions[i]
      /\ sessions'[s] = [sessions[s] EXCEPT !.start = Sooner(@, r), !.end = Later(@, r)]
  <2> HIDE DEF Metadata
  <2> QED BY <1>1, <1>2, <1>4
<1>6. /\ sessions'[s].start = Sooner(sessions[s].start, r)
      /\ sessions'[s].end = Later(sessions[s].end, r)
      /\ sessions'[s].closed = sessions[s].closed
      /\ sessions[s].start \in Nat /\ sessions[s].end \in Nat
  BY <1>4, <1>5 DEF Metadata
<1>7. /\ sessions'[s].start = Store!Sooner(r, sessions[s].start)
      /\ sessions'[s].end = Store!Later(r, sessions[s].end)
  BY <1>2, <1>6 DEF Sooner, Later, Store!Sooner, Store!Later
<1>8. /\ ~Down /\ DOMAIN Stored = DOMAIN sessions
      /\ \A i \in DOMAIN sessions :
           Stored[i] = [rows |-> Held(i), start |-> sessions[i].start, end |-> sessions[i].end,
                        closed |-> sessions[i].closed]
      /\ Stored = [i \in DOMAIN Stored |-> Stored[i]]
  BY <1>2, StoredUp
<1> DEFINE New(i) == IF i = s THEN [rows |-> Held(s) \union {r}, start |-> sessions'[s].start,
                                    end |-> sessions'[s].end, closed |-> sessions[s].closed]
                              ELSE Stored[i]
           Old(i) == [rows |-> Held(i)', start |-> sessions'[i].start, end |-> sessions'[i].end,
                      closed |-> sessions'[i].closed]
           start == Store!Sooner(r, Stored[s].start)
<1>9. Stored' = [i \in DOMAIN sessions' |-> Old(i)] /\ ~Down' BY <1>2, StoredUpNext
<1>10. \A i \in DOMAIN sessions : Old(i) = New(i)
  <2> TAKE i \in DOMAIN sessions
  <2>1. CASE i = s
    <3>1. Old(s) = New(s) BY <1>3, <1>6
    <3> HIDE DEF Old, New
    <3> QED BY <2>1, <3>1
  <2>2. CASE i # s BY <1>3, <1>5, <1>8, <2>2
  <2> QED BY <2>1, <2>2
<1>11. Stored' = [i \in DOMAIN sessions |-> New(i)]
  <2> HIDE DEF New, Old
  <2> QED BY <1>5, <1>9, <1>10
<1>12. [Stored EXCEPT ![s].rows = @ \union {r}, ![s].start = start, ![s].end = Store!Later(r, @)]
         = [i \in DOMAIN sessions |-> New(i)]
  <2>1. Stored[s] = [rows |-> Held(s), start |-> sessions[s].start, end |-> sessions[s].end,
                     closed |-> sessions[s].closed]
    BY <1>2, <1>8
  <2>2. [Stored[s] EXCEPT !.rows = @ \union {r}, !.start = start, !.end = Store!Later(r, @)] = New(s)
    <3>1. /\ Stored[s].rows = Held(s) /\ Stored[s].end = sessions[s].end
          /\ start = sessions'[s].start /\ Store!Later(r, Stored[s].end) = sessions'[s].end
      BY <1>7, <2>1
    <3>2. [Stored[s] EXCEPT !.rows = @ \union {r}, !.start = start, !.end = Store!Later(r, @)]
            = [rows |-> Held(s) \union {r}, start |-> sessions'[s].start,
               end |-> sessions'[s].end, closed |-> sessions[s].closed]
      <4> HIDE DEF start, New
      <4>1. PICK x, y, z, entry : /\ x = Held(s) \union {r} /\ y = start
                                  /\ z = sessions'[s].end /\ entry = Stored[s]
        OBVIOUS
      <4>2. [entry EXCEPT !.rows = x, !.start = y, !.end = z]
              = [rows |-> x, start |-> y, end |-> z, closed |-> sessions[s].closed]
        <5>1. entry = [rows |-> Held(s), start |-> sessions[s].start, end |-> sessions[s].end,
                       closed |-> sessions[s].closed]
          BY <2>1, <4>1
        <5>2. entry \in [rows : {Held(s)}, start : {sessions[s].start}, end : {sessions[s].end},
                         closed : {sessions[s].closed}]
          BY <5>1
        <5>3. PICK f : f = [entry EXCEPT !.rows = x, !.start = y, !.end = z] OBVIOUS
        <5>4. f \in [rows : {x}, start : {y}, end : {z}, closed : {sessions[s].closed}]
          BY <5>2, <5>3
        <5>5. f = [rows |-> x, start |-> y, end |-> z, closed |-> sessions[s].closed]
          BY ONLY <5>4
        <5> QED BY <5>3, <5>5
      <4>3. [Stored[s] EXCEPT !.rows = @ \union {r}, !.start = start, !.end = Store!Later(r, @)]
              = [entry EXCEPT !.rows = x, !.start = y, !.end = z]
        BY <3>1, <4>1
      <4> QED BY <3>1, <4>1, <4>2, <4>3
    <3>3. New(s) = [rows |-> Held(s) \union {r}, start |-> sessions'[s].start,
                    end |-> sessions'[s].end, closed |-> sessions[s].closed]
      OBVIOUS
    <3> HIDE DEF start, New
    <3> QED BY <3>2, <3>3
  <2>3. [Stored EXCEPT ![s].rows = @ \union {r}, ![s].start = start, ![s].end = Store!Later(r, @)]
          = [i \in DOMAIN Stored |-> IF i = s THEN
              [Stored[s] EXCEPT !.rows = @ \union {r}, !.start = start, !.end = Store!Later(r, @)]
              ELSE Stored[i]]
    <3> HIDE DEF New, start
    <3> QED BY <1>2, <1>8
  <2>4. \A i \in DOMAIN sessions : i # s => New(i) = Stored[i] OBVIOUS
  <2> HIDE DEF New, start
  <2>5. PICK e : e = [Stored[s] EXCEPT !.rows = @ \union {r}, !.start = start,
                                      !.end = Store!Later(r, @)]
    OBVIOUS
  <2>6. e = New(s) BY <2>2, <2>5
  <2>7. DOMAIN Stored = DOMAIN sessions BY <1>8
  <2>8. [i \in DOMAIN Stored |-> IF i = s THEN e ELSE Stored[i]] = [i \in DOMAIN sessions |-> New(i)]
    BY <2>4, <2>6, <2>7
  <2> QED BY <2>3, <2>5, <2>8
<1>13. /\ ~Stored[s].closed
       /\ start \in {Store!Sooner(r, Stored[s].start)}
                      \union (IF Stored[s].rows = {} THEN {r} ELSE {})
  <2>1. Stored[s].closed = sessions[s].closed BY <1>2, <1>8
  <2> QED BY <1>2, <2>1
<1>14. Store!AppendRow(s, r)
  <2>1. Stored' = [Stored EXCEPT ![s].rows = @ \union {r}, ![s].start = start,
                                ![s].end = Store!Later(r, @)]
    BY <1>11, <1>12
  <2> HIDE DEF New, Old, start
  <2> QED BY <1>2, <1>8, <1>9, <1>13, <2>1 DEF Store!AppendRow
<1> QED BY <1>2, <1>14 DEF Store!StoreNext

LEMMA ClosesSession ==
  ASSUME StorageInv, CloseSession
  PROVE  Store!StoreNext
<1>1. PICK end \in {StartUtc[active]} \union recentRows[active] :
        sessions' = [sessions EXCEPT ![active].end = Later(@, end), ![active].closed = TRUE]
  BY DEF CloseSession
<1>a. \A i \in DOMAIN sessions : Held(i)' = Held(i) BY CloseSessionKeeps
<1> PICK s : s = active OBVIOUS
<1>2. /\ StorageTypes /\ DOMAIN sessions \subseteq Ids /\ s \in Ids /\ s \in DOMAIN sessions
      /\ mode # "down" /\ mode' # "down" /\ end \in Nat
      /\ end \in Rows \union {StartUtc[j] : j \in Ids}
  <2>1. /\ StorageTypes /\ DOMAIN sessions \subseteq Ids /\ recentRows \in [Ids -> SUBSET Rows]
        /\ mode = "running" /\ mode' = mode /\ ui = "idle" /\ s # 0
    BY DEF StorageInv, StorageTypes, CloseSession, modeVars
  <2>2. s \in DOMAIN sessions BY <2>1 DEF StorageInv, Posture
  <2>3. end \in Rows \union {StartUtc[j] : j \in Ids} BY <1>1, <2>1, <2>2
  <2>4. end \in Nat BY <2>3, Constants
  <2> QED BY <2>1, <2>2, <2>3, <2>4
<1>3. sessions[s] \in Metadata /\ sessions \in [DOMAIN sessions -> Metadata]
  <2> HIDE DEF Metadata
  <2> QED BY <1>2 DEF StorageTypes
<1>4. /\ DOMAIN sessions' = DOMAIN sessions
      /\ \A i \in DOMAIN sessions \ {s} : sessions'[i] = sessions[i]
      /\ sessions'[s] = [sessions[s] EXCEPT !.end = Later(@, end), !.closed = TRUE]
  <2> HIDE DEF Metadata
  <2> QED BY <1>1, <1>2, <1>3
<1>5. /\ sessions'[s].start = sessions[s].start
      /\ sessions'[s].end = Later(sessions[s].end, end)
      /\ sessions'[s].closed = TRUE /\ sessions[s].end \in Nat
  BY <1>3, <1>4 DEF Metadata
<1>6. sessions'[s].end = Store!Later(end, sessions[s].end)
  BY <1>2, <1>5 DEF Later, Store!Later
<1>7. /\ ~Down /\ DOMAIN Stored = DOMAIN sessions
      /\ \A i \in DOMAIN sessions :
           Stored[i] = [rows |-> Held(i), start |-> sessions[i].start, end |-> sessions[i].end,
                        closed |-> sessions[i].closed]
      /\ Stored = [i \in DOMAIN Stored |-> Stored[i]]
  BY <1>2, StoredUp
<1> DEFINE New(i) == IF i = s THEN [rows |-> Held(s), start |-> sessions[s].start,
                                    end |-> sessions'[s].end, closed |-> TRUE]
                              ELSE Stored[i]
           Old(i) == [rows |-> Held(i)', start |-> sessions'[i].start, end |-> sessions'[i].end,
                      closed |-> sessions'[i].closed]
<1>8. Stored' = [i \in DOMAIN sessions' |-> Old(i)] /\ ~Down' BY <1>2, StoredUpNext
<1>9. \A i \in DOMAIN sessions : Old(i) = New(i)
  <2> TAKE i \in DOMAIN sessions
  <2>1. CASE i = s
    <3>1. Old(s) = New(s) BY <1>a, <1>2, <1>5
    <3> HIDE DEF Old, New
    <3> QED BY <2>1, <3>1
  <2>2. CASE i # s BY <1>a, <1>4, <1>7, <2>2
  <2> QED BY <2>1, <2>2
<1>10. Stored' = [i \in DOMAIN sessions |-> New(i)]
  <2> HIDE DEF New, Old
  <2> QED BY <1>4, <1>8, <1>9
<1>11. [Stored EXCEPT ![s].end = Store!Later(end, @), ![s].closed = TRUE]
         = [i \in DOMAIN sessions |-> New(i)]
  <2>1. Stored[s] = [rows |-> Held(s), start |-> sessions[s].start, end |-> sessions[s].end,
                     closed |-> sessions[s].closed]
    BY <1>2, <1>7
  <2>2. [Stored[s] EXCEPT !.end = Store!Later(end, @), !.closed = TRUE] = New(s)
    <3>1. Stored[s].end = sessions[s].end
          /\ Store!Later(end, Stored[s].end) = sessions'[s].end
      BY <1>6, <2>1
    <3>2. Stored[s] \in [rows : {Held(s)}, start : {sessions[s].start}, end : {sessions[s].end},
                         closed : {sessions[s].closed}]
      BY <2>1
    <3>3. PICK entry, z : entry = Stored[s] /\ z = sessions'[s].end OBVIOUS
    <3>4. PICK f : f = [entry EXCEPT !.end = z, !.closed = TRUE] OBVIOUS
    <3>5. f \in [rows : {Held(s)}, start : {sessions[s].start}, end : {z}, closed : {TRUE}]
      BY <3>2, <3>3, <3>4
    <3>6. f = [rows |-> Held(s), start |-> sessions[s].start, end |-> z, closed |-> TRUE]
      BY ONLY <3>5
    <3>7. New(s) = [rows |-> Held(s), start |-> sessions[s].start, end |-> sessions'[s].end,
                    closed |-> TRUE]
      OBVIOUS
    <3>8. [Stored[s] EXCEPT !.end = Store!Later(end, @), !.closed = TRUE]
            = [entry EXCEPT !.end = z, !.closed = TRUE]
      <4> HIDE DEF New
      <4> QED BY <3>1, <3>3
    <3> HIDE DEF New
    <3> QED BY <3>3, <3>4, <3>6, <3>7, <3>8
  <2>3. [Stored EXCEPT ![s].end = Store!Later(end, @), ![s].closed = TRUE]
          = [i \in DOMAIN Stored |-> IF i = s THEN
              [Stored[s] EXCEPT !.end = Store!Later(end, @), !.closed = TRUE]
              ELSE Stored[i]]
    <3> HIDE DEF New
    <3> QED BY <1>2, <1>7
  <2>4. \A i \in DOMAIN sessions : i # s => New(i) = Stored[i] OBVIOUS
  <2> HIDE DEF New
  <2> QED BY <1>7, <2>2, <2>3, <2>4
<1>12. Store!CloseSession(s, end)
  <2> HIDE DEF New, Old
  <2> QED BY <1>2, <1>7, <1>8, <1>10, <1>11 DEF Store!CloseSession
<1> QED BY <1>2, <1>12 DEF Store!StoreNext

\* What the next process will find of a session when this one ends, in a crash or not.
LEMMA ExitFinds ==
  ASSUME StorageInv, Exit, StorageTypes', Files', NEW i \in Recovered'
  PROVE  /\ i \in Ids /\ i \in DOMAIN sessions
         /\ Indexed(Scanned(i)', disk'[i].bin) \subseteq Held(i)
         /\ disk'[i].meta \in Metadata /\ Within(disk'[i].meta, sessions[i])
<1>1. mode # "down" /\ StorageTypes BY DEF Exit, StorageInv
<1>2. i \in Ids /\ "bin" \in disk'[i].parts /\ disk'[i].meta # NoMetadata BY DEF Recovered
<1>3. /\ disk'[i].meta = disk[i].meta
      /\ RowsOfFile(i)' \subseteq RowsOfFile(i) \union RowsIn(batch, i)
      /\ i \in DOMAIN sessions \/ "bin" \in disk[i].parts
      /\ NoJobs(i) => disk'[i] = disk[i]
  BY <1>2, ExitDisk
<1>4. i \in DOMAIN sessions BY <1>1, <1>2, <1>3 DEF StorageInv, Files
<1>5. disk'[i].meta \in Metadata /\ Within(disk'[i].meta, sessions[i])
  BY <1>1, <1>2, <1>3, <1>4, ReadableRows DEF StorageInv, Described
<1>6. Indexed(Scanned(i)', disk'[i].bin) \subseteq RowsOfFile(i)'
  <2>1. disk'[i].bin \in Seq(Records) /\ disk'[i].idx \in Seq(Entries)
    <3>1. disk' \in [Ids -> Directories] BY DEF StorageTypes
    <3>2. disk'[i] \in Directories BY <1>2, <3>1
    <3> QED BY <3>2 DEF Directories
  <2>2. Scanned(i)' \in {Parsed(disk'[i].bin), disk'[i].idx} BY DEF Scanned
  <2>3. Scanned(i)' \in Seq(Entries) BY <2>1, <2>2, ParsedFacts
  <2>4. Indexed(Scanned(i)', disk'[i].bin) \subseteq Rows \intersect ToSet(disk'[i].bin)
    BY <2>1, <2>3, IndexedFacts
  <2> QED BY <2>4 DEF RowsOfFile
<1>7. Kept(i) \subseteq Held(i) /\ RowsIn(batch, i) \subseteq Kept(i) BY GivenNext DEF Kept
<1>8. CASE RowsOfFile(i) \subseteq Kept(i) BY <1>2, <1>3, <1>4, <1>5, <1>6, <1>7, <1>8
<1>9. CASE Quiet(i) /\ ~ToRepair(i)
  <2>1. disk'[i] = disk[i] BY <1>3, <1>9 DEF Quiet
  <2>2. Scanned(i)' = disk[i].idx BY <1>9, <2>1 DEF Scanned, ToRepair
  <2>3. Indexed(Scanned(i)', disk'[i].bin) = Readable(i) BY <2>1, <2>2 DEF Readable
  <2> QED BY <1>2, <1>4, <1>5, <1>7, <2>3 DEF Kept
<1> QED BY <1>4, <1>8, <1>9 DEF StorageInv, RowsKept, Young, Quiet

\* What a process that is down leaves on the disk is a session.
LEMMA EntryIsSession ==
  ASSUME NEW m \in Metadata, NEW rows \in SUBSET Rows
  PROVE  [rows |-> rows, start |-> m.start, end |-> m.end, closed |-> m.closed] \in Store!Session
BY DEF Metadata, Store!Session

LEMMA ExitsStore ==
  ASSUME StorageInv, Exit, StorageTypes', Files'
  PROVE  Store!Exit
<1>1. mode # "down" /\ mode' = "down" /\ StorageTypes /\ DOMAIN sessions \subseteq Ids
  BY DEF Exit, Forgotten, StorageInv, StorageTypes
<1>2. /\ DOMAIN Stored = DOMAIN sessions
      /\ \A i \in DOMAIN sessions :
           Stored[i] = [rows |-> Held(i), start |-> sessions[i].start, end |-> sessions[i].end,
                        closed |-> sessions[i].closed]
  BY <1>1, StoredUp
<1>3. /\ Down' /\ DOMAIN Stored' = Recovered'
      /\ \A i \in Recovered' :
           Stored'[i] = [rows |-> Indexed(Scanned(i)', disk'[i].bin), start |-> disk'[i].meta.start,
                         end |-> disk'[i].meta.end, closed |-> disk'[i].meta.closed]
  BY <1>1, StoredDownNext
<1>4. DOMAIN Stored' \subseteq DOMAIN Stored BY <1>2, <1>3, ExitFinds
<1>5. ASSUME NEW i \in DOMAIN Stored'
      PROVE  /\ Stored'[i] \in Store!Session
             /\ Stored'[i].rows \subseteq Stored[i].rows
             /\ Stored'[i].start >= Stored[i].start /\ Stored'[i].end <= Stored[i].end
             /\ Stored'[i].closed => Stored[i].closed
  <2>1. /\ i \in Ids /\ i \in DOMAIN sessions /\ i \in Recovered'
        /\ Indexed(Scanned(i)', disk'[i].bin) \subseteq Held(i)
        /\ disk'[i].meta \in Metadata /\ Within(disk'[i].meta, sessions[i])
    BY <1>3, ExitFinds
  <2>2. Indexed(Scanned(i)', disk'[i].bin) \in SUBSET Rows BY <1>1, <2>1, ReadableRows
  <2>3. Stored'[i] \in Store!Session
    <3>1. PICK m, rows : m = disk'[i].meta /\ rows = Indexed(Scanned(i)', disk'[i].bin) OBVIOUS
    <3>2. [rows |-> rows, start |-> m.start, end |-> m.end, closed |-> m.closed] \in Store!Session
      BY <2>1, <2>2, <3>1, EntryIsSession
    <3> QED BY <1>3, <2>1, <3>1, <3>2
  <2>4. /\ Stored'[i].rows = Indexed(Scanned(i)', disk'[i].bin) /\ Stored'[i].start = disk'[i].meta.start
        /\ Stored'[i].end = disk'[i].meta.end /\ Stored'[i].closed = disk'[i].meta.closed
    BY <1>3, <2>1
  <2>5. /\ Stored[i].rows = Held(i) /\ Stored[i].start = sessions[i].start
        /\ Stored[i].end = sessions[i].end /\ Stored[i].closed = sessions[i].closed
    BY <1>2, <2>1
  <2> QED BY <2>1, <2>3, <2>4, <2>5 DEF Within
<1> QED BY <1>3, <1>4, <1>5 DEF Store!Exit

LEMMA RebuildCutExits ==
  ASSUME StorageInv, RebuildCut
  PROVE  Store!Exit
<1>1. mode = "down" /\ mode' = "down" /\ StorageTypes BY DEF RebuildCut, StorageInv
<1>2. PICK s \in Recovered :
           /\ \A i \in Ids \ {s} : disk'[i] = disk[i]
           /\ disk'[s].parts = disk[s].parts \union {"idx"} /\ disk'[s].meta = disk[s].meta
           /\ disk'[s].bin = disk[s].bin
           /\ Scanned(s)' = disk'[s].idx
           /\ Indexed(disk'[s].idx, disk[s].bin) \subseteq Indexed(Scanned(s), disk[s].bin)
  BY RebuildCutDisk
<1>3. Recovered' = Recovered BY <1>2 DEF Recovered
<1>4. /\ DOMAIN Stored = Recovered
      /\ \A i \in Recovered :
           Stored[i] = [rows |-> Indexed(Scanned(i), disk[i].bin), start |-> disk[i].meta.start,
                        end |-> disk[i].meta.end, closed |-> disk[i].meta.closed]
  BY <1>1, StoredDown
<1>5. /\ Down' /\ DOMAIN Stored' = Recovered
      /\ \A i \in Recovered :
           Stored'[i] = [rows |-> Indexed(Scanned(i)', disk'[i].bin), start |-> disk'[i].meta.start,
                         end |-> disk'[i].meta.end, closed |-> disk'[i].meta.closed]
  BY <1>1, <1>3, StoredDownNext
<1>6. \A i \in Recovered : /\ disk'[i].meta = disk[i].meta
                           /\ Indexed(Scanned(i)', disk'[i].bin)
                                \subseteq Indexed(Scanned(i), disk[i].bin)
  <2> TAKE i \in Recovered
  <2>1. CASE i = s
    <3>1. /\ Indexed(Scanned(s)', disk'[s].bin) \subseteq Indexed(Scanned(s), disk[s].bin)
          /\ disk'[s].meta = disk[s].meta
      BY <1>2
    <3>2. Scanned(i)' = Scanned(s)' BY <2>1 DEF Scanned, ToRepair
    <3> QED BY <2>1, <3>1, <3>2
  <2>2. CASE i # s
    <3>1. disk'[i] = disk[i] BY <1>2, <2>2 DEF Recovered
    <3>2. Scanned(i)' = Scanned(i) BY <3>1, FilesUnchanged
    <3> QED BY <3>1, <3>2
  <2> QED BY <2>1, <2>2
<1>7. ASSUME NEW i \in Recovered
      PROVE  /\ Stored'[i] \in Store!Session
             /\ Stored'[i].rows \subseteq Stored[i].rows
             /\ Stored'[i].start >= Stored[i].start /\ Stored'[i].end <= Stored[i].end
             /\ Stored'[i].closed => Stored[i].closed
  <2>1. i \in Ids /\ disk[i].meta \in Metadata /\ Indexed(Scanned(i), disk[i].bin) \subseteq Rows
    BY <1>1, ReadableRows, ScannedFacts DEF Recovered
  <2>2. Stored'[i] \in Store!Session
    <3>1. PICK m, rows : m = disk[i].meta /\ rows = Indexed(Scanned(i)', disk'[i].bin) OBVIOUS
    <3>2. rows \in SUBSET Rows BY <1>6, <2>1, <3>1
    <3>3. [rows |-> rows, start |-> m.start, end |-> m.end, closed |-> m.closed] \in Store!Session
      BY <2>1, <3>1, <3>2, EntryIsSession
    <3> QED BY <1>5, <1>6, <3>1, <3>3
  <2>3. /\ Stored'[i].rows = Indexed(Scanned(i)', disk'[i].bin) /\ Stored'[i].start = disk[i].meta.start
        /\ Stored'[i].end = disk[i].meta.end /\ Stored'[i].closed = disk[i].meta.closed
    BY <1>5, <1>6
  <2>4. /\ Stored[i].rows = Indexed(Scanned(i), disk[i].bin) /\ Stored[i].start = disk[i].meta.start
        /\ Stored[i].end = disk[i].meta.end /\ Stored[i].closed = disk[i].meta.closed
    BY <1>4
  <2>5. disk[i].meta.start \in Nat /\ disk[i].meta.end \in Nat BY <2>1 DEF Metadata
  <2> QED BY <1>6, <2>2, <2>3, <2>4, <2>5
<1> QED BY <1>4, <1>5, <1>7 DEF Store!Exit

LEMMA RestartOpens ==
  ASSUME StorageInv, Restart
  PROVE  Store!Open
<1>1. /\ mode = "down" /\ mode' = "running" /\ DOMAIN sessions' = Recovered
      /\ sessions' = [i \in Recovered |-> disk[i].meta]
      /\ UNCHANGED <<recentRows, writeQueue, batch, failed>>
  BY DEF Restart, procVars, faultVars
<1>2. /\ \A i \in Ids : NoJobs(i) /\ recentRows[i] = {} /\ Failed(i) = {}
      /\ \A i \in Recovered : i \in Ids
  BY <1>1, DownFacts
<1>3. \A i \in Recovered : Held(i)' = Indexed(Scanned(i), disk[i].bin)
  <2> TAKE i \in Recovered
  <2>1. i \in Ids BY <1>2
  <2>2. Readable(i)' = Indexed(Scanned(i), disk[i].bin) BY RestartDisk
  <2>3. RowsIn(writeQueue', i) = {} /\ RowsIn(batch', i) = {} BY <1>1, <1>2, <2>1 DEF NoJobs
  <2>4. recentRows'[i] = {} /\ Failed(i)' = {} BY <1>1, <1>2, <2>1 DEF Failed
  <2> QED BY <2>2, <2>3, <2>4, GivenNext
<1>4. Down /\ Stored = [i \in Recovered |->
              [rows |-> Indexed(Scanned(i), disk[i].bin), start |-> disk[i].meta.start,
               end |-> disk[i].meta.end, closed |-> disk[i].meta.closed]]
  BY <1>1, StoredDown
<1>5. ~Down' /\ Stored' = [i \in DOMAIN sessions' |->
              [rows |-> Held(i)', start |-> sessions'[i].start, end |-> sessions'[i].end,
               closed |-> sessions'[i].closed]]
  BY <1>1, StoredUpNext
<1>6. \A i \in Recovered : sessions'[i] = disk[i].meta BY <1>1
<1>7. Stored' = Stored BY <1>1, <1>3, <1>4, <1>5, <1>6
<1> QED BY <1>4, <1>5, <1>7 DEF Store!Open

LEMMA StoreStep ==
  StorageInv /\ StorageInv' /\ [Next]_vars => [Store!StoreNext]_(Store!storeVars)
<1> SUFFICES ASSUME StorageInv, StorageInv', [Next]_vars
             PROVE  [Store!StoreNext]_(Store!storeVars)
  OBVIOUS
<1>0. StorageTypes /\ StorageTypes' /\ Files' BY DEF StorageInv
<1>1. CASE WriterStep
  <2>1. WriterEffect BY <1>1, WriterEffects
  <2>2. mode # "down" /\ mode' # "down" /\ sessions' = sessions
    BY <2>1 DEF WriterEffect, modeVars, memoryVars
  <2>3. \A i \in DOMAIN sessions : Held(i)' = Held(i) BY <1>0, <2>1, WriterKeepsYoung
  <2> QED BY <2>2, <2>3, UnseenStoreStep
<1>2. CASE StartRegister BY <1>2, StartsSession
<1>3. CASE AppendRow BY <1>3, AppendsRow
<1>4. CASE CloseSession BY <1>4, ClosesSession
<1>5. CASE StartFiles
  <2>1. /\ mode # "down" /\ mode' # "down" /\ sessions' = sessions
        /\ UNCHANGED <<recentRows, writeQueue, batch, failed>>
        /\ disk' = [disk EXCEPT ![started + 1] = StartParts]
    BY <1>5 DEF StartFiles, StartParts, modeVars, memoryVars, procVars, faultVars
  <2>2. \A i \in DOMAIN sessions : Held(i)' = Held(i)
    <3> TAKE i \in DOMAIN sessions
    <3>1. i \in Ids /\ i \in 1..started /\ started \in Nat
      BY <1>0 DEF StorageInv, Posture, StorageTypes
    <3>2. i # started + 1 BY <3>1
    <3>3. disk'[i] = disk[i] BY <1>0, <2>1, <3>1, <3>2 DEF StorageTypes
    <3>4. Failed(i)' = Failed(i) BY <2>1 DEF Failed
    <3> QED BY <2>1, <3>3, <3>4, Same
  <2> QED BY <2>1, <2>2, UnseenStoreStep
<1>6. CASE StartDescribe \/ CloseDescribe
  <2>1. /\ sessions' = sessions /\ mode' = mode
        /\ UNCHANGED <<recentRows, writeQueue, batch, failed>>
        /\ ui # "idle" /\ active \in Ids
        /\ \E m \in Metadata : Describe(active, m)
    <3>1. active \in Ids /\ ui # "idle"
      BY <1>0, <1>6 DEF StorageInv, Posture, StorageTypes, StartDescribe, CloseDescribe
    <3>2. CASE StartDescribe
      <4>1. [start |-> StartUtc[active], end |-> StartUtc[active], closed |-> FALSE] \in Metadata
        BY <3>1, Constants DEF Metadata
      <4> QED BY <3>1, <3>2, <4>1 DEF StartDescribe, memoryVars, procVars, modeVars
    <3>3. CASE CloseDescribe
      <4>1. active \in DOMAIN sessions BY <3>1, <3>3, Constants DEF CloseDescribe, StorageInv, Posture
      <4>2. sessions[active] \in Metadata
        <5> HIDE DEF Metadata
        <5> QED BY <1>0, <4>1 DEF StorageTypes
      <4> QED BY <3>1, <3>3, <4>2 DEF CloseDescribe, memoryVars, procVars, modeVars
    <3> QED BY <1>6, <3>2, <3>3
  <2>2. mode = "running" BY <2>1 DEF StorageInv, Posture
  <2>3. \A i \in Ids : /\ disk'[i].bin = disk[i].bin /\ disk'[i].idx = disk[i].idx
                       /\ "idx" \in disk'[i].parts <=> "idx" \in disk[i].parts
    <3>1. PICK s : s = active OBVIOUS
    <3>2. PICK m \in Metadata : Describe(s, m) BY <2>1, <3>1
    <3> QED BY <1>0, <2>1, <3>1, <3>2, DescribeTypes
  <2>4. \A i \in DOMAIN sessions : Held(i)' = Held(i)
    <3> TAKE i \in DOMAIN sessions
    <3>1. i \in Ids BY <1>0 DEF StorageTypes
    <3>2. Failed(i)' = Failed(i) BY <2>1 DEF Failed
    <3> QED BY <2>1, <2>3, <3>1, <3>2, Same
  <2> QED BY <2>1, <2>2, <2>4, UnseenStoreStep
<1>7. CASE LoadFiles \/ LoadRecent \/ Stop \/ WriterExit
  <2>1. mode # "down" /\ mode' # "down" /\ sessions' = sessions
    BY <1>7 DEF LoadFiles, LoadRecent, Stop, WriterExit, modeVars, memoryVars
  <2>2. \A i \in DOMAIN sessions : Held(i)' = Held(i) BY <1>7, LoaderKeeps
  <2> QED BY <2>1, <2>2, UnseenStoreStep
<1>8. CASE Exit BY <1>0, <1>8, ExitsStore DEF Store!StoreNext
<1>9. CASE RebuildCut BY <1>9, RebuildCutExits DEF Store!StoreNext
<1>10. CASE Restart BY <1>10, RestartOpens DEF Store!StoreNext
<1>11. CASE UNCHANGED vars
  <2>1. UNCHANGED <<sessions, recentRows, writeQueue, batch, disk, mode, failed>>
    BY <1>11 DEF vars, memoryVars, procVars, modeVars, faultVars
  <2>2. \A i : /\ Held(i)' = Held(i)
               /\ Indexed(Scanned(i), disk[i].bin)' = Indexed(Scanned(i), disk[i].bin)
    BY <2>1 DEF Held, Given, Readable, Failed, RowsIn, Scanned, ToRepair, Indexed, Intact, ToSet
  <2>3. Recovered' = Recovered /\ Down' = Down BY <2>1 DEF Recovered, Down
  <2>4. Stored' = Stored BY <2>1, <2>2, <2>3 DEF Stored, Known, Entry
  <2> QED BY <2>3, <2>4 DEF Store!storeVars
<1> QED BY <1>1, <1>2, <1>3, <1>4, <1>5, <1>6, <1>7, <1>8, <1>9, <1>10, <1>11 DEF Next

\* BinaryWaterfallSessionStorage, with its writer, its files and the crashes, behaves as the store
\* in memory does, and loadRows misses no row that it has to know.
THEOREM StorageActsAsStore == Spec => ActsAsStore
<1>1. Init => Store!StoreInit
  <2> SUFFICES ASSUME Init PROVE Store!StoreInit OBVIOUS
  <2>1. mode = "running" /\ sessions = << >> /\ DOMAIN sessions = {} BY DEF Init
  <2>2. Stored = << >> BY <2>1, StoredUp
  <2>3. ~Down BY <2>1 DEF Down
  <2> QED BY <2>2, <2>3 DEF Store!StoreInit
<1>2. StorageInv /\ [Next]_vars => [LoadedRowsComplete]_vars BY LoadsComplete
<1>3. Store!StoreSpec <=> Store!StoreInit /\ [][Store!StoreNext]_(Store!storeVars)
  BY DEF Store!StoreSpec
<1>4. LoadIsComplete <=> [][LoadedRowsComplete]_vars BY DEF LoadIsComplete
<1>5. ActsAsStore <=> Store!StoreSpec /\ LoadIsComplete BY DEF ActsAsStore
<1> QED BY <1>1, <1>2, <1>3, <1>4, <1>5, StoreStep, StorageInvariant, PTL DEF Spec

-----------------------------------------------------------------------------
(* DiagnosticLog.                                                            *)

Line == [id : Nat, thread : Threads \union {NoEvent},
         severity : {"Info", "Warning", "Error"}, dropped : Nat]
Written == [line : Line, opened : BOOLEAN, told : Nat]

LogTypes ==
  /\ queue \in Seq(Line) /\ Len(queue) <= MaxQueuedEvents
  /\ taken \in Line \union {NoEvent} /\ droppedEvents \in Nat
  /\ lines \in Seq(Written)
  /\ stopRequested \in BOOLEAN /\ gone \in BOOLEAN
  /\ unposted \in [Threads -> Line \union {NoEvent}]
  /\ posted \in Seq(Line) /\ recent \in Seq(Line) /\ Len(recent) <= MaxRecentEvents
  /\ count \in Nat /\ count <= MaxEvents

\* Every event published stands in a line, is in the writer's hands, counts as dropped, or
\* is in the queue, in this order of their numbers; nothing is left when the writer is gone.
InHand == IF taken = NoEvent THEN 0 ELSE Stands(taken)
Accounted ==
  /\ Told + InHand + droppedEvents + Len(queue) = count
  /\ \A k \in 1..Len(queue) : queue[k].id = count - Len(queue) + k
  /\ taken # NoEvent /\ taken.id # 0 => taken.id = Told + 1
  /\ \A k \in 1..Len(lines) : lines[k].line.id # 0 => lines[k].line.id = lines[k].told
  /\ gone => /\ stopRequested /\ taken = NoEvent /\ queue = <<>> /\ droppedEvents = 0

\* The events of a thread on their way to the windows are in the order of the log, the one
\* that the thread has not posted yet after them.
ByThread(shown) ==
  \A i, j \in 1..Len(shown) : i < j /\ shown[i].thread = shown[j].thread
                              => shown[i].id < shown[j].id
Behind(shown, event) ==
  \A i \in 1..Len(shown) : shown[i].thread = event.thread => shown[i].id < event.id
OnTheWay ==
  LET shown == recent \o posted
  IN /\ ByThread(shown)
     /\ \A i \in 1..Len(shown) : shown[i].id <= count
     /\ \A t \in Threads : unposted[t] # NoEvent =>
          unposted[t].thread = t /\ unposted[t].id <= count /\ Behind(shown, unposted[t])

LogInv == LogTypes /\ Accounted /\ OnTheWay

LEMMA LineForms ==
  /\ \A n \in Nat, t \in Threads, s \in {"Info", "Error"} :
       Event(n, t, s) \in Line /\ Event(n, t, s) # NoEvent
  /\ \A n \in Nat : Overflow(n) \in Line /\ Overflow(n) # NoEvent
  /\ NoEvent \notin Line
BY LogAssumption DEF Event, Overflow, Line

LEMMA ToldNat == ASSUME LogTypes PROVE Told \in Nat /\ InHand \in Nat
<1>1. lines \in Seq(Written) BY DEF LogTypes
<1>2. Told \in Nat
  <2>1. CASE lines = <<>> BY <2>1 DEF Told
  <2>2. CASE lines # <<>>
    <3>1. Len(lines) \in 1..Len(lines) BY <2>2, <1>1
    <3>2. lines[Len(lines)] \in Written BY <3>1, <1>1
    <3> QED BY <3>2, <2>2 DEF Told, Written
  <2> QED BY <2>1, <2>2
<1>3. InHand \in Nat BY DEF LogTypes, InHand, Stands, Line
<1> QED BY <1>2, <1>3

\* One more event at the end.
LEMMA ShownPush ==
  ASSUME NEW q \in Seq(Line), NEW e \in Line, ByThread(q), Behind(q, e)
  PROVE  ByThread(Append(q, e))
<1> DEFINE r == Append(q, e)
<1>1. /\ Len(r) = Len(q) + 1 /\ Len(q) \in Nat /\ r[Len(q) + 1] = e
      /\ \A i \in 1..Len(q) : r[i] = q[i] /\ r[i] \in Line
  OBVIOUS
<1>2. \A i \in 1..Len(r) : i \in 1..Len(q) \/ i = Len(q) + 1 BY <1>1
<1> HIDE DEF r
<1>3. ASSUME NEW i \in 1..Len(r), NEW j \in 1..Len(r), i < j, r[i].thread = r[j].thread
      PROVE  r[i].id < r[j].id
  <2>1. i \in 1..Len(q) BY <1>1, <1>2, <1>3
  <2>2. CASE j \in 1..Len(q) BY <2>1, <2>2, <1>1, <1>3 DEF ByThread
  <2>3. CASE j = Len(q) + 1 BY <2>1, <2>3, <1>1, <1>3 DEF Behind
  <2> QED BY <2>2, <2>3, <1>2
<1>4. ByThread(r) BY <1>3 DEF ByThread
<1> QED BY <1>4 DEF r

\* The first one leaves.
LEMMA ShownPop ==
  ASSUME NEW q \in Seq(Line), q # <<>>, ByThread(q)
  PROVE  ByThread(Tail(q)) /\ \A e : Behind(q, e) => Behind(Tail(q), e)
<1> DEFINE r == Tail(q)
<1>1. /\ Len(r) = Len(q) - 1 /\ Len(q) \in Nat
      /\ \A i \in 1..Len(r) : r[i] = q[i + 1] /\ i + 1 \in 1..Len(q)
  OBVIOUS
<1> HIDE DEF r
<1>2. ByThread(r) BY <1>1 DEF ByThread
<1>3. \A e : Behind(q, e) => Behind(r, e) BY <1>1 DEF Behind
<1> QED BY <1>2, <1>3 DEF r

\* What is accepted is shown in the place it was posted at; the oldest may leave.
LEMMA Handed ==
  ASSUME NEW p \in Seq(Line), NEW q \in Seq(Line), p # <<>>
  PROVE  /\ Append(q, Head(p)) \o Tail(p) = q \o p
         /\ Tail(Append(q, Head(p))) \o Tail(p) = Tail(q \o p)
         /\ q \o p \in Seq(Line) /\ q \o p # <<>>
<1>1. /\ Tail(p) \in Seq(Line) /\ Head(p) \in Line /\ Head(p) = p[1]
      /\ Len(p) \in Nat /\ Len(p) > 0 /\ Len(Tail(p)) = Len(p) - 1
      /\ \A i \in 1..Len(Tail(p)) : Tail(p)[i] = p[i + 1]
  OBVIOUS
<1> DEFINE a == Append(q, Head(p))
           s == q \o p
           s1 == a \o Tail(p)
           s2 == Tail(a) \o Tail(p)
<1>2. /\ a \in Seq(Line) /\ a # <<>> /\ Len(a) = Len(q) + 1 /\ Len(q) \in Nat
      /\ \A i \in 1..Len(q) : a[i] = q[i]
      /\ a[Len(q) + 1] = Head(p)
  BY <1>1
<1>3. /\ Tail(a) \in Seq(Line) /\ Len(Tail(a)) = Len(q)
      /\ \A i \in 1..Len(q) : Tail(a)[i] = a[i + 1]
  <2> HIDE DEF a
  <2> QED BY <1>2
<1>4. /\ s \in Seq(Line) /\ Len(s) = Len(q) + Len(p)
      /\ \A i \in 1..Len(s) : s[i] = IF i <= Len(q) THEN q[i] ELSE p[i - Len(q)]
  OBVIOUS
<1>5. /\ s1 \in Seq(Line) /\ Len(s1) = Len(a) + Len(Tail(p))
      /\ \A i \in 1..Len(s1) : s1[i] = IF i <= Len(a) THEN a[i] ELSE Tail(p)[i - Len(a)]
  <2> DEFINE b == Tail(p)
  <2>1. a \in Seq(Line) /\ b \in Seq(Line) BY <1>1, <1>2
  <2> HIDE DEF a, b
  <2>2. /\ a \o b \in Seq(Line) /\ Len(a \o b) = Len(a) + Len(b)
        /\ \A i \in 1..Len(a \o b) : (a \o b)[i] = IF i <= Len(a) THEN a[i] ELSE b[i - Len(a)]
    BY <2>1
  <2> QED BY <2>2 DEF b
<1>6. /\ s2 \in Seq(Line) /\ Len(s2) = Len(q) + Len(Tail(p))
      /\ \A i \in 1..Len(s2) : s2[i] = IF i <= Len(q) THEN Tail(a)[i] ELSE Tail(p)[i - Len(q)]
  <2> DEFINE b == Tail(a)
             c == Tail(p)
  <2>1. b \in Seq(Line) /\ Len(b) = Len(q) /\ c \in Seq(Line) BY <1>1, <1>3
  <2> HIDE DEF b, c
  <2>2. /\ b \o c \in Seq(Line) /\ Len(b \o c) = Len(b) + Len(c)
        /\ \A i \in 1..Len(b \o c) : (b \o c)[i] = IF i <= Len(b) THEN b[i] ELSE c[i - Len(b)]
    BY <2>1
  <2> QED BY <2>1, <2>2 DEF b, c
<1>7. /\ s # <<>> /\ Tail(s) \in Seq(Line) /\ Len(Tail(s)) = Len(s) - 1
      /\ \A i \in 1..Len(Tail(s)) : Tail(s)[i] = s[i + 1]
  <2>1. s # <<>> BY <1>1, <1>2, <1>4
  <2> HIDE DEF s
  <2> QED BY <2>1, <1>4
<1> HIDE DEF a, s, s1, s2
<1>8. s1 = s
  <2>1. Len(s1) = Len(s) BY <1>1, <1>2, <1>4, <1>5
  <2>2. \A i \in 1..Len(s) : s1[i] = s[i]
    <3> SUFFICES ASSUME NEW i \in 1..Len(s) PROVE s1[i] = s[i] OBVIOUS
    <3>1. CASE i <= Len(q)
      <4>1. i \in 1..Len(q) /\ i <= Len(a) BY <3>1, <1>2
      <4>2. s[i] = q[i] BY <3>1, <1>4
      <4>3. s1[i] = a[i] BY <4>1, <2>1, <1>5
      <4> QED BY <4>1, <4>2, <4>3, <1>2
    <3>2. CASE i = Len(q) + 1
      <4>1. s1[i] = a[i] BY <3>2, <2>1, <1>2, <1>5
      <4>2. s[i] = p[1] BY <3>2, <1>2, <1>4
      <4> QED BY <4>1, <4>2, <3>2, <1>1, <1>2
    <3>3. CASE i > Len(q) + 1
      <4>1. s1[i] = Tail(p)[i - Len(a)] /\ i - Len(a) \in 1..Len(Tail(p))
        BY <3>3, <2>1, <1>1, <1>2, <1>4, <1>5
      <4>2. s1[i] = p[i - Len(a) + 1] BY <4>1, <1>1
      <4>3. s[i] = p[i - Len(q)]
        <5>1. i \in Nat /\ Len(q) \in Nat /\ ~(i <= Len(q)) BY <3>3, <1>2
        <5> QED BY <5>1, <1>4
      <4>4. i - Len(a) + 1 = i - Len(q) BY <1>2
      <4> QED BY <4>2, <4>3, <4>4
    <3>4. i \in Nat /\ Len(q) \in Nat BY <1>2
    <3> QED BY <3>1, <3>2, <3>3, <3>4
  <2> QED BY <2>1, <2>2, <1>4, <1>5
<1>9. s2 = Tail(s)
  <2>1. Len(s2) = Len(Tail(s)) /\ Len(s2) = Len(s) - 1 BY <1>1, <1>2, <1>4, <1>6, <1>7
  <2>2. \A i \in 1..Len(s2) : s2[i] = Tail(s)[i]
    <3> SUFFICES ASSUME NEW i \in 1..Len(s2) PROVE s2[i] = Tail(s)[i] OBVIOUS
    <3>1. Tail(s)[i] = s[i + 1] /\ i + 1 \in 1..Len(s) /\ i \in Nat \ {0}
      BY <2>1, <1>4, <1>7, <1>1, <1>2
    <3>2. CASE i < Len(q) BY <3>1, <3>2, <1>2, <1>3, <1>4, <1>6
    <3>3. CASE i = Len(q)
      <4>1. s2[i] = a[i + 1] BY <3>1, <3>3, <1>2, <1>3, <1>6
      <4>2. s[i + 1] = p[1] BY <3>1, <3>3, <1>2, <1>4
      <4> QED BY <4>1, <4>2, <3>1, <3>3, <1>1, <1>2
    <3>4. CASE i > Len(q)
      <4>1. s2[i] = Tail(p)[i - Len(q)] /\ i - Len(q) \in 1..Len(Tail(p))
        BY <3>1, <3>4, <1>1, <1>2, <1>6
      <4>2. s2[i] = p[i - Len(q) + 1] BY <4>1, <1>1
      <4>3. s[i + 1] = p[i + 1 - Len(q)]
        <5>1. ~(i + 1 <= Len(q)) /\ i + 1 \in 1..Len(s) BY <3>1, <3>4, <1>2
        <5> QED BY <5>1, <1>4
      <4>4. i - Len(q) + 1 = i + 1 - Len(q) BY <3>1, <1>2
      <4> QED BY <4>2, <4>3, <4>4, <3>1
    <3> QED BY <3>1, <3>2, <3>3, <3>4, <1>2
  <2> QED BY <2>1, <2>2, <1>6, <1>7
<1> QED BY <1>4, <1>7, <1>8, <1>9 DEF a, s, s1, s2

\* The bounds of the queues, and that every event stands somewhere.
LEMMA LogStep ==
  ASSUME LogInv, [LogNext]_logVars
  PROVE  LogInv'
<1> USE LogAssumption DEF LogInv
<1>0. /\ LogTypes /\ Accounted /\ OnTheWay /\ Told \in Nat /\ InHand \in Nat
      /\ Len(queue) \in Nat
  BY ToldNat DEF LogTypes
<1>1. ASSUME NEW t \in Threads, PostEvent(t) PROVE LogInv'
  <2> DEFINE e == unposted[t]
             shown == recent \o posted
  <2>1. e \in Line /\ e # NoEvent BY <1>0, <1>1 DEF LogTypes, PostEvent
  <2>2. /\ recent \in Seq(Line) /\ posted \in Seq(Line) /\ shown \in Seq(Line)
        /\ posted' = Append(posted, e) /\ recent' = recent
        /\ unposted' = [unposted EXCEPT ![t] = NoEvent]
        /\ unposted \in [Threads -> Line \union {NoEvent}]
    BY <1>0, <1>1 DEF LogTypes, PostEvent, writerVars
  <2>3. recent' \o posted' = Append(shown, e)
    <3> HIDE DEF e
    <3> QED BY <2>1, <2>2
  <2>4. LogTypes'
    <3>1. posted' \in Seq(Line) BY <2>1, <2>2
    <3>2. unposted' \in [Threads -> Line \union {NoEvent}] BY <2>2
    <3> QED BY <3>1, <3>2, <1>0, <1>1, <2>2 DEF LogTypes, PostEvent, writerVars
  <2>5. Accounted' BY <1>0, <1>1 DEF Accounted, PostEvent, writerVars, Told, InHand, Stands
  <2>6. OnTheWay'
    <3> DEFINE after == Append(shown, e)
    <3>1. e.thread = t /\ e.id <= count /\ Behind(shown, e) /\ ByThread(shown)
      BY <1>0, <2>1 DEF OnTheWay
    <3> HIDE DEF shown, e
    <3>2. ByThread(after) BY <2>1, <2>2, <3>1, ShownPush
    <3>3. \A i \in 1..Len(after) : after[i] = e \/ \E j \in 1..Len(shown) : after[i] = shown[j]
      BY <2>1, <2>2
    <3>4. \A i \in 1..Len(after) : after[i].id <= count
      BY <3>1, <3>3, <1>0 DEF OnTheWay, shown
    <3>5. ASSUME NEW u \in Threads, unposted'[u] # NoEvent
          PROVE  /\ unposted'[u].thread = u /\ unposted'[u].id <= count
                 /\ Behind(after, unposted'[u])
      <4>1. u # t /\ unposted'[u] = unposted[u] BY <2>2, <3>5
      <4>2. unposted[u].thread = u /\ unposted[u].id <= count /\ Behind(shown, unposted[u])
        BY <4>1, <3>5, <1>0 DEF OnTheWay, shown
      <4>3. Behind(after, unposted[u]) BY <4>1, <4>2, <3>1, <3>3 DEF Behind
      <4> QED BY <4>1, <4>2, <4>3
    <3>6. count' = count BY <1>1 DEF PostEvent
    <3> HIDE DEF after
    <3> QED BY <2>3, <3>2, <3>4, <3>5, <3>6 DEF OnTheWay, after
  <2> QED BY <2>4, <2>5, <2>6
<1>2. ASSUME NEW t \in Threads, NEW s \in {"Info", "Error"}, AppendEvent(t, s) PROVE LogInv'
  <2> DEFINE e == Event(count + 1, t, s)
             full == Len(queue) = MaxQueuedEvents
             rest == IF full THEN Tail(queue) ELSE queue
  <2>1. /\ e \in Line /\ e # NoEvent /\ count \in Nat /\ count' = count + 1
        /\ count < MaxEvents /\ ~stopRequested
        /\ e.id = count + 1 /\ e.thread = t
    <3>1. /\ count \in Nat /\ count' = count + 1 /\ count < MaxEvents /\ ~stopRequested
      BY <1>0, <1>2 DEF LogTypes, AppendEvent
    <3>2. e \in Line /\ e # NoEvent BY <3>1, LineForms
    <3>3. e.id = count + 1 /\ e.thread = t BY DEF Event
    <3> QED BY <3>1, <3>2, <3>3
  <2>2. /\ queue \in Seq(Line) /\ queue' = Append(rest, e)
        /\ droppedEvents' = droppedEvents + (IF full THEN 1 ELSE 0) /\ droppedEvents \in Nat
        /\ unposted' = [unposted EXCEPT ![t] = e]
        /\ unposted \in [Threads -> Line \union {NoEvent}]
        /\ UNCHANGED <<stopRequested, taken, gone, lines, posted, recent, lastError>>
    BY <1>0, <1>2 DEF LogTypes, AppendEvent, serviceVars
  <2>3. /\ rest \in Seq(Line)
        /\ Len(rest) = Len(queue) - (IF full THEN 1 ELSE 0) /\ Len(rest) < MaxQueuedEvents
        /\ \A k \in 1..Len(rest) : rest[k].id = count - Len(rest) + k
    <3>1. CASE full
      <4>1. queue # <<>> BY <3>1
      <4>2. /\ Tail(queue) \in Seq(Line) /\ Len(Tail(queue)) = Len(queue) - 1
            /\ \A k \in 1..Len(Tail(queue)) : Tail(queue)[k] = queue[k + 1]
                                            /\ k + 1 \in 1..Len(queue)
        BY <4>1, <2>2
      <4>3. \A k \in 1..Len(Tail(queue)) :
              Tail(queue)[k].id = count - Len(Tail(queue)) + k
        <5> SUFFICES ASSUME NEW k \in 1..Len(Tail(queue))
                     PROVE  Tail(queue)[k].id = count - Len(Tail(queue)) + k
          OBVIOUS
        <5>1. queue[k + 1].id = count - Len(queue) + (k + 1) BY <4>2, <1>0 DEF Accounted
        <5> QED BY <5>1, <4>2, <2>1, <1>0
      <4> QED BY <4>2, <4>3, <3>1, <1>0
    <3>2. CASE ~full BY <3>2, <1>0, <2>2 DEF LogTypes, Accounted
    <3> QED BY <3>1, <3>2
  <2>4. LogTypes'
    <3> HIDE DEF rest, full, e
    <3>1. queue' \in Seq(Line) /\ Len(queue') <= MaxQueuedEvents BY <2>1, <2>2, <2>3
    <3>2. unposted' \in [Threads -> Line \union {NoEvent}] BY <2>1, <2>2
    <3>3. droppedEvents' \in Nat BY <2>2
    <3> QED BY <3>1, <3>2, <3>3, <1>0, <2>1, <2>2 DEF LogTypes
  <2>5. Accounted'
    <3> HIDE DEF rest, full, e
    <3>1. /\ Len(queue') = Len(rest) + 1 /\ Len(rest) \in Nat
          /\ queue'[Len(rest) + 1] = e
          /\ \A k \in 1..Len(rest) : queue'[k] = rest[k]
      BY <2>1, <2>2, <2>3
    <3>2. Told' = Told /\ InHand' = InHand BY <2>2 DEF Told, InHand, Stands
    <3>3. Told' + InHand' + droppedEvents' + Len(queue') = count'
      <4>1. Told + InHand + droppedEvents + Len(queue) = count BY <1>0 DEF Accounted
      <4>2. CASE full
        <5>1. Len(rest) = Len(queue) - 1 /\ droppedEvents' = droppedEvents + 1
          BY <4>2, <2>2, <2>3
        <5>2. Len(queue') = Len(queue) /\ droppedEvents \in Nat /\ Len(queue) \in Nat
          BY <5>1, <3>1, <1>0, <2>2
        <5>3. Told \in Nat /\ InHand \in Nat /\ count' = count + 1 BY <1>0, <2>1
        <5>4. Told + InHand + (droppedEvents + 1) + Len(queue) = count + 1
          BY <4>1, <5>2, <5>3
        <5> QED BY <5>1, <5>2, <5>3, <5>4, <3>2
      <4>3. CASE ~full
        <5>1. Len(rest) = Len(queue) /\ droppedEvents' = droppedEvents
          BY <4>3, <1>0, <2>2, <2>3
        <5> QED BY <5>1, <4>1, <3>1, <3>2, <1>0, <2>1, <2>2
      <4> QED BY <4>2, <4>3
    <3>4. ASSUME NEW k \in 1..Len(queue')
          PROVE  queue'[k].id = count' - Len(queue') + k
      <4>0. count' - Len(queue') + k = count - Len(rest) + k /\ k \in Nat BY <3>1, <2>1
      <4>1. CASE k \in 1..Len(rest)
        <5>1. rest[k].id = count - Len(rest) + k BY <4>1, <2>3
        <5> QED BY <5>1, <4>0, <4>1, <3>1
      <4>2. CASE k = Len(rest) + 1
        <5>1. queue'[k].id = count + 1 BY <4>2, <3>1, <2>1
        <5> QED BY <5>1, <4>0, <4>2, <3>1, <2>1
      <4> QED BY <4>0, <4>1, <4>2, <3>1
    <3>5. ~gone BY <1>0, <2>1 DEF Accounted
    <3> QED BY <3>2, <3>3, <3>4, <3>5, <1>0, <2>2 DEF Accounted
  <2>6. OnTheWay'
    <3> DEFINE shown == recent \o posted
    <3> HIDE DEF e, rest, full
    <3>1. recent' \o posted' = shown BY <2>2
    <3>2. /\ ByThread(shown) /\ \A i \in 1..Len(shown) : shown[i] \in Line /\ shown[i].id <= count
          /\ \A u \in Threads : unposted[u] # NoEvent =>
               unposted[u].thread = u /\ unposted[u].id <= count /\ Behind(shown, unposted[u])
      <4>1. shown \in Seq(Line) BY <1>0 DEF LogTypes
      <4>2. \A i \in 1..Len(shown) : shown[i] \in Line BY <4>1
      <4> QED BY <4>2, <1>0 DEF OnTheWay
    <3> HIDE DEF shown
    <3>3. Behind(shown, e) BY <3>2, <2>1 DEF Behind, Line
    <3>4. \A i \in 1..Len(shown) : shown[i].id <= count' BY <3>2, <2>1 DEF Line
    <3>5. ASSUME NEW u \in Threads, unposted'[u] # NoEvent
          PROVE  /\ unposted'[u].thread = u /\ unposted'[u].id <= count'
                 /\ Behind(shown, unposted'[u])
      <4>1. CASE u = t BY <4>1, <3>3, <2>1, <2>2
      <4>2. CASE u # t
        <5>1. unposted'[u] = unposted[u] /\ unposted[u] \in Line BY <4>2, <3>5, <2>2
        <5>2. unposted[u].id \in Nat BY <5>1 DEF Line
        <5> QED BY <5>1, <5>2, <3>2, <3>5, <2>1
      <4> QED BY <4>1, <4>2
    <3> QED BY <3>1, <3>2, <3>4, <3>5 DEF OnTheWay
  <2> QED BY <2>4, <2>5, <2>6
<1>3. CASE AcceptEvent
  <2> DEFINE shown == recent \o posted
             longer == Append(recent, Head(posted))
             after == recent' \o posted'
  <2>1. /\ posted \in Seq(Line) /\ recent \in Seq(Line) /\ posted # <<>>
        /\ Len(recent) <= MaxRecentEvents /\ Len(recent) \in Nat
        /\ posted' = Tail(posted)
        /\ recent' = (IF Len(longer) > MaxRecentEvents THEN Tail(longer) ELSE longer)
        /\ UNCHANGED <<writerVars, unposted, count>>
    BY <1>0, <1>3 DEF LogTypes, AcceptEvent
  <2>2. Tail(posted) \in Seq(Line) /\ Head(posted) \in Line BY <2>1
  <2>3. longer \in Seq(Line) /\ Len(longer) = Len(recent) + 1 /\ longer # <<>>
    BY <2>1, <2>2
  <2>4. Tail(longer) \in Seq(Line) /\ Len(Tail(longer)) = Len(longer) - 1
    <3> HIDE DEF longer
    <3> QED BY <2>3
  <2>5. /\ longer \o Tail(posted) = shown /\ Tail(longer) \o Tail(posted) = Tail(shown)
        /\ shown \in Seq(Line) /\ shown # <<>>
    BY <2>1, Handed
  <2>6. after = shown \/ after = Tail(shown)
    <3> HIDE DEF longer, shown
    <3> QED BY <2>1, <2>5
  <2>7. LogTypes'
    <3> HIDE DEF longer
    <3>1. recent' \in Seq(Line) /\ Len(recent') <= MaxRecentEvents BY <2>1, <2>3, <2>4
    <3> QED BY <3>1, <2>1, <2>2, <1>0 DEF LogTypes, writerVars
  <2>8. Accounted' BY <2>1, <1>0 DEF Accounted, writerVars, Told, InHand, Stands
  <2>9. OnTheWay'
    <3>1. /\ ByThread(shown) /\ \A i \in 1..Len(shown) : shown[i].id <= count
          /\ \A u \in Threads : unposted[u] # NoEvent =>
               unposted[u].thread = u /\ unposted[u].id <= count /\ Behind(shown, unposted[u])
      BY <1>0 DEF OnTheWay
    <3> HIDE DEF shown, longer
    <3>2. ByThread(Tail(shown)) /\ \A x : Behind(shown, x) => Behind(Tail(shown), x)
      BY <2>5, <3>1, ShownPop
    <3>3. \A i \in 1..Len(Tail(shown)) : Tail(shown)[i].id <= count
      <4>1. \A i \in 1..Len(Tail(shown)) : Tail(shown)[i] = shown[i + 1]
                                          /\ i + 1 \in 1..Len(shown)
        BY <2>5
      <4> QED BY <4>1, <3>1
    <3>4. /\ ByThread(after) /\ \A i \in 1..Len(after) : after[i].id <= count
          /\ \A x : Behind(shown, x) => Behind(after, x)
      <4> HIDE DEF after
      <4> QED BY <2>6, <3>1, <3>2, <3>3
    <3>5. unposted' = unposted /\ count' = count BY <2>1
    <3> QED BY <3>1, <3>4, <3>5 DEF OnTheWay
  <2> QED BY <2>7, <2>8, <2>9
<1>4. CASE TakeLine
  <2>1. /\ taken = NoEvent /\ ~gone /\ queue \in Seq(Line) /\ droppedEvents \in Nat
        /\ UNCHANGED <<stopRequested, gone, lines, unposted, serviceVars, count>>
        /\ Told' = Told /\ InHand = 0 /\ count \in Nat
    BY <1>0, <1>4 DEF LogTypes, TakeLine, Told, InHand
  <2>2. OnTheWay' BY <2>1, <1>0 DEF OnTheWay, serviceVars
  <2>3. CASE droppedEvents > 0
    <3>1. taken' = Overflow(droppedEvents) /\ droppedEvents' = 0 /\ queue' = queue
      BY <1>4, <2>3 DEF TakeLine
    <3>2. taken' \in Line /\ taken' # NoEvent /\ taken'.id = 0 /\ taken'.dropped = droppedEvents
      BY <3>1, <2>1, LineForms DEF Overflow
    <3>3. InHand' = droppedEvents BY <3>2 DEF InHand, Stands
    <3>4. LogTypes' BY <3>1, <3>2, <2>1, <1>0 DEF LogTypes, serviceVars
    <3>5. Accounted' BY <3>1, <3>2, <3>3, <2>1, <1>0 DEF Accounted
    <3> QED BY <3>4, <3>5, <2>2
  <2>4. CASE ~(droppedEvents > 0)
    <3>1. /\ queue # <<>> /\ taken' = Head(queue) /\ queue' = Tail(queue)
          /\ droppedEvents' = droppedEvents /\ droppedEvents = 0
      BY <1>4, <2>1, <2>4 DEF TakeLine
    <3>2. /\ queue' \in Seq(Line) /\ Len(queue') = Len(queue) - 1 /\ Len(queue) > 0
          /\ taken' \in Line /\ taken' = queue[1] /\ 1 \in 1..Len(queue)
          /\ \A k \in 1..Len(queue') : queue'[k] = queue[k + 1] /\ k + 1 \in 1..Len(queue)
      BY <3>1, <2>1
    <3>3. taken'.id = count - Len(queue) + 1 BY <3>2, <1>0 DEF Accounted
    <3>4. Told + Len(queue) = count BY <3>1, <2>1, <1>0 DEF Accounted
    <3>5. taken'.id = Told + 1 /\ taken'.id # 0 /\ taken' # NoEvent
      BY <3>2, <3>3, <3>4, <1>0, LineForms
    <3>6. InHand' = 1 BY <3>5 DEF InHand, Stands
    <3>7. LogTypes' BY <3>1, <3>2, <2>1, <1>0 DEF LogTypes, serviceVars
    <3>8. \A k \in 1..Len(queue') : queue'[k].id = count - Len(queue') + k
      <4> SUFFICES ASSUME NEW k \in 1..Len(queue')
                   PROVE  queue'[k].id = count - Len(queue') + k
        OBVIOUS
      <4>1. queue[k + 1].id = count - Len(queue) + (k + 1) BY <3>2, <1>0 DEF Accounted
      <4>2. /\ queue'[k] = queue[k + 1] /\ Len(queue') = Len(queue) - 1
            /\ Len(queue) \in Nat /\ k \in Nat
        BY <2>1, <3>2, LenProperties
      <4>3. count \in Nat BY <2>1
      <4>4. \A a, b, c \in Nat : a - b + (c + 1) = a - (b - 1) + c OBVIOUS
      <4> QED BY <4>1, <4>2, <4>3, <4>4
    <3>9. Told' + InHand' + droppedEvents' + Len(queue') = count'
      BY <3>1, <3>2, <3>4, <3>6, <2>1, <1>0
    <3>10. Accounted' BY <3>5, <3>8, <3>9, <2>1, <1>0 DEF Accounted
    <3> QED BY <3>7, <3>10, <2>2
  <2> QED BY <2>3, <2>4
<1>5. ASSUME NEW opened \in BOOLEAN, WriteEvent(opened) PROVE LogInv'
  <2> DEFINE w == [line |-> taken, opened |-> opened, told |-> Told + Stands(taken)]
  <2>1. /\ taken # NoEvent /\ taken \in Line /\ taken' = NoEvent
        /\ lines \in Seq(Written) /\ lines' = Append(lines, w)
        /\ UNCHANGED <<queue, droppedEvents, stopRequested, gone, unposted, serviceVars, count>>
    BY <1>0, <1>5 DEF LogTypes, WriteEvent
  <2>2. Stands(taken) = InHand /\ InHand' = 0 BY <2>1 DEF InHand
  <2>3. w \in Written BY <2>1, <2>2, <1>0 DEF Written
  <2>4. /\ lines' \in Seq(Written) /\ lines' # <<>> /\ Len(lines') = Len(lines) + 1
        /\ lines'[Len(lines')] = w /\ Len(lines) \in Nat
        /\ \A k \in 1..Len(lines) : lines'[k] = lines[k]
    <3> HIDE DEF w
    <3> QED BY <2>1, <2>3
  <2>5. Told' = Told + InHand BY <2>2, <2>4 DEF Told
  <2>6. w.line.id # 0 => w.line.id = w.told
    <3>1. taken.id # 0 => taken.id = Told + 1 /\ Stands(taken) = 1
      BY <2>1, <1>0 DEF Accounted, Stands
    <3> QED BY <3>1
  <2>7. \A k \in 1..Len(lines') : lines'[k].line.id # 0 => lines'[k].line.id = lines'[k].told
    <3> HIDE DEF w
    <3>1. \A k \in 1..Len(lines') : k \in 1..Len(lines) \/ k = Len(lines') BY <2>4
    <3>2. \A k \in 1..Len(lines) : lines[k].line.id # 0 => lines[k].line.id = lines[k].told
      BY <1>0 DEF Accounted
    <3> QED BY <3>1, <3>2, <2>4, <2>6
  <2> HIDE DEF w
  <2>8. LogTypes' BY <2>1, <2>4, <1>0 DEF LogTypes, serviceVars
  <2>9. Told' + InHand' + droppedEvents' + Len(queue') = count'
    BY <2>1, <2>2, <2>5, <1>0 DEF Accounted, LogTypes
  <2>10. Accounted' BY <2>1, <2>7, <2>9, <1>0 DEF Accounted
  <2>11. OnTheWay' BY <2>1, <1>0 DEF OnTheWay, serviceVars
  <2> QED BY <2>8, <2>10, <2>11
<1>6. CASE RequestStop
  <2>1. /\ stopRequested' = TRUE
        /\ UNCHANGED <<queue, droppedEvents, taken, gone, lines, unposted, serviceVars, count>>
    BY <1>6 DEF RequestStop
  <2>2. LogTypes' BY <2>1, <1>0 DEF LogTypes, serviceVars
  <2>3. Accounted' BY <2>1, <1>0 DEF Accounted, Told, InHand, Stands
  <2>4. OnTheWay' BY <2>1, <1>0 DEF OnTheWay, serviceVars
  <2> QED BY <2>2, <2>3, <2>4
<1>7. CASE LogWriterExit
  <2>1. /\ stopRequested /\ queue = <<>> /\ droppedEvents = 0 /\ taken = NoEvent
        /\ gone' = TRUE
        /\ UNCHANGED <<queue, droppedEvents, stopRequested, taken, lines, unposted,
                       serviceVars, count>>
    BY <1>7 DEF LogWriterExit
  <2>2. LogTypes' BY <2>1, <1>0 DEF LogTypes, serviceVars
  <2>3. Accounted' BY <2>1, <1>0 DEF Accounted, Told, InHand, Stands
  <2>4. OnTheWay' BY <2>1, <1>0 DEF OnTheWay, serviceVars
  <2> QED BY <2>2, <2>3, <2>4
<1>8. CASE UNCHANGED logVars
  <2>1. LogTypes' BY <1>8, <1>0 DEF LogTypes, logVars, writerVars, serviceVars
  <2>2. Accounted'
    BY <1>8, <1>0 DEF Accounted, Told, InHand, Stands, logVars, writerVars, serviceVars
  <2>3. OnTheWay' BY <1>8, <1>0 DEF OnTheWay, logVars, writerVars, serviceVars
  <2> QED BY <2>1, <2>2, <2>3
<1> QED BY <1>1, <1>2, <1>3, <1>4, <1>5, <1>6, <1>7, <1>8 DEF LogNext

LEMMA LogInvariant == LogSpec => []LogInv
<1>1. LogInit => LogInv
  <2> SUFFICES ASSUME LogInit PROVE LogInv OBVIOUS
  <2>1. <<>> \in Seq(Line) /\ <<>> \in Seq(Written) /\ Len(<<>>) = 0 OBVIOUS
  <2>2. LogTypes
    <3>1. unposted \in [Threads -> Line \union {NoEvent}] BY DEF LogInit
    <3>2. 0 <= MaxEvents /\ 0 <= MaxQueuedEvents /\ 0 <= MaxRecentEvents BY LogAssumption
    <3> QED BY <3>1, <3>2, <2>1 DEF LogInit, LogTypes
  <2>3. Accounted BY DEF LogInit, Accounted, Told, InHand
  <2>4. OnTheWay
    <3>1. recent \o posted = <<>> BY <2>1 DEF LogInit
    <3>2. \A t \in Threads : unposted[t] = NoEvent BY DEF LogInit
    <3> QED BY <3>1, <3>2 DEF OnTheWay, ByThread
  <2> QED BY <2>2, <2>3, <2>4 DEF LogInv
<1> QED BY <1>1, LogStep, PTL DEF LogSpec

\* However the queue overflows while the writer is at work, the log accounts for every event at its
\* place and, when the writer has ended, for all of them; and the windows show the events of
\* one thread in the order of the log.
THEOREM LogIsComplete == LogSpec => []LogComplete
<1>1. LogInv => LogComplete
  <2> SUFFICES ASSUME LogInv PROVE LogComplete OBVIOUS
  <2>1. LogTypes /\ Accounted /\ OnTheWay /\ Told \in Nat /\ InHand \in Nat
    BY ToldNat DEF LogInv
  <2>2. LogTypeOK
    <3>1. droppedEvents <= MaxEvents BY <2>1, LogAssumption DEF LogTypes, Accounted
    <3> QED BY <3>1, <2>1, LogAssumption DEF LogTypeOK, LogTypes, Accounted
  <2>3. LogAccountsForAll
    <3>1. DOMAIN lines = 1..Len(lines) BY <2>1 DEF LogTypes
    <3>2. gone => Told = count BY <2>1 DEF Accounted, InHand, LogTypes
    <3> QED BY <3>1, <3>2, <2>1 DEF LogAccountsForAll, Accounted
  <2>4. WindowsInOrder
    <3> DEFINE shown == recent \o posted
    <3>1. shown \in Seq(Line) BY <2>1 DEF LogTypes
    <3>2. DOMAIN shown = 1..Len(shown)
      <4> HIDE DEF shown
      <4> QED BY <3>1
    <3>3. ByThread(shown) BY <2>1 DEF OnTheWay
    <3> QED BY <3>2, <3>3 DEF WindowsInOrder, ByThread
  <2> QED BY <2>2, <2>3, <2>4 DEF LogComplete
<1> QED BY <1>1, LogInvariant, PTL

-----------------------------------------------------------------------------
(* ResultTable: sorting.                                                     *)

\* R orders S, totally and strictly; q lists S, every element once; of n elements each
\* has a place of its own.
Orders(R, S) ==
  /\ \A x \in S : <<x, x>> \notin R
  /\ \A x, y, z \in S : <<x, y>> \in R /\ <<y, z>> \in R => <<x, z>> \in R
  /\ \A x, y \in S : x = y \/ <<x, y>> \in R \/ <<y, x>> \in R
Lists(q, S) ==
  /\ q \in Seq(S) /\ ToSet(q) = S
  /\ \A i, j \in 1..Len(q) : q[i] = q[j] => i = j
Places(rank, n, S) ==
  /\ n \in Nat /\ rank \in [S -> Nat]
  /\ \A i \in 1..n : \E r \in S : rank[r] = i - 1
  /\ \A r \in S : \E i \in 1..n : rank[r] = i - 1
  /\ \A r, s \in S : rank[r] = rank[s] => r = s
RankIn(R, S) == [r \in S |-> Cardinality({p \in S : <<p, r>> \in R})]

\* In a finite set with an order every place up to its size is taken: the number of
\* elements before an element is an injection.
LEMMA EveryRankTaken ==
  ASSUME NEW S, IsFiniteSet(S), NEW R, Orders(R, S)
  PROVE  Places(RankIn(R, S), Cardinality(S), S)
<1> USE DEF Orders
<1> DEFINE n == Cardinality(S)
           Before(r) == {q \in S : <<q, r>> \in R}
<1>1. n \in Nat BY FS_CardinalityType
<1>2. \A r \in S : IsFiniteSet(Before(r)) /\ Cardinality(Before(r)) \in 0..(n - 1)
  <2> SUFFICES ASSUME NEW r \in S
               PROVE  IsFiniteSet(Before(r)) /\ Cardinality(Before(r)) \in 0..(n - 1)
    OBVIOUS
  <2>1. Before(r) \subseteq S \ {r} OBVIOUS
  <2>2. IsFiniteSet(S \ {r}) /\ Cardinality(S \ {r}) = n - 1 BY FS_RemoveElement
  <2> HIDE DEF Before, n
  <2>3. IsFiniteSet(Before(r)) /\ Cardinality(Before(r)) <= n - 1 BY <2>1, <2>2, FS_Subset
  <2> QED BY <2>3, <1>1, FS_CardinalityType
<1>3. ASSUME NEW r \in S, NEW s \in S, <<r, s>> \in R
      PROVE  Cardinality(Before(r)) < Cardinality(Before(s))
  <2>1. Before(r) \subseteq Before(s) /\ r \in Before(s) /\ r \notin Before(r) BY <1>3
  <2>2. Before(r) # Before(s) BY <2>1
  <2> HIDE DEF Before
  <2>3. Cardinality(Before(r)) <= Cardinality(Before(s))
        /\ Cardinality(Before(r)) # Cardinality(Before(s))
    BY <2>1, <2>2, <1>2, FS_Subset
  <2> QED BY <2>3, <1>1, <1>2
<1>4. \A r, s \in S : Cardinality(Before(r)) = Cardinality(Before(s)) => r = s
  <2> SUFFICES ASSUME NEW r \in S, NEW s \in S, r # s
               PROVE  Cardinality(Before(r)) # Cardinality(Before(s))
    OBVIOUS
  <2>1. <<r, s>> \in R \/ <<s, r>> \in R OBVIOUS
  <2> HIDE DEF Before
  <2> QED BY <2>1, <1>1, <1>2, <1>3
<1> HIDE DEF Before, n
<1> DEFINE rank == [r \in S |-> Cardinality(Before(r)) + 1]
<1>5. \A r \in S : rank[r] = Cardinality(Before(r)) + 1 OBVIOUS
<1>6. rank \in [S -> 1..n] BY <1>1, <1>2
<1> HIDE DEF rank
<1>7. IsInjective(rank)
  <2> SUFFICES ASSUME NEW r \in S, NEW s \in S, rank[r] = rank[s] PROVE r = s
    BY <1>6 DEF IsInjective
  <2> QED BY <1>1, <1>2, <1>4, <1>5
<1>8. rank \in Injection(S, 1..n) BY <1>6, <1>7 DEF Injection
<1>9. IsFiniteSet(1..n) /\ Cardinality(1..n) = Cardinality(S)
  BY <1>1, FS_Interval DEF n
<1>10. rank \in Surjection(S, 1..n) BY <1>8, <1>9, FS_Injection
<1>11. \A i \in 1..n : \E r \in S : rank[r] = i BY <1>10 DEF Surjection
<1>12. \A i \in 1..n : \E r \in S : Cardinality(Before(r)) = i - 1
  <2> SUFFICES ASSUME NEW i \in 1..n PROVE \E r \in S : Cardinality(Before(r)) = i - 1
    OBVIOUS
  <2>1. PICK r \in S : rank[r] = i BY <1>11
  <2>2. Cardinality(Before(r)) + 1 = i /\ Cardinality(Before(r)) \in Nat
    BY <2>1, <1>1, <1>2, <1>5
  <2> QED BY <2>2
<1>13. \A r \in S : \E i \in 1..n : Cardinality(Before(r)) = i - 1
  BY <1>1, <1>2, <1>5, <1>6
<1>14. \A r \in S : RankIn(R, S)[r] = Cardinality(Before(r)) BY DEF RankIn, Before
<1>15. RankIn(R, S) \in [S -> Nat]
  <2>1. \A r \in S : Cardinality(Before(r)) \in Nat BY <1>1, <1>2
  <2> QED BY <2>1 DEF RankIn, Before
<1>16. \A i \in 1..n : \E r \in S : RankIn(R, S)[r] = i - 1 BY <1>12, <1>14
<1>17. \A r \in S : \E i \in 1..n : RankIn(R, S)[r] = i - 1 BY <1>13, <1>14
<1>18. \A r, s \in S : RankIn(R, S)[r] = RankIn(R, S)[s] => r = s BY <1>4, <1>14
<1> QED BY <1>1, <1>15, <1>16, <1>17, <1>18 DEF Places, n

\* A function of the first n numbers is a sequence.
LEMMA FunctionIsSeq ==
  ASSUME NEW S, NEW n \in Nat, NEW q \in [1..n -> S]
  PROVE  q \in Seq(S) /\ Len(q) = n /\ ToSet(q) = {q[i] : i \in 1..n}
<1>1. q \in Seq(S) OBVIOUS
<1>2. Len(q) = n BY <1>1
<1> QED BY <1>1, <1>2, Members

\* Hence a sequence that has at each place the element of that rank lists the set, every
\* element once.
LEMMA PlacesList ==
  ASSUME NEW S, NEW n, NEW q \in [1..n -> S], NEW rank, Places(rank, n, S),
         \A i \in 1..n : rank[q[i]] = i - 1
  PROVE  Lists(q, S)
<1> USE DEF Places
<1>1. q \in Seq(S) /\ Len(q) = n /\ ToSet(q) = {q[i] : i \in 1..n} BY FunctionIsSeq
<1>2. S \subseteq ToSet(q)
  <2> SUFFICES ASSUME NEW r \in S PROVE r \in ToSet(q) OBVIOUS
  <2>1. PICK i \in 1..n : rank[r] = i - 1 OBVIOUS
  <2>2. q[i] = r BY <2>1
  <2> QED BY <2>2, <1>1
<1>3. \A i, j \in 1..n : q[i] = q[j] => i = j
  <2> SUFFICES ASSUME NEW i \in 1..n, NEW j \in 1..n, q[i] = q[j] PROVE i = j OBVIOUS
  <2>1. i - 1 = j - 1 OBVIOUS
  <2> QED BY <2>1
<1> QED BY <1>1, <1>2, <1>3 DEF Lists

\* So ByRank lists every element of a finite set once.
LEMMA ListedByRank ==
  ASSUME NEW S, IsFiniteSet(S), NEW R, Orders(R, S)
  PROVE  Lists([i \in 1..Cardinality(S) |-> CHOOSE r \in S : RankIn(R, S)[r] = i - 1], S)
<1> DEFINE n == Cardinality(S)
           rank == RankIn(R, S)
           q == [i \in 1..n |-> CHOOSE r \in S : rank[r] = i - 1]
<1>1. Places(rank, n, S) BY EveryRankTaken
<1> HIDE DEF n, rank
<1>2. \A i \in 1..n : q[i] \in S /\ rank[q[i]] = i - 1 BY <1>1 DEF Places
<1>3. q \in [1..n -> S] BY <1>2
<1> HIDE DEF q
<1>4. Lists(q, S) BY <1>1, <1>2, <1>3, PlacesList
<1> QED BY <1>4 DEF q, n, rank

Row == [band : Nat, sample : Nat, time : Nat, quality : 0..100, frequencies : SUBSET Nat,
        pri : Nat, width : Nat]
DistinctKeys(S) == \A r, s \in S : Key(r) = Key(s) => r = s

\* resetRows keeps the rows.
LEMMA NewestFirstLists ==
  ASSUME NEW S, S \subseteq Row, IsFiniteSet(S), DistinctKeys(S)
  PROVE  Lists(NewestFirst(S), S)
<1> DEFINE R == {p \in S \X S : Newer(p[1], p[2])}
<1>1. \A x, y \in S : <<x, y>> \in R <=> Newer(x, y) OBVIOUS
<1> HIDE DEF R
<1>2. NewestFirst(S) = [i \in 1..Cardinality(S) |-> CHOOSE r \in S : RankIn(R, S)[r] = i - 1]
  <2>1. \A r \in S : {p \in S : <<p, r>> \in R} = {p \in S : Newer(p, r)} BY <1>1
  <2>2. \A r \in S : RankIn(R, S)[r] = Cardinality({p \in S : Newer(p, r)})
    BY <2>1 DEF RankIn
  <2>3. NewestFirst(S) = [i \in 1..Cardinality(S) |->
                            CHOOSE r \in S : Cardinality({p \in S : Newer(p, r)}) = i - 1]
    BY DEF NewestFirst, ByRank
  <2>4. ASSUME NEW i \in 1..Cardinality(S)
        PROVE  (CHOOSE r \in S : Cardinality({p \in S : Newer(p, r)}) = i - 1)
                 = CHOOSE r \in S : RankIn(R, S)[r] = i - 1
    BY <2>2
  <2> QED BY <2>3, <2>4
<1>3. Orders(R, S)
  <2>1. \A x \in S : x.time \in Nat /\ x.sample \in Nat /\ x.band \in Nat BY DEF Row
  <2>2. \A x, y \in S : x.time = y.time /\ x.sample = y.sample /\ x.band = y.band => x = y
    BY DEF DistinctKeys, Key
  <2> QED BY <1>1, <2>1, <2>2 DEF Newer, Orders
<1> QED BY <1>2, <1>3, ListedByRank

\* aggregateByBand lists every row.
LEMMA ByBandLists ==
  ASSUME NEW S, S \subseteq Row, IsFiniteSet(S), \A r, s \in S : r.band = s.band => r = s
  PROVE  Lists(ByBand(S), S)
<1> DEFINE R == {p \in S \X S : LowerBand(p[1], p[2])}
<1>1. \A x, y \in S : <<x, y>> \in R <=> LowerBand(x, y) OBVIOUS
<1> HIDE DEF R
<1>2. ByBand(S) = [i \in 1..Cardinality(S) |-> CHOOSE r \in S : RankIn(R, S)[r] = i - 1]
  <2>1. \A r \in S : {p \in S : <<p, r>> \in R} = {p \in S : LowerBand(p, r)} BY <1>1
  <2>2. \A r \in S : RankIn(R, S)[r] = Cardinality({p \in S : LowerBand(p, r)})
    BY <2>1 DEF RankIn
  <2>3. ByBand(S) = [i \in 1..Cardinality(S) |->
                       CHOOSE r \in S : Cardinality({p \in S : LowerBand(p, r)}) = i - 1]
    BY DEF ByBand, ByRank
  <2>4. ASSUME NEW i \in 1..Cardinality(S)
        PROVE  (CHOOSE r \in S : Cardinality({p \in S : LowerBand(p, r)}) = i - 1)
                 = CHOOSE r \in S : RankIn(R, S)[r] = i - 1
    BY <2>2
  <2> QED BY <2>3, <2>4
<1>3. Orders(R, S)
  <2>1. \A x \in S : x.band \in Nat BY DEF Row
  <2> QED BY <1>1, <2>1 DEF LowerBand, Orders
<1> QED BY <1>2, <1>3, ListedByRank

\* A place for every number of a finite set of numbers.
LEMMA NumbersListed ==
  ASSUME NEW S, S \subseteq Nat, IsFiniteSet(S)
  PROVE  Lists(ByRank(S, LowerPlace), S)
<1> DEFINE R == {p \in S \X S : LowerPlace(p[1], p[2])}
<1>1. \A x, y \in S : <<x, y>> \in R <=> LowerPlace(x, y) OBVIOUS
<1> HIDE DEF R
<1>2. ByRank(S, LowerPlace) = [i \in 1..Cardinality(S) |-> CHOOSE r \in S : RankIn(R, S)[r] = i - 1]
  <2>1. \A r \in S : {p \in S : <<p, r>> \in R} = {p \in S : LowerPlace(p, r)} BY <1>1
  <2>2. \A r \in S : RankIn(R, S)[r] = Cardinality({p \in S : LowerPlace(p, r)})
    BY <2>1 DEF RankIn
  <2>3. ByRank(S, LowerPlace) = [i \in 1..Cardinality(S) |->
                       CHOOSE r \in S : Cardinality({p \in S : LowerPlace(p, r)}) = i - 1]
    BY DEF ByRank
  <2>4. ASSUME NEW i \in 1..Cardinality(S)
        PROVE  (CHOOSE r \in S : Cardinality({p \in S : LowerPlace(p, r)}) = i - 1)
                 = CHOOSE r \in S : RankIn(R, S)[r] = i - 1
    BY <2>2
  <2> QED BY <2>3, <2>4
<1>3. Orders(R, S) BY <1>1 DEF Orders, LowerPlace
<1> QED BY <1>2, <1>3, ListedByRank

\* appendRows: every key of the rows and of the table is there, once.
AppendedRows(rows, t) ==
  /\ AppendRows(rows) \in Seq(ResultRows)
  /\ ToSet(AppendRows(rows)) \subseteq ToSet(rows) \union ToSet(t)
  /\ Keys(ToSet(AppendRows(rows))) = Keys(ToSet(rows)) \union Keys(ToSet(t))
OncePerKey(q) == \A i, j \in 1..Len(q) : Key(q[i]) = Key(q[j]) => i = j

\* One sequence behind another.
LEMMA JoinIs ==
  ASSUME NEW S, NEW p \in Seq(S), NEW q \in Seq(S)
  PROVE  /\ p \o q \in Seq(S) /\ Len(p \o q) = Len(p) + Len(q)
         /\ \A i \in 1..Len(p) : (p \o q)[i] = p[i]
         /\ \A i \in 1..Len(q) : (p \o q)[Len(p) + i] = q[i]
         /\ ToSet(p \o q) = ToSet(p) \union ToSet(q)
<1> DEFINE m == Len(p)
           n == Len(q)
           r == p \o q
<1>1. m \in Nat /\ n \in Nat BY LenProperties
<1>2. /\ r \in Seq(S) /\ Len(r) = m + n
      /\ \A i \in 1..(m + n) : r[i] = IF i <= m THEN p[i] ELSE q[i - m]
  BY ConcatProperties
<1>3. /\ ToSet(p) = {p[i] : i \in 1..m} /\ ToSet(q) = {q[i] : i \in 1..n}
      /\ ToSet(r) = {r[i] : i \in 1..(m + n)}
  <2> HIDE DEF r
  <2>1. ToSet(r) = {r[i] : i \in 1..Len(r)} BY <1>2, Members
  <2>2. ToSet(p) = {p[i] : i \in 1..Len(p)} /\ ToSet(q) = {q[i] : i \in 1..Len(q)}
    BY Members
  <2> QED BY <2>1, <2>2, <1>2
<1> HIDE DEF m, n, r
<1>4. \A i \in 1..m : r[i] = p[i] BY <1>1, <1>2
<1>5. \A i \in 1..n : r[m + i] = q[i]
  <2> SUFFICES ASSUME NEW i \in 1..n PROVE r[m + i] = q[i] OBVIOUS
  <2>1. m + i \in 1..(m + n) /\ ~(m + i <= m) /\ (m + i) - m = i BY <1>1
  <2> QED BY <2>1, <1>2
<1>6. ToSet(r) = ToSet(p) \union ToSet(q)
  <2>1. ToSet(p) \subseteq ToSet(r) BY <1>1, <1>3, <1>4
  <2>2. ToSet(q) \subseteq ToSet(r)
    <3> SUFFICES ASSUME NEW i \in 1..n PROVE q[i] \in ToSet(r) BY <1>3
    <3>1. m + i \in 1..(m + n) BY <1>1
    <3> QED BY <3>1, <1>3, <1>5
  <2>3. ToSet(r) \subseteq ToSet(p) \union ToSet(q)
    <3> SUFFICES ASSUME NEW i \in 1..(m + n) PROVE r[i] \in ToSet(p) \union ToSet(q)
      BY <1>3
    <3>1. i \in 1..m \/ (~(i <= m) /\ i - m \in 1..n) BY <1>1
    <3> QED BY <3>1, <1>2, <1>3, <1>4
  <2> QED BY <2>1, <2>2, <2>3
<1> QED BY <1>2, <1>4, <1>5, <1>6 DEF m, n, r

\* appendRows: every key of the table and of the rows, once.
LEMMA AppendRowsIs ==
  ASSUME NEW rows \in Seq(ResultRows), table \in Seq(ResultRows), OncePerKey(table)
  PROVE  AppendedRows(rows, table) /\ OncePerKey(AppendRows(rows))
<1> DEFINE new == {i \in DOMAIN rows :
                     /\ Key(rows[i]) \notin Keys(ToSet(table))
                     /\ \A j \in 1..(i - 1) : Key(rows[j]) # Key(rows[i])}
           n == Cardinality(new)
           place == ByRank(new, LowerPlace)
           front == [i \in 1..n |-> rows[place[i]]]
           all == AppendRows(rows)
<1>1. all = front \o table BY DEF AppendRows
<1>2. /\ Len(rows) \in Nat /\ DOMAIN rows = 1..Len(rows)
      /\ ToSet(rows) = {rows[i] : i \in 1..Len(rows)}
      /\ \A i \in 1..Len(rows) : rows[i] \in ResultRows
      /\ Len(table) \in Nat /\ ToSet(table) = {table[i] : i \in 1..Len(table)}
  BY LenProperties, Members, ElementOfSeq
<1>3. new \subseteq 1..Len(rows) /\ new \subseteq Nat /\ IsFiniteSet(new)
  <2>1. new \subseteq 1..Len(rows) BY <1>2
  <2> HIDE DEF new
  <2>2. IsFiniteSet(1..Len(rows)) BY <1>2, FS_Interval
  <2>3. new \in SUBSET (1..Len(rows)) BY <2>1
  <2>4. IsFiniteSet(new) BY <2>2, <2>3, FS_Subset
  <2>5. new \subseteq Nat BY <2>1, <1>2
  <2> QED BY <2>1, <2>4, <2>5
<1>4. \A i \in 1..Len(rows) : i \in new <=> /\ Key(rows[i]) \notin Keys(ToSet(table))
                                          /\ \A j \in 1..(i - 1) : Key(rows[j]) # Key(rows[i])
  BY <1>2
<1> HIDE DEF new
<1>5. Lists(place, new) BY <1>3, NumbersListed
<1>6. n \in Nat /\ Len(place) = n
  <2>1. n \in Nat BY <1>3, FS_CardinalityType
  <2>2. place = [i \in 1..n |-> CHOOSE r \in new : Cardinality({q \in new : LowerPlace(q, r)}) = i - 1]
    BY DEF ByRank
  <2>3. DOMAIN place = 1..n BY <2>2
  <2> HIDE DEF place, n
  <2>4. place \in Seq(new) BY <1>5 DEF Lists
  <2> QED BY <2>1, <2>3, <2>4, LenProperties
<1> HIDE DEF place, n
<1>7. /\ \A i \in 1..n : place[i] \in new
      /\ \A k \in new : \E i \in 1..n : place[i] = k
      /\ \A i, j \in 1..n : place[i] = place[j] => i = j
  BY <1>5, <1>6, Members DEF Lists
<1>8. /\ front \in Seq(ResultRows) /\ Len(front) = n
      /\ ToSet(front) = {front[i] : i \in 1..n}
      /\ \A i \in 1..n : front[i] = rows[place[i]]
  <2>1. front \in [1..n -> ResultRows] BY <1>2, <1>3, <1>7
  <2>2. \A i \in 1..n : front[i] = rows[place[i]] OBVIOUS
  <2> HIDE DEF front
  <2> QED BY <2>1, <2>2, <1>6, FunctionIsSeq
<1> HIDE DEF front
<1>9. /\ all \in Seq(ResultRows) /\ Len(all) = n + Len(table)
      /\ \A i \in 1..n : all[i] = front[i]
      /\ \A i \in 1..Len(table) : all[n + i] = table[i]
      /\ ToSet(all) = ToSet(front) \union ToSet(table)
  <2>1. PICK f, t : f = front /\ t = table OBVIOUS
  <2>2. f \in Seq(ResultRows) /\ t \in Seq(ResultRows) BY <1>8, <2>1
  <2>3. /\ f \o t \in Seq(ResultRows) /\ Len(f \o t) = Len(f) + Len(t)
        /\ \A i \in 1..Len(f) : (f \o t)[i] = f[i]
        /\ \A i \in 1..Len(t) : (f \o t)[Len(f) + i] = t[i]
        /\ ToSet(f \o t) = ToSet(f) \union ToSet(t)
    BY <2>2, JoinIs
  <2>4. all = f \o t /\ Len(f) = n BY <1>1, <1>8, <2>1
  <2> HIDE DEF all
  <2> QED BY <2>1, <2>3, <2>4
<1> HIDE DEF all
<1>10. ToSet(front) \subseteq ToSet(rows)
  <2> SUFFICES ASSUME NEW i \in 1..n PROVE front[i] \in ToSet(rows) BY <1>8
  <2>1. place[i] \in 1..Len(rows) /\ front[i] = rows[place[i]] BY <1>3, <1>7, <1>8
  <2> QED BY <2>1, <1>2
<1>11. Keys(ToSet(rows)) \subseteq Keys(ToSet(front)) \union Keys(ToSet(table))
  <2> SUFFICES ASSUME NEW m \in 1..Len(rows), Key(rows[m]) \notin Keys(ToSet(table))
               PROVE  Key(rows[m]) \in Keys(ToSet(front))
    BY <1>2 DEF Keys
  <2> DEFINE T == {i \in 1..Len(rows) : Key(rows[i]) = Key(rows[m])}
  <2>1. PICK x \in T : \A y \in T : x <= y
    <3>1. T \subseteq Nat /\ T # {} BY <1>2
    <3> HIDE DEF T
    <3> QED BY <3>1, NatMin
  <2>2. x \in 1..Len(rows) /\ Key(rows[x]) = Key(rows[m]) OBVIOUS
  <2>3. \A j \in 1..(x - 1) : Key(rows[j]) # Key(rows[m])
    <3> SUFFICES ASSUME NEW j \in 1..(x - 1), Key(rows[j]) = Key(rows[m]) PROVE FALSE
      OBVIOUS
    <3>1. j \in 1..Len(rows) /\ ~(x <= j) BY <1>2, <2>2
    <3>2. j \in T BY <3>1
    <3> QED BY <3>1, <3>2, <2>1
  <2>4. x \in new BY <1>4, <2>2, <2>3
  <2>5. PICK i \in 1..n : place[i] = x BY <2>4, <1>7
  <2>6. front[i] = rows[x] BY <2>5, <1>8
  <2> QED BY <2>2, <2>6, <1>8 DEF Keys
<1>12. AppendedRows(rows, table)
  BY <1>9, <1>10, <1>11 DEF AppendedRows, Keys, all
<1>13. \A i \in 1..n : Key(front[i]) \notin Keys(ToSet(table))
  <2> SUFFICES ASSUME NEW i \in 1..n PROVE Key(front[i]) \notin Keys(ToSet(table)) OBVIOUS
  <2>1. place[i] \in 1..Len(rows) /\ place[i] \in new /\ front[i] = rows[place[i]]
    BY <1>3, <1>7, <1>8
  <2> QED BY <2>1, <1>4
<1>14. \A i, j \in 1..n : Key(front[i]) = Key(front[j]) => i = j
  <2> SUFFICES ASSUME NEW i \in 1..n, NEW j \in 1..n, Key(front[i]) = Key(front[j]),
                      i # j
               PROVE  FALSE
    OBVIOUS
  <2>1. /\ place[i] \in new /\ place[j] \in new /\ place[i] # place[j]
        /\ place[i] \in 1..Len(rows) /\ place[j] \in 1..Len(rows)
    BY <1>3, <1>7
  <2>2. Key(rows[place[i]]) = Key(rows[place[j]]) BY <1>8
  <2>3. place[i] \in 1..(place[j] - 1) \/ place[j] \in 1..(place[i] - 1) BY <1>2, <2>1
  <2> QED BY <1>4, <2>1, <2>2, <2>3
<1>15. OncePerKey(all)
  <2> SUFFICES ASSUME NEW i \in 1..(n + Len(table)), NEW j \in 1..(n + Len(table)),
                      Key(all[i]) = Key(all[j])
               PROVE  i = j
    BY <1>9 DEF OncePerKey
  <2>1. \A k \in 1..(n + Len(table)) :
          \/ k \in 1..n /\ all[k] = front[k]
          \/ k - n \in 1..Len(table) /\ all[k] = table[k - n] /\ k > n
    <3> SUFFICES ASSUME NEW k \in 1..(n + Len(table)), k \notin 1..n
                 PROVE  k - n \in 1..Len(table) /\ all[k] = table[k - n] /\ k > n
      BY <1>9
    <3>1. k - n \in 1..Len(table) /\ n + (k - n) = k /\ k > n BY <1>2, <1>6
    <3> QED BY <3>1, <1>9
  <2>2. \A k \in 1..Len(table) : Key(table[k]) \in Keys(ToSet(table)) BY <1>2 DEF Keys
  <2>3. CASE i \in 1..n /\ all[i] = front[i] /\ j \in 1..n /\ all[j] = front[j]
    BY <2>3, <1>14
  <2>4. CASE /\ i - n \in 1..Len(table) /\ all[i] = table[i - n]
             /\ j - n \in 1..Len(table) /\ all[j] = table[j - n]
    <3>1. i - n = j - n BY <2>4 DEF OncePerKey
    <3> QED BY <3>1, <1>6, <1>2
  <2>5. CASE i \in 1..n /\ all[i] = front[i] /\ j - n \in 1..Len(table) /\ all[j] = table[j - n]
    BY <2>5, <2>2, <1>13
  <2>6. CASE j \in 1..n /\ all[j] = front[j] /\ i - n \in 1..Len(table) /\ all[i] = table[i - n]
    BY <2>6, <2>2, <1>13
  <2> QED BY <2>1, <2>3, <2>4, <2>5, <2>6
<1> QED BY <1>12, <1>15 DEF all

-----------------------------------------------------------------------------
(* ResultTable: rows and files.                                              *)

Seen == [band : Nat, sample : Nat, time : Nat, quality : 0..100, frequencies : SUBSET Nat]

\* A scan hands over finitely many results, each with the parameters of its band.
LEMMA ResultsOfScan ==
  ASSUME NEW scan \in Scans
  PROVE  /\ scan.results \subseteq Seen /\ IsFiniteSet(scan.results)
         /\ \A r \in scan.results : r.band \in Bands
         /\ scan.parameters \in [Bands -> [pri : Nat, width : Nat]]
<1>1. scan.results \subseteq AllResults BY DEF AllResults
<1> QED BY <1>1, TableAssumption DEF Bands, Seen

\* representativeResult: of some results there is one that no other beats.
LEMMA RepresentativeIs ==
  ASSUME NEW group, group \subseteq Seen, IsFiniteSet(group), group # {}
  PROVE  Representative(group) \in group
<1> DEFINE Betters(r) == {s \in group : Better(s, r)}
           Sizes == {Cardinality(Betters(r)) : r \in group}
<1>1. \A r \in group : IsFiniteSet(Betters(r)) /\ Cardinality(Betters(r)) \in Nat
  BY FS_Subset, FS_CardinalityType
<1>2. PICK m \in Sizes : \A x \in Sizes : m <= x
  <2>1. Sizes \subseteq Nat /\ Sizes # {} BY <1>1
  <2> HIDE DEF Sizes
  <2> QED BY <2>1, NatMin
<1>3. PICK r \in group : m = Cardinality(Betters(r)) OBVIOUS
<1>4. ASSUME NEW s \in group, Better(s, r) PROVE FALSE
  <2>0. \A x \in group : x.quality \in Nat /\ x.time \in Nat /\ x.sample \in Nat
    BY DEF Seen
  <2>1. ASSUME NEW x \in group, NEW y \in group, NEW z \in group, Better(x, y), Better(y, z)
        PROVE  Better(x, z)
    BY ONLY <2>0, <2>1 DEF Better
  <2>2. \A x \in group : ~Better(x, x) BY <2>0 DEF Better
  <2>3. Betters(s) \subseteq Betters(r) /\ s \in Betters(r) /\ s \notin Betters(s)
    BY <2>1, <2>2, <1>4
  <2>4. Betters(s) # Betters(r) BY <2>3
  <2>5. Cardinality(Betters(r)) <= Cardinality(Betters(s)) BY <1>2, <1>3
  <2> HIDE DEF Betters
  <2>6. Cardinality(Betters(s)) <= Cardinality(Betters(r))
        /\ Cardinality(Betters(s)) # Cardinality(Betters(r))
    BY <2>3, <2>4, <1>1, FS_Subset
  <2> QED BY <2>5, <2>6, <1>1
<1>5. \A s \in group \ {r} : ~Better(s, r) BY <1>4
<1> QED BY <1>5 DEF Representative

\* aggregateByBand makes one row of a band.
LEMMA RowOfBandIs ==
  ASSUME NEW scan \in Scans, NEW b \in {q.band : q \in scan.results}
  PROVE  RowOfBand(scan, b) \in Row /\ RowOfBand(scan, b).band = b
<1> DEFINE group == {r \in scan.results : r.band = b}
           best == Representative(group)
           p == Usable(scan.parameters[b])
           all == UNION {r.frequencies : r \in group}
<1>1. /\ scan.results \subseteq Seen /\ IsFiniteSet(scan.results) /\ b \in Bands
      /\ scan.parameters \in [Bands -> [pri : Nat, width : Nat]]
  BY ResultsOfScan
<1>2. group \subseteq Seen /\ group # {} /\ IsFiniteSet(group) BY <1>1, FS_Subset
<1>3. best \in Seen
  <2> HIDE DEF group
  <2> QED BY <1>2, RepresentativeIs
<1>4. p.pri \in Nat /\ p.width \in Nat
  <2>1. scan.parameters[b] \in [pri : Nat, width : Nat] BY <1>1
  <2> QED BY <2>1 DEF Usable
<1>5. all \subseteq Nat /\ b \in Nat BY <1>1, <1>2 DEF Seen
<1>6. RowOfBand(scan, b) =
        [band |-> b, sample |-> best.sample, time |-> best.time, quality |-> best.quality,
         frequencies |-> all, pri |-> p.pri, width |-> p.width]
  BY DEF RowOfBand
<1> HIDE DEF group, best, p, all
<1> QED BY <1>3, <1>4, <1>5, <1>6 DEF Row, Seen

\* aggregateByBand: finitely many rows, one of each band.
LEMMA RowsOfIs ==
  ASSUME NEW scan \in Scans
  PROVE  /\ RowsOf(scan) \subseteq Row /\ RowsOf(scan) \subseteq ResultRows
         /\ IsFiniteSet(RowsOf(scan))
         /\ \A r, s \in RowsOf(scan) : r.band = s.band => r = s
<1> DEFINE B == {q.band : q \in scan.results}
           f == [q \in scan.results |-> RowOfBand(scan, q.band)]
           T == {RowOfBand(scan, b) : b \in B}
<1>1. RowsOf(scan) \subseteq T BY DEF RowsOf
<1>2. \A b \in B : RowOfBand(scan, b) \in Row /\ RowOfBand(scan, b).band = b
  BY RowOfBandIs
<1>3. \A r, s \in T : r.band = s.band => r = s BY <1>2
<1>4. IsFiniteSet(T)
  <2>1. f \in Surjection(scan.results, T) BY DEF Surjection
  <2> HIDE DEF f, T
  <2> QED BY <2>1, ResultsOfScan, FS_Surjection
<1>5. IsFiniteSet(RowsOf(scan))
  <2> HIDE DEF T
  <2> QED BY <1>1, <1>4, FS_Subset
<1>6. RowsOf(scan) \subseteq ResultRows BY DEF ResultRows
<1> QED BY <1>1, <1>2, <1>3, <1>5, <1>6

\* All rows are of one kind.
LEMMA ResultRowsAre == ResultRows \subseteq Row
BY RowsOfIs DEF ResultRows

\* readAll reads every key that is in front of the first damaged record, once.
LEMMA ReadAllIs ==
  ASSUME bin \in Seq(ResultRows \union {Cut})
  PROVE  /\ Whole \subseteq ResultRows /\ Whole \subseteq ToSet(bin)
         /\ ReadAll \subseteq Whole /\ DistinctKeys(ReadAll) /\ IsFiniteSet(ReadAll)
         /\ Keys(ReadAll) = Keys(Whole)
<1> DEFINE I == {n \in DOMAIN bin : \A k \in 1..n : bin[k] # Cut}
           f == [i \in I |-> bin[i]]
<1>1. /\ Len(bin) \in Nat /\ DOMAIN bin = 1..Len(bin)
      /\ \A i \in 1..Len(bin) : bin[i] \in ResultRows \union {Cut}
      /\ ToSet(bin) = {bin[i] : i \in 1..Len(bin)}
  BY LenProperties, ElementOfSeq, Members
<1>2. Whole = {bin[i] : i \in I} BY DEF Whole
<1>3. Whole \subseteq ResultRows /\ Whole \subseteq ToSet(bin)
  <2> SUFFICES ASSUME NEW i \in I PROVE bin[i] \in ResultRows /\ bin[i] \in ToSet(bin)
    BY <1>2
  <2>1. i \in 1..Len(bin) /\ i \in 1..i BY <1>1
  <2>2. bin[i] # Cut BY <2>1
  <2> QED BY <1>1, <2>1, <2>2
<1>4. IsFiniteSet(Whole)
  <2>1. IsFiniteSet(1..Len(bin)) /\ I \in SUBSET (1..Len(bin)) BY <1>1, FS_Interval
  <2>2. f \in Surjection(I, Whole) BY <1>2 DEF Surjection
  <2> HIDE DEF I, f
  <2>3. IsFiniteSet(I) BY <2>1, FS_Subset
  <2> QED BY <2>2, <2>3, FS_Surjection
<1>5. \A key \in Keys(Whole) : /\ (CHOOSE r \in Whole : Key(r) = key) \in Whole
                               /\ Key(CHOOSE r \in Whole : Key(r) = key) = key
  BY DEF Keys
<1>6. ReadAll \subseteq Whole /\ Keys(ReadAll) = Keys(Whole)
  <2>1. ReadAll \subseteq Whole BY <1>5 DEF ReadAll
  <2>2. Keys(ReadAll) \subseteq Keys(Whole) BY <2>1 DEF Keys
  <2>3. ASSUME NEW key \in Keys(Whole) PROVE key \in Keys(ReadAll)
    <3>1. (CHOOSE r \in Whole : Key(r) = key) \in ReadAll BY DEF ReadAll
    <3> QED BY <3>1, <1>5 DEF Keys
  <2> QED BY <2>1, <2>2, <2>3
<1>7. DistinctKeys(ReadAll)
  <2> SUFFICES ASSUME NEW r \in ReadAll, NEW s \in ReadAll, Key(r) = Key(s) PROVE r = s
    BY DEF DistinctKeys
  <2>1. PICK k \in Keys(Whole) : r = CHOOSE x \in Whole : Key(x) = k BY DEF ReadAll
  <2>2. PICK m \in Keys(Whole) : s = CHOOSE x \in Whole : Key(x) = m BY DEF ReadAll
  <2>3. k = m BY <2>1, <2>2, <1>5
  <2> QED BY <2>1, <2>2, <2>3
<1>8. IsFiniteSet(ReadAll) BY <1>4, <1>6, FS_Subset
<1> QED BY <1>3, <1>6, <1>7, <1>8

\* A record at the end takes nothing from what can be read, and adds nothing but itself.
LEMMA WholeAppend ==
  ASSUME NEW e \in ResultRows \union {Cut}, bin \in Seq(ResultRows \union {Cut}),
         bin' = Append(bin, e)
  PROVE  Whole \subseteq Whole' /\ Whole' \subseteq Whole \union ({e} \ {Cut})
<1>1. /\ Len(bin) \in Nat /\ DOMAIN bin = 1..Len(bin)
      /\ Len(bin') = Len(bin) + 1 /\ DOMAIN bin' = 1..(Len(bin) + 1)
      /\ \A i \in 1..Len(bin) : bin'[i] = bin[i]
      /\ bin'[Len(bin) + 1] = e
  BY AppendProperties, LenProperties
<1>2. ASSUME NEW i \in 1..Len(bin), \A k \in 1..i : bin[k] # Cut
      PROVE  \A k \in 1..i : bin'[k] # Cut
  BY <1>1, <1>2
<1>3. Whole \subseteq Whole'
  <2> SUFFICES ASSUME NEW i \in 1..Len(bin), \A k \in 1..i : bin[k] # Cut
               PROVE  bin[i] \in Whole'
    BY <1>1 DEF Whole
  <2>1. i \in 1..(Len(bin) + 1) /\ bin'[i] = bin[i] BY <1>1
  <2> QED BY <2>1, <1>1, <1>2 DEF Whole
<1>4. Whole' \subseteq Whole \union ({e} \ {Cut})
  <2> SUFFICES ASSUME NEW i \in 1..(Len(bin) + 1), \A k \in 1..i : bin'[k] # Cut
               PROVE  bin'[i] \in Whole \union ({e} \ {Cut})
    BY <1>1 DEF Whole
  <2>1. CASE i \in 1..Len(bin)
    <3>1. \A k \in 1..i : k \in 1..Len(bin) BY <1>1, <2>1
    <3>2. \A k \in 1..i : bin[k] # Cut BY <1>1, <3>1
    <3> QED BY <1>1, <2>1, <3>2 DEF Whole
  <2>2. CASE i = Len(bin) + 1
    <3>1. i \in 1..i BY <1>1
    <3> QED BY <1>1, <2>2, <3>1
  <2> QED BY <1>1, <2>1, <2>2
<1> QED BY <1>3, <1>4

-----------------------------------------------------------------------------
(* ResultTable: the inductive invariant.                                     *)

KeysOf(x) == Keys(ToSet(x.rows))

TableTypes ==
  /\ table \in Seq(ResultRows) /\ loaded \in BOOLEAN
  /\ pending \in SUBSET Keys(ResultRows)
  /\ tasks \in Seq([kind : {"append", "reload"}, rows : Seq(ResultRows)])
  /\ tableCalls \in Seq([kind : {"append", "reset"}, rows : Seq(ResultRows)])
  /\ job \in [kind : {"idle", "append"}, rows : Seq(ResultRows), left : Seq(ResultRows),
              saved : Seq(ResultRows), step : {"data", "index", "metadata"}]
  /\ process \in {"running", "stopping", "down"}

FileTypes ==
  /\ bin \in Seq(ResultRows \union {Cut}) /\ idx \in Nat /\ metaRows \in 0..idx
  /\ lost \in SUBSET ResultRows /\ unsaved \in SUBSET ResultRows /\ kept \in SUBSET ResultRows
  /\ appends \in 0..MaxAppends /\ reloads \in 0..MaxReloads
  /\ tableFailures \in 0..MaxTableFailures

\* The rows that append has brought to the file, or believes it has.
Filed == ToSet(bin) \union lost

\* The rows of a job are done, in hand or to come, and those done are filed.
JobKept ==
  /\ job.kind = "idle" => job = NoJob
  /\ ToSet(job.left) \union ToSet(job.saved) \subseteq ToSet(job.rows)
  /\ ToSet(job.saved) \subseteq Filed
  /\ job.step # "data" => job.left # <<>> /\ Head(job.left) \in Filed

\* The keys of every task are pending, and no two tasks have the same one.
PendingKept ==
  /\ KeysOf(job) \subseteq pending
  /\ \A i \in 1..Len(tasks) :
       /\ KeysOf(tasks[i]) \subseteq pending /\ KeysOf(tasks[i]) \intersect KeysOf(job) = {}
       /\ tasks[i].kind = "reload" => tasks[i].rows = <<>>
  /\ \A i, j \in 1..Len(tasks) : i # j => KeysOf(tasks[i]) \intersect KeysOf(tasks[j]) = {}

\* The model has, and is sent, rows that are filed; a reset sends a key once.
CallsKept ==
  /\ OncePerKey(table) /\ ToSet(table) \subseteq Filed
  /\ \A i \in 1..Len(tableCalls) :
       /\ ToSet(tableCalls[i].rows) \subseteq Filed
       /\ tableCalls[i].kind = "reset" => DistinctKeys(ToSet(tableCalls[i].rows))

\* A loaded model, or one that a reset is on its way to, will show every row that can be
\* read: those of the last reset and what is sent after it, those the worker is about to
\* send, all but what was reported as not saved.
ResetIn(n) == \E i \in n..Len(tableCalls) : tableCalls[i].kind = "reset"
WillShow(key) ==
  \/ key \in Keys(ToSet(table)) /\ ~ResetIn(1)
  \/ \E i \in 1..Len(tableCalls) : key \in KeysOf(tableCalls[i]) /\ ~ResetIn(i + 1)
Underway == Keys(unsaved \union ToSet(job.saved))
            \union (IF job.step = "data" THEN {} ELSE {Key(Head(job.left))})
FileShown ==
  loaded \/ ResetIn(1) => \A key \in Keys(Whole) \ Underway : WillShow(key)

TableInv ==
  /\ TableTypes /\ FileTypes /\ JobKept /\ PendingKept /\ CallsKept /\ FileShown
  /\ AcceptedIsKept

-----------------------------------------------------------------------------

\* What a task gets: the accepted rows of the scan, whichever they are.
LEMMA AcceptedRows ==
  ASSUME NEW scan \in Scans, NEW S, S \subseteq RowsOf(scan)
  PROVE  ByBand(S) \in Seq(ResultRows) /\ ToSet(ByBand(S)) = S
<1>1. /\ S \subseteq Row /\ S \subseteq ResultRows /\ IsFiniteSet(S)
      /\ \A r, s \in S : r.band = s.band => r = s
  BY RowsOfIs, FS_Subset
<1>2. Lists(ByBand(S), S) BY <1>1, ByBandLists
<1> QED BY <1>1, <1>2 DEF Lists

\* resetRows has each row once, and no key twice.
LEMMA NewestFirstIs ==
  ASSUME NEW S, S \subseteq ResultRows, IsFiniteSet(S), DistinctKeys(S)
  PROVE  /\ NewestFirst(S) \in Seq(ResultRows) /\ ToSet(NewestFirst(S)) = S
         /\ OncePerKey(NewestFirst(S))
<1>1. Lists(NewestFirst(S), S) BY NewestFirstLists, ResultRowsAre
<1> DEFINE q == NewestFirst(S)
<1> HIDE DEF q
<1>2. q \in Seq(S) /\ ToSet(q) = S /\ \A i, j \in 1..Len(q) : q[i] = q[j] => i = j
  BY <1>1 DEF Lists, q
<1>3. \A i \in 1..Len(q) : q[i] \in S BY <1>2, ElementOfSeq
<1>4. OncePerKey(q) BY <1>2, <1>3 DEF OncePerKey, DistinctKeys
<1> QED BY <1>2, <1>4 DEF q

\* A sequence has finitely many elements.
LEMMA FinitelyMany ==
  ASSUME NEW S, NEW q \in Seq(S)
  PROVE  IsFiniteSet(ToSet(q))
<1> DEFINE f == [i \in 1..Len(q) |-> q[i]]
<1>1. f \in Surjection(1..Len(q), ToSet(q)) BY Members DEF Surjection
<1>2. IsFiniteSet(1..Len(q)) BY LenProperties, FS_Interval
<1> HIDE DEF f
<1> QED BY <1>1, <1>2, FS_Surjection

\* What a reload posts: the rows of the file.
LEMMA SentIs ==
  ASSUME TableInv
  PROVE  /\ NewestFirst(ReadAll) \in Seq(ResultRows)
         /\ ToSet(NewestFirst(ReadAll)) = ReadAll
BY ReadAllIs, NewestFirstIs DEF TableInv, FileTypes

\* An idle worker has a job of the right type.
LEMMA NoJobTyped ==
  NoJob \in [kind : {"idle", "append"}, rows : Seq(ResultRows), left : Seq(ResultRows),
             saved : Seq(ResultRows), step : {"data", "index", "metadata"}]
BY DEF NoJob

-----------------------------------------------------------------------------
(* ResultTable: the invariant is inductive.                                  *)

\* The steps keep the types of the table, the queues and the job.
LEMMA TypesStay ==
  ASSUME TableInv, TableNext
  PROVE  TableTypes'
<1> USE DEF TableInv, TableTypes
<1> DEFINE Tasks == [kind : {"append", "reload"}, rows : Seq(ResultRows)]
           Calls == [kind : {"append", "reset"}, rows : Seq(ResultRows)]
<1>1. ASSUME NEW scan \in Scans, AppendBearingResults(scan) PROVE TableTypes'
  <2> DEFINE rows == {r \in RowsOf(scan) :
                        Key(r) \notin pending /\ Key(r) \notin Keys(ToSet(table))}
             t == [kind |-> "append", rows |-> ByBand(rows)]
  <2>1. pending' = pending \union Keys(rows) /\ tasks' = Append(tasks, t)
    BY <1>1 DEF AppendBearingResults
  <2>2. rows \subseteq RowsOf(scan) OBVIOUS
  <2> HIDE DEF rows
  <2>3. t \in Tasks BY <2>2, AcceptedRows
  <2>4. Keys(rows) \subseteq Keys(ResultRows) BY <2>2, RowsOfIs DEF Keys
  <2> HIDE DEF t, Tasks
  <2>5. tasks' \in Seq(Tasks) BY <2>1, <2>3, PushBack DEF Tasks
  <2> QED BY <1>1, <2>1, <2>4, <2>5 DEF AppendBearingResults, modelVars, diskVars, Tasks
<1>2. CASE Reload
  <2> DEFINE t == [kind |-> "reload", rows |-> <<>>]
  <2>1. tasks' = Append(tasks, t) /\ t \in Tasks BY <1>2 DEF Reload
  <2> HIDE DEF t, Tasks
  <2>2. tasks' \in Seq(Tasks) BY <2>1, PushBack DEF Tasks
  <2> QED BY <1>2, <2>2 DEF Reload, Tasks
<1>3. CASE RunPosted
  <2> DEFINE c == Head(tableCalls)
  <2>1. c \in Calls /\ tableCalls' = Tail(tableCalls) /\ tableCalls' \in Seq(Calls)
    <3> HIDE DEF Calls
    <3> QED BY <1>3, PopFront DEF RunPosted, Calls
  <2>2. c.rows \in Seq(ResultRows) BY <2>1
  <2>3. CASE c.kind = "append"
    <3>1. AppendRows(c.rows) \in Seq(ResultRows)
      BY <2>2, AppendRowsIs DEF CallsKept, AppendedRows
    <3> HIDE DEF Calls
    <3> QED BY <1>3, <2>1, <2>3, <3>1 DEF RunPosted, Calls
  <2>4. CASE c.kind # "append"
    <3>1. c.kind = "reset" BY <2>1, <2>4
    <3>2. DistinctKeys(ToSet(c.rows))
      <4>1. Len(tableCalls) \in Nat /\ tableCalls # <<>> /\ c = tableCalls[1]
        BY <1>3, LenProperties DEF RunPosted
      <4>2. 1 \in 1..Len(tableCalls) BY <4>1, EmptySeq
      <4> QED BY <3>1, <4>1, <4>2 DEF CallsKept
    <3>3. NewestFirst(ToSet(c.rows)) \in Seq(ResultRows)
      <4>1. IsFiniteSet(ToSet(c.rows)) /\ ToSet(c.rows) \subseteq ResultRows
        BY <2>2, FinitelyMany, Members
      <4> QED BY <3>2, <4>1, NewestFirstIs
    <3> HIDE DEF Calls
    <3> QED BY <1>3, <2>1, <2>4, <3>3 DEF RunPosted, Calls
  <2> QED BY <2>3, <2>4
<1>4. CASE StopWorker
  BY <1>4 DEF StopWorker, modelVars, queueVars
<1>5. CASE StartAppend
  <2> DEFINE t == Head(tasks)
  <2>1. t \in Tasks /\ tasks' \in Seq(Tasks)
    <3> HIDE DEF Tasks
    <3> QED BY <1>5, PopFront DEF StartAppend, TakeTask, Tasks
  <2>2. t.rows \in Seq(ResultRows) BY <2>1
  <2>3. job' = [kind |-> "append", rows |-> t.rows, left |-> t.rows, saved |-> <<>>,
                step |-> "data"]
    BY <1>5 DEF StartAppend, NoJob
  <2> HIDE DEF t
  <2>4. job' \in [kind : {"idle", "append"}, rows : Seq(ResultRows), left : Seq(ResultRows),
                 saved : Seq(ResultRows), step : {"data", "index", "metadata"}]
    BY <2>2, <2>3
  <2> QED BY <1>5, <2>1, <2>4 DEF StartAppend, modelVars
<1>6. CASE ReloadOnWorker
  <2> DEFINE c == [kind |-> "reset", rows |-> NewestFirst(ReadAll)]
  <2>1. c \in Calls BY SentIs
  <2>2. tableCalls' = Append(tableCalls, c) BY <1>6 DEF ReloadOnWorker
  <2> HIDE DEF c, Calls, Tasks
  <2>3. tableCalls' \in Seq(Calls) BY <2>1, <2>2, PushBack DEF Calls
  <2>4. tasks' \in Seq(Tasks) BY <1>6, PopFront DEF ReloadOnWorker, TakeTask, Tasks
  <2> QED BY <1>6, <2>3, <2>4 DEF ReloadOnWorker, modelVars, Calls, Tasks
<1>7. CASE WriteTableData
  BY <1>7 DEF WriteTableData, modelVars, queueVars
<1>8. CASE WriteTableIndex
  BY <1>8 DEF WriteTableIndex, modelVars, queueVars
<1>9. CASE WriteTableMetadata \/ LoseTableIndex
  <2>1. job.left # <<>> /\ RowSaved
    BY <1>9 DEF WriteTableMetadata, LoseTableIndex, Appending
  <2>2. Head(job.left) \in ResultRows /\ Tail(job.left) \in Seq(ResultRows)
    BY <2>1, PopFront
  <2>3. Append(job.saved, Head(job.left)) \in Seq(ResultRows) BY <2>2, PushBack
  <2>4. UNCHANGED <<modelVars, queueVars, process>>
    BY <1>9 DEF WriteTableMetadata, LoseTableIndex
  <2> QED BY <2>1, <2>2, <2>3, <2>4 DEF RowSaved, modelVars, queueVars
<1>10. CASE FailAppend
  <2>1. job.left # <<>> BY <1>10 DEF FailAppend, Appending
  <2>2. Tail(job.left) \in Seq(ResultRows) BY <2>1, PopFront
  <2> QED BY <1>10, <2>2 DEF FailAppend, modelVars, queueVars
<1>16. CASE LoseTableData
  BY <1>16 DEF LoseTableData, modelVars, queueVars
<1>11. CASE EndAppend
  <2> DEFINE c == [kind |-> "append", rows |-> job.saved]
  <2>1. c \in Calls OBVIOUS
  <2>2. tableCalls' = tableCalls \/ tableCalls' = Append(tableCalls, c)
    BY <1>11 DEF EndAppend
  <2> HIDE DEF c, Calls
  <2>3. tableCalls \in Seq(Calls) BY DEF Calls
  <2>4. Append(tableCalls, c) \in Seq(Calls) BY <2>1, <2>3, PushBack
  <2>5. tableCalls' \in Seq([kind : {"append", "reset"}, rows : Seq(ResultRows)])
    BY <2>2, <2>3, <2>4 DEF Calls
  <2>6. pending' \in SUBSET Keys(ResultRows) BY <1>11 DEF EndAppend
  <2>7. job' = NoJob /\ UNCHANGED <<table, loaded, tasks, process>>
    BY <1>11 DEF EndAppend, modelVars
  <2> QED BY <2>5, <2>6, <2>7, NoJobTyped
<1>12. ASSUME Gone PROVE TableTypes'
  <2>1. <<>> \in Seq(ResultRows) /\ <<>> \in Seq(Tasks) /\ <<>> \in Seq(Calls) OBVIOUS
  <2>2. pending' \in SUBSET Keys(ResultRows) BY <1>12 DEF Gone
  <2>3. /\ table' = <<>> /\ tasks' = <<>> /\ tableCalls' = <<>> /\ loaded' = FALSE
        /\ process' = "down" /\ job' = NoJob
    BY <1>12 DEF Gone
  <2> QED BY <2>1, <2>2, <2>3, NoJobTyped
<1>13. CASE WorkerEnds BY <1>12, <1>13 DEF WorkerEnds
<1>14. CASE Crash BY <1>12, <1>14 DEF Crash
<1>15. CASE Reopen
  BY <1>15 DEF Reopen, modelVars, queueVars
<1> QED
  BY <1>1, <1>2, <1>3, <1>4, <1>5, <1>6, <1>7, <1>8, <1>9, <1>10, <1>11, <1>13, <1>14,
     <1>15, <1>16 DEF TableNext

\* What the worker has in hand.
LEMMA RowInHand ==
  ASSUME TableInv, job.left # <<>>
  PROVE  /\ Head(job.left) \in ResultRows /\ Tail(job.left) \in Seq(ResultRows)
         /\ ToSet(job.left) = {Head(job.left)} \union ToSet(Tail(job.left))
         /\ Head(job.left) \in ToSet(job.rows)
<1>1. job.left \in Seq(ResultRows) BY DEF TableInv, TableTypes
<1>2. /\ Head(job.left) \in ResultRows /\ Tail(job.left) \in Seq(ResultRows)
      /\ ToSet(job.left) = {Head(job.left)} \union ToSet(Tail(job.left))
  BY <1>1, PopFront
<1> QED BY <1>2 DEF TableInv, JobKept

\* A record more in result_table.bin.
LEMMA BinGrows ==
  ASSUME TableInv, NEW e \in ResultRows \union {Cut}, bin' = Append(bin, e)
  PROVE  /\ bin' \in Seq(ResultRows \union {Cut}) /\ Len(bin') = Len(bin) + 1
         /\ Len(bin) \in Nat /\ ToSet(bin') = ToSet(bin) \union {e}
<1>1. bin \in Seq(ResultRows \union {Cut}) BY DEF TableInv, FileTypes
<1> QED BY <1>1, PushBack, LenProperties

\* The steps keep the types of the files, the reports and the counters.
LEMMA FileTypesStay ==
  ASSUME TableInv, TableNext
  PROVE  FileTypes'
<1> USE DEF TableInv, FileTypes
<1>0. Len(bin) \in Nat /\ MaxAppends \in Nat /\ MaxReloads \in Nat /\ MaxTableFailures \in Nat
  BY LenProperties, TableAssumption
<1>1. ASSUME NEW scan \in Scans, AppendBearingResults(scan) PROVE FileTypes'
  <2> DEFINE rows == {r \in RowsOf(scan) :
                        Key(r) \notin pending /\ Key(r) \notin Keys(ToSet(table))}
  <2>1. rows \subseteq ResultRows BY RowsOfIs
  <2>2. kept' = kept \union rows /\ appends < MaxAppends /\ appends' = appends + 1
    BY <1>1 DEF AppendBearingResults
  <2>3. UNCHANGED <<bin, idx, metaRows, lost, unsaved, reloads, tableFailures>>
    BY <1>1 DEF AppendBearingResults, diskVars
  <2> HIDE DEF rows
  <2>4. kept' \in SUBSET ResultRows BY <2>1, <2>2
  <2>5. appends' \in 0..MaxAppends BY <1>0, <2>2
  <2> QED BY <2>3, <2>4, <2>5
<1>2. CASE Reload
  <2>1. reloads' \in 0..MaxReloads BY <1>0, <1>2 DEF Reload
  <2> QED BY <1>2, <2>1 DEF Reload, diskVars
<1>3. ASSUME UNCHANGED <<diskVars, unsaved, kept, boundVars>> PROVE FileTypes'
  BY <1>3 DEF diskVars, boundVars
<1>4. CASE RunPosted BY <1>3, <1>4 DEF RunPosted
<1>5. CASE StopWorker BY <1>3, <1>5 DEF StopWorker
<1>6. CASE StartAppend BY <1>3, <1>6 DEF StartAppend
<1>7. CASE ReloadOnWorker BY <1>3, <1>7 DEF ReloadOnWorker
<1>8. CASE WriteTableData
  <2>1. job.left # <<>> /\ bin' = Append(bin, Head(job.left))
    BY <1>8 DEF WriteTableData, Appending
  <2>2. bin' \in Seq(ResultRows \union {Cut}) /\ Len(bin') = Len(bin) + 1
    BY <2>1, RowInHand, BinGrows
  <2>3. UNCHANGED <<idx, metaRows, lost, unsaved, kept, appends, reloads, tableFailures>>
    BY <1>8 DEF WriteTableData, boundVars
  <2> QED BY <1>0, <2>2, <2>3
<1>9. CASE WriteTableIndex
  <2>1. /\ idx' = idx + 1
        /\ UNCHANGED <<bin, metaRows, lost, unsaved, kept, appends, reloads, tableFailures>>
    BY <1>9 DEF WriteTableIndex, boundVars
  <2> QED BY <1>0, <2>1
<1>10. CASE WriteTableMetadata
  <2>1. /\ metaRows' = idx
        /\ UNCHANGED <<bin, idx, lost, unsaved, kept, appends, reloads, tableFailures>>
    BY <1>10 DEF WriteTableMetadata, boundVars
  <2> QED BY <1>0, <2>1
<1>11. ASSUME bin' = bin \/ bin' = Append(bin, Cut)
       PROVE  bin' \in Seq(ResultRows \union {Cut})
  BY <1>11, BinGrows
<1>12. CASE FailAppend
  <2>1. job.left # <<>> /\ (bin' = bin \/ bin' = Append(bin, Cut))
    BY <1>12 DEF FailAppend, Appending
  <2>2. /\ unsaved' = unsaved \union {Head(job.left)}
        /\ tableFailures < MaxTableFailures /\ tableFailures' = tableFailures + 1
        /\ UNCHANGED <<idx, metaRows, lost, kept, appends, reloads>>
    BY <1>12 DEF FailAppend
  <2>3. unsaved' \in SUBSET ResultRows BY <2>1, <2>2, RowInHand
  <2>4. bin' \in Seq(ResultRows \union {Cut}) BY <2>1, <1>11
  <2>5. tableFailures' \in 0..MaxTableFailures BY <1>0, <2>2
  <2> QED BY <2>2, <2>3, <2>4, <2>5
<1>17. CASE LoseTableData
  <2>1. job.left # <<>> /\ (bin' = bin \/ bin' = Append(bin, Cut))
    BY <1>17 DEF LoseTableData, Appending
  <2>2. /\ lost' = lost \union {Head(job.left)}
        /\ tableFailures < MaxTableFailures /\ tableFailures' = tableFailures + 1
        /\ UNCHANGED <<idx, metaRows, unsaved, kept, appends, reloads>>
    BY <1>17 DEF LoseTableData
  <2>3. lost' \in SUBSET ResultRows BY <2>1, <2>2, RowInHand
  <2>4. bin' \in Seq(ResultRows \union {Cut}) BY <2>1, <1>11
  <2>5. tableFailures' \in 0..MaxTableFailures BY <1>0, <2>2
  <2> QED BY <2>2, <2>3, <2>4, <2>5
<1>18. CASE LoseTableIndex
  <2>1. /\ metaRows' = 0
        /\ tableFailures < MaxTableFailures /\ tableFailures' = tableFailures + 1
        /\ UNCHANGED <<bin, idx, lost, unsaved, kept, appends, reloads>>
    BY <1>18 DEF LoseTableIndex
  <2>2. tableFailures' \in 0..MaxTableFailures BY <1>0, <2>1
  <2> QED BY <2>1, <2>2
<1>13. CASE EndAppend BY <1>3, <1>13 DEF EndAppend
<1>14. CASE WorkerEnds BY <1>3, <1>14 DEF WorkerEnds
<1>15. CASE Crash
  <2>1. /\ bin' = bin \/ bin' = Append(bin, Cut)
        /\ kept' = kept \ (Queued \ ToSet(bin))
        /\ tableFailures < MaxTableFailures /\ tableFailures' = tableFailures + 1
        /\ UNCHANGED <<idx, metaRows, lost, unsaved, appends, reloads>>
    BY <1>15 DEF Crash
  <2>2. bin' \in Seq(ResultRows \union {Cut}) BY <2>1, <1>11
  <2>3. kept' \in SUBSET ResultRows BY <2>1
  <2>4. tableFailures' \in 0..MaxTableFailures BY <1>0, <2>1
  <2> QED BY <2>1, <2>2, <2>3, <2>4
<1>16. CASE Reopen BY <1>3, <1>16 DEF Reopen
<1> QED
  BY <1>1, <1>2, <1>4, <1>5, <1>6, <1>7, <1>8, <1>9, <1>10, <1>12, <1>13, <1>14, <1>15,
     <1>16, <1>17, <1>18 DEF TableNext

\* What is filed stays so.
LEMMA FiledKeeps ==
  ASSUME TableInv, TableNext
  PROVE  Filed \subseteq Filed' /\ ToSet(bin) \subseteq ToSet(bin')
<1>1. lost \subseteq lost'
  BY DEF TableNext, AppendBearingResults, Reload, RunPosted, StopWorker, StartAppend,
     ReloadOnWorker, WriteTableData, WriteTableIndex, WriteTableMetadata, FailAppend,
     LoseTableData, LoseTableIndex, EndAppend, WorkerEnds, Crash, Reopen, diskVars
<1>2. CASE WriteTableData
  <2>1. job.left # <<>> /\ bin' = Append(bin, Head(job.left))
    BY <1>2 DEF WriteTableData, Appending
  <2> QED BY <1>1, <2>1, RowInHand, BinGrows DEF Filed
<1>3. CASE FailAppend \/ LoseTableData \/ Crash
  <2>1. bin' = bin \/ bin' = Append(bin, Cut) BY <1>3 DEF FailAppend, LoseTableData, Crash
  <2> QED BY <1>1, <2>1, BinGrows DEF Filed
<1>4. CASE ~WriteTableData /\ ~FailAppend /\ ~LoseTableData /\ ~Crash
  <2>1. bin' = bin
    BY <1>4 DEF TableNext, AppendBearingResults, Reload, RunPosted, StopWorker, StartAppend,
       ReloadOnWorker, WriteTableIndex, WriteTableMetadata, LoseTableIndex, EndAppend,
       WorkerEnds, Reopen, diskVars
  <2> QED BY <1>1, <2>1 DEF Filed
<1> QED BY <1>2, <1>3, <1>4

\* A row moves from the rows to come to the one in hand and to those done, and is in the
\* file before it is done.
LEMMA JobStays ==
  ASSUME TableInv, TableNext
  PROVE  JobKept'
<1> USE DEF TableInv, JobKept
<1>0. Filed \subseteq Filed' BY FiledKeeps
<1>1. ASSUME UNCHANGED job PROVE JobKept'
  BY <1>0, <1>1 DEF NoJob
<1>2. ASSUME NEW scan \in Scans, AppendBearingResults(scan) PROVE JobKept'
  BY <1>1, <1>2 DEF AppendBearingResults
<1>3. CASE Reload BY <1>1, <1>3 DEF Reload
<1>4. CASE RunPosted BY <1>1, <1>4 DEF RunPosted
<1>5. CASE StopWorker BY <1>1, <1>5 DEF StopWorker
<1>6. CASE StartAppend
  <2>1. /\ job'.kind = "append" /\ job'.left = job'.rows /\ job'.saved = <<>>
        /\ job'.step = "data"
    BY <1>6 DEF StartAppend, NoJob
  <2> QED BY <2>1, EmptyQueueFacts
<1>7. CASE ReloadOnWorker BY <1>1, <1>7 DEF ReloadOnWorker
<1>8. job.kind \in {"idle", "append"} /\ NoJob.kind = "idle" BY DEF TableTypes, NoJob
<1>9. CASE WriteTableData
  <2>1. /\ job.left # <<>> /\ bin' = Append(bin, Head(job.left)) /\ job.kind = "append"
    BY <1>9 DEF WriteTableData, Appending
  <2>2. /\ job'.kind = "append" /\ job'.rows = job.rows /\ job'.left = job.left
        /\ job'.saved = job.saved /\ job'.step = "index"
    BY <1>9, <2>1 DEF WriteTableData, TableTypes
  <2>3. Head(job.left) \in Filed' BY <2>1, RowInHand, BinGrows DEF Filed
  <2> QED BY <1>0, <2>1, <2>2, <2>3
<1>10. CASE WriteTableIndex
  <2>1. /\ job.left # <<>> /\ job.step = "index" /\ job.kind = "append"
    BY <1>10 DEF WriteTableIndex, Appending
  <2>2. /\ job'.kind = "append" /\ job'.rows = job.rows /\ job'.left = job.left
        /\ job'.saved = job.saved /\ job'.step = "metadata"
    BY <1>10, <2>1 DEF WriteTableIndex, TableTypes
  <2> QED BY <1>0, <2>1, <2>2
<1>11. CASE WriteTableMetadata \/ LoseTableIndex
  <2>1. /\ job.left # <<>> /\ job.step # "data" /\ job.kind = "append" /\ RowSaved
    BY <1>11 DEF WriteTableMetadata, LoseTableIndex, Appending
  <2>2. /\ job'.kind = "append" /\ job'.rows = job.rows /\ job'.left = Tail(job.left)
        /\ job'.saved = Append(job.saved, Head(job.left)) /\ job'.step = "data"
    BY <2>1 DEF RowSaved, TableTypes
  <2>3. ToSet(job'.saved) = ToSet(job.saved) \union {Head(job.left)}
    <3>1. job.saved \in Seq(ResultRows) BY DEF TableTypes
    <3>2. ToSet(Append(job.saved, Head(job.left))) = ToSet(job.saved) \union {Head(job.left)}
      BY <2>1, <3>1, RowInHand, PushBack
    <3> QED BY <2>2, <3>2
  <2>4. ToSet(job'.left) \subseteq ToSet(job.left) BY <2>1, <2>2, RowInHand
  <2>5. Head(job.left) \in Filed /\ Head(job.left) \in ToSet(job.rows)
    BY <2>1, RowInHand
  <2> QED BY <1>0, <2>1, <2>2, <2>3, <2>4, <2>5
<1>12. CASE FailAppend
  <2>1. job.left # <<>> /\ job.kind = "append" BY <1>12 DEF FailAppend, Appending
  <2>2. /\ job'.kind = "append" /\ job'.rows = job.rows /\ job'.left = Tail(job.left)
        /\ job'.saved = job.saved /\ job'.step = "data"
    BY <1>12, <2>1 DEF FailAppend, TableTypes
  <2>3. ToSet(job'.left) \subseteq ToSet(job.left) BY <2>1, <2>2, RowInHand
  <2> QED BY <1>0, <2>2, <2>3
<1>18. CASE LoseTableData
  <2>1. /\ job.left # <<>> /\ job.kind = "append" /\ lost' = lost \union {Head(job.left)}
    BY <1>18 DEF LoseTableData, Appending
  <2>2. /\ job'.kind = "append" /\ job'.rows = job.rows /\ job'.left = job.left
        /\ job'.saved = job.saved /\ job'.step = "index"
    BY <1>18, <2>1 DEF LoseTableData, TableTypes
  <2>3. Head(job.left) \in Filed' BY <2>1 DEF Filed
  <2> QED BY <1>0, <2>1, <2>2, <2>3
<1>13. ASSUME job' = NoJob PROVE JobKept'
  <2>1. /\ job'.rows = <<>> /\ job'.left = <<>> /\ job'.saved = <<>> /\ job'.step = "data"
    BY <1>13 DEF NoJob
  <2>2. (NoJob)' = NoJob BY DEF NoJob
  <2> QED BY <1>13, <2>1, <2>2, EmptyQueueFacts
<1>14. CASE EndAppend BY <1>13, <1>14 DEF EndAppend
<1>15. CASE WorkerEnds BY <1>13, <1>15 DEF WorkerEnds, Gone
<1>16. CASE Crash BY <1>13, <1>16 DEF Crash, Gone
<1>17. CASE Reopen BY <1>1, <1>17 DEF Reopen
<1> QED
  BY <1>2, <1>3, <1>4, <1>5, <1>6, <1>7, <1>9, <1>10, <1>11, <1>12, <1>14, <1>15, <1>16,
     <1>17, <1>18 DEF TableNext

\* The places of a queue after push_back and pop_front.
LEMMA PlacesAppended ==
  ASSUME NEW S, NEW q \in Seq(S), NEW e \in S
  PROVE  /\ Len(q) \in Nat /\ Len(Append(q, e)) = Len(q) + 1
         /\ \A i \in 1..Len(q) : Append(q, e)[i] = q[i]
         /\ Append(q, e)[Len(q) + 1] = e
BY AppendProperties, LenProperties

LEMMA PlacesLeft ==
  ASSUME NEW S, NEW q \in Seq(S), q # <<>>
  PROVE  /\ Len(q) \in Nat \ {0} /\ Len(Tail(q)) = Len(q) - 1 /\ Head(q) = q[1]
         /\ \A i \in 1..Len(Tail(q)) : Tail(q)[i] = q[i + 1]
BY HeadTailProperties, LenProperties, EmptySeq

\* A task starts with keys that are not pending, and takes them off at its end: no other
\* task or job loses a key by it.
LEMMA PendingStays ==
  ASSUME TableInv, TableNext
  PROVE  PendingKept'
<1> USE DEF TableInv
<1> DEFINE Tasks == [kind : {"append", "reload"}, rows : Seq(ResultRows)]
           n == Len(tasks)
<1>0. tasks \in Seq(Tasks) /\ n \in Nat BY LenProperties DEF TableTypes
<1>1. ASSUME UNCHANGED <<pending, tasks>>, job'.rows = job.rows PROVE PendingKept'
  BY <1>1 DEF PendingKept, KeysOf, Keys
<1>2. ASSUME NEW t \in Tasks, tasks' = Append(tasks, t), job' = job,
             pending' = pending \union KeysOf(t), KeysOf(t) \intersect pending = {},
             t.kind = "reload" => t.rows = <<>>
      PROVE  PendingKept'
  <2> USE DEF PendingKept
  <2>1. /\ Len(tasks') = n + 1 /\ tasks'[n + 1] = t
        /\ \A i \in 1..n : tasks'[i] = tasks[i]
    <3> HIDE DEF Tasks
    <3> QED BY <1>0, <1>2, PlacesAppended
  <2>2. (KeysOf(job))' = KeysOf(job) /\ KeysOf(job) \subseteq pending
    BY <1>2 DEF KeysOf, Keys
  <2>3. \A i \in 1..n : /\ (KeysOf(tasks[i]))' = KeysOf(tasks[i])
                        /\ KeysOf(tasks[i]) \subseteq pending
    BY <2>1 DEF KeysOf, Keys
  <2>4. \A i \in 1..(n + 1) : i = n + 1 => (KeysOf(tasks[i]))' = KeysOf(t)
    BY <2>1 DEF KeysOf, Keys
  <2> HIDE DEF n, Tasks
  <2>5. \A i \in 1..(n + 1) : i \in 1..n \/ i = n + 1 BY <1>0
  <2>6. (KeysOf(job))' \subseteq pending' BY <1>2, <2>2
  <2>7. ASSUME NEW i \in 1..(n + 1)
        PROVE  /\ (KeysOf(tasks[i]))' \subseteq pending'
               /\ (KeysOf(tasks[i]))' \intersect (KeysOf(job))' = {}
               /\ tasks'[i].kind = "reload" => tasks'[i].rows = <<>>
    <3>1. CASE i \in 1..n
      BY <1>2, <2>1, <2>2, <2>3, <3>1 DEF n
    <3>2. CASE i = n + 1
      BY <1>2, <2>1, <2>2, <2>4, <3>2
    <3> QED BY <2>5, <3>1, <3>2
  <2>8. ASSUME NEW i \in 1..(n + 1), NEW j \in 1..(n + 1), i # j
        PROVE  (KeysOf(tasks[i]))' \intersect (KeysOf(tasks[j]))' = {}
    <3>1. CASE i \in 1..n /\ j \in 1..n BY <2>3, <2>8, <3>1 DEF n
    <3>2. CASE i = n + 1 /\ j \in 1..n BY <1>2, <2>3, <2>4, <3>2
    <3>3. CASE j = n + 1 /\ i \in 1..n BY <1>2, <2>3, <2>4, <3>3
    <3> QED BY <2>5, <2>8, <3>1, <3>2, <3>3
  <2> QED BY <2>1, <2>6, <2>7, <2>8
<1>3. ASSUME NEW scan \in Scans, AppendBearingResults(scan) PROVE PendingKept'
  <2> DEFINE rows == {r \in RowsOf(scan) :
                        Key(r) \notin pending /\ Key(r) \notin Keys(ToSet(table))}
             t == [kind |-> "append", rows |-> ByBand(rows)]
  <2>1. /\ pending' = pending \union Keys(rows) /\ tasks' = Append(tasks, t) /\ job' = job
    BY <1>3 DEF AppendBearingResults
  <2>2. rows \subseteq RowsOf(scan) /\ Keys(rows) \intersect pending = {} BY DEF Keys
  <2> HIDE DEF rows
  <2>3. ByBand(rows) \in Seq(ResultRows) /\ ToSet(ByBand(rows)) = rows
    BY <2>2, AcceptedRows
  <2>4. t \in Tasks /\ KeysOf(t) = Keys(rows) /\ t.kind # "reload" BY <2>3 DEF KeysOf
  <2> HIDE DEF t, Tasks
  <2> QED BY <1>2, <2>1, <2>2, <2>4
<1>4. CASE Reload
  <2> DEFINE t == [kind |-> "reload", rows |-> <<>>]
  <2>1. pending' = pending /\ tasks' = Append(tasks, t) /\ job' = job
    BY <1>4 DEF Reload
  <2>2. t \in Tasks /\ KeysOf(t) = {} /\ t.rows = <<>>
    BY EmptyQueueFacts DEF KeysOf, Keys
  <2> HIDE DEF t, Tasks
  <2> QED BY <1>2, <2>1, <2>2
<1>5. CASE RunPosted BY <1>1, <1>5 DEF RunPosted
<1>6. CASE StopWorker BY <1>1, <1>6 DEF StopWorker, queueVars
<1>7. ASSUME NEW kind, TakeTask(kind)
      PROVE  /\ n \in Nat \ {0} /\ Len(tasks') = n - 1 /\ Head(tasks) = tasks[1]
             /\ \A i \in 1..(n - 1) : tasks'[i] = tasks[i + 1]
  <2>1. tasks # <<>> /\ tasks' = Tail(tasks) BY <1>7 DEF TakeTask
  <2> HIDE DEF Tasks
  <2> QED BY <1>0, <2>1, PlacesLeft
<1>8. CASE StartAppend
  <2> USE DEF PendingKept
  <2>1. /\ n \in Nat \ {0} /\ Len(tasks') = n - 1 /\ Head(tasks) = tasks[1]
        /\ \A i \in 1..(n - 1) : tasks'[i] = tasks[i + 1]
    BY <1>7, <1>8 DEF StartAppend
  <2>2. pending' = pending /\ job'.rows = tasks[1].rows
    BY <1>8, <2>1 DEF StartAppend, NoJob
  <2>3. (KeysOf(job))' = KeysOf(tasks[1]) BY <2>2 DEF KeysOf, Keys
  <2>4. \A i \in 1..(n - 1) : (KeysOf(tasks[i]))' = KeysOf(tasks[i + 1])
    BY <2>1 DEF KeysOf, Keys
  <2>5. 1 \in 1..n /\ \A i \in 1..(n - 1) : i + 1 \in 1..n /\ i + 1 # 1 BY <2>1
  <2>6. (KeysOf(job))' \subseteq pending' BY <2>2, <2>3, <2>5
  <2>7. \A i \in 1..(n - 1) : /\ (KeysOf(tasks[i]))' \subseteq pending'
                              /\ (KeysOf(tasks[i]))' \intersect (KeysOf(job))' = {}
                              /\ tasks'[i].kind = "reload" => tasks'[i].rows = <<>>
    BY <2>1, <2>2, <2>3, <2>4, <2>5
  <2>8. \A i, j \in 1..(n - 1) : i # j => (KeysOf(tasks[i]))' \intersect (KeysOf(tasks[j]))' = {}
    <3> SUFFICES ASSUME NEW i \in 1..(n - 1), NEW j \in 1..(n - 1), i # j
                 PROVE  (KeysOf(tasks[i]))' \intersect (KeysOf(tasks[j]))' = {}
      OBVIOUS
    <3>1. i + 1 # j + 1 OBVIOUS
    <3> QED BY <2>4, <2>5, <3>1
  <2> HIDE DEF n
  <2> QED BY <2>1, <2>6, <2>7, <2>8
<1>9. CASE ReloadOnWorker
  <2> USE DEF PendingKept
  <2>1. /\ n \in Nat \ {0} /\ Len(tasks') = n - 1
        /\ \A i \in 1..(n - 1) : tasks'[i] = tasks[i + 1]
    BY <1>7, <1>9 DEF ReloadOnWorker
  <2>2. pending' = pending /\ job' = job BY <1>9 DEF ReloadOnWorker
  <2>3. (KeysOf(job))' = KeysOf(job) BY <2>2 DEF KeysOf, Keys
  <2>4. \A i \in 1..(n - 1) : (KeysOf(tasks[i]))' = KeysOf(tasks[i + 1])
    BY <2>1 DEF KeysOf, Keys
  <2>5. \A i \in 1..(n - 1) : i + 1 \in 1..n BY <2>1
  <2>6. \A i \in 1..(n - 1) : /\ (KeysOf(tasks[i]))' \subseteq pending'
                              /\ (KeysOf(tasks[i]))' \intersect (KeysOf(job))' = {}
                              /\ tasks'[i].kind = "reload" => tasks'[i].rows = <<>>
    BY <2>1, <2>2, <2>3, <2>4, <2>5
  <2>7. \A i, j \in 1..(n - 1) : i # j => (KeysOf(tasks[i]))' \intersect (KeysOf(tasks[j]))' = {}
    <3> SUFFICES ASSUME NEW i \in 1..(n - 1), NEW j \in 1..(n - 1), i # j
                 PROVE  (KeysOf(tasks[i]))' \intersect (KeysOf(tasks[j]))' = {}
      OBVIOUS
    <3>1. i + 1 # j + 1 OBVIOUS
    <3> QED BY <2>4, <2>5, <3>1
  <2> HIDE DEF n
  <2> QED BY <2>1, <2>2, <2>3, <2>6, <2>7
<1>10. CASE WriteTableData
  <2>1. job'.rows = job.rows BY <1>10 DEF WriteTableData, TableTypes
  <2> QED BY <1>1, <1>10, <2>1 DEF WriteTableData, queueVars
<1>11. CASE WriteTableIndex
  <2>1. job'.rows = job.rows BY <1>11 DEF WriteTableIndex, TableTypes
  <2> QED BY <1>1, <1>11, <2>1 DEF WriteTableIndex, queueVars
<1>12. CASE WriteTableMetadata \/ LoseTableIndex
  <2>1. job'.rows = job.rows
    BY <1>12 DEF WriteTableMetadata, LoseTableIndex, RowSaved, TableTypes
  <2> QED BY <1>1, <1>12, <2>1 DEF WriteTableMetadata, LoseTableIndex, queueVars
<1>20. CASE LoseTableData
  <2>1. job'.rows = job.rows BY <1>20 DEF LoseTableData, TableTypes
  <2> QED BY <1>1, <1>20, <2>1 DEF LoseTableData, queueVars
<1>13. CASE FailAppend
  <2>1. job'.rows = job.rows BY <1>13 DEF FailAppend, TableTypes
  <2> QED BY <1>1, <1>13, <2>1 DEF FailAppend, queueVars
<1>14. (KeysOf(NoJob))' = {} BY EmptyQueueFacts DEF KeysOf, Keys, NoJob
<1>15. CASE EndAppend
  <2> USE DEF PendingKept
  <2>1. pending' = pending \ KeysOf(job) /\ tasks' = tasks /\ job' = (NoJob)'
    BY <1>15 DEF EndAppend, KeysOf, NoJob
  <2>2. (KeysOf(job))' = {} BY <1>14, <2>1 DEF KeysOf
  <2>3. \A i \in 1..n : (KeysOf(tasks[i]))' = KeysOf(tasks[i]) BY <2>1 DEF KeysOf, Keys
  <2> QED BY <2>1, <2>2, <2>3
<1>16. ASSUME Gone PROVE PendingKept'
  <2>1. job' = (NoJob)' /\ tasks' = <<>> BY <1>16 DEF Gone, NoJob
  <2>2. (KeysOf(job))' = {} BY <1>14, <2>1 DEF KeysOf
  <2> QED BY <2>1, <2>2 DEF PendingKept
<1>17. CASE WorkerEnds BY <1>16, <1>17 DEF WorkerEnds
<1>18. CASE Crash BY <1>16, <1>18 DEF Crash
<1>19. CASE Reopen BY <1>1, <1>19 DEF Reopen, queueVars
<1> QED
  BY <1>3, <1>4, <1>5, <1>6, <1>8, <1>9, <1>10, <1>11, <1>12, <1>13, <1>15, <1>17, <1>18,
     <1>19, <1>20 DEF TableNext

\* Calls carry rows that are filed, and so does the table they make, a key once.
LEMMA CallsStay ==
  ASSUME TableInv, TableNext
  PROVE  CallsKept'
<1> USE DEF TableInv
<1> DEFINE Calls == [kind : {"append", "reset"}, rows : Seq(ResultRows)]
           n == Len(tableCalls)
<1>0. tableCalls \in Seq(Calls) /\ n \in Nat BY LenProperties DEF TableTypes
<1>1. Filed \subseteq Filed' BY FiledKeeps
<1>2. ASSUME UNCHANGED <<table, tableCalls>> PROVE CallsKept'
  BY <1>1, <1>2 DEF CallsKept, OncePerKey, DistinctKeys, Key
<1>3. ASSUME NEW c \in Calls, tableCalls' = Append(tableCalls, c), table' = table,
             ToSet(c.rows) \subseteq Filed,
             c.kind = "reset" => DistinctKeys(ToSet(c.rows))
      PROVE  CallsKept'
  <2> USE DEF CallsKept
  <2>1. /\ Len(tableCalls') = n + 1 /\ tableCalls'[n + 1] = c
        /\ \A i \in 1..n : tableCalls'[i] = tableCalls[i]
    <3> HIDE DEF Calls
    <3> QED BY <1>0, <1>3, PlacesAppended
  <2>2. (OncePerKey(table))' BY <1>3 DEF OncePerKey, Key
  <2>3. \A i \in 1..(n + 1) : /\ ToSet(tableCalls'[i].rows) \subseteq Filed'
                              /\ tableCalls'[i].kind = "reset"
                                   => DistinctKeys(ToSet(tableCalls'[i].rows))
    <3> SUFFICES ASSUME NEW i \in 1..(n + 1)
                 PROVE  /\ ToSet(tableCalls'[i].rows) \subseteq Filed'
                        /\ tableCalls'[i].kind = "reset"
                             => DistinctKeys(ToSet(tableCalls'[i].rows))
      OBVIOUS
    <3>1. CASE i \in 1..n BY <1>1, <2>1, <3>1
    <3>2. CASE i = n + 1 BY <1>1, <1>3, <2>1, <3>2
    <3> QED BY <1>0, <3>1, <3>2
  <2> HIDE DEF n
  <2> QED BY <1>1, <1>3, <2>1, <2>2, <2>3 DEF DistinctKeys, Key
<1>4. ASSUME NEW scan \in Scans, AppendBearingResults(scan) PROVE CallsKept'
  BY <1>2, <1>4 DEF AppendBearingResults, modelVars
<1>5. CASE Reload BY <1>2, <1>5 DEF Reload
<1>6. CASE RunPosted
  <2> USE DEF CallsKept
  <2>1. tableCalls # <<>> /\ tableCalls' = Tail(tableCalls)
    BY <1>6 DEF RunPosted
  <2>2. /\ n \in Nat \ {0} /\ Len(tableCalls') = n - 1 /\ Head(tableCalls) = tableCalls[1]
        /\ \A i \in 1..(n - 1) : tableCalls'[i] = tableCalls[i + 1]
    <3> HIDE DEF Calls
    <3> QED BY <1>0, <2>1, PlacesLeft
  <2>3. PICK c \in Calls : c = tableCalls[1]
    <3> HIDE DEF Calls
    <3> QED BY <1>0, <2>2, ElementOfSeq
  <2>4. /\ c.rows \in Seq(ResultRows) /\ ToSet(c.rows) \subseteq Filed
        /\ c.kind = "reset" => DistinctKeys(ToSet(c.rows))
    BY <2>2, <2>3
  <2>5. OncePerKey(table') /\ ToSet(table') \subseteq Filed
    <3>1. CASE c.kind = "append"
      <4>1. table' = AppendRows(c.rows) BY <1>6, <2>2, <2>3, <3>1 DEF RunPosted
      <4>2. AppendedRows(c.rows, table) /\ OncePerKey(AppendRows(c.rows))
        BY <2>4, AppendRowsIs DEF TableTypes
      <4> QED BY <2>4, <4>1, <4>2 DEF AppendedRows
    <3>2. CASE c.kind # "append"
      <4>1. table' = NewestFirst(ToSet(c.rows)) BY <1>6, <2>2, <2>3, <3>2 DEF RunPosted
      <4>2. c.kind = "reset" BY <2>3, <3>2
      <4>3. IsFiniteSet(ToSet(c.rows)) /\ ToSet(c.rows) \subseteq ResultRows
        BY <2>4, FinitelyMany, Members
      <4> QED BY <2>4, <4>1, <4>2, <4>3, NewestFirstIs
    <3> QED BY <3>1, <3>2
  <2>6. \A i \in 1..(n - 1) : /\ ToSet(tableCalls'[i].rows) \subseteq Filed
                              /\ tableCalls'[i].kind = "reset"
                                   => DistinctKeys(ToSet(tableCalls'[i].rows))
    <3> SUFFICES ASSUME NEW i \in 1..(n - 1)
                 PROVE  /\ ToSet(tableCalls'[i].rows) \subseteq Filed
                        /\ tableCalls'[i].kind = "reset"
                             => DistinctKeys(ToSet(tableCalls'[i].rows))
      OBVIOUS
    <3>1. i + 1 \in 1..n BY <2>2
    <3> QED BY <2>2, <3>1
  <2> HIDE DEF n
  <2> QED BY <1>1, <2>1, <2>2, <2>5, <2>6 DEF OncePerKey, DistinctKeys, Key
<1>7. CASE StopWorker BY <1>2, <1>7 DEF StopWorker, queueVars, modelVars
<1>8. CASE StartAppend BY <1>2, <1>8 DEF StartAppend, modelVars
<1>9. CASE ReloadOnWorker
  <2> DEFINE c == [kind |-> "reset", rows |-> NewestFirst(ReadAll)]
  <2>1. tableCalls' = Append(tableCalls, c) /\ table' = table
    BY <1>9 DEF ReloadOnWorker, modelVars
  <2>2. c \in Calls /\ ToSet(c.rows) = ReadAll BY SentIs
  <2>3. ReadAll \subseteq Filed /\ DistinctKeys(ReadAll)
    BY ReadAllIs DEF FileTypes, Filed
  <2> HIDE DEF c, Calls
  <2> QED BY <1>3, <2>1, <2>2, <2>3
<1>10. CASE WriteTableData BY <1>2, <1>10 DEF WriteTableData, queueVars, modelVars
<1>11. CASE WriteTableIndex BY <1>2, <1>11 DEF WriteTableIndex, queueVars, modelVars
<1>12. CASE WriteTableMetadata BY <1>2, <1>12 DEF WriteTableMetadata, queueVars, modelVars
<1>19. CASE LoseTableData \/ LoseTableIndex
  BY <1>2, <1>19 DEF LoseTableData, LoseTableIndex, queueVars, modelVars
<1>13. CASE FailAppend BY <1>2, <1>13 DEF FailAppend, queueVars, modelVars
<1>14. CASE EndAppend
  <2> DEFINE c == [kind |-> "append", rows |-> job.saved]
  <2>1. tableCalls' = tableCalls \/ tableCalls' = Append(tableCalls, c)
    BY <1>14 DEF EndAppend
  <2>2. table' = table BY <1>14 DEF EndAppend, modelVars
  <2>3. c \in Calls /\ ToSet(c.rows) \subseteq Filed /\ c.kind = "append"
    BY DEF TableTypes, JobKept
  <2> HIDE DEF c, Calls
  <2> QED BY <1>2, <1>3, <2>1, <2>2, <2>3
<1>15. ASSUME Gone PROVE CallsKept'
  <2>1. table' = <<>> /\ tableCalls' = <<>> BY <1>15 DEF Gone
  <2> QED BY <2>1, EmptyQueueFacts DEF CallsKept, OncePerKey
<1>16. CASE WorkerEnds BY <1>15, <1>16 DEF WorkerEnds
<1>17. CASE Crash BY <1>15, <1>17 DEF Crash
<1>18. CASE Reopen BY <1>2, <1>18 DEF Reopen, queueVars, modelVars
<1> QED
  BY <1>4, <1>5, <1>6, <1>7, <1>8, <1>9, <1>10, <1>11, <1>12, <1>13, <1>14, <1>16, <1>17,
     <1>18, <1>19 DEF TableNext

\* A row that is in the file and neither reported nor in the worker's hands stays one that
\* the model will show.
LEMMA ShownStays ==
  ASSUME TableInv, TableNext
  PROVE  FileShown'
<1> USE DEF TableInv
<1> DEFINE Calls == [kind : {"append", "reset"}, rows : Seq(ResultRows)]
<1>0. tableCalls \in Seq(Calls) BY DEF TableTypes
<1>a. PICK n \in Nat : n = Len(tableCalls) BY <1>0, LenProperties
<1>1. ASSUME UNCHANGED <<table, tableCalls>>, loaded' => loaded,
             (Keys(Whole) \ Underway)' \subseteq Keys(Whole) \ Underway
      PROVE  FileShown'
  <2>1. (ResetIn(1))' <=> ResetIn(1) BY <1>1 DEF ResetIn
  <2>2. ASSUME NEW key, WillShow(key) PROVE (WillShow(key))'
    BY <1>1, <2>2 DEF WillShow, ResetIn, KeysOf, Keys
  <2> QED BY <1>1, <2>1, <2>2 DEF FileShown
<1>2. ASSUME UNCHANGED <<job, diskVars, unsaved>>
      PROVE  (Keys(Whole))' = Keys(Whole) /\ (Underway)' = Underway
  BY <1>2 DEF diskVars, Whole, Underway, Keys, Key
<1>3. ASSUME NEW scan \in Scans, AppendBearingResults(scan) PROVE FileShown'
  BY <1>1, <1>2, <1>3 DEF AppendBearingResults, modelVars
<1>4. CASE Reload BY <1>1, <1>2, <1>4 DEF Reload
<1>5. CASE StopWorker BY <1>1, <1>2, <1>5 DEF StopWorker, modelVars, queueVars
<1>6. CASE Reopen BY <1>1, <1>2, <1>6 DEF Reopen, modelVars, queueVars
<1>7. CASE StartAppend
  <2>1. job = NoJob /\ job'.saved = <<>> /\ job'.step = "data"
    BY <1>7 DEF StartAppend, TakeTask, NoJob
  <2>2. UNCHANGED <<bin, unsaved>> BY <1>7 DEF StartAppend, diskVars
  <2>3. (Keys(Whole))' = Keys(Whole) /\ (Underway)' = Underway
    BY <2>1, <2>2 DEF Whole, Underway, Keys, Key, NoJob
  <2> QED BY <1>1, <1>7, <2>3 DEF StartAppend, modelVars
<1>8. CASE WriteTableData
  <2>1. /\ job.left # <<>> /\ bin' = Append(bin, Head(job.left)) /\ job.step = "data"
        /\ UNCHANGED <<unsaved, table, loaded, tableCalls>>
    BY <1>8 DEF WriteTableData, Appending, queueVars, modelVars
  <2>2. job'.left = job.left /\ job'.saved = job.saved /\ job'.step = "index"
    BY <1>8 DEF WriteTableData, TableTypes
  <2>3. Whole' \subseteq Whole \union {Head(job.left)}
    BY <2>1, RowInHand, WholeAppend DEF FileTypes
  <2>4. (Keys(Whole))' \subseteq Keys(Whole) \union {Key(Head(job.left))}
    BY <2>3 DEF Keys, Key
  <2>5. (Underway)' = Underway \union {Key(Head(job.left))}
    BY <2>1, <2>2 DEF Underway, Keys, Key
  <2>6. (Keys(Whole) \ Underway)' \subseteq Keys(Whole) \ Underway BY <2>4, <2>5
  <2> QED BY <1>1, <2>1, <2>6
<1>9. CASE WriteTableIndex
  <2>1. job.step = "index" /\ UNCHANGED <<bin, unsaved, table, loaded, tableCalls>>
    BY <1>9 DEF WriteTableIndex, Appending, queueVars, modelVars
  <2>2. job'.left = job.left /\ job'.saved = job.saved /\ job'.step = "metadata"
    BY <1>9 DEF WriteTableIndex, TableTypes
  <2>3. (Keys(Whole))' = Keys(Whole) /\ (Underway)' = Underway
    BY <2>1, <2>2 DEF Whole, Underway, Keys, Key
  <2> QED BY <1>1, <2>1, <2>3
<1>10. CASE WriteTableMetadata \/ LoseTableIndex
  <2>1. /\ job.step # "data" /\ job.left # <<>> /\ RowSaved
        /\ UNCHANGED <<bin, unsaved, table, loaded, tableCalls>>
    BY <1>10 DEF WriteTableMetadata, LoseTableIndex, Appending, queueVars, modelVars
  <2>2. job'.saved = Append(job.saved, Head(job.left)) /\ job'.step = "data"
    BY <2>1 DEF RowSaved, TableTypes
  <2>3. ToSet(job'.saved) = ToSet(job.saved) \union {Head(job.left)}
    <3>1. job.saved \in Seq(ResultRows) BY DEF TableTypes
    <3>2. ToSet(Append(job.saved, Head(job.left))) = ToSet(job.saved) \union {Head(job.left)}
      BY <2>1, <3>1, RowInHand, PushBack
    <3> QED BY <2>2, <3>2
  <2>4. (Keys(Whole))' = Keys(Whole) /\ (Underway)' = Underway
    BY <2>1, <2>2, <2>3 DEF Whole, Underway, Keys, Key
  <2> QED BY <1>1, <2>1, <2>4
<1>20. ASSUME bin' = bin \/ bin' = Append(bin, Cut) PROVE Whole' \subseteq Whole
  <2>1. CASE bin' = bin BY <2>1 DEF Whole
  <2>2. CASE bin' = Append(bin, Cut) BY <2>2, WholeAppend DEF FileTypes
  <2> QED BY <1>20, <2>1, <2>2
<1>21. CASE LoseTableData
  <2>1. /\ job.step = "data" /\ UNCHANGED <<unsaved, table, loaded, tableCalls>>
        /\ bin' = bin \/ bin' = Append(bin, Cut)
    BY <1>21 DEF LoseTableData, Appending, queueVars, modelVars
  <2>2. job'.saved = job.saved BY <1>21 DEF LoseTableData, TableTypes
  <2>3. (Keys(Whole))' \subseteq Keys(Whole) BY <1>20, <2>1 DEF Keys, Key
  <2>4. Underway \subseteq (Underway)' BY <2>1, <2>2 DEF Underway, Keys, Key
  <2>5. (Keys(Whole) \ Underway)' \subseteq Keys(Whole) \ Underway BY <2>3, <2>4
  <2> QED BY <1>1, <2>1, <2>5
<1>11. CASE FailAppend
  <2>1. /\ job.left # <<>> /\ UNCHANGED <<table, loaded, tableCalls>>
        /\ bin' = bin \/ bin' = Append(bin, Cut)
        /\ unsaved' = unsaved \union {Head(job.left)}
    BY <1>11 DEF FailAppend, Appending, queueVars, modelVars
  <2>2. job'.saved = job.saved /\ job'.step = "data" BY <1>11 DEF FailAppend, TableTypes
  <2>3. Whole' \subseteq Whole BY <1>20, <2>1
  <2>4. (Keys(Whole))' \subseteq Keys(Whole) BY <2>3 DEF Keys, Key
  <2>5. Underway \subseteq (Underway)' BY <2>1, <2>2 DEF Underway, Keys, Key
  <2>6. (Keys(Whole) \ Underway)' \subseteq Keys(Whole) \ Underway BY <2>4, <2>5
  <2> QED BY <1>1, <2>1, <2>6
<1>12. CASE RunPosted
  <2>1. /\ tableCalls # <<>> /\ tableCalls' = Tail(tableCalls)
        /\ UNCHANGED <<job, diskVars, unsaved>>
    BY <1>12 DEF RunPosted
  <2>2. /\ n \in Nat \ {0} /\ Len(tableCalls') = n - 1 /\ Head(tableCalls) = tableCalls[1]
        /\ \A i \in 1..(n - 1) : tableCalls'[i] = tableCalls[i + 1]
    <3> HIDE DEF Calls
    <3> QED BY <1>0, <1>a, <2>1, PlacesLeft
  <2>3. PICK c \in Calls : c = tableCalls[1]
    <3>1. 1 \in 1..n BY <2>2
    <3> HIDE DEF Calls
    <3> QED BY <1>0, <1>a, <3>1, ElementOfSeq
  <2>4. \A i \in 1..n : (ResetIn(i))' <=> ResetIn(i + 1)
    <3> SUFFICES ASSUME NEW i \in 1..n PROVE (ResetIn(i))' <=> ResetIn(i + 1) OBVIOUS
    <3>1. ASSUME NEW j \in i..(n - 1), tableCalls'[j].kind = "reset" PROVE ResetIn(i + 1)
      <4>1. j + 1 \in (i + 1)..n /\ tableCalls[j + 1].kind = "reset" BY <2>2, <3>1
      <4> QED BY <1>a, <4>1 DEF ResetIn
    <3>2. ASSUME NEW j \in (i + 1)..n, tableCalls[j].kind = "reset" PROVE (ResetIn(i))'
      <4>1. j - 1 \in i..(n - 1) /\ j - 1 \in 1..(n - 1) /\ (j - 1) + 1 = j BY <2>2
      <4>2. tableCalls'[j - 1].kind = "reset" BY <2>2, <3>2, <4>1
      <4> QED BY <2>2, <4>1, <4>2 DEF ResetIn
    <3> QED BY <1>a, <2>2, <3>1, <3>2 DEF ResetIn
  <2>5. ResetIn(1) <=> c.kind = "reset" \/ ResetIn(2)
    <3>1. \A j \in 1..n : j = 1 \/ j \in 2..n BY <2>2
    <3>2. 1 \in 1..n /\ 2..n \subseteq 1..n BY <2>2
    <3> QED BY <1>a, <2>3, <3>1, <3>2 DEF ResetIn
  <2>6. (Keys(Whole) \ Underway)' = Keys(Whole) \ Underway BY <1>2, <2>1
  <2>7. \A i \in 1..(n - 1) : (KeysOf(tableCalls[i]))' = KeysOf(tableCalls[i + 1])
    BY <2>2 DEF KeysOf, Keys, Key
  <2>8. ASSUME NEW key, NEW i \in 2..n, key \in KeysOf(tableCalls[i]), ~ResetIn(i + 1)
        PROVE  (WillShow(key))'
    <3>1. i - 1 \in 1..(n - 1) /\ i \in 1..n /\ (i - 1) + 1 = i BY <2>2
    <3>2. key \in (KeysOf(tableCalls[i - 1]))' BY <2>7, <2>8, <3>1
    <3>3. ~(ResetIn(i))' BY <2>4, <2>8, <3>1
    <3> QED BY <2>2, <3>1, <3>2, <3>3 DEF WillShow
  <2>9. c.rows \in Seq(ResultRows) BY <2>3
  <2>10. CASE c.kind = "append"
    <3>1. table' = AppendRows(c.rows) /\ loaded' = loaded
      BY <1>12, <2>2, <2>3, <2>10 DEF RunPosted
    <3>2. (Keys(ToSet(table)))' = KeysOf(c) \union Keys(ToSet(table))
      <4>1. AppendedRows(c.rows, table)
        BY <2>9, AppendRowsIs DEF TableTypes, CallsKept
      <4> QED BY <3>1, <4>1 DEF AppendedRows, KeysOf, Keys, Key
    <3>3. loaded' \/ (ResetIn(1))' => loaded \/ ResetIn(1)
      BY <2>2, <2>4, <2>5, <3>1
    <3>4. ASSUME NEW key, WillShow(key) PROVE (WillShow(key))'
      <4>1. CASE key \in Keys(ToSet(table)) /\ ~ResetIn(1)
        <5>1. ~(ResetIn(1))' BY <2>2, <2>4, <2>5, <4>1
        <5> QED BY <3>2, <4>1, <5>1 DEF WillShow
      <4>2. ASSUME NEW i \in 1..n, key \in KeysOf(tableCalls[i]), ~ResetIn(i + 1)
            PROVE  (WillShow(key))'
        <5>1. CASE i = 1
          <6>1. ~(ResetIn(1))' /\ key \in KeysOf(c) BY <2>2, <2>3, <2>4, <4>2, <5>1
          <6> QED BY <3>2, <6>1 DEF WillShow
        <5>2. CASE i # 1
          <6>1. i \in 2..n BY <5>2
          <6> QED BY <2>8, <4>2, <6>1
        <5> QED BY <5>1, <5>2
      <4> QED BY <1>a, <3>4, <4>1, <4>2 DEF WillShow
    <3> QED BY <2>6, <3>3, <3>4 DEF FileShown
  <2>11. CASE c.kind # "append"
    <3>1. c.kind = "reset" BY <2>3, <2>11
    <3>2. table' = NewestFirst(ToSet(c.rows)) BY <1>12, <2>2, <2>3, <2>11 DEF RunPosted
    <3>3. ToSet(table') = ToSet(c.rows)
      <4>1. 1 \in 1..n BY <2>2
      <4>2. DistinctKeys(ToSet(c.rows)) BY <1>a, <2>3, <3>1, <4>1 DEF CallsKept
      <4>3. IsFiniteSet(ToSet(c.rows)) /\ ToSet(c.rows) \subseteq ResultRows
        BY <2>9, FinitelyMany, Members
      <4> QED BY <3>2, <4>2, <4>3, NewestFirstIs
    <3>4. (Keys(ToSet(table)))' = KeysOf(c) BY <3>3 DEF KeysOf, Keys, Key
    <3>5. ResetIn(1) BY <2>5, <3>1
    <3>6. ASSUME NEW key, WillShow(key) PROVE (WillShow(key))'
      <4>1. PICK i \in 1..n : key \in KeysOf(tableCalls[i]) /\ ~ResetIn(i + 1)
        BY <1>a, <3>5, <3>6 DEF WillShow
      <4>2. CASE i = 1
        <5>1. ~(ResetIn(1))' /\ key \in KeysOf(c) BY <2>2, <2>3, <2>4, <4>1, <4>2
        <5> QED BY <3>4, <5>1 DEF WillShow
      <4>3. CASE i # 1
        <5>1. i \in 2..n BY <4>3
        <5> QED BY <2>8, <4>1, <5>1
      <4> QED BY <4>2, <4>3
    <3> QED BY <2>6, <3>5, <3>6 DEF FileShown
  <2> QED BY <2>10, <2>11
<1>13. ASSUME NEW c \in Calls, tableCalls' = Append(tableCalls, c)
       PROVE  /\ Len(tableCalls') = n + 1
              /\ n + 1 \in 1..(n + 1) /\ \A j \in (n + 2)..(n + 1) : FALSE
              /\ tableCalls'[n + 1] = c
              /\ \A i \in 1..n : tableCalls'[i] = tableCalls[i]
  <2>1. /\ Len(tableCalls') = n + 1 /\ tableCalls'[n + 1] = c
        /\ \A i \in 1..n : tableCalls'[i] = tableCalls[i]
    <3> HIDE DEF Calls
    <3> QED BY <1>0, <1>a, <1>13, PlacesAppended
  <2> QED BY <2>1
<1>14. ASSUME NEW c \in Calls, tableCalls' = Append(tableCalls, c), NEW key, key \in KeysOf(c)
       PROVE  (WillShow(key))'
  <2>1. /\ Len(tableCalls') = n + 1 /\ n + 1 \in 1..(n + 1)
        /\ \A j \in (n + 2)..(n + 1) : FALSE
    BY <1>13, <1>14
  <2>2. tableCalls'[n + 1] = c BY <1>13, <1>14
  <2>3. \A i : i = n + 1 => ~(ResetIn(i + 1))'
    BY <2>1 DEF ResetIn
  <2>4. \A i : i = n + 1 => key \in (KeysOf(tableCalls[i]))' BY <1>14, <2>2 DEF KeysOf, Keys, Key
  <2> QED BY <2>1, <2>3, <2>4 DEF WillShow
<1>15. CASE ReloadOnWorker
  <2> DEFINE c == [kind |-> "reset", rows |-> NewestFirst(ReadAll)]
  <2>1. tableCalls' = Append(tableCalls, c) /\ UNCHANGED <<job, diskVars, unsaved>>
    BY <1>15 DEF ReloadOnWorker
  <2>2. c \in Calls /\ KeysOf(c) = Keys(ReadAll) BY SentIs DEF KeysOf
  <2>3. Keys(ReadAll) = Keys(Whole) BY ReadAllIs DEF FileTypes
  <2> HIDE DEF c, Calls
  <2>4. \A key \in (Keys(Whole) \ Underway)' : (WillShow(key))'
    BY <1>2, <1>14, <2>1, <2>2, <2>3
  <2> QED BY <2>4 DEF FileShown
<1>16. CASE EndAppend
  <2> DEFINE c == [kind |-> "append", rows |-> job.saved]
  <2>1. /\ IF job.saved = <<>> THEN tableCalls' = tableCalls ELSE tableCalls' = Append(tableCalls, c)
        /\ job' = NoJob /\ job.left = <<>> /\ UNCHANGED <<table, loaded, bin, unsaved>>
    BY <1>16 DEF EndAppend, modelVars, diskVars
  <2>2. job.step = "data" BY <2>1 DEF JobKept
  <2>3. (Keys(Whole))' = Keys(Whole) BY <2>1 DEF Whole, Keys, Key
  <2>4. (Underway)' = Keys(unsaved) BY <2>1, EmptyQueueFacts DEF Underway, Keys, Key, NoJob
  <2>5. Underway = Keys(unsaved) \union Keys(ToSet(job.saved)) BY <2>2 DEF Underway, Keys
  <2>6. CASE job.saved = <<>>
    <3>1. Keys(ToSet(job.saved)) = {} BY <2>6, EmptyQueueFacts DEF Keys
    <3> QED BY <1>1, <2>1, <2>3, <2>4, <2>5, <2>6, <3>1
  <2>7. CASE job.saved # <<>>
    <3>1. c \in Calls /\ c.kind = "append" /\ KeysOf(c) = Keys(ToSet(job.saved))
      BY DEF TableTypes, KeysOf
    <3> HIDE DEF c, Calls
    <3>2. tableCalls' = Append(tableCalls, c) BY <2>1, <2>7
    <3>3. /\ Len(tableCalls') = n + 1 /\ tableCalls'[n + 1] = c
          /\ \A i \in 1..n : tableCalls'[i] = tableCalls[i]
      BY <1>13, <3>1, <3>2
    <3>4. \A i \in 1..(n + 1) : (ResetIn(i))' => ResetIn(i)
      <4> SUFFICES ASSUME NEW i \in 1..(n + 1),
                          NEW j \in i..(n + 1), tableCalls'[j].kind = "reset"
                   PROVE  ResetIn(i)
        BY <3>3 DEF ResetIn
      <4>1. j # n + 1 BY <3>1, <3>3
      <4>2. j \in i..n /\ j \in 1..n BY <4>1
      <4>3. tableCalls[j].kind = "reset" BY <3>3, <4>2
      <4> QED BY <1>a, <4>2, <4>3 DEF ResetIn
    <3>5. ASSUME NEW key, WillShow(key) PROVE (WillShow(key))'
      <4>1. CASE key \in Keys(ToSet(table)) /\ ~ResetIn(1)
        <5>1. ~(ResetIn(1))' BY <3>4, <4>1
        <5>2. key \in (Keys(ToSet(table)))' BY <2>1, <4>1 DEF Keys, Key
        <5> QED BY <5>1, <5>2 DEF WillShow
      <4>2. ASSUME NEW i \in 1..n, key \in KeysOf(tableCalls[i]), ~ResetIn(i + 1)
            PROVE  (WillShow(key))'
        <5>1. i + 1 \in 1..(n + 1) /\ i \in 1..(n + 1) OBVIOUS
        <5>2. ~(ResetIn(i + 1))' BY <3>4, <4>2, <5>1
        <5>3. key \in (KeysOf(tableCalls[i]))' BY <3>3, <4>2 DEF KeysOf, Keys, Key
        <5> QED BY <3>3, <5>1, <5>2, <5>3 DEF WillShow
      <4> QED BY <1>a, <3>5, <4>1, <4>2 DEF WillShow
    <3>6. loaded' \/ (ResetIn(1))' => loaded \/ ResetIn(1) BY <2>1, <3>4
    <3>7. ASSUME NEW key \in Keys(ToSet(job.saved)) PROVE (WillShow(key))'
      BY <1>14, <3>1, <3>2, <3>7
    <3> QED BY <2>3, <2>4, <2>5, <3>5, <3>6, <3>7 DEF FileShown
  <2> QED BY <2>6, <2>7
<1>17. ASSUME Gone PROVE FileShown'
  <2>1. loaded' = FALSE /\ tableCalls' = <<>> BY <1>17 DEF Gone
  <2>2. ~(ResetIn(1))' BY <2>1 DEF ResetIn
  <2> QED BY <2>1, <2>2 DEF FileShown
<1>18. CASE WorkerEnds BY <1>17, <1>18 DEF WorkerEnds
<1>19. CASE Crash BY <1>17, <1>19 DEF Crash
<1> QED
  BY <1>3, <1>4, <1>5, <1>6, <1>7, <1>8, <1>9, <1>10, <1>11, <1>12, <1>15, <1>16, <1>18,
     <1>19, <1>21 DEF TableNext

\* What was accepted is still queued, filed, or reported.
LEMMA AcceptedStays ==
  ASSUME TableInv, TableNext
  PROVE  AcceptedIsKept'
<1> USE DEF TableInv
<1> DEFINE Tasks == [kind : {"append", "reload"}, rows : Seq(ResultRows)]
           n == Len(tasks)
<1>0. tasks \in Seq(Tasks) /\ n \in Nat /\ DOMAIN tasks = 1..n
  BY LenProperties DEF TableTypes
<1>a. \A r : r \in Queued <=> \/ \E i \in DOMAIN tasks : r \in ToSet(tasks[i].rows)
                             \/ r \in ToSet(job.left)
  BY DEF Queued
<1>b. \A r : r \in Queued' <=> \/ \E i \in DOMAIN tasks' : r \in ToSet(tasks'[i].rows)
                              \/ r \in ToSet(job'.left)
  BY DEF Queued
<1>1. Filed \subseteq Filed' /\ ToSet(bin) \subseteq ToSet(bin') BY FiledKeeps
<1>2. ASSUME kept' = kept, unsaved \subseteq unsaved',
             Queued \subseteq Queued' \union Filed' \union unsaved'
      PROVE  AcceptedIsKept'
  BY <1>1, <1>2 DEF AcceptedIsKept, Filed
<1>3. ASSUME tasks' = tasks, ToSet(job.left) \subseteq ToSet(job'.left) \union Filed' \union unsaved'
      PROVE  Queued \subseteq Queued' \union Filed' \union unsaved'
  BY <1>3, <1>a, <1>b
<1>4. ASSUME NEW t \in Tasks, tasks' = Append(tasks, t), job' = job
      PROVE  Queued \union ToSet(t.rows) \subseteq Queued'
  <2>1. /\ Len(tasks') = n + 1 /\ tasks'[n + 1] = t /\ tasks' \in Seq(Tasks)
        /\ \A i \in 1..n : tasks'[i] = tasks[i]
    <3> HIDE DEF Tasks
    <3> QED BY <1>0, <1>4, PlacesAppended, PushBack
  <2>2. DOMAIN tasks' = 1..(n + 1) /\ 1..n \subseteq 1..(n + 1) /\ n + 1 \in 1..(n + 1)
    <3> HIDE DEF Tasks
    <3> QED BY <1>0, <2>1, LenProperties
  <2>3. \A i \in 1..n : ToSet(tasks[i].rows) \subseteq Queued'
    BY <1>b, <2>1, <2>2
  <2>4. ToSet(t.rows) \subseteq Queued' BY <1>b, <2>1, <2>2
  <2>5. ToSet(job.left) \subseteq Queued' BY <1>4, <1>b
  <2> HIDE DEF n
  <2> QED BY <1>0, <1>a, <2>3, <2>4, <2>5
<1>5. ASSUME NEW kind, TakeTask(kind)
      PROVE  /\ job = NoJob /\ Head(tasks).kind = kind /\ Head(tasks) = tasks[1] /\ 1 \in 1..n
             /\ Queued \subseteq ToSet(Head(tasks).rows) \union Queued'
  <2>1. /\ tasks # <<>> /\ tasks' = Tail(tasks) /\ job = NoJob /\ Head(tasks).kind = kind
    BY <1>5 DEF TakeTask
  <2>2. /\ n \in Nat \ {0} /\ Len(tasks') = n - 1 /\ Head(tasks) = tasks[1]
        /\ \A i \in 1..(n - 1) : tasks'[i] = tasks[i + 1]
        /\ DOMAIN tasks' = 1..(n - 1)
    <3> HIDE DEF Tasks
    <3> QED BY <1>0, <2>1, PlacesLeft, PopFront, LenProperties
  <2>3. ASSUME NEW i \in 1..n PROVE ToSet(tasks[i].rows) \subseteq ToSet(Head(tasks).rows) \union Queued'
    <3>1. CASE i = 1 BY <2>2, <3>1
    <3>2. CASE i # 1
      <4>1. i - 1 \in 1..(n - 1) /\ (i - 1) + 1 = i BY <2>2, <3>2
      <4>2. tasks'[i - 1] = tasks[i] BY <2>2, <4>1
      <4> QED BY <1>b, <2>2, <4>1, <4>2
    <3> QED BY <3>1, <3>2
  <2>4. ToSet(job.left) = {} BY <2>1, EmptyQueueFacts DEF NoJob
  <2>5. 1 \in 1..n BY <2>2
  <2> HIDE DEF n
  <2> QED BY <1>0, <1>a, <2>1, <2>2, <2>3, <2>4, <2>5
<1>6. ASSUME NEW scan \in Scans, AppendBearingResults(scan) PROVE AcceptedIsKept'
  <2> DEFINE rows == {r \in RowsOf(scan) :
                        Key(r) \notin pending /\ Key(r) \notin Keys(ToSet(table))}
             t == [kind |-> "append", rows |-> ByBand(rows)]
  <2>1. /\ tasks' = Append(tasks, t) /\ job' = job /\ kept' = kept \union rows
        /\ unsaved' = unsaved
    BY <1>6 DEF AppendBearingResults
  <2>2. rows \subseteq RowsOf(scan) OBVIOUS
  <2> HIDE DEF rows
  <2>3. t \in Tasks /\ ToSet(t.rows) = rows BY <2>2, AcceptedRows
  <2> HIDE DEF t, Tasks
  <2>4. Queued \union rows \subseteq Queued' BY <1>4, <2>1, <2>3
  <2> QED BY <1>1, <2>1, <2>4 DEF AcceptedIsKept, Filed
<1>7. CASE Reload
  <2> DEFINE t == [kind |-> "reload", rows |-> <<>>]
  <2>1. /\ t \in Tasks /\ tasks' = Append(tasks, t) /\ job' = job /\ kept' = kept
        /\ unsaved' = unsaved
    BY <1>7 DEF Reload
  <2> HIDE DEF t, Tasks
  <2>2. Queued \subseteq Queued' BY <1>4, <2>1
  <2> QED BY <1>2, <2>1, <2>2
<1>8. CASE RunPosted BY <1>2, <1>3, <1>8 DEF RunPosted
<1>9. CASE StopWorker BY <1>2, <1>3, <1>9 DEF StopWorker, queueVars
<1>10. CASE Reopen BY <1>2, <1>3, <1>10 DEF Reopen, queueVars
<1>11. CASE StartAppend
  <2>1. Queued \subseteq ToSet(Head(tasks).rows) \union Queued'
    BY <1>5, <1>11 DEF StartAppend
  <2>2. job'.left = Head(tasks).rows /\ kept' = kept /\ unsaved' = unsaved
    BY <1>11 DEF StartAppend, NoJob
  <2>3. ToSet(Head(tasks).rows) \subseteq Queued' BY <1>b, <2>2
  <2> QED BY <1>2, <2>1, <2>2, <2>3
<1>12. CASE ReloadOnWorker
  <2>1. /\ Head(tasks).kind = "reload" /\ Head(tasks) = tasks[1] /\ 1 \in 1..n
        /\ Queued \subseteq ToSet(Head(tasks).rows) \union Queued'
    BY <1>5, <1>12 DEF ReloadOnWorker
  <2>2. Head(tasks).rows = <<>> BY <2>1 DEF PendingKept
  <2>3. Queued \subseteq Queued' BY <2>1, <2>2, EmptyQueueFacts
  <2> QED BY <1>2, <1>12, <2>3 DEF ReloadOnWorker
<1>13. CASE WriteTableData
  <2>1. job'.left = job.left BY <1>13 DEF WriteTableData, TableTypes
  <2> QED BY <1>2, <1>3, <1>13, <2>1 DEF WriteTableData, queueVars
<1>14. CASE WriteTableIndex
  <2>1. job'.left = job.left BY <1>14 DEF WriteTableIndex, TableTypes
  <2> QED BY <1>2, <1>3, <1>14, <2>1 DEF WriteTableIndex, queueVars
<1>15. CASE WriteTableMetadata \/ LoseTableIndex
  <2>1. job.left # <<>> /\ job.step # "data" /\ RowSaved
    BY <1>15 DEF WriteTableMetadata, LoseTableIndex, Appending
  <2>2. job'.left = Tail(job.left) BY <2>1 DEF RowSaved, TableTypes
  <2>3. Head(job.left) \in Filed BY <2>1 DEF JobKept
  <2>4. ToSet(job.left) \subseteq ToSet(job'.left) \union Filed'
    BY <1>1, <2>1, <2>2, <2>3, RowInHand
  <2> QED BY <1>2, <1>3, <1>15, <2>4 DEF WriteTableMetadata, LoseTableIndex, queueVars
<1>20. CASE LoseTableData
  <2>1. job'.left = job.left BY <1>20 DEF LoseTableData, TableTypes
  <2> QED BY <1>2, <1>3, <1>20, <2>1 DEF LoseTableData, queueVars
<1>16. CASE FailAppend
  <2>1. job.left # <<>> /\ unsaved' = unsaved \union {Head(job.left)}
    BY <1>16 DEF FailAppend, Appending
  <2>2. job'.left = Tail(job.left) BY <1>16 DEF FailAppend, TableTypes
  <2>3. ToSet(job.left) \subseteq ToSet(job'.left) \union unsaved'
    BY <2>1, <2>2, RowInHand
  <2> QED BY <1>2, <1>3, <1>16, <2>1, <2>3 DEF FailAppend, queueVars
<1>17. CASE EndAppend
  <2>1. ToSet(job.left) = {} BY <1>17, EmptyQueueFacts DEF EndAppend
  <2> QED BY <1>2, <1>3, <1>17, <2>1 DEF EndAppend
<1>18. CASE WorkerEnds
  <2>1. tasks = <<>> /\ job = NoJob /\ kept' = kept /\ unsaved' = unsaved
    BY <1>18 DEF WorkerEnds
  <2>2. Queued = {} BY <2>1, EmptyQueueFacts DEF Queued, NoJob
  <2> QED BY <1>2, <2>1, <2>2
<1>19. CASE Crash
  <2>1. kept' = kept \ (Queued \ ToSet(bin)) /\ unsaved' = unsaved BY <1>19 DEF Crash
  <2> QED BY <1>1, <2>1 DEF AcceptedIsKept, Filed
<1> QED
  BY <1>6, <1>7, <1>8, <1>9, <1>10, <1>11, <1>12, <1>13, <1>14, <1>15, <1>16, <1>17, <1>18,
     <1>19, <1>20 DEF TableNext

-----------------------------------------------------------------------------
(* ResultTable: the theorem.                                                 *)

\* An empty table and an empty file.
LEMMA TableInvInit == TableInit => TableInv
<1> SUFFICES ASSUME TableInit PROVE TableInv OBVIOUS
<1>1. TableTypes
  <2>1. /\ <<>> \in Seq(ResultRows)
        /\ <<>> \in Seq([kind : {"append", "reload"}, rows : Seq(ResultRows)])
        /\ <<>> \in Seq([kind : {"append", "reset"}, rows : Seq(ResultRows)])
        /\ {} \in SUBSET Keys(ResultRows)
    OBVIOUS
  <2> QED BY <2>1, NoJobTyped DEF TableTypes, TableInit
<1>2. FileTypes
  <2>1. MaxAppends \in Nat /\ MaxReloads \in Nat /\ MaxTableFailures \in Nat
    BY TableAssumption
  <2> QED BY <2>1 DEF FileTypes, TableInit
<1>3. JobKept BY EmptyQueueFacts DEF JobKept, TableInit, NoJob
<1>4. PendingKept BY EmptyQueueFacts DEF PendingKept, KeysOf, Keys, TableInit, NoJob
<1>5. CallsKept BY EmptyQueueFacts DEF CallsKept, OncePerKey, TableInit
<1>6. FileShown BY DEF FileShown, ResetIn, TableInit
<1>7. AcceptedIsKept BY DEF AcceptedIsKept, TableInit
<1> QED BY <1>1, <1>2, <1>3, <1>4, <1>5, <1>6, <1>7 DEF TableInv

\* The steps keep the invariant.
LEMMA TableInvStep ==
  ASSUME TableInv, [TableNext]_tableVars
  PROVE  TableInv'
<1>1. CASE TableNext
  BY <1>1, TypesStay, FileTypesStay, JobStays, PendingStays, CallsStay, ShownStays,
     AcceptedStays DEF TableInv
<1>2. CASE UNCHANGED tableVars
  <2> USE <1>2 DEF TableInv, tableVars, modelVars, queueVars, diskVars, boundVars
  <2>1. TableTypes' BY DEF TableTypes
  <2>2. FileTypes' BY DEF FileTypes
  <2>3. JobKept' BY DEF JobKept, NoJob, Filed
  <2>4. PendingKept' BY DEF PendingKept, KeysOf, Keys, Key
  <2>5. CallsKept' BY DEF CallsKept, OncePerKey, DistinctKeys, Key, Filed
  <2>6. FileShown'
    <3>1. (Underway)' = Underway /\ (Keys(Whole))' = Keys(Whole)
      BY DEF Underway, Whole, Keys, Key
    <3>2. (ResetIn(1))' = ResetIn(1) BY DEF ResetIn
    <3>3. ASSUME NEW key, WillShow(key) PROVE (WillShow(key))'
      BY <3>3 DEF WillShow, ResetIn, KeysOf, Keys, Key
    <3> QED BY <3>1, <3>2, <3>3 DEF FileShown
  <2>7. AcceptedIsKept' BY DEF AcceptedIsKept, Queued
  <2> QED BY <2>1, <2>2, <2>3, <2>4, <2>5, <2>6, <2>7
<1> QED BY <1>1, <1>2

\* The invariant at rest: nothing is in the worker's hands and no call is queued, so what
\* will be shown is in the table.
LEMMA TableInvImplies == TableInv => ResultsKept
<1> SUFFICES ASSUME TableInv PROVE ResultsKept OBVIOUS
<1> USE DEF TableInv
<1> DEFINE Tasks == [kind : {"append", "reload"}, rows : Seq(ResultRows)]
           Calls == [kind : {"append", "reset"}, rows : Seq(ResultRows)]
<1>1. ASSUME NEW q \in Seq(ResultRows) PROVE ToSet(q) \subseteq ResultRows
  BY <1>1, Members
<1>2. /\ tasks \in Seq(Tasks) /\ DOMAIN tasks = 1..Len(tasks)
      /\ \A i \in 1..Len(tasks) : tasks[i] \in Tasks
  <2>1. tasks \in Seq(Tasks) BY DEF TableTypes
  <2> HIDE DEF Tasks
  <2> QED BY <2>1, LenProperties, ElementOfSeq
<1>3. /\ tableCalls \in Seq(Calls) /\ DOMAIN tableCalls = 1..Len(tableCalls)
      /\ \A i \in 1..Len(tableCalls) : tableCalls[i] \in Calls
  <2>1. tableCalls \in Seq(Calls) BY DEF TableTypes
  <2> HIDE DEF Calls
  <2> QED BY <2>1, LenProperties, ElementOfSeq
<1>4. DOMAIN table = 1..Len(table) BY LenProperties DEF TableTypes
<1>5. TableTypeOK
  <2>1. ToSet(table) \subseteq ResultRows /\ ToSet(job.rows) \subseteq ResultRows
    BY <1>1 DEF TableTypes
  <2>2. \A i \in DOMAIN tasks :
          /\ tasks[i].kind \in {"append", "reload"} /\ ToSet(tasks[i].rows) \subseteq ResultRows
          /\ Keys(ToSet(tasks[i].rows)) \subseteq pending
    BY <1>1, <1>2 DEF PendingKept, KeysOf
  <2>3. \A i \in DOMAIN tableCalls :
          /\ tableCalls[i].kind \in {"append", "reset"}
          /\ ToSet(tableCalls[i].rows) \subseteq ResultRows
    BY <1>1, <1>3
  <2>4. ToSet(bin) \subseteq ResultRows \union {Cut} BY Members DEF FileTypes
  <2>5. /\ loaded \in BOOLEAN /\ pending \subseteq Keys(ResultRows)
        /\ job.kind \in {"idle", "append"} /\ job.step \in {"data", "index", "metadata"}
        /\ process \in {"running", "stopping", "down"}
    BY DEF TableTypes
  <2>6. /\ ToSet(job.left) \union ToSet(job.saved) \subseteq ToSet(job.rows)
        /\ Keys(ToSet(job.rows)) \subseteq pending
    BY DEF JobKept, PendingKept, KeysOf
  <2> QED BY <2>1, <2>2, <2>3, <2>4, <2>5, <2>6 DEF TableTypeOK, FileTypes
<1>6. TableShowsFile
  <2>1. /\ \A i, j \in DOMAIN table : Key(table[i]) = Key(table[j]) => i = j
        /\ ToSet(table) \subseteq ToSet(bin) \union lost
    BY <1>4 DEF CallsKept, OncePerKey, Filed
  <2>2. ASSUME AtRest, loaded, NEW key \in Keys(ReadAll)
        PROVE  key \in Keys(ToSet(table) \union unsaved)
    <3>1. key \in Keys(Whole) BY <2>2, ReadAllIs DEF FileTypes
    <3>2. Underway = Keys(unsaved)
      BY <2>2, EmptyQueueFacts DEF AtRest, Underway, Keys, NoJob
    <3>3. tableCalls = <<>> BY <2>2 DEF AtRest
    <3>4. WillShow(key) => key \in Keys(ToSet(table)) BY <3>3 DEF WillShow
    <3>5. key \in Keys(unsaved) \/ key \in Keys(ToSet(table))
      BY <2>2, <3>1, <3>2, <3>4 DEF FileShown
    <3> QED BY <3>5 DEF Keys
  <2> QED BY <2>1, <2>2 DEF TableShowsFile
<1> QED BY <1>5, <1>6 DEF ResultsKept

\* ResultTableController, for any scans and any bound on failures and crashes: the table
\* shows a key once and nothing that is not in the file; at rest it shows, once loaded,
\* every row that can be read and was not reported as failed; and a row that was accepted
\* is queued, in the file, or reported; all of this but for the rows whose own flush
\* failed, which append reports as saved (appendBearingResults, append, workerLoop, appendRowsOnWorker,
\* reloadOnWorker, appendRows, resetRows).
THEOREM TableKeepsResults == TableSpec => []ResultsKept
<1>1. TableInv /\ [TableNext]_tableVars => TableInv' BY TableInvStep
<1> QED BY <1>1, TableInvInit, TableInvImplies, PTL DEF TableSpec
=============================================================================
