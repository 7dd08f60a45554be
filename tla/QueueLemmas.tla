----------------------------- MODULE QueueLemmas -----------------------------
(***************************************************************************)
(* What the queue operations of the pipeline (push_back, pop_front, erasing *)
(* a prefix) do to the set of the queued elements, and to their being       *)
(* queued only once.                                                       *)
(***************************************************************************)
EXTENDS Integers, SequencesExt, SequenceTheorems, TLAPS

\* The elements of a sequence, by position.
LEMMA Members ==
  ASSUME NEW S, NEW q \in Seq(S)
  PROVE  /\ ToSet(q) = {q[i] : i \in 1..Len(q)}
         /\ ToSet(q) \subseteq S
         /\ q = <<>> <=> ToSet(q) = {}
<1>1. DOMAIN q = 1..Len(q) /\ Len(q) \in Nat /\ \A i \in 1..Len(q) : q[i] \in S
  BY LenProperties, ElementOfSeq
<1>2. ToSet(q) = {q[i] : i \in 1..Len(q)}
  BY <1>1 DEF ToSet
<1>3. q = <<>> <=> Len(q) = 0
  BY EmptySeq
<1>4. Len(q) # 0 => q[1] \in ToSet(q)
  BY <1>1, <1>2
<1>5. Len(q) = 0 => ToSet(q) = {}
  BY <1>1, <1>2
<1> QED BY <1>1, <1>2, <1>3, <1>4, <1>5

\* An empty queue has no elements.
LEMMA EmptyQueueFacts == ToSet(<<>>) = {} /\ IsInjective(<<>>)
BY DEF ToSet, IsInjective

\* push_back adds one element, and duplicates nothing if the element is new.
LEMMA PushBack ==
  ASSUME NEW S, NEW q \in Seq(S), NEW e \in S
  PROVE  /\ Append(q, e) \in Seq(S)
         /\ Len(Append(q, e)) = Len(q) + 1
         /\ ToSet(Append(q, e)) = ToSet(q) \union {e}
         /\ IsInjective(q) /\ e \notin ToSet(q) => IsInjective(Append(q, e))
<1> DEFINE r == Append(q, e)
<1>1. /\ r \in Seq(S) /\ Len(r) = Len(q) + 1 /\ Len(q) \in Nat
      /\ \A i \in 1..Len(q) : r[i] = q[i]
      /\ r[Len(q) + 1] = e
      /\ DOMAIN r = 1..(Len(q) + 1) /\ DOMAIN q = 1..Len(q)
  BY AppendProperties, LenProperties
<1> HIDE DEF r
<1>2. ToSet(r) = ToSet(q) \union {e}
  BY <1>1 DEF ToSet
<1>3. ASSUME IsInjective(q), e \notin ToSet(q) PROVE IsInjective(r)
  BY <1>1, <1>3 DEF ToSet, IsInjective
<1> QED BY <1>1, <1>2, <1>3 DEF r

\* pop_front removes the head and nothing else.
LEMMA PopFront ==
  ASSUME NEW S, NEW q \in Seq(S), q # <<>>
  PROVE  /\ Head(q) \in S /\ Tail(q) \in Seq(S)
         /\ Len(Tail(q)) = Len(q) - 1
         /\ ToSet(q) = {Head(q)} \union ToSet(Tail(q))
         /\ IsInjective(q) => Head(q) \notin ToSet(Tail(q)) /\ IsInjective(Tail(q))
<1> DEFINE r == Tail(q)
<1>1. /\ Head(q) \in S /\ r \in Seq(S) /\ Len(r) = Len(q) - 1
      /\ \A i \in 1..Len(r) : r[i] = q[i + 1]
      /\ Head(q) = q[1] /\ Len(q) \in Nat \ {0}
      /\ DOMAIN r = 1..Len(r) /\ DOMAIN q = 1..Len(q)
  BY HeadTailProperties, LenProperties, EmptySeq, ElementOfSeq
<1> HIDE DEF r
<1>2. ToSet(q) \subseteq {Head(q)} \union ToSet(r)
  <2> SUFFICES ASSUME NEW i \in DOMAIN q PROVE q[i] \in {Head(q)} \union ToSet(r)
    BY DEF ToSet
  <2>1. CASE i = 1 BY <1>1, <2>1
  <2>2. CASE i # 1
    <3>1. i - 1 \in 1..Len(r) /\ r[i - 1] = q[i] BY <1>1, <2>2
    <3> QED BY <3>1, <1>1 DEF ToSet
  <2> QED BY <2>1, <2>2
<1>3. {Head(q)} \union ToSet(r) \subseteq ToSet(q)
  <2>1. Head(q) \in ToSet(q) BY <1>1 DEF ToSet
  <2>2. ASSUME NEW i \in DOMAIN r PROVE r[i] \in ToSet(q)
    <3>1. i + 1 \in DOMAIN q /\ q[i + 1] = r[i] BY <1>1, <2>2
    <3> QED BY <3>1 DEF ToSet
  <2> QED BY <2>1, <2>2 DEF ToSet
<1>4. ASSUME IsInjective(q) PROVE Head(q) \notin ToSet(r) /\ IsInjective(r)
  <2>1. \A i \in DOMAIN r : i + 1 \in DOMAIN q /\ r[i] = q[i + 1] /\ i + 1 # 1
    BY <1>1
  <2>2. 1 \in DOMAIN q /\ Head(q) = q[1] BY <1>1
  <2>3. \A i, j \in DOMAIN q : q[i] = q[j] => i = j BY <1>4 DEF IsInjective
  <2>4. Head(q) \notin ToSet(r) BY <2>1, <2>2, <2>3 DEF ToSet
  <2>5. ASSUME NEW i \in DOMAIN r, NEW j \in DOMAIN r, r[i] = r[j] PROVE i = j
    <3>1. i + 1 = j + 1 BY <2>1, <2>3, <2>5
    <3>2. i \in Int /\ j \in Int BY <1>1
    <3> QED BY <3>1, <3>2
  <2> QED BY <2>4, <2>5 DEF IsInjective
<1> QED BY <1>1, <1>2, <1>3, <1>4 DEF r

\* Where the elements behind an erased prefix of n elements are.
LEMMA CutPlaces ==
  ASSUME NEW S, NEW q \in Seq(S), NEW n \in 0..Len(q)
  PROVE  LET rest == SubSeq(q, n + 1, Len(q)) IN
         /\ rest \in Seq(S) /\ Len(rest) = Len(q) - n
         /\ \A i \in 1..Len(rest) : rest[i] = q[n + i]
         /\ DOMAIN rest = 1..Len(rest)
<1> DEFINE rest == SubSeq(q, n + 1, Len(q))
<1>1. Len(q) \in Nat /\ \A i \in 1..Len(q) : q[i] \in S
  BY LenProperties, ElementOfSeq
<1>2. \A i \in (n + 1)..Len(q) : q[i] \in S BY <1>1
<1>3. /\ rest \in Seq(S)
      /\ Len(rest) = IF n + 1 <= Len(q) THEN Len(q) - (n + 1) + 1 ELSE 0
      /\ \A i \in 1..(Len(q) - (n + 1) + 1) : rest[i] = q[n + 1 + i - 1]
  BY <1>1, <1>2, SubSeqProperties, SMT
<1>4. DOMAIN rest = 1..Len(rest) BY <1>3, LenProperties
<1> HIDE DEF rest
<1>5. n \in Int /\ 0 <= n /\ n <= Len(q) BY <1>1
<1>6. Len(rest) = Len(q) - n
  <2>1. Len(q) \in Nat BY LenProperties
  <2> QED BY <2>1, <1>3, <1>5
<1>7. \A i \in 1..Len(rest) : rest[i] = q[n + i]
  <2> SUFFICES ASSUME NEW i \in 1..Len(rest) PROVE rest[i] = q[n + i] OBVIOUS
  <2>1. i \in 1..(Len(q) - (n + 1) + 1) /\ n + 1 + i - 1 = n + i BY <1>1, <1>5, <1>6
  <2> QED BY <1>3, <2>1
<1> QED BY <1>3, <1>4, <1>6, <1>7 DEF rest

\* The front of a queue, element by element.
LEMMA FrontPlaces ==
  ASSUME NEW S, NEW q \in Seq(S), NEW n \in 0..Len(q)
  PROVE  LET front == SubSeq(q, 1, n) IN
         /\ front \in Seq(S) /\ Len(front) = n
         /\ \A i \in 1..n : front[i] = q[i]
<1> DEFINE front == SubSeq(q, 1, n)
<1>1. Len(q) \in Nat /\ \A i \in 1..Len(q) : q[i] \in S
  BY LenProperties, ElementOfSeq
<1>2. n \in Int /\ 0 <= n /\ n <= Len(q) /\ \A i \in 1..n : q[i] \in S BY <1>1
<1>3. /\ front \in Seq(S)
      /\ Len(front) = IF 1 <= n THEN n - 1 + 1 ELSE 0
      /\ \A i \in 1..(n - 1 + 1) : front[i] = q[1 + i - 1]
  BY <1>2, SubSeqProperties, SMT
<1> HIDE DEF front
<1>4. Len(front) = n BY <1>2, <1>3
<1>5. \A i \in 1..n : front[i] = q[i]
  <2> SUFFICES ASSUME NEW i \in 1..n PROVE front[i] = q[i] OBVIOUS
  <2>1. i \in 1..(n - 1 + 1) /\ 1 + i - 1 = i BY <1>2
  <2> QED BY <1>3, <2>1
<1> QED BY <1>3, <1>4, <1>5 DEF front

\* Erasing a prefix of n elements keeps the others.
LEMMA CutFront ==
  ASSUME NEW S, NEW q \in Seq(S), NEW n \in 0..Len(q)
  PROVE  LET rest == SubSeq(q, n + 1, Len(q))
             gone == {q[i] : i \in 1..n} IN
         /\ rest \in Seq(S) /\ Len(rest) = Len(q) - n
         /\ ToSet(q) = gone \union ToSet(rest)
         /\ IsInjective(q) => gone \intersect ToSet(rest) = {} /\ IsInjective(rest)
<1> DEFINE rest == SubSeq(q, n + 1, Len(q))
           gone == {q[i] : i \in 1..n}
<1>1. Len(q) \in Nat /\ DOMAIN q = 1..Len(q) /\ \A i \in 1..Len(q) : q[i] \in S
  BY LenProperties, ElementOfSeq
<1>2. /\ rest \in Seq(S) /\ Len(rest) = Len(q) - n
      /\ \A i \in 1..Len(rest) : rest[i] = q[n + i]
      /\ DOMAIN rest = 1..Len(rest)
  BY CutPlaces
<1> HIDE DEF rest
<1>3. ToSet(q) \subseteq gone \union ToSet(rest)
  <2> SUFFICES ASSUME NEW i \in 1..Len(q), i \notin 1..n PROVE q[i] \in ToSet(rest)
    BY <1>1 DEF ToSet
  <2>1. i - n \in DOMAIN rest /\ rest[i - n] = q[i] BY <1>1, <1>2
  <2> QED BY <2>1 DEF ToSet
<1>4. gone \union ToSet(rest) \subseteq ToSet(q)
  <2>1. gone \subseteq ToSet(q) BY <1>1 DEF ToSet
  <2>2. ASSUME NEW i \in DOMAIN rest PROVE rest[i] \in ToSet(q)
    <3>1. n + i \in DOMAIN q /\ q[n + i] = rest[i] BY <1>1, <1>2, <2>2
    <3> QED BY <3>1 DEF ToSet
  <2> QED BY <2>1, <2>2 DEF ToSet
<1>5. ASSUME IsInjective(q) PROVE gone \intersect ToSet(rest) = {}
  <2> SUFFICES ASSUME NEW i \in 1..n, NEW j \in 1..Len(rest), q[i] = rest[j] PROVE FALSE
    BY <1>2 DEF ToSet
  <2>1. q[i] = q[n + j] /\ n + j \in DOMAIN q /\ i \in DOMAIN q /\ i # n + j
    BY <1>1, <1>2
  <2> QED BY <2>1, <1>5 DEF IsInjective
<1>6. ASSUME IsInjective(q) PROVE IsInjective(rest)
  <2> SUFFICES ASSUME NEW i \in 1..Len(rest), NEW j \in 1..Len(rest), rest[i] = rest[j]
               PROVE  i = j
    BY <1>2 DEF IsInjective
  <2>1. q[n + i] = q[n + j] /\ n + i \in DOMAIN q /\ n + j \in DOMAIN q
    BY <1>1, <1>2
  <2>2. n + i = n + j BY <2>1, <1>6 DEF IsInjective
  <2> QED BY <2>2
<1> QED BY <1>2, <1>3, <1>4, <1>5, <1>6 DEF rest

-----------------------------------------------------------------------------
(* Queues in increasing order, without repetition. *)

Sorted(q) == \A i, j \in 1..Len(q) : i < j => q[i] < q[j]

LEMMA SortedPush ==
  ASSUME NEW S \in SUBSET Int, NEW q \in Seq(S), Sorted(q), NEW e \in S,
         \A b \in ToSet(q) : b < e
  PROVE  Sorted(Append(q, e))
<1> DEFINE r == Append(q, e)
<1>1. /\ Len(r) = Len(q) + 1 /\ Len(q) \in Nat
      /\ \A i \in 1..Len(q) : r[i] = q[i]
      /\ r[Len(q) + 1] = e
  BY AppendProperties, LenProperties
<1>2. \A i \in 1..Len(q) : q[i] \in ToSet(q) BY Members
<1> HIDE DEF r
<1>3. Sorted(r) BY <1>1, <1>2 DEF Sorted
<1> QED BY <1>3 DEF r

LEMMA SortedPop ==
  ASSUME NEW S \in SUBSET Int, NEW q \in Seq(S), Sorted(q), q # <<>>
  PROVE  Sorted(Tail(q)) /\ \A b \in ToSet(Tail(q)) : Head(q) < b
<1> DEFINE r == Tail(q)
<1>1. /\ r \in Seq(S) /\ Len(r) = Len(q) - 1 /\ Len(q) \in Nat \ {0}
      /\ \A i \in 1..Len(r) : r[i] = q[i + 1]
      /\ Head(q) = q[1]
  BY HeadTailProperties, LenProperties, EmptySeq
<1>2. ToSet(r) = {r[i] : i \in 1..Len(r)} BY <1>1, Members
<1> HIDE DEF r
<1>3. Sorted(r) BY <1>1 DEF Sorted
<1>4. \A b \in ToSet(r) : Head(q) < b BY <1>1, <1>2 DEF Sorted
<1> QED BY <1>3, <1>4 DEF r

LEMMA SortedCut ==
  ASSUME NEW S \in SUBSET Int, NEW q \in Seq(S), Sorted(q), NEW n \in 0..Len(q)
  PROVE  Sorted(SubSeq(q, n + 1, Len(q)))
<1> DEFINE r == SubSeq(q, n + 1, Len(q))
<1>1. /\ Len(r) = Len(q) - n /\ Len(q) \in Nat
      /\ \A i \in 1..Len(r) : r[i] = q[n + i]
  BY CutPlaces, LenProperties
<1> HIDE DEF r
<1>2. Sorted(r) BY <1>1 DEF Sorted
<1> QED BY <1>2 DEF r

\* A sorted queue holds each element once, so its positions tell them apart.
LEMMA SortedApart ==
  ASSUME NEW S \in SUBSET Int, NEW q \in Seq(S), Sorted(q),
         NEW i \in 1..Len(q), NEW j \in 1..Len(q), q[i] = q[j]
  PROVE  i = j
<1>1. Len(q) \in Nat /\ q[i] \in S /\ \A x \in S : ~(x < x)
  BY ElementOfSeq, LenProperties
<1>2. (i < j => q[i] < q[j]) /\ (j < i => q[j] < q[i]) BY DEF Sorted
<1>3. ~(i < j) /\ ~(j < i) BY <1>1, <1>2
<1> QED BY <1>1, <1>3
=============================================================================
