------------------------ MODULE BlockDeliveryProofs ------------------------
(* BlockDelivery keeps ExactlyOnce for every set of blocks and of stages.    *)
EXTENDS BlockDelivery, FiniteSetTheorems, TLAPS

\* What ExactlyOnce needs to be inductive: what is known of a block while it is
\* still accepted, and that no stage both handles and skips a block.
OnePerStage ==
  \A s \in Stages, b \in Blocks :
    /\ handled[s][b] <= 1
    /\ handled[s][b] = 1 => b \notin skipped[s]
    /\ b \in skipped[s] => s \in MaySkip
CountedLast ==
  \A b \in Blocks :
    /\ state[b] \in {"unused", "taken", "refused", "discarded"} =>
         Untouched(b) /\ counted[b] = 0
    /\ counted[b] <= 1
    /\ counted[b] = 1 => \A s \in Stages : Done(s, b)
    /\ state[b] = "retired" => counted[b] = 1
WithinPool == Cardinality(InUse) <= PoolSize

DeliveryInv == DeliveryTypeOK /\ OnePerStage /\ CountedLast /\ WithinPool

\* Cardinality(InUse) grows by at most one block, and only by Take.
LEMMA InUseBound ==
  ASSUME IsFiniteSet(Blocks), NEW b \in Blocks,
         NEW old \in SUBSET Blocks, NEW new \in SUBSET Blocks,
         new \subseteq old \union {b}
  PROVE  /\ Cardinality(old) \in Nat /\ Cardinality(new) \in Nat
         /\ Cardinality(new) <= Cardinality(old) + 1
         /\ new \subseteq old => Cardinality(new) <= Cardinality(old)
<1>1. IsFiniteSet(old) /\ IsFiniteSet(new) BY FS_Subset
<1>2. Cardinality(old) \in Nat /\ Cardinality(new) \in Nat
  BY <1>1, FS_CardinalityType
<1>3. new \subseteq old => Cardinality(new) <= Cardinality(old)
  BY <1>1, FS_Subset
<1>4. /\ IsFiniteSet(old \union {b})
      /\ Cardinality(old \union {b}) =
           IF b \in old THEN Cardinality(old) ELSE Cardinality(old) + 1
  BY <1>1, FS_AddElement
<1>5. Cardinality(new) <= Cardinality(old \union {b})
  BY <1>4, FS_Subset
<1> QED BY <1>2, <1>3, <1>4, <1>5

LEMMA DeliveryInit ==
  ASSUME DeliveryAssumption, Init PROVE DeliveryInv
<1>1. DeliveryTypeOK /\ OnePerStage /\ CountedLast
  BY DEF Init, DeliveryTypeOK, BlockStates, OnePerStage, CountedLast, Untouched, Done
<1>2. InUse = {} BY DEF Init, InUse, In
<1>3. WithinPool BY <1>2, FS_EmptySet DEF WithinPool, DeliveryAssumption
<1> QED BY <1>1, <1>3 DEF DeliveryInv

\* The steps of one block, or of the blocks that leave together, preserve the
\* facts about the stages and the counts.
LEMMA DeliveryStep ==
  ASSUME DeliveryAssumption, DeliveryInv, [Next]_deliveryVars PROVE DeliveryInv'
<1> USE DEF DeliveryInv
<1>1. DeliveryTypeOK'
  <2> USE DEF DeliveryTypeOK, BlockStates
  <2>1. CASE \E b \in Blocks : Take(b) \/ Refuse(b) \/ Accept(b) BY <2>1 DEF Take, Refuse, Accept
  <2>2. CASE \E b \in Blocks : Count(b) BY <2>2 DEF Count
  <2>3. CASE \E s \in Stages, b \in Blocks : Handle(s, b) BY <2>3 DEF Handle
  <2>4. CASE \E s \in Stages, b \in Blocks : Skip(s, b) BY <2>4 DEF Skip
  <2>5. CASE \E B \in SUBSET Blocks : Retire(B) \/ Discard(B) BY <2>5 DEF Retire, Discard
  <2>6. CASE UNCHANGED deliveryVars BY <2>6 DEF deliveryVars
  <2> QED BY <2>1, <2>2, <2>3, <2>4, <2>5, <2>6 DEF Next
<1>2. OnePerStage'
  <2> USE DEF OnePerStage, DeliveryTypeOK
  <2>1. CASE \E s \in Stages, b \in Blocks : Handle(s, b) BY <2>1 DEF Handle, Done
  <2>2. CASE \E s \in Stages, b \in Blocks : Skip(s, b) BY <2>2 DEF Skip, Done
  <2>3. CASE UNCHANGED <<handled, skipped>> BY <2>3
  <2> QED
    BY <2>1, <2>2, <2>3 DEF Next, Take, Refuse, Accept, Count, Retire, Discard, deliveryVars
<1>3. CountedLast'
  <2> USE DEF CountedLast, DeliveryTypeOK, Untouched, Done
  <2>1. CASE \E b \in Blocks : Take(b) \/ Refuse(b) \/ Accept(b) BY <2>1 DEF Take, Refuse, Accept
  <2>2. CASE \E b \in Blocks : Count(b) BY <2>2 DEF Count
  <2>3. CASE \E s \in Stages, b \in Blocks : Handle(s, b) BY <2>3 DEF Handle
  <2>4. CASE \E s \in Stages, b \in Blocks : Skip(s, b) BY <2>4 DEF Skip
  <2>5. ASSUME NEW B \in SUBSET Blocks, Retire(B) PROVE CountedLast' BY <2>5 DEF Retire
  <2>6. ASSUME NEW B \in SUBSET Blocks, Discard(B) PROVE CountedLast'
    <3>1. ASSUME NEW b \in B PROVE Untouched(b) /\ counted[b] = 0
      <4>1. Untouched(b) BY <2>6 DEF Discard
      <4>2. PICK s \in Stages : ~Done(s, b) BY <4>1 DEF DeliveryAssumption
      <4>3. counted[b] # 1 BY <4>2
      <4> QED BY <4>1, <4>3
    <3>2. UNCHANGED <<handled, skipped, counted>> BY <2>6 DEF Discard
    <3>3. \A b \in Blocks : state'[b] = IF b \in B THEN "discarded" ELSE state[b]
      BY <2>6 DEF Discard
    <3> QED BY <3>1, <3>2, <3>3
  <2>7. CASE UNCHANGED deliveryVars BY <2>7 DEF deliveryVars
  <2> QED BY <2>1, <2>2, <2>3, <2>4, <2>5, <2>6, <2>7 DEF Next
<1>4. WithinPool'
  <2> USE DEF InUse, In, DeliveryTypeOK, WithinPool
  <2>0. InUse \in SUBSET Blocks /\ InUse' \in SUBSET Blocks OBVIOUS
  <2>1. CASE \E b \in Blocks : Take(b)
    <3>1. PICK b \in Blocks : Take(b) BY <2>1
    <3>2. InUse' \subseteq InUse \union {b} /\ Cardinality(InUse) < PoolSize BY <3>1 DEF Take
    <3> HIDE DEF InUse
    <3> QED BY <2>0, <3>2, InUseBound DEF DeliveryAssumption
  <2>2. CASE InUse' \subseteq InUse
    <3>1. Blocks = {} => InUse' = InUse BY <2>0
    <3> HIDE DEF InUse
    <3>2. \A b \in Blocks : Cardinality(InUse') <= Cardinality(InUse)
      BY <2>0, <2>2, InUseBound DEF DeliveryAssumption
    <3>3. IsFiniteSet(InUse) /\ IsFiniteSet(InUse')
      BY <2>0, FS_Subset DEF DeliveryAssumption
    <3>4. Cardinality(InUse) \in Nat /\ Cardinality(InUse') \in Nat
      BY <3>3, FS_CardinalityType
    <3> QED BY <3>1, <3>2, <3>4 DEF DeliveryAssumption
  <2>3. CASE ~(\E b \in Blocks : Take(b))
    <3>1. InUse' \subseteq InUse
      BY <2>3 DEF Next, Refuse, Accept, Count, Handle, Skip, Retire, Discard, deliveryVars
    <3> QED BY <2>2, <3>1
  <2> QED BY <2>1, <2>3
<1> QED BY <1>1, <1>2, <1>3, <1>4

LEMMA DeliveryGoal == DeliveryInv => ExactlyOnce
<1> SUFFICES ASSUME DeliveryInv PROVE ExactlyOnce OBVIOUS
<1>1. ASSUME NEW b \in In("retired")
      PROVE  /\ counted[b] = 1
             /\ \A s \in Stages : handled[s][b] + Cardinality(skipped[s] \intersect {b}) = 1
             /\ \A s \in Stages \ MaySkip : handled[s][b] = 1
  <2>1. b \in Blocks /\ counted[b] = 1 /\ \A s \in Stages : Done(s, b)
    BY DEF In, DeliveryInv, CountedLast
  <2>2. ASSUME NEW s \in Stages
        PROVE  /\ handled[s][b] + Cardinality(skipped[s] \intersect {b}) = 1
               /\ s \notin MaySkip => handled[s][b] = 1
    <3>1. CASE b \in skipped[s]
      <4>1. skipped[s] \intersect {b} = {b} BY <3>1
      <4>2. Cardinality(skipped[s] \intersect {b}) = 1 BY <4>1, FS_Singleton
      <4>3. /\ handled[s][b] \in Nat /\ handled[s][b] <= 1 /\ handled[s][b] # 1
            /\ s \in MaySkip
        BY <3>1, <2>1 DEF DeliveryInv, OnePerStage, DeliveryTypeOK
      <4>4. handled[s][b] = 0 BY <4>3
      <4> QED BY <4>2, <4>3, <4>4
    <3>2. CASE b \notin skipped[s]
      <4>1. skipped[s] \intersect {b} = {} BY <3>2
      <4>2. Cardinality(skipped[s] \intersect {b}) = 0 BY <4>1, FS_EmptySet
      <4>3. handled[s][b] = 1
        BY <3>2, <2>1 DEF Done, DeliveryInv, OnePerStage, DeliveryTypeOK
      <4> QED BY <4>2, <4>3
    <3> QED BY <3>1, <3>2
  <2> QED BY <2>1, <2>2
<1>2. \A b \in In("refused") \union In("discarded") : Untouched(b) /\ counted[b] = 0
  BY DEF In, DeliveryInv, CountedLast
<1> QED BY <1>1, <1>2 DEF ExactlyOnce, HandledOnce, DeliveryInv, WithinPool

\* Whatever the blocks, the stages and the policies: a block that went back to
\* the pool was handled or skipped exactly once by every stage and counted once,
\* a refused or discarded one left no trace, and the pool never overdraws.
THEOREM DeliveredExactlyOnce ==
  ASSUME DeliveryAssumption PROVE Spec => []ExactlyOnce
<1>1. Init => DeliveryInv BY DeliveryInit
<1>2. DeliveryInv /\ [Next]_deliveryVars => DeliveryInv' BY DeliveryStep
<1>3. DeliveryInv => ExactlyOnce BY DeliveryGoal
<1> QED BY <1>1, <1>2, <1>3, PTL DEF Spec
=============================================================================
