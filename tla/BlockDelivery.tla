---------------------------- MODULE BlockDelivery ----------------------------
(***************************************************************************)
(* What the block path promises, whatever threads, queues and locks it is   *)
(* made of: a block taken from the pool is refused or accepted; an accepted *)
(* block is handled exactly once by every stage, or skipped by a stage that *)
(* may skip; it is counted once, after its last stage, and only then does   *)
(* its storage go back to the pool.  Only clear() discards accepted blocks, *)
(* and only before any stage has seen them.                                *)
(***************************************************************************)
EXTENDS Naturals, FiniteSets

CONSTANTS
  Blocks,      \* the blocks offered
  Stages,      \* the stages every block passes
  MaySkip,     \* the stages whose policy is not LosslessRequired
  PoolSize     \* blocks the pool owns

\* What the promise needs of its parameters; the theorems assume it, and the modules that
\* show an implementation check it for the instance they use.
DeliveryAssumption ==
  /\ IsFiniteSet(Blocks) /\ PoolSize \in Nat
  /\ Stages # {} /\ MaySkip \subseteq Stages

VARIABLES
  state,       \* state[b]: the life of a block
  handled,     \* handled[s][b]: how often stage s has consumed b
  skipped,     \* skipped[s]: the blocks stage s has skipped
  counted      \* counted[b]: how often b was counted as processed

deliveryVars == <<state, handled, skipped, counted>>

BlockStates == {"unused", "taken", "refused", "accepted", "discarded", "retired"}

In(st)  == {b \in Blocks : state[b] = st}
InUse   == In("taken") \union In("accepted")
Done(s, b)    == handled[s][b] > 0 \/ b \in skipped[s]
Untouched(b)  == \A s \in Stages : ~Done(s, b)

-----------------------------------------------------------------------------
Take(b) ==
  /\ state[b] = "unused" /\ Cardinality(InUse) < PoolSize
  /\ state' = [state EXCEPT ![b] = "taken"]
  /\ UNCHANGED <<handled, skipped, counted>>

Refuse(b) ==
  /\ state[b] = "taken"
  /\ state' = [state EXCEPT ![b] = "refused"]
  /\ UNCHANGED <<handled, skipped, counted>>

Accept(b) ==
  /\ state[b] = "taken"
  /\ state' = [state EXCEPT ![b] = "accepted"]
  /\ UNCHANGED <<handled, skipped, counted>>

Handle(s, b) ==
  /\ state[b] = "accepted" /\ ~Done(s, b)
  /\ handled' = [handled EXCEPT ![s][b] = @ + 1]
  /\ UNCHANGED <<state, skipped, counted>>

Skip(s, b) ==
  /\ state[b] = "accepted" /\ s \in MaySkip /\ ~Done(s, b)
  /\ skipped' = [skipped EXCEPT ![s] = @ \union {b}]
  /\ UNCHANGED <<state, handled, counted>>

Count(b) ==
  /\ state[b] = "accepted" /\ counted[b] = 0
  /\ \A s \in Stages : Done(s, b)
  /\ counted' = [counted EXCEPT ![b] = @ + 1]
  /\ UNCHANGED <<state, handled, skipped>>

\* Blocks whose last owner disappears in one step go back together.
Retire(B) ==
  /\ \A b \in B : state[b] = "accepted" /\ counted[b] = 1
  /\ state' = [b \in Blocks |-> IF b \in B THEN "retired" ELSE state[b]]
  /\ UNCHANGED <<handled, skipped, counted>>

Discard(B) ==
  /\ \A b \in B : state[b] = "accepted" /\ Untouched(b)
  /\ state' = [b \in Blocks |-> IF b \in B THEN "discarded" ELSE state[b]]
  /\ UNCHANGED <<handled, skipped, counted>>

Init ==
  /\ state = [b \in Blocks |-> "unused"]
  /\ handled = [s \in Stages |-> [b \in Blocks |-> 0]]
  /\ skipped = [s \in Stages |-> {}]
  /\ counted = [b \in Blocks |-> 0]

Next ==
  \/ \E b \in Blocks : Take(b) \/ Refuse(b) \/ Accept(b) \/ Count(b)
  \/ \E s \in Stages, b \in Blocks : Handle(s, b) \/ Skip(s, b)
  \/ \E B \in SUBSET Blocks : Retire(B) \/ Discard(B)

Spec == Init /\ [][Next]_deliveryVars

-----------------------------------------------------------------------------
\* The shape of the abstract state.
DeliveryTypeOK ==
  /\ state \in [Blocks -> BlockStates]
  /\ handled \in [Stages -> [Blocks -> Nat]]
  /\ skipped \in [Stages -> SUBSET Blocks]
  /\ counted \in [Blocks -> Nat]

HandledOnce(b) ==
  /\ \A s \in Stages : handled[s][b] + Cardinality(skipped[s] \intersect {b}) = 1
  /\ \A s \in Stages \ MaySkip : handled[s][b] = 1

\* The pool never lends more blocks than it owns; a block that went back to it
\* normally was handled once by every stage that may not skip, was handled or
\* skipped, never both, by every other stage, and was counted once; a block
\* refused or discarded left no trace in any stage.  (SignalBlockPool, and
\* FanOutBlockContext with its remaining-stage count.)
ExactlyOnce ==
  /\ Cardinality(InUse) <= PoolSize
  /\ \A b \in In("retired") : counted[b] = 1 /\ HandledOnce(b)
  /\ \A b \in In("refused") \union In("discarded") : Untouched(b) /\ counted[b] = 0
=============================================================================
