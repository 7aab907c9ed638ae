------------------------- MODULE MetricsQueueProofs -------------------------
(***************************************************************************)
(* Proofs about ThreadSafeQueue for every capacity, every finite set of    *)
(* callers and every number of pushes.                                     *)
(***************************************************************************)
EXTENDS MetricsQueue, FiniteSetTheorems, TLAPS

-----------------------------------------------------------------------------
\* What Push does to the slice (queue.go:39-43): the result stays within the
\* capacity, ends in the new item, and keeps the old items in their order,
\* shifted down by one exactly when the queue was full.
LEMMA PushedFacts ==
  ASSUME NEW q \in Seq(Nat), NEW x \in Nat, Len(q) <= Capacity
  PROVE  LET drop == IF Len(q) = Capacity THEN 1 ELSE 0 IN
         /\ Pushed(q, x) \in Seq(Nat)
         /\ Len(Pushed(q, x)) = Len(q) - drop + 1
         /\ \A i \in 1..(Len(q) - drop) : Pushed(q, x)[i] = q[i + drop]
         /\ Pushed(q, x)[Len(q) - drop + 1] = x
<1>1. CASE Len(q) = Capacity
  <2>1. q # <<>> /\ Tail(q) \in Seq(Nat) /\ Len(Tail(q)) = Len(q) - 1
        /\ \A i \in 1..(Len(q) - 1) : Tail(q)[i] = q[i + 1]
    BY <1>1, CapacityAssumption
  <2>2. Pushed(q, x) = Append(Tail(q), x)
    BY <1>1, CapacityAssumption DEF Pushed
  <2> QED BY <1>1, <2>1, <2>2
<1>2. CASE Len(q) # Capacity
  <2>1. Pushed(q, x) = Append(q, x)
    BY <1>2, CapacityAssumption DEF Pushed
  <2> QED BY <1>2, <2>1
<1> QED BY <1>1, <1>2

\* A non-empty queue loses its first item to Pop and TryPop
\* (queue.go:57-58, 71-72) and keeps the others in order.
LEMMA TailFacts ==
  ASSUME NEW q \in Seq(Nat), q # <<>>
  PROVE  /\ q[1] \in Nat
         /\ Len(q) \in Nat \ {0}
         /\ Tail(q) \in Seq(Nat)
         /\ Len(Tail(q)) = Len(q) - 1
         /\ \A i \in 1..(Len(q) - 1) : Tail(q)[i] = q[i + 1]
OBVIOUS

-----------------------------------------------------------------------------
\* The capacity bound of NewQueue and the types hold for ever.
THEOREM TypeCorrect == Spec => []TypeOK
<1>1. Init => TypeOK
  BY CapacityAssumption DEF Init, TypeOK
<1>2. TypeOK /\ [Next]_vars => TypeOK'
  <2> SUFFICES ASSUME TypeOK, [Next]_vars PROVE TypeOK'
    OBVIOUS
  <2> USE CapacityAssumption DEF TypeOK
  <2>1. CASE Push
    <3>1. items' \in Seq(Nat) /\ Len(items') <= Capacity
      BY <2>1, PushedFacts DEF Push
    <3>2. waiting' \subseteq Callers /\ woken' \subseteq Callers
          /\ waiting' \intersect woken' = {}
      BY <2>1 DEF Push, Signal
    <3> QED BY <2>1, <3>1, <3>2 DEF Push
  <2>2. ASSUME Take PROVE items' \in Seq(Nat) /\ Len(items') <= Capacity
                          /\ pushed' \in Nat /\ taken' \in Nat
    BY <2>2, TailFacts DEF Take, Oldest
  <2>3. ASSUME NEW c \in Callers, PopAtOnce(c) PROVE TypeOK'
    BY <2>2, <2>3 DEF PopAtOnce
  <2>4. ASSUME NEW c \in Callers, PopWait(c) PROVE TypeOK'
    BY <2>4 DEF PopWait, Idle
  <2>5. ASSUME NEW c \in Callers, PopResume(c) PROVE TypeOK'
    BY <2>2, <2>5 DEF PopResume
  <2>6. ASSUME NEW c \in Callers, PopWaitAgain(c) PROVE TypeOK'
    BY <2>6 DEF PopWaitAgain
  <2>7. ASSUME NEW c \in Callers, TryPop(c) PROVE TypeOK'
    BY <2>2, <2>7 DEF TryPop
  <2>8. CASE UNCHANGED vars
    BY <2>8 DEF vars
  <2> QED
    BY <2>1, <2>3, <2>4, <2>5, <2>6, <2>7, <2>8 DEF Next
<1> QED BY <1>1, <1>2, PTL DEF Spec

\* Push at the limit drops the oldest item and only that one, and items are
\* taken strictly from the front: NewestInOrder, for every capacity.
THEOREM NewestInOrderHolds == Spec => []NewestInOrder
<1>1. Init => NewestInOrder
  BY DEF Init, NewestInOrder
<1>2. TypeOK /\ NewestInOrder /\ [Next]_vars => NewestInOrder'
  <2> SUFFICES ASSUME TypeOK, NewestInOrder, [Next]_vars PROVE NewestInOrder'
    OBVIOUS
  <2> USE CapacityAssumption DEF TypeOK, NewestInOrder
  <2>1. CASE Push
    <3>1. pushed' = pushed + 1 /\ items' = Pushed(items, pushed + 1)
      BY <2>1 DEF Push
    <3> DEFINE drop == IF Len(items) = Capacity THEN 1 ELSE 0
    <3>2. /\ drop \in {0, 1} /\ drop <= Len(items)
          /\ Len(items') = Len(items) - drop + 1
          /\ \A i \in 1..(Len(items) - drop) : items'[i] = items[i + drop]
          /\ items'[Len(items) - drop + 1] = pushed + 1
      BY <3>1, PushedFacts
    <3> HIDE DEF drop
    <3>3. ASSUME NEW i \in 1..Len(items')
          PROVE  items'[i] = pushed' - Len(items') + i
      <4>1. CASE i = Len(items')
        BY <3>1, <3>2, <4>1
      <4>2. CASE i # Len(items')
        <5>1. i \in 1..(Len(items) - drop) /\ i + drop \in 1..Len(items)
          BY <3>2, <4>2
        <5>2. items'[i] = pushed - Len(items) + (i + drop)
          BY <3>2, <5>1
        <5>3. pushed \in Int /\ Len(items) \in Int /\ i \in Int
          OBVIOUS
        <5>4. drop \in Int /\ pushed' = pushed + 1 /\ Len(items') = Len(items) - drop + 1
          BY <3>1, <3>2
        <5> HIDE CapacityAssumption DEF TypeOK, NewestInOrder
        <5> QED BY <5>2, <5>3, <5>4
      <4> QED BY <4>1, <4>2
    <3> QED BY <3>3
  <2>2. CASE Take
    BY <2>2, TailFacts DEF Take
  <2>3. CASE UNCHANGED <<items, pushed>>
    BY <2>3
  <2> QED
    BY <2>1, <2>2, <2>3
    DEF Next, vars, PopAtOnce, PopWait, PopResume, PopWaitAgain, TryPop
<1> QED BY <1>1, <1>2, TypeCorrect, PTL DEF Spec

\* One Signal per Push loses no wake-up: while a Pop is parked, every queued
\* item has a signalled caller heading for it.
THEOREM NoLostWakeupHolds == Spec => []NoLostWakeup
<1>1. Init => NoLostWakeup
  BY DEF Init, NoLostWakeup
<1>2. TypeOK /\ TypeOK' /\ NoLostWakeup /\ [Next]_vars => NoLostWakeup'
  <2> SUFFICES ASSUME TypeOK, TypeOK', NoLostWakeup, [Next]_vars
               PROVE  NoLostWakeup'
    OBVIOUS
  <2>1. IsFiniteSet(woken) /\ Cardinality(woken) \in Nat
    BY CallersAssumption, FS_Subset, FS_CardinalityType DEF TypeOK
  <2>2. Len(items) \in Nat /\ Len(items') \in Nat
    BY DEF TypeOK
  <2>3. CASE Push
    <3>1. Len(items') <= Len(items) + 1
      BY <2>3, PushedFacts, CapacityAssumption DEF Push, TypeOK
    <3>2. CASE waiting = {}
      BY <2>3, <3>2 DEF Push, Signal, NoLostWakeup
    <3>3. CASE waiting # {}
      <4>1. PICK c \in waiting : woken' = woken \union {c}
        BY <2>3, <3>3 DEF Push, Signal
      <4>2. Cardinality(woken') = Cardinality(woken) + 1
        BY <2>1, <4>1, FS_AddElement DEF TypeOK
      <4> QED BY <2>1, <2>2, <3>1, <3>3, <4>2 DEF NoLostWakeup
    <3> QED BY <3>2, <3>3
  <2>4. ASSUME Take, UNCHANGED <<waiting, woken>> PROVE NoLostWakeup'
    BY <2>1, <2>2, <2>4, TailFacts DEF Take, NoLostWakeup, TypeOK
  <2>5. ASSUME NEW c \in Callers, PopWait(c) PROVE NoLostWakeup'
    BY <2>1, <2>5 DEF PopWait, NoLostWakeup
  <2>6. ASSUME NEW c \in Callers, PopResume(c) PROVE NoLostWakeup'
    <3>1. Cardinality(woken') = Cardinality(woken) - 1
      BY <2>1, <2>6, FS_RemoveElement DEF PopResume
    <3>2. Len(items') = Len(items) - 1
      BY <2>6, TailFacts DEF PopResume, Take, TypeOK
    <3> QED BY <2>1, <2>2, <2>6, <3>1, <3>2 DEF PopResume, NoLostWakeup
  <2>7. ASSUME NEW c \in Callers, PopWaitAgain(c) PROVE NoLostWakeup'
    <3>1. Len(items') = 0
      BY <2>7 DEF PopWaitAgain
    <3>2. Cardinality(woken') \in Nat
      BY CallersAssumption, FS_Subset, FS_CardinalityType DEF TypeOK
    <3> QED BY <3>1, <3>2 DEF NoLostWakeup
  <2>8. CASE UNCHANGED vars
    BY <2>8 DEF vars, NoLostWakeup
  <2> QED
    BY <2>3, <2>4, <2>5, <2>6, <2>7, <2>8 DEF Next, PopAtOnce, TryPop
<1> QED BY <1>1, <1>2, TypeCorrect, PTL DEF Spec

\* The mutex-and-slice queue implements the abstract bounded log: Push is an
\* append that forgets at most the oldest entry, Pop and TryPop take the
\* oldest readable entry, and waiting or being signalled is invisible.
THEOREM QueueImplementsBoundedLog == Spec => ImplementsBoundedLog
<1>1. Init => Log!LogInit
  <2> SUFFICES ASSUME Init PROVE Log!LogInit
    OBVIOUS
  <2>1. Len(items) = 0
    BY DEF Init
  <2>2. pushed = 0 /\ taken = 0
    BY DEF Init
  <2>3. pushed - Len(items) = 0
    BY <2>1, <2>2
  <2> QED BY <2>2, <2>3 DEF Log!LogInit
<1>2. TypeOK /\ NewestInOrder /\ [Next]_vars => [Log!LogNext]_(Log!logVars)
  <2> SUFFICES ASSUME TypeOK, NewestInOrder, [Next]_vars
               PROVE  [Log!LogNext]_(Log!logVars)
    OBVIOUS
  <2> USE DEF TypeOK, Log!LogNext, Log!logVars
  <2>1. CASE Push
    <3>1. /\ pushed' = pushed + 1 /\ taken' = taken
          /\ Len(items') = Len(items) + 1
                             - (IF Len(items) = Capacity THEN 1 ELSE 0)
      BY <2>1, PushedFacts, CapacityAssumption DEF Push
    <3>2. Log!AppendEntry
      BY <3>1, CapacityAssumption DEF Log!AppendEntry
    <3> QED BY <3>2
  <2>2. CASE Take
    <3>1. /\ Len(items) \in Nat \ {0} /\ Len(items') = Len(items) - 1
          /\ taken' = items[1] /\ pushed' = pushed
      BY <2>2, TailFacts DEF Take, Oldest
    <3>2. items[1] = pushed - Len(items) + 1
      BY <3>1 DEF NewestInOrder
    <3>3. Log!TakeEntry
      BY <3>1, <3>2 DEF Log!TakeEntry
    <3> QED BY <3>3
  <2>3. CASE UNCHANGED <<items, pushed, taken>>
    BY <2>3
  <2> QED
    BY <2>1, <2>2, <2>3
    DEF Next, vars, PopAtOnce, PopWait, PopResume, PopWaitAgain, TryPop
<1> QED
  BY <1>1, <1>2, TypeCorrect, NewestInOrderHolds, PTL
  DEF Spec, ImplementsBoundedLog, Log!LogSpec
=============================================================================
