------------------------------ MODULE QueueOps ------------------------------
(***************************************************************************)
(* The slice operations of ThreadSafeQueue (internal/common/queue.go),     *)
(* each performed by the code with the queue's mutex held.                 *)
(***************************************************************************)
EXTENDS Naturals, Sequences

CONSTANT Capacity   \* the size given to NewQueue (100 in NewMasterCollector)

\* Push on a full queue re-slices items[1:], which needs an element to drop.
ASSUME CapacityAssumption == Capacity \in Nat \ {0}

\* Mutations: a full queue that refuses the new item, or that is not trimmed.
PushedRefuseNew(q, item) == IF Len(q) >= Capacity THEN q ELSE Append(q, item)
PushedNoEvict(q, item) == Append(q, item)

\* The items after Push: the oldest one goes when the queue is full.
Pushed(q, item) == Append(IF Len(q) >= Capacity THEN Tail(q) ELSE q, item)
=============================================================================
