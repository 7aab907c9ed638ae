---------------------------- MODULE MetricsQueue ----------------------------
(***************************************************************************)
(* ThreadSafeQueue of internal/common/queue.go: a bounded queue guarded by *)
(* one mutex, with a condition variable for the blocking Pop.              *)
(*                                                                         *)
(* Every method runs with the mutex held from its first line to its return,*)
(* except that Pop gives it up inside cond.Wait.  So Push, TryPop and the  *)
(* two halves of Pop around cond.Wait are one action each.  Items are the  *)
(* numbers 1, 2, 3, ... in the order in which Push receives them.  Pop has *)
(* no caller in the program today: the sender uses TryPop.                 *)
(***************************************************************************)
EXTENDS QueueOps, FiniteSets

CONSTANTS
  Callers,    \* goroutines that may call Pop or TryPop
  MaxPushes   \* bound on the number of items pushed

ASSUME CallersAssumption == IsFiniteSet(Callers)
ASSUME MaxPushesAssumption == MaxPushes \in Nat

VARIABLES
  items,     \* q.items
  pushed,    \* how many items Push has received: the number of the newest
  taken,     \* the item most recently handed to a caller, 0 before the first
  waiting,   \* callers parked in cond.Wait
  woken      \* callers that were signalled and still have to re-lock the mutex

vars == <<items, pushed, taken, waiting, woken>>

Init ==
  /\ items = <<>>
  /\ pushed = 0
  /\ taken = 0
  /\ waiting = {}
  /\ woken = {}

-----------------------------------------------------------------------------
\* Mutations: a signal only for the item that ends emptiness; no signal; a
\* stack instead of a queue.
SignalWhenWasEmpty ==
  IF waiting = {} \/ items # <<>>
  THEN UNCHANGED <<waiting, woken>>
  ELSE \E c \in waiting : waiting' = waiting \ {c} /\ woken' = woken \union {c}
NoSignal == UNCHANGED <<waiting, woken>>
NewestOf(q) == q[Len(q)]

\* cond.Signal wakes one parked caller if there is one.  The caller stays
\* inside cond.Wait until it holds the mutex again.
Signal ==
  IF waiting = {}
  THEN UNCHANGED <<waiting, woken>>
  ELSE \E c \in waiting : waiting' = waiting \ {c} /\ woken' = woken \union {c}

Push ==
  /\ pushed < MaxPushes
  /\ pushed' = pushed + 1
  /\ items' = Pushed(items, pushed + 1)
  /\ Signal
  /\ UNCHANGED taken

\* item := q.items[0]
Oldest(q) == q[1]

\* What Pop and TryPop do with a non-empty queue.
Take ==
  /\ items # <<>>
  /\ taken' = Oldest(items)
  /\ items' = Tail(items)
  /\ UNCHANGED pushed

Idle(c) == c \notin waiting \union woken

\* Pop on a non-empty queue does not wait.
PopAtOnce(c) ==
  /\ Idle(c)
  /\ Take
  /\ UNCHANGED <<waiting, woken>>

\* Pop on an empty queue parks the caller and releases the mutex.
PopWait(c) ==
  /\ Idle(c)
  /\ items = <<>>
  /\ waiting' = waiting \union {c}
  /\ UNCHANGED <<items, pushed, taken, woken>>

\* A signalled caller holds the mutex again and finds an item.
PopResume(c) ==
  /\ c \in woken
  /\ Take
  /\ woken' = woken \ {c}
  /\ UNCHANGED waiting

\* A signalled caller holds the mutex again, but another caller took the
\* item in between: the for loop waits once more.
PopWaitAgain(c) ==
  /\ c \in woken
  /\ items = <<>>
  /\ woken' = woken \ {c}
  /\ waiting' = waiting \union {c}
  /\ UNCHANGED <<items, pushed, taken>>

\* TryPop takes an item when there is one; on an empty queue it returns false
\* and changes nothing, which is a stuttering step.
TryPop(c) ==
  /\ Idle(c)
  /\ Take
  /\ UNCHANGED <<waiting, woken>>

Next ==
  \/ Push
  \/ \E c \in Callers :
       \/ PopAtOnce(c)
       \/ PopWait(c)
       \/ PopResume(c)
       \/ PopWaitAgain(c)
       \/ TryPop(c)

\* A signalled caller contends for a mutex that every holder releases, so it
\* gets it eventually.  Nobody is obliged to call the queue.
Fairness == \A c \in Callers : WF_vars(PopResume(c) \/ PopWaitAgain(c))

Spec == Init /\ [][Next]_vars
FairSpec == Spec /\ Fairness

-----------------------------------------------------------------------------
\* Types, and the capacity NewQueue was given is never exceeded.
TypeOK ==
  /\ items \in Seq(Nat)
  /\ Len(items) <= Capacity
  /\ pushed \in Nat
  /\ taken \in Nat
  /\ waiting \subseteq Callers
  /\ woken \subseteq Callers
  /\ waiting \intersect woken = {}

\* The queue always holds exactly the newest items, oldest first, without a
\* gap: Push at the limit (queue.go:39) sacrifices the oldest item and only
\* that one, and Pop and TryPop never take from the middle.
NewestInOrder ==
  \A i \in 1..Len(items) : items[i] = pushed - Len(items) + i

\* As long as some Pop is parked, every item in the queue has a signalled
\* caller on its way to it: Signal per Push (queue.go:44), instead of
\* Broadcast, loses no wake-up although TryPop may steal items in between.
NoLostWakeup == waiting # {} => Len(items) <= Cardinality(woken)

\* Items never sit in the queue for ever next to a blocked Pop.
BlockedPopsServed ==
  (items # <<>> /\ waiting \union woken # {})
    ~> (items = <<>> \/ waiting \union woken = {})

\* The queue implements the abstract bounded log.
Log == INSTANCE BoundedLog
         WITH gone <- pushed - Len(items), end <- pushed, taken <- taken
ImplementsBoundedLog == Log!LogSpec
=============================================================================
