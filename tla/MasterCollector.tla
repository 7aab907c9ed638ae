-------------------------- MODULE MasterCollector --------------------------
(***************************************************************************)
(* MasterCollector of internal/collectors/collector.go: on every tick the  *)
(* loop of Start runs CollectAll, which starts one goroutine per           *)
(* registered collector, waits for all of them on a WaitGroup and returns  *)
(* the snapshot they filled in; the loop then pushes a copy.               *)
(*                                                                         *)
(* A field of a snapshot is modelled by the round whose goroutine wrote    *)
(* it, 0 for the zero value of a fresh models.SystemMetrics.               *)
(***************************************************************************)
EXTENDS Naturals, FiniteSets

CONSTANTS
  Collectors,   \* the registered collectors; each fills the field of its type
  MaxRounds     \* bound on the number of rounds

ASSUME CollectorsAssumption == IsFiniteSet(Collectors)
ASSUME MaxRoundsAssumption == MaxRounds \in Nat

VARIABLES
  round,      \* rounds begun
  loop,       \* the loop: "tick", "spawn" (ranging over collectors) or "wait"
  unspawned,  \* collectors the range has not reached yet
  worker,     \* worker[c]: the goroutine of collector c in this round
  wg,         \* the WaitGroup's counter
  fields,     \* fields[c]: the field of collector c in *metrics
  errors,     \* the collectors in collectionErrors
  pushed      \* the newest snapshot in the queue: its round, fields, failures

vars == <<round, loop, unspawned, worker, wg, fields, errors, pushed>>

Blank == [c \in Collectors |-> 0]

TypeOK ==
  /\ round \in Nat
  /\ loop \in {"tick", "spawn", "wait"}
  /\ unspawned \subseteq Collectors
  /\ worker \in [Collectors -> {"idle", "collect", "store", "fail"}]
  /\ wg \in Nat
  /\ fields \in [Collectors -> Nat]
  /\ errors \subseteq Collectors
  /\ pushed \in [round : Nat, fields : [Collectors -> Nat],
                 failed : SUBSET Collectors]

\* NewMasterCollector, with its AddCollector calls done.
Init ==
  /\ round = 0
  /\ loop = "tick"
  /\ unspawned = {}
  /\ worker = [c \in Collectors |-> "idle"]
  /\ wg = 0
  /\ fields = Blank
  /\ errors = {}
  /\ pushed = [round |-> 0, fields |-> Blank, failed |-> {}]

-----------------------------------------------------------------------------
\* Mutation: metrics and collectionErrors outlive the call.
BeginRoundReusing ==
  /\ loop = "tick"
  /\ round < MaxRounds
  /\ round' = round + 1
  /\ loop' = "spawn"
  /\ unspawned' = Collectors
  /\ UNCHANGED <<worker, wg, fields, errors, pushed>>

\* A tick: CollectAll begins with a fresh snapshot and no errors.
BeginRound ==
  /\ loop = "tick"
  /\ round < MaxRounds
  /\ round' = round + 1
  /\ loop' = "spawn"
  /\ unspawned' = Collectors
  /\ fields' = Blank
  /\ errors' = {}
  /\ UNCHANGED <<worker, wg, pushed>>

\* One turn of the range: wg.Add(1) and the go statement, in map order,
\* which is any order.
Spawn(c) ==
  /\ loop = "spawn" /\ c \in unspawned
  /\ unspawned' = unspawned \ {c}
  /\ worker' = [worker EXCEPT ![c] = "collect"]
  /\ wg' = wg + 1
  /\ UNCHANGED <<round, loop, fields, errors, pushed>>

SpawnedAll ==
  /\ loop = "spawn" /\ unspawned = {}
  /\ loop' = "wait"
  /\ UNCHANGED <<round, unspawned, worker, wg, fields, errors, pushed>>

\* c.Collect() returns data or an error.
CollectReturns(c) ==
  /\ worker[c] = "collect"
  /\ \E r \in {"store", "fail"} : worker' = [worker EXCEPT ![c] = r]
  /\ UNCHANGED <<round, loop, unspawned, wg, fields, errors, pushed>>

\* Under mu: the type switch stores the data, then wg.Done.
Store(c) ==
  /\ worker[c] = "store"
  /\ fields' = [fields EXCEPT ![c] = round]
  /\ worker' = [worker EXCEPT ![c] = "idle"]
  /\ wg' = wg - 1
  /\ UNCHANGED <<round, loop, unspawned, errors, pushed>>

\* Mutation: the error path returns without wg.Done.
FailWithoutDone(c) ==
  /\ worker[c] = "fail"
  /\ errors' = errors \union {c}
  /\ worker' = [worker EXCEPT ![c] = "idle"]
  /\ UNCHANGED <<round, loop, unspawned, wg, fields, pushed>>

\* Under mu: the error is recorded, then wg.Done.
Fail(c) ==
  /\ worker[c] = "fail"
  /\ errors' = errors \union {c}
  /\ worker' = [worker EXCEPT ![c] = "idle"]
  /\ wg' = wg - 1
  /\ UNCHANGED <<round, loop, unspawned, fields, pushed>>

\* wg.Wait returns; the errors are logged, CollectAll returns the snapshot
\* with a nil error, and Start pushes a copy of it.
PushSnapshot ==
  /\ loop = "wait" /\ wg = 0
  /\ pushed' = [round |-> round, fields |-> fields, failed |-> errors]
  /\ loop' = "tick"
  /\ UNCHANGED <<round, unspawned, worker, wg, fields, errors>>

Next ==
  \/ BeginRound \/ SpawnedAll \/ PushSnapshot
  \/ \E c \in Collectors : Spawn(c) \/ CollectReturns(c) \/ Store(c) \/ Fail(c)

Spec == Init /\ [][Next]_vars

-----------------------------------------------------------------------------
\* Between rounds the pushed snapshot is that of the last round, and each of
\* its fields holds this round's data, unless that collector failed, and then
\* it is zero: never data of an earlier round, never a field that a slow
\* goroutine still has to fill.
SnapshotComplete ==
  /\ loop = "tick" => pushed.round = round
  /\ \A c \in Collectors :
       pushed.fields[c] = IF c \in pushed.failed THEN 0 ELSE pushed.round

\* No goroutine of CollectAll outlives it: between rounds nobody can still
\* write to the snapshot that was pushed or to the next one.
NoStraggler == loop = "tick" => \A c \in Collectors : worker[c] = "idle"
=============================================================================
