---------------------- MODULE ContainerCollectorProofs ----------------------
(***************************************************************************)
(* Theorems about ContainerCollector: the fan-out over the channel and the *)
(* order of the cached collections, for every finite set of containers and *)
(* however long the agent runs.                                            *)
(***************************************************************************)
EXTENDS ContainerCollector, FiniteSetTheorems, TLAPS

\* The goroutines of a's collection that have not called wg.Done yet.
Active(a) == {k \in Containers : worker[a][k] # "off"}

\* One collection: the WaitGroup counts its goroutines; they run, and the
\* channel is closed, only where the code is between its list and its return;
\* once it is closed nobody is left; and a metric that was built is still with
\* its goroutine, in the channel, or gathered.
FanIn(a) ==
  /\ wg[a] = Cardinality(Active(a))
  /\ Active(a) # {} => pc[a] \in {"spawn", "gather"}
  /\ unspawned[a] # {} => pc[a] = "spawn"
  /\ closer[a] = "wait" => pc[a] = "gather"
  /\ closed[a] => pc[a] \in {"gather", "return"} /\ closer[a] = "off" /\ Active(a) = {}
  /\ pc[a] = "return" => closed[a] /\ channel[a] = {}
  /\ pc[a] \in {"idle", "list"} => good[a] = {} /\ metrics[a] = {} /\ channel[a] = {}
  /\ \A k \in unspawned[a] : worker[a][k] = "off"
  /\ \A k \in Containers :
       k \in good[a] <=> k \in metrics[a] \/ k \in channel[a] \/ worker[a][k] = "send"

FanInv == panic # "channel" /\ \A a \in Actors : FanIn(a)

\* Collections and the cache are dated in the past, and the background loop
\* never works on a list older than the cache.
CacheOrder ==
  /\ cachedAt <= now /\ listedAt["background"] <= now
  /\ pc["background"] \in {"spawn", "gather", "return"} => cachedAt <= listedAt["background"]

\* Of a step, what it leaves alone of the other collection.
SameFan(b) ==
  /\ pc'[b] = pc[b] /\ unspawned'[b] = unspawned[b] /\ worker'[b] = worker[b]
  /\ wg'[b] = wg[b] /\ closer'[b] = closer[b] /\ channel'[b] = channel[b]
  /\ closed'[b] = closed[b] /\ metrics'[b] = metrics[b] /\ good'[b] = good[b]

-----------------------------------------------------------------------------
\* Finite sets of goroutines have a size, which is 0 only for the empty one.
LEMMA ActiveFinite ==
  ASSUME NEW a \in Actors
  PROVE  /\ IsFiniteSet(Active(a)) /\ Cardinality(Active(a)) \in Nat
         /\ Cardinality(Active(a)) = 0 <=> Active(a) = {}
<1>1. IsFiniteSet(Active(a))
  BY ContainersAssumption, FS_Subset DEF Active
<1> QED BY <1>1, FS_CardinalityType, FS_EmptySet

\* A goroutine that starts adds one to the count, one that ends takes one off.
LEMMA ActiveCount ==
  ASSUME TypeOK, NEW a \in Actors, NEW k \in Containers, NEW w \in {"off", "ask", "send"},
         SetWorker(a, k, w)
  PROVE  /\ worker' \in [Actors -> [Containers -> {"off", "ask", "send"}]]
         /\ worker'[a][k] = w
         /\ \A j \in Containers \ {k} : worker'[a][j] = worker[a][j]
         /\ (worker[a][k] = "off" /\ w # "off") =>
              Active(a)' = Active(a) \union {k}
              /\ Cardinality(Active(a)') = Cardinality(Active(a)) + 1
         /\ (worker[a][k] # "off" /\ w = "off") =>
              Active(a)' = Active(a) \ {k}
              /\ Cardinality(Active(a)') = Cardinality(Active(a)) - 1
         /\ (worker[a][k] # "off" /\ w # "off") => Active(a)' = Active(a)
<1>1. /\ worker' \in [Actors -> [Containers -> {"off", "ask", "send"}]]
      /\ worker'[a][k] = w
      /\ \A j \in Containers \ {k} : worker'[a][j] = worker[a][j]
  BY DEF SetWorker, TypeOK
<1>2. ASSUME worker[a][k] = "off", w # "off"
      PROVE  Active(a)' = Active(a) \union {k}
             /\ Cardinality(Active(a)') = Cardinality(Active(a)) + 1
  <2>1. Active(a)' = Active(a) \union {k} /\ k \notin Active(a)
    BY <1>1, <1>2 DEF Active
  <2> QED BY <2>1, ActiveFinite, FS_AddElement
<1>3. ASSUME worker[a][k] # "off", w = "off"
      PROVE  Active(a)' = Active(a) \ {k}
             /\ Cardinality(Active(a)') = Cardinality(Active(a)) - 1
  <2>1. Active(a)' = Active(a) \ {k} /\ k \in Active(a)
    BY <1>1, <1>3 DEF Active
  <2> QED BY <2>1, ActiveFinite, FS_RemoveElement
<1>4. ASSUME worker[a][k] # "off", w # "off" PROVE Active(a)' = Active(a)
  BY <1>1, <1>4 DEF Active
<1> QED BY <1>1, <1>2, <1>3, <1>4

\* A collection that a step leaves alone keeps its invariant.
LEMMA FanInFrame ==
  ASSUME NEW b \in Actors, FanIn(b), SameFan(b)
  PROVE  FanIn(b)'
<1>1. Active(b)' = Active(b)
  BY DEF Active, SameFan
<1> QED BY <1>1 DEF FanIn, SameFan

-----------------------------------------------------------------------------
\* The types and the fan-in, together, since only the fan-in shows that the
\* WaitGroup's counter does not become negative.
Inv == TypeOK /\ FanInv

\* Nothing but the clock, the client, the cache or the reason of a panic
\* changes: the fan-in stands.
LEMMA QuietFan ==
  ASSUME FanInv, UNCHANGED <<pc, fan>>, panic' # "channel"
  PROVE  FanInv'
<1>1. \A b \in Actors : SameFan(b)
  BY DEF fan, SameFan
<1> QED BY <1>1, FanInFrame DEF FanInv

\* A step of collection a keeps the fan-in if it keeps that of a.
LEMMA OneFan ==
  ASSUME FanInv, NEW a \in Actors, \A b \in Actors \ {a} : SameFan(b), FanIn(a)',
         panic' = panic
  PROVE  FanInv'
BY FanInFrame DEF FanInv

\* However the goroutines, the closing goroutine and the gathering loop of the
\* two collections interleave, and whichever requests to Docker fail, every
\* WaitGroup counts its goroutines and every built metric is where FanIn says
\* (collectContainerMetrics, container.go:159-242).
THEOREM InvHolds == Spec => []Inv
<1>1. Init => Inv
  <2> SUFFICES ASSUME Init PROVE Inv
    OBVIOUS
  <2>1. TypeOK
    BY DEF Init, TypeOK, Clear
  <2>2. ASSUME NEW a \in Actors PROVE FanIn(a)
    <3>1. Active(a) = {}
      BY DEF Init, Active
    <3>2. wg[a] = 0 /\ pc[a] \in {"idle", "list"} /\ unspawned[a] = {} /\ closer[a] = "off"
          /\ good[a] = {} /\ metrics[a] = {} /\ channel[a] = {}
          /\ \A k \in Containers : worker[a][k] = "off"
      BY DEF Init, Clear
    <3>3. ~closed[a]
      BY DEF Init
    <3> QED BY <3>1, <3>2, <3>3, FS_EmptySet DEF FanIn
  <2> QED BY <2>1, <2>2 DEF Init, Inv, FanInv
<1>2. Inv /\ [Next]_vars => Inv'
  <2> SUFFICES ASSUME Inv, [Next]_vars PROVE Inv'
    OBVIOUS
  <2>0. TypeOK /\ FanInv /\ \A a \in Actors : FanIn(a)
    BY DEF Inv, FanInv
  <2>1. CASE ClockTicks \/ Expire
    <3>1. TypeOK'
      <4>1. CASE ClockTicks
        BY <2>0, <4>1 DEF ClockTicks, TypeOK, fan, cache
      <4>2. CASE Expire
        <5>1. fresh' = FALSE /\ UNCHANGED <<now, client, pc, fan, cached, cachedAt, panic>>
          BY <4>2, Zenon DEF Expire
        <5> QED BY <2>0, <5>1 DEF TypeOK, fan
      <4> QED BY <2>1, <4>1, <4>2
    <3>2. FanInv'
      BY <2>0, <2>1, QuietFan DEF ClockTicks, Expire, FanInv
    <3> QED BY <3>1, <3>2 DEF Inv
  <2>2. ASSUME NEW a \in Actors, NEW from \in {"idle", "list"}, NEW to \in {"idle", "list"},
               Goto(a, from, to), UNCHANGED <<now, client, fan, cache, panic>>
        PROVE  Inv'
    <3>1. TypeOK'
      BY <2>0, <2>2 DEF Goto, TypeOK, fan, cache
    <3>2. \A b \in Actors \ {a} : SameFan(b)
      BY <2>0, <2>2 DEF Goto, SameFan, fan, TypeOK
    <3>3. Active(a)' = Active(a)
      BY <2>2 DEF Active, fan
    <3>4. /\ pc'[a] = to
          /\ unspawned'[a] = unspawned[a] /\ wg'[a] = wg[a] /\ closer'[a] = closer[a]
          /\ closed'[a] = closed[a] /\ channel'[a] = channel[a] /\ metrics'[a] = metrics[a]
          /\ good'[a] = good[a]
      BY <2>0, <2>2 DEF Goto, fan, TypeOK
    <3>5. FanIn(a)
      BY <2>0
    <3>6. FanIn(a)'
      BY <2>2, <3>3, <3>4, <3>5 DEF FanIn, Goto, fan
    <3> QED BY <2>0, <2>2, <3>1, <3>2, <3>6, OneFan DEF Inv
  <2>3. CASE Tick \/ CollectDirectly
    BY <2>2, <2>3 DEF Tick, CollectDirectly, Actors
  <2>4. ASSUME NEW a \in Actors, ListFails(a) PROVE Inv'
    BY <2>2, <2>4 DEF ListFails
  <2>5. ASSUME NEW a \in Actors, ListAnswers(a) PROVE Inv'
    <3>1. TypeOK'
      BY <2>0, <2>5 DEF ListAnswers, Goto, TypeOK, cache
    <3>2. \A b \in Actors \ {a} : SameFan(b)
      BY <2>0, <2>5 DEF ListAnswers, Goto, SameFan, TypeOK
    <3>3. Active(a)' = Active(a) /\ Active(a) = {}
      BY <2>0, <2>5 DEF ListAnswers, Goto, Active, FanIn
    <3>4. \A k \in Containers : worker[a][k] = "off"
      BY <3>3 DEF Active
    <3>5. /\ pc[a] = "list" /\ pc'[a] = "spawn" /\ unspawned'[a] \subseteq Containers
          /\ wg'[a] = wg[a] /\ closer'[a] = closer[a] /\ worker' = worker
          /\ closed'[a] = closed[a] /\ channel'[a] = channel[a] /\ metrics'[a] = metrics[a]
          /\ good'[a] = good[a]
      BY <2>0, <2>5 DEF ListAnswers, Goto, TypeOK
    <3>6. FanIn(a)
      BY <2>0
    <3>7. FanIn(a)'
      BY <2>5, <3>3, <3>4, <3>5, <3>6 DEF FanIn, ListAnswers, Goto
    <3> QED BY <2>0, <2>5, <3>1, <3>2, <3>7, OneFan DEF Inv, ListAnswers
  <2>6. ASSUME NEW a \in Actors, NEW k \in Containers, Spawn(a, k) PROVE Inv'
    <3>1. worker[a][k] = "off" /\ SetWorker(a, k, "ask")
      BY <2>0, <2>6 DEF Spawn, FanIn
    <3>2. TypeOK'
      BY <2>0, <2>6, <3>1, ActiveCount DEF Spawn, TypeOK, cache
    <3>3. \A b \in Actors \ {a} : SameFan(b)
      BY <2>0, <2>6 DEF Spawn, SetWorker, SameFan, TypeOK
    <3>4. /\ Active(a)' = Active(a) \union {k}
          /\ Cardinality(Active(a)') = Cardinality(Active(a)) + 1
          /\ worker'[a][k] = "ask"
          /\ \A j \in Containers \ {k} : worker'[a][j] = worker[a][j]
      BY <2>0, <3>1, ActiveCount
    <3>5. /\ unspawned'[a] = unspawned[a] \ {k} /\ wg'[a] = wg[a] + 1
          /\ pc'[a] = pc[a] /\ closer'[a] = closer[a] /\ closed'[a] = closed[a]
          /\ channel'[a] = channel[a] /\ metrics'[a] = metrics[a] /\ good'[a] = good[a]
      BY <2>0, <2>6 DEF Spawn, TypeOK
    <3>6. FanIn(a)
      BY <2>0
    <3>7. FanIn(a)'
      <4>1. wg'[a] = Cardinality(Active(a)')
        BY <3>4, <3>5, <3>6 DEF FanIn
      <4>2. \A j \in Containers :
              j \in good'[a] <=> j \in metrics'[a] \/ j \in channel'[a] \/ worker'[a][j] = "send"
        BY <2>6, <3>1, <3>4, <3>5, <3>6 DEF FanIn
      <4>3. pc[a] = "spawn" /\ ~closed[a] /\ \A j \in unspawned'[a] : worker'[a][j] = "off"
        BY <2>0, <2>6, <3>1, <3>4, <3>5, <3>6 DEF FanIn, Spawn, TypeOK
      <4> QED BY <2>6, <3>1, <3>4, <3>5, <3>6, <4>1, <4>2, <4>3 DEF FanIn
    <3> QED BY <2>0, <2>6, <3>2, <3>3, <3>7, OneFan DEF Inv, Spawn
  <2>7. ASSUME NEW a \in Actors, SpawnedAll(a) PROVE Inv'
    <3>1. TypeOK'
      BY <2>0, <2>7 DEF SpawnedAll, Goto, TypeOK, cache
    <3>2. \A b \in Actors \ {a} : SameFan(b)
      BY <2>0, <2>7 DEF SpawnedAll, Goto, SameFan, TypeOK
    <3>3. Active(a)' = Active(a)
      BY <2>7 DEF SpawnedAll, Active
    <3>4. /\ pc'[a] = "gather" /\ closer'[a] = "wait"
          /\ unspawned'[a] = unspawned[a] /\ wg'[a] = wg[a] /\ closed'[a] = closed[a]
          /\ channel'[a] = channel[a] /\ metrics'[a] = metrics[a] /\ good'[a] = good[a]
      BY <2>0, <2>7 DEF SpawnedAll, Goto, TypeOK
    <3>5. FanIn(a)
      BY <2>0
    <3>6. FanIn(a)'
      BY <2>7, <3>3, <3>4, <3>5 DEF FanIn, SpawnedAll, Goto
    <3> QED BY <2>0, <2>7, <3>1, <3>2, <3>6, OneFan DEF Inv, SpawnedAll
  <2>8. ASSUME NEW a \in Actors, NEW k \in Containers, worker[a][k] # "off"
        PROVE  k \in Active(a) /\ ~closed[a] /\ wg[a] - 1 \in Nat
    <3>1. k \in Active(a) /\ ~closed[a]
      BY <2>0, <2>8 DEF Active, FanIn
    <3>2. wg[a] # 0 /\ wg[a] \in Nat
      BY <2>0, <3>1, ActiveFinite DEF FanIn
    <3> QED BY <3>1, <3>2
  <2>9. ASSUME NEW a \in Actors, NEW k \in Containers, AskFails(a, k) PROVE Inv'
    <3>1. worker[a][k] = "ask" /\ SetWorker(a, k, "off")
      BY <2>9 DEF AskFails
    <3>2. TypeOK'
      BY <2>0, <2>8, <2>9, <3>1, ActiveCount DEF AskFails, TypeOK, cache
    <3>3. \A b \in Actors \ {a} : SameFan(b)
      BY <2>0, <2>9 DEF AskFails, SetWorker, SameFan, TypeOK
    <3>4. /\ Active(a)' = Active(a) \ {k}
          /\ Cardinality(Active(a)') = Cardinality(Active(a)) - 1
          /\ worker'[a][k] = "off"
          /\ \A j \in Containers \ {k} : worker'[a][j] = worker[a][j]
      BY <2>0, <3>1, ActiveCount
    <3>5. /\ wg'[a] = wg[a] - 1
          /\ pc'[a] = pc[a] /\ unspawned'[a] = unspawned[a] /\ closer'[a] = closer[a]
          /\ closed'[a] = closed[a] /\ channel'[a] = channel[a] /\ metrics'[a] = metrics[a]
          /\ good'[a] = good[a]
      BY <2>0, <2>9 DEF AskFails, TypeOK
    <3>6. FanIn(a)
      BY <2>0
    <3>7. FanIn(a)'
      <4>1. wg'[a] = Cardinality(Active(a)')
        BY <3>4, <3>5, <3>6 DEF FanIn
      <4>2. \A j \in Containers :
              j \in good'[a] <=> j \in metrics'[a] \/ j \in channel'[a] \/ worker'[a][j] = "send"
        BY <3>1, <3>4, <3>5, <3>6 DEF FanIn
      <4>3. ~closed[a] /\ pc[a] \in {"spawn", "gather"}
        BY <2>8, <3>1, <3>6 DEF FanIn
      <4>4. unspawned[a] \subseteq Containers
        BY <2>0 DEF TypeOK
      <4>5. \A j \in unspawned'[a] : worker'[a][j] = "off"
        BY <3>1, <3>4, <3>5, <3>6, <4>4 DEF FanIn
      <4> QED BY <3>1, <3>4, <3>5, <3>6, <4>1, <4>2, <4>3, <4>5 DEF FanIn
    <3> QED BY <2>0, <2>9, <3>2, <3>3, <3>7, OneFan DEF Inv, AskFails
  <2>10. ASSUME NEW a \in Actors, NEW k \in Containers, AskSucceeds(a, k) PROVE Inv'
    <3>1. worker[a][k] # "off" /\ SetWorker(a, k, "send")
      BY <2>10 DEF AskSucceeds
    <3>2. TypeOK'
      BY <2>0, <2>10, <3>1, ActiveCount DEF AskSucceeds, TypeOK, cache
    <3>3. \A b \in Actors \ {a} : SameFan(b)
      BY <2>0, <2>10 DEF AskSucceeds, SetWorker, SameFan, TypeOK
    <3>4. /\ Active(a)' = Active(a) /\ worker'[a][k] = "send"
          /\ \A j \in Containers \ {k} : worker'[a][j] = worker[a][j]
      BY <2>0, <3>1, ActiveCount
    <3>5. /\ good'[a] = good[a] \union {k}
          /\ pc'[a] = pc[a] /\ unspawned'[a] = unspawned[a] /\ wg'[a] = wg[a]
          /\ closer'[a] = closer[a] /\ closed'[a] = closed[a] /\ channel'[a] = channel[a]
          /\ metrics'[a] = metrics[a]
      BY <2>0, <2>10 DEF AskSucceeds, TypeOK
    <3>6. FanIn(a)
      BY <2>0
    <3>7. FanIn(a)'
      <4>1. wg'[a] = Cardinality(Active(a)')
        BY <3>4, <3>5, <3>6 DEF FanIn
      <4>2. \A j \in Containers :
              j \in good'[a] <=> j \in metrics'[a] \/ j \in channel'[a] \/ worker'[a][j] = "send"
        BY <3>1, <3>4, <3>5, <3>6 DEF FanIn
      <4>3. ~closed[a] /\ pc[a] \in {"spawn", "gather"}
        BY <2>8, <3>1, <3>6 DEF FanIn
      <4>4. unspawned[a] \subseteq Containers
        BY <2>0 DEF TypeOK
      <4>5. \A j \in unspawned'[a] : worker'[a][j] = "off"
        BY <3>1, <3>4, <3>5, <3>6, <4>4 DEF FanIn
      <4> QED BY <3>1, <3>4, <3>5, <3>6, <4>1, <4>2, <4>3, <4>5 DEF FanIn
    <3> QED BY <2>0, <2>10, <3>2, <3>3, <3>7, OneFan DEF Inv, AskSucceeds
  <2>11. ASSUME NEW a \in Actors, NEW k \in Containers, NamelessPanics(a, k) PROVE Inv'
    <3>1. TypeOK'
      BY <2>0, <2>11 DEF NamelessPanics, TypeOK, fan, cache
    <3>2. FanInv'
      BY <2>0, <2>11, QuietFan DEF NamelessPanics
    <3> QED BY <3>1, <3>2 DEF Inv
  <2>12. ASSUME NEW a \in Actors, NEW k \in Containers, Send(a, k) PROVE Inv'
    <3>1. /\ worker[a][k] = "send" /\ SetWorker(a, k, "off") /\ UNCHANGED panic
          /\ channel' = [channel EXCEPT ![a] = @ \union {k}]
          /\ wg' = [wg EXCEPT ![a] = @ - 1]
      BY <2>8, <2>12 DEF Send
    <3>2. TypeOK'
      BY <2>0, <2>8, <2>12, <3>1, ActiveCount DEF Send, TypeOK, cache
    <3>3. \A b \in Actors \ {a} : SameFan(b)
      BY <2>0, <2>12, <3>1 DEF Send, SetWorker, SameFan, TypeOK
    <3>4. /\ Active(a)' = Active(a) \ {k}
          /\ Cardinality(Active(a)') = Cardinality(Active(a)) - 1
          /\ worker'[a][k] = "off"
          /\ \A j \in Containers \ {k} : worker'[a][j] = worker[a][j]
      BY <2>0, <3>1, ActiveCount
    <3>5. /\ wg'[a] = wg[a] - 1 /\ channel'[a] = channel[a] \union {k}
          /\ pc'[a] = pc[a] /\ unspawned'[a] = unspawned[a] /\ closer'[a] = closer[a]
          /\ closed'[a] = closed[a] /\ metrics'[a] = metrics[a] /\ good'[a] = good[a]
      BY <2>0, <2>12, <3>1 DEF Send, TypeOK
    <3>6. FanIn(a)
      BY <2>0
    <3>7. FanIn(a)'
      <4>1. wg'[a] = Cardinality(Active(a)')
        BY <3>4, <3>5, <3>6 DEF FanIn
      <4>2. \A j \in Containers :
              j \in good'[a] <=> j \in metrics'[a] \/ j \in channel'[a] \/ worker'[a][j] = "send"
        BY <3>1, <3>4, <3>5, <3>6 DEF FanIn
      <4>3. ~closed[a] /\ pc[a] \in {"spawn", "gather"}
        BY <2>8, <3>1, <3>6 DEF FanIn
      <4>4. unspawned[a] \subseteq Containers
        BY <2>0 DEF TypeOK
      <4>5. \A j \in unspawned'[a] : worker'[a][j] = "off"
        BY <3>1, <3>4, <3>5, <3>6, <4>4 DEF FanIn
      <4> QED BY <3>1, <3>4, <3>5, <3>6, <4>1, <4>2, <4>3, <4>5 DEF FanIn
    <3> QED BY <2>0, <3>1, <3>2, <3>3, <3>7, OneFan DEF Inv
  <2>13. ASSUME NEW a \in Actors, Close(a) PROVE Inv'
    <3>1. TypeOK'
      BY <2>0, <2>13 DEF Close, TypeOK, cache
    <3>2. \A b \in Actors \ {a} : SameFan(b)
      BY <2>0, <2>13 DEF Close, SameFan, TypeOK
    <3>3. Active(a)' = Active(a) /\ Active(a) = {}
      BY <2>0, <2>13, ActiveFinite DEF Close, Active, FanIn
    <3>4. /\ closer'[a] = "off" /\ closed'[a] = TRUE
          /\ pc'[a] = pc[a] /\ unspawned'[a] = unspawned[a] /\ wg'[a] = wg[a]
          /\ channel'[a] = channel[a] /\ metrics'[a] = metrics[a] /\ good'[a] = good[a]
      BY <2>0, <2>13 DEF Close, TypeOK
    <3>5. FanIn(a)
      BY <2>0
    <3>6. FanIn(a)'
      BY <2>13, <3>3, <3>4, <3>5 DEF FanIn, Close
    <3> QED BY <2>0, <2>13, <3>1, <3>2, <3>6, OneFan DEF Inv, Close
  <2>14. ASSUME NEW a \in Actors, Receive(a) PROVE Inv'
    <3>1. TypeOK'
      BY <2>0, <2>14 DEF Receive, TypeOK, cache
    <3>2. \A b \in Actors \ {a} : SameFan(b)
      BY <2>0, <2>14 DEF Receive, SameFan, TypeOK
    <3>3. Active(a)' = Active(a)
      BY <2>14 DEF Receive, Active
    <3>4. PICK k \in channel[a] :
            /\ channel' = [channel EXCEPT ![a] = @ \ {k}]
            /\ metrics' = [metrics EXCEPT ![a] = @ \union {k}]
      BY <2>14 DEF Receive
    <3>5. channel'[a] = channel[a] \ {k} /\ metrics'[a] = metrics[a] \union {k} /\ FanIn(a)
      BY <2>0, <3>4 DEF TypeOK
    <3>6. FanIn(a)'
      BY <2>14, <3>3, <3>5 DEF FanIn, Receive
    <3> QED BY <2>0, <2>14, <3>1, <3>2, <3>6, OneFan DEF Inv, Receive
  <2>15. ASSUME NEW a \in Actors, GatheredAll(a) PROVE Inv'
    <3>1. TypeOK'
      BY <2>0, <2>15 DEF GatheredAll, Goto, TypeOK, fan, cache
    <3>2. \A b \in Actors \ {a} : SameFan(b)
      BY <2>0, <2>15 DEF GatheredAll, Goto, SameFan, TypeOK, fan
    <3>3. Active(a)' = Active(a)
      BY <2>15 DEF GatheredAll, Active, fan
    <3>4. /\ pc'[a] = "return"
          /\ unspawned'[a] = unspawned[a] /\ wg'[a] = wg[a] /\ closer'[a] = closer[a]
          /\ closed'[a] = closed[a] /\ channel'[a] = channel[a] /\ metrics'[a] = metrics[a]
          /\ good'[a] = good[a]
      BY <2>0, <2>15 DEF GatheredAll, Goto, TypeOK, fan
    <3>5. FanIn(a)
      BY <2>0
    <3>6. FanIn(a)'
      BY <2>15, <3>3, <3>4, <3>5 DEF FanIn, GatheredAll, Goto, fan
    <3> QED BY <2>0, <2>15, <3>1, <3>2, <3>6, OneFan DEF Inv, GatheredAll
  <2>16. ASSUME NEW a \in Actors, Return(a) PROVE Inv'
    <3>1. Forget(a) /\ (FillCache(a) \/ UNCHANGED cache)
      BY <2>16 DEF Return
    <3>2. TypeOK'
      <4>1. cached' \in BOOLEAN /\ cachedAt' \in Nat \union {-1} /\ fresh' \in BOOLEAN
        <5>1. CASE FillCache(a)
          <6>1. cached' = (metrics[a] # {}) /\ fresh' = TRUE /\ cachedAt' = listedAt[a]
            BY <5>1, Zenon DEF FillCache
          <6>2. cachedAt' \in Nat
            BY <2>0, <6>1 DEF TypeOK
          <6>3. cached' \in BOOLEAN /\ fresh' \in BOOLEAN
            BY <6>1, Zenon
          <6> QED BY <6>2, <6>3
        <5>2. CASE UNCHANGED cache
          BY <2>0, <5>2 DEF cache, TypeOK
        <5> QED BY <3>1, <5>1, <5>2
      <4> QED BY <2>0, <3>1, <4>1 DEF Forget, Goto, TypeOK
    <3>3. \A b \in Actors \ {a} : SameFan(b)
      BY <2>0, <3>1 DEF Forget, Goto, SameFan, TypeOK
    <3>4. Active(a)' = Active(a) /\ pc[a] = "return" /\ UNCHANGED <<worker, wg, unspawned, closer>>
      BY <3>1 DEF Forget, Goto, Active
    <3>5. FanIn(a)
      BY <2>0
    <3>6. Active(a)' = Active(a) /\ Active(a) = {} /\ unspawned[a] = {} /\ closer[a] = "off"
      BY <3>4, <3>5 DEF FanIn
    <3>7. \A k \in Containers : worker[a][k] = "off"
      BY <3>6 DEF Active
    <3>8. /\ pc'[a] = "idle" /\ channel'[a] = {} /\ closed'[a] = FALSE /\ metrics'[a] = {} /\ good'[a] = {}
          /\ unspawned'[a] = unspawned[a] /\ wg'[a] = wg[a] /\ closer'[a] = closer[a]
      BY <2>0, <3>1 DEF Forget, Goto, TypeOK
    <3>9. FanIn(a)
      BY <2>0
    <3>10. FanIn(a)'
      BY <3>1, <3>6, <3>7, <3>8, <3>9 DEF FanIn, Forget
    <3> QED BY <2>0, <3>1, <3>2, <3>3, <3>10, OneFan DEF Inv, Forget
  <2>17. CASE UNCHANGED vars
    <3>1. TypeOK'
      BY <2>0, <2>17 DEF vars, TypeOK, fan, cache
    <3>2. FanInv'
      BY <2>0, <2>17, QuietFan DEF vars, FanInv
    <3> QED BY <3>1, <3>2 DEF Inv
  <2>18. CASE \E a \in Actors : Run(a)
    BY <2>18, <2>6, <2>7, <2>13, <2>14, <2>15, <2>16 DEF Run
  <2>19. CASE \E a \in Actors : Docker(a)
    BY <2>19, <2>4, <2>5, <2>9, <2>10, <2>11 DEF Docker
  <2> QED
    BY <2>1, <2>3, <2>12, <2>17, <2>18, <2>19 DEF Next, Alive
<1> QED BY <1>1, <1>2, PTL DEF Spec

-----------------------------------------------------------------------------
\* The buffer of metricsChan has a place for every goroutine: what is in it, is
\* being asked for or is not started yet are different containers of the list.
Buffered(a) ==
  /\ unspawned[a] \subseteq listed[a] \ channel[a] /\ channel[a] \subseteq listed[a]
  /\ \A k \in Containers : worker[a][k] # "off" => k \in listed[a] \ channel[a]

\* A goroutine that sends finds room in the buffer.
SendNeverBlocks ==
  \A a \in Actors, k \in Containers :
    worker[a][k] = "send" => Cardinality(channel[a]) < Cardinality(listed[a])

\* Of a step, what it leaves alone of the other collection's buffer.
SameBuffer(b) ==
  /\ unspawned'[b] = unspawned[b] /\ worker'[b] = worker[b]
  /\ channel'[b] = channel[b] /\ listed'[b] = listed[b]

\* Every step of the two collections keeps a place for every goroutine.
LEMMA BufferedKept ==
  ASSUME Inv, \A a \in Actors : Buffered(a), [Next]_vars
  PROVE  \A a \in Actors : Buffered(a)'
<1>0. TypeOK /\ \A a \in Actors : FanIn(a)
  BY DEF Inv, FanInv
<1>1. ASSUME NEW b \in Actors, SameBuffer(b) PROVE Buffered(b)'
  BY <1>1 DEF SameBuffer, Buffered
<1>2. CASE UNCHANGED fan
  BY <1>1, <1>2 DEF fan, SameBuffer
<1>3. ASSUME NEW a \in Actors, ListAnswers(a), NEW b \in Actors PROVE Buffered(b)'
  <2>1. CASE b # a
    BY <1>0, <1>1, <1>3, <2>1 DEF ListAnswers, SameBuffer, TypeOK
  <2>2. CASE b = a
    <3>1. pc[a] = "list" /\ FanIn(a)
      BY <1>0, <1>3 DEF ListAnswers, Goto
    <3>2. channel[a] = {} /\ Active(a) = {}
      BY <3>1 DEF FanIn
    <3>3. \A k \in Containers : worker[a][k] = "off"
      BY <3>2 DEF Active
    <3> QED BY <1>0, <1>3, <2>2, <3>2, <3>3 DEF ListAnswers, Buffered, TypeOK
  <2> QED BY <2>1, <2>2
<1>4. ASSUME NEW a \in Actors, NEW k \in Containers, NEW b \in Actors,
             Spawn(a, k) \/ AskFails(a, k) \/ AskSucceeds(a, k)
      PROVE  Buffered(b)'
  <2>1. /\ channel' = channel /\ listed' = listed
        /\ unspawned'[b] \subseteq unspawned[b]
        /\ \A j \in Containers : worker'[b][j] = worker[b][j] \/ (b = a /\ j = k)
        /\ worker[a][k] # "off" \/ k \in unspawned[a]
    BY <1>0, <1>4 DEF Spawn, AskFails, AskSucceeds, SetWorker, TypeOK
  <2>2. Buffered(b) /\ Buffered(a)
    OBVIOUS
  <2> QED BY <2>1, <2>2 DEF Buffered
<1>5. ASSUME NEW a \in Actors, NEW k \in Containers, Send(a, k), NEW b \in Actors
      PROVE  Buffered(b)'
  <2>1. CASE closed[a]
    BY <1>1, <1>5, <2>1 DEF Send, SameBuffer
  <2>2. CASE ~closed[a]
    <3>1. /\ listed' = listed /\ unspawned' = unspawned
          /\ worker[a][k] = "send" /\ worker'[a][k] = "off" /\ channel'[a] = channel[a] \union {k}
          /\ \A j \in Containers \ {k} : worker'[a][j] = worker[a][j]
          /\ b # a => channel'[b] = channel[b] /\ worker'[b] = worker[b]
      BY <1>0, <1>5, <2>2 DEF Send, SetWorker, TypeOK
    <3>2. k \notin unspawned[a]
      BY <1>0, <3>1 DEF FanIn
    <3> QED BY <1>1, <3>1, <3>2 DEF Buffered, SameBuffer
  <2> QED BY <2>1, <2>2
<1>6. ASSUME NEW a \in Actors, Receive(a), NEW b \in Actors PROVE Buffered(b)'
  <2>1. UNCHANGED <<listed, unspawned, worker>> /\ channel'[b] \subseteq channel[b]
    BY <1>0, <1>6 DEF Receive, TypeOK
  <2> QED BY <2>1 DEF Buffered
<1>7. ASSUME NEW a \in Actors, Return(a), NEW b \in Actors PROVE Buffered(b)'
  <2>1. CASE b # a
    BY <1>0, <1>1, <1>7, <2>1 DEF Return, Forget, SameBuffer, TypeOK
  <2>2. CASE b = a
    <3>1. pc[a] = "return" /\ FanIn(a)
      BY <1>0, <1>7 DEF Return, Forget, Goto
    <3>2. unspawned[a] = {} /\ Active(a) = {}
      BY <3>1 DEF FanIn
    <3>3. \A k \in Containers : worker[a][k] = "off"
      BY <3>2 DEF Active
    <3> QED BY <1>0, <1>7, <2>2, <3>2, <3>3 DEF Return, Forget, Buffered, TypeOK
  <2> QED BY <2>1, <2>2
<1>8. ASSUME NEW a \in Actors, SpawnedAll(a) \/ Close(a), NEW b \in Actors PROVE Buffered(b)'
  BY <1>1, <1>8 DEF SpawnedAll, Close, SameBuffer
<1>9. CASE \E a \in Actors : Run(a)
  BY <1>2, <1>4, <1>6, <1>7, <1>8, <1>9 DEF Run, GatheredAll
<1>10. CASE \E a \in Actors : Docker(a)
  BY <1>2, <1>3, <1>4, <1>10 DEF Docker, ListFails, NamelessPanics
<1> QED
  BY <1>2, <1>5, <1>9, <1>10
  DEF Next, Alive, ClockTicks, Tick, Expire, CollectDirectly, vars

\* The buffer of len(containers) is always large enough (container.go:167): no
\* goroutine waits in its send for the gathering loop, which is what lets
\* wg.Wait return and the channel be closed.
THEOREM SendNeverBlocksHolds == Spec => []SendNeverBlocks
<1> DEFINE Room == \A a \in Actors : Buffered(a)
<1>1. Init => Room
  BY DEF Init, Clear, Buffered
<1>2. Inv /\ Room /\ [Next]_vars => Room'
  BY BufferedKept
<1>3. Inv /\ Room => SendNeverBlocks
  <2> SUFFICES ASSUME Inv, Room, NEW a \in Actors, NEW k \in Containers, worker[a][k] = "send"
               PROVE  Cardinality(channel[a]) < Cardinality(listed[a])
    BY DEF SendNeverBlocks
  <2>1. channel[a] \subseteq listed[a] /\ k \in listed[a] \ channel[a] /\ listed[a] \subseteq Containers
    BY DEF Buffered, Inv, TypeOK
  <2>2. IsFiniteSet(listed[a])
    BY <2>1, ContainersAssumption, FS_Subset
  <2>3. Cardinality(channel[a]) <= Cardinality(listed[a])
        /\ Cardinality(channel[a]) # Cardinality(listed[a])
        /\ Cardinality(channel[a]) \in Nat /\ Cardinality(listed[a]) \in Nat
    BY <2>1, <2>2, FS_Subset, FS_CardinalityType
  <2> QED BY <2>3
<1> QED BY <1>1, <1>2, <1>3, InvHolds, PTL DEF Spec

-----------------------------------------------------------------------------
\* No goroutine sends on the closed metricsChan: wg.Wait returns only when the
\* last deferred wg.Done has run, for every finite set of containers.
THEOREM NoChannelPanicHolds == Spec => []NoChannelPanic
<1>1. Inv => NoChannelPanic
  BY DEF Inv, FanInv, NoChannelPanic
<1> QED BY <1>1, InvHolds, PTL

\* A collection returns exactly the metrics that were built: the range over
\* metricsChan ends after the last of them has been received.
THEOREM GatheredExactlyHolds == Spec => []GatheredExactly
<1>1. Inv => GatheredExactly
  <2> SUFFICES ASSUME Inv, NEW a \in Actors, pc[a] = "return" PROVE metrics[a] = good[a]
    BY DEF GatheredExactly
  <2>1. FanIn(a) /\ metrics[a] \subseteq Containers /\ good[a] \subseteq Containers
    BY DEF Inv, FanInv, TypeOK
  <2>2. channel[a] = {} /\ Active(a) = {}
    BY <2>1 DEF FanIn
  <2>3. \A k \in Containers : worker[a][k] = "off"
    BY <2>2 DEF Active
  <2>4. \A k \in Containers : k \in good[a] <=> k \in metrics[a]
    BY <2>1, <2>2, <2>3 DEF FanIn
  <2> QED BY <2>1, <2>4
<1> QED BY <1>1, InvHolds, PTL

\* What a step does to the dates: the clock ticks, the background loop lists,
\* a collection returns, or they stay as they are.
Dates ==
  \/ ClockTicks
  \/ \E a \in Actors : ListAnswers(a)
  \/ \E a \in Actors : Return(a)
  \/ /\ UNCHANGED <<now, listedAt, cachedAt>>
     /\ pc'["background"] \in {"spawn", "gather", "return"} =>
          pc["background"] \in {"spawn", "gather", "return"}

\* Every step of the collector is one of those.
LEMMA StepDates ==
  ASSUME TypeOK, [Next]_vars
  PROVE  Dates
<1>1. CASE Tick \/ Expire \/ CollectDirectly
  BY <1>1 DEF Tick, Expire, CollectDirectly, Goto, fan, cache, Dates, TypeOK, Actors
<1>2. CASE \E a \in Actors : Docker(a)
  <2> SUFFICES ASSUME NEW a \in Actors, Docker(a) PROVE Dates
    BY <1>2
  <2>1. CASE ListFails(a)
    BY <2>1 DEF ListFails, Goto, fan, cache, Dates, TypeOK, Actors
  <2>2. CASE ListAnswers(a)
    BY <2>2 DEF Dates
  <2>3. ASSUME NEW k \in Containers, AskFails(a, k) \/ AskSucceeds(a, k) \/ NamelessPanics(a, k)
        PROVE  Dates
    BY <2>3 DEF AskFails, AskSucceeds, NamelessPanics, fan, cache, Dates
  <2> QED BY <2>1, <2>2, <2>3 DEF Docker
<1>3. CASE \E a \in Actors : Run(a)
  <2> SUFFICES ASSUME NEW a \in Actors, Run(a) PROVE Dates
    BY <1>3
  <2>1. CASE SpawnedAll(a) \/ GatheredAll(a)
    BY <2>1 DEF SpawnedAll, GatheredAll, Goto, fan, cache, Dates, TypeOK, Actors
  <2>2. CASE Close(a) \/ Receive(a)
    BY <2>2 DEF Close, Receive, cache, Dates
  <2>3. CASE Return(a)
    BY <2>3 DEF Dates
  <2>4. ASSUME NEW k \in Containers, Spawn(a, k) PROVE Dates
    BY <2>4 DEF Spawn, cache, Dates
  <2> QED BY <2>1, <2>2, <2>3, <2>4 DEF Run
<1>4. ASSUME NEW a \in Actors, NEW k \in Containers, Send(a, k) PROVE Dates
  BY <1>4 DEF Send, cache, Dates
<1>5. CASE UNCHANGED vars
  BY <1>5 DEF vars, fan, cache, Dates
<1>6. CASE ClockTicks
  BY <1>6 DEF Dates
<1> QED BY <1>1, <1>2, <1>3, <1>4, <1>5, <1>6 DEF Next, Alive

\* The dates stay in order, and the cache is only ever replaced by one of the
\* same date or a later one.
LEMMA DatesInOrder ==
  ASSUME TypeOK, CacheOrder, Dates
  PROVE  CacheOrder' /\ cachedAt' >= cachedAt
<1>0. "background" \in Actors /\ listedAt["background"] \in Nat /\ now \in Nat
      /\ cachedAt \in Nat \union {-1}
  BY DEF TypeOK, Actors
<1>1. CASE ClockTicks
  BY <1>0, <1>1 DEF ClockTicks, fan, cache, CacheOrder
<1>2. ASSUME NEW a \in Actors, ListAnswers(a) PROVE CacheOrder' /\ cachedAt' >= cachedAt
  <2>1. /\ UNCHANGED <<now, cachedAt>>
        /\ a = "background" => listedAt'["background"] = now
        /\ a # "background" => listedAt'["background"] = listedAt["background"]
                               /\ pc'["background"] = pc["background"]
    BY <1>0, <1>2 DEF ListAnswers, Goto, cache, TypeOK
  <2> QED BY <1>0, <2>1 DEF CacheOrder
<1>3. ASSUME NEW a \in Actors, Return(a) PROVE CacheOrder' /\ cachedAt' >= cachedAt
  <2>1. CASE a = "background"
    <3>1. /\ pc["background"] = "return" /\ pc'["background"] = "idle" /\ now' = now
          /\ listedAt'["background"] = 0 /\ cachedAt' = listedAt["background"]
      BY <1>0, <1>3, <2>1 DEF Return, Forget, FillCache, Goto, TypeOK
    <3> QED BY <1>0, <3>1 DEF CacheOrder
  <2>2. CASE a # "background"
    <3>1. /\ pc'["background"] = pc["background"] /\ UNCHANGED <<now, cachedAt>>
          /\ listedAt'["background"] = listedAt["background"]
      BY <1>0, <1>3, <2>2 DEF Return, Forget, Goto, cache, TypeOK
    <3> QED BY <1>0, <3>1 DEF CacheOrder
  <2> QED BY <2>1, <2>2
<1>4. CASE UNCHANGED <<now, listedAt, cachedAt>>
           /\ (pc'["background"] \in {"spawn", "gather", "return"} =>
                 pc["background"] \in {"spawn", "gather", "return"})
  BY <1>0, <1>4 DEF CacheOrder
<1> QED BY <1>1, <1>2, <1>3, <1>4 DEF Dates

\* The cached metrics never go back in time: a direct Collect may overlap the
\* background loop, but only the loop stores, one collection after the other.
THEOREM CacheNeverOlderHolds == Spec => CacheNeverOlder
<1>1. Init => CacheOrder
  BY DEF Init, CacheOrder, Actors
<1>2. TypeOK /\ CacheOrder /\ [Next]_vars => CacheOrder' /\ cachedAt' >= cachedAt
  BY StepDates, DatesInOrder
<1>3. Inv => TypeOK
  BY DEF Inv
<1>4. TypeOK /\ CacheOrder /\ [Next]_vars => [cachedAt' >= cachedAt]_vars
  BY <1>2
<1> QED BY <1>1, <1>2, <1>3, <1>4, InvHolds, PTL DEF Spec, CacheNeverOlder
=============================================================================
