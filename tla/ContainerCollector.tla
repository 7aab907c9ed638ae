------------------------ MODULE ContainerCollector ------------------------
(***************************************************************************)
(* ContainerCollector of internal/collectors/container.go.  The background *)
(* loop and the Collect call of the current round both run                 *)
(* collectContainerMetrics: it lists the containers, starts one goroutine  *)
(* for each, which asks Docker about it and sends the metric on a buffered *)
(* channel, and one goroutine that closes the channel when all of them are *)
(* done; meanwhile it gathers what the channel delivers.                   *)
(*                                                                         *)
(* A metric is the container it describes.  A collection is dated by the   *)
(* clock at its list of containers.                                        *)
(***************************************************************************)
EXTENDS Integers, FiniteSets, Goroutines

CONSTANTS
  Containers,   \* the containers that may exist
  MaxClock      \* bound on the clock

ASSUME ContainersAssumption == IsFiniteSet(Containers)
ASSUME MaxClockAssumption == MaxClock \in Nat


VARIABLES
  now,       \* the clock
  client,    \* c.dockerClient is not nil
  listedAt,  \* listedAt[a]: the date of its containers
  listed,    \* listed[a]: containers
  unspawned, \* unspawned[a]: containers the range has not reached yet
  worker,    \* worker[a][k]: the goroutine of container k
  wg,        \* wg[a]: the WaitGroup's counter
  closer,    \* closer[a]: the goroutine that closes the channel
  channel,   \* channel[a]: the metrics in metricsChan
  closed,    \* closed[a]: metricsChan is closed
  metrics,   \* metrics[a]: those gathered
  good,      \* history: the containers whose metric was built
  cached,    \* c.cachedMetrics is not nil
  cachedAt,  \* its date, -1 before the first
  fresh,     \* time.Since(c.cachedTime) < c.cacheDuration
  panic      \* why the process died: "no", "nameless" or "channel"

fan == <<listedAt, listed, unspawned, worker, wg, closer, channel, closed, metrics, good>>
cache == <<cached, cachedAt, fresh>>
vars == <<now, client, pc, fan, cache, panic>>

TypeOK ==
  /\ now \in Nat
  /\ client \in BOOLEAN
  /\ pc \in [Actors -> {"idle", "list", "spawn", "gather", "return"}]
  /\ listedAt \in [Actors -> Nat]
  /\ listed \in [Actors -> SUBSET Containers]
  /\ unspawned \in [Actors -> SUBSET Containers]
  /\ worker \in [Actors -> [Containers -> {"off", "ask", "send"}]]
  /\ wg \in [Actors -> Nat]
  /\ closer \in [Actors -> {"off", "wait"}]
  /\ channel \in [Actors -> SUBSET Containers]
  /\ closed \in [Actors -> BOOLEAN]
  /\ metrics \in [Actors -> SUBSET Containers]
  /\ good \in [Actors -> SUBSET Containers]
  /\ cached \in BOOLEAN
  /\ cachedAt \in Nat \union {-1}
  /\ fresh \in BOOLEAN
  /\ panic \in {"no", "nameless", "channel"}

Clear == [a \in Actors |-> {}]

\* NewContainerCollector, with or without a client; the background loop is
\* started only with one, and collects at once.
Init ==
  /\ now = 0
  /\ client \in BOOLEAN
  /\ pc = [a \in Actors |-> IF a = "background" /\ client THEN "list" ELSE "idle"]
  /\ listedAt = [a \in Actors |-> 0]
  /\ listed = Clear /\ unspawned = Clear
  /\ worker = [a \in Actors |-> [k \in Containers |-> "off"]]
  /\ wg = [a \in Actors |-> 0]
  /\ closer = [a \in Actors |-> "off"]
  /\ channel = Clear
  /\ closed = [a \in Actors |-> FALSE]
  /\ metrics = Clear /\ good = Clear
  /\ cached = FALSE /\ cachedAt = -1
  /\ fresh = FALSE
  /\ panic = "no"

SetWorker(a, k, to) == worker' = [worker EXCEPT ![a][k] = to]

-----------------------------------------------------------------------------
ClockTicks ==
  /\ now < MaxClock
  /\ now' = now + 1
  /\ UNCHANGED <<client, pc, fan, cache, panic>>

Tick ==
  /\ client
  /\ Goto("background", "idle", "list")
  /\ UNCHANGED <<now, client, fan, cache, panic>>

Expire ==
  /\ fresh
  /\ fresh' = FALSE
  /\ UNCHANGED <<now, client, pc, fan, cached, cachedAt, panic>>

\* Collect goes to Docker: there is a client and the cache is not valid, which
\* it never is after a collection that found nothing.  In the other cases it
\* returns at once, with the cache or with nothing, and changes nothing.
CollectDirectly ==
  /\ client
  /\ ~(fresh /\ cached)
  /\ Goto("collect", "idle", "list")
  /\ UNCHANGED <<now, client, fan, cache, panic>>

-----------------------------------------------------------------------------
\* ContainerList fails: the collection ends without a result.
ListFails(a) ==
  /\ Goto(a, "list", "idle")
  /\ UNCHANGED <<now, client, fan, cache, panic>>

\* ContainerList answers; a fresh WaitGroup, channel and result.
ListAnswers(a) ==
  /\ Goto(a, "list", "spawn")
  /\ \E found \in SUBSET Containers :
       /\ listed' = [listed EXCEPT ![a] = found]
       /\ unspawned' = [unspawned EXCEPT ![a] = found]
  /\ listedAt' = [listedAt EXCEPT ![a] = now]
  /\ UNCHANGED <<now, client, worker, wg, closer, channel, closed, metrics, good, cache, panic>>

\* wg.Add(1) and the go statement.
Spawn(a, k) ==
  /\ pc[a] = "spawn" /\ k \in unspawned[a]
  /\ unspawned' = [unspawned EXCEPT ![a] = @ \ {k}]
  /\ wg' = [wg EXCEPT ![a] = @ + 1]
  /\ SetWorker(a, k, "ask")
  /\ UNCHANGED <<now, client, pc, listedAt, listed, closer, channel, closed, metrics, good, cache, panic>>

\* The range is over: the closing goroutine is started.
SpawnedAll(a) ==
  /\ unspawned[a] = {}
  /\ Goto(a, "spawn", "gather")
  /\ closer' = [closer EXCEPT ![a] = "wait"]
  /\ UNCHANGED <<now, client, listedAt, listed, unspawned, worker, wg, channel, closed, metrics, good, cache, panic>>

\* Mutation: wg.Done is not deferred, and a failing goroutine leaves without.
AskFailsUncounted(a, k) ==
  /\ worker[a][k] = "ask"
  /\ SetWorker(a, k, "off")
  /\ UNCHANGED <<now, client, pc, listedAt, listed, unspawned, wg, closer, channel, closed, metrics, good, cache, panic>>

\* ContainerInspect, ContainerStats, the reading or the parsing of the body
\* fails: the goroutine returns without a metric, and its deferred wg.Done runs.
AskFails(a, k) ==
  /\ worker[a][k] = "ask"
  /\ SetWorker(a, k, "off")
  /\ wg' = [wg EXCEPT ![a] = @ - 1]
  /\ UNCHANGED <<now, client, pc, listedAt, listed, unspawned, closer, channel, closed, metrics, good, cache, panic>>

\* All four succeed and the metric is built.
AskSucceeds(a, k) ==
  /\ worker[a][k] = "ask"
  /\ SetWorker(a, k, "send")
  /\ good' = [good EXCEPT ![a] = @ \union {k}]
  /\ UNCHANGED <<now, client, pc, listedAt, listed, unspawned, wg, closer, channel, closed, metrics, cache, panic>>

\* All four succeed, but the list gave the container no name: cont.Names[0].
NamelessPanics(a, k) ==
  /\ worker[a][k] = "ask"
  /\ panic' = "nameless"
  /\ UNCHANGED <<now, client, pc, fan, cache>>

\* metricsChan <- metric, into a buffer of len(containers), and the deferred
\* wg.Done.
Send(a, k) ==
  /\ worker[a][k] = "send"
  /\ IF closed[a] THEN panic' = "channel" /\ UNCHANGED <<worker, channel, wg>>
     ELSE /\ Cardinality(channel[a]) < Cardinality(listed[a])
          /\ channel' = [channel EXCEPT ![a] = @ \union {k}]
          /\ SetWorker(a, k, "off")
          /\ wg' = [wg EXCEPT ![a] = @ - 1]
          /\ UNCHANGED panic
  /\ UNCHANGED <<now, client, pc, listedAt, listed, unspawned, closer, closed, metrics, good, cache>>

\* Mutation: the channel is closed without wg.Wait.
CloseUnawaited(a) ==
  /\ closer[a] = "wait"
  /\ closer' = [closer EXCEPT ![a] = "off"]
  /\ closed' = [closed EXCEPT ![a] = TRUE]
  /\ UNCHANGED <<now, client, pc, listedAt, listed, unspawned, worker, wg, channel, metrics, good, cache, panic>>

\* wg.Wait returns, close(metricsChan).
Close(a) ==
  /\ closer[a] = "wait" /\ wg[a] = 0
  /\ closer' = [closer EXCEPT ![a] = "off"]
  /\ closed' = [closed EXCEPT ![a] = TRUE]
  /\ UNCHANGED <<now, client, pc, listedAt, listed, unspawned, worker, wg, channel, metrics, good, cache, panic>>

Receive(a) ==
  /\ pc[a] = "gather"
  /\ \E k \in channel[a] :
       /\ channel' = [channel EXCEPT ![a] = @ \ {k}]
       /\ metrics' = [metrics EXCEPT ![a] = @ \union {k}]
  /\ UNCHANGED <<now, client, pc, listedAt, listed, unspawned, worker, wg, closer, closed, good, cache, panic>>

\* Mutation: the range stops as soon as the channel is closed.
GatheredAllEarly(a) ==
  /\ closed[a]
  /\ Goto(a, "gather", "return")
  /\ UNCHANGED <<now, client, fan, cache, panic>>

\* The range ends: the channel is closed and drained.
GatheredAll(a) ==
  /\ closed[a] /\ channel[a] = {}
  /\ Goto(a, "gather", "return")
  /\ UNCHANGED <<now, client, fan, cache, panic>>

\* What the collection leaves behind of its locals: nothing.
Forget(a) ==
  /\ Goto(a, "return", "idle")
  /\ listedAt' = [listedAt EXCEPT ![a] = 0]
  /\ listed' = [listed EXCEPT ![a] = {}]
  /\ channel' = [channel EXCEPT ![a] = {}]
  /\ closed' = [closed EXCEPT ![a] = FALSE]
  /\ metrics' = [metrics EXCEPT ![a] = {}]
  /\ good' = [good EXCEPT ![a] = {}]
  /\ UNCHANGED <<now, client, unspawned, worker, wg, closer, panic>>

\* A collection without a metric has a nil slice.
FillCache(a) == cached' = (metrics[a] # {}) /\ cachedAt' = listedAt[a] /\ fresh' = TRUE

\* Mutation: Collect fills the cache as well.
ReturnStoring(a) == Forget(a) /\ FillCache(a)

\* collectAndCache stores the metrics under the lock, Collect only returns them.
Return(a) ==
  /\ Forget(a)
  /\ IF a = "background" THEN FillCache(a) ELSE UNCHANGED cache

\* Steps of the program, and answers of Docker.
Run(a) ==
  \/ SpawnedAll(a) \/ Close(a) \/ Receive(a) \/ GatheredAll(a) \/ Return(a)
  \/ \E k \in Containers : Spawn(a, k)
Docker(a) ==
  \/ ListFails(a) \/ ListAnswers(a)
  \/ \E k \in Containers : AskFails(a, k) \/ AskSucceeds(a, k) \/ NamelessPanics(a, k)

\* A step of a process that is alive.
Alive(A) == panic = "no" /\ A

Next ==
  \/ Alive(ClockTicks)
  \/ Alive(Tick)
  \/ Alive(Expire)
  \/ Alive(CollectDirectly)
  \/ \E a \in Actors : Alive(Run(a))
  \/ \E a \in Actors : Alive(Docker(a))
  \/ \E a \in Actors, k \in Containers : Alive(Send(a, k))

\* Goroutines are scheduled; nothing is assumed of Docker, as the requests
\* carry a context without a deadline.
Fairness ==
  \A a \in Actors : WF_vars(Alive(Run(a)))
    /\ \A k \in Containers : WF_vars(Alive(Send(a, k)))

Spec == Init /\ [][Next]_vars
FairSpec == Spec /\ Fairness

-----------------------------------------------------------------------------
\* No goroutine sends on the closed channel, however many of the others fail
\* and in whichever order they and the closing goroutine run.
NoChannelPanic == panic # "channel"

\* What a collection returns is exactly the containers Docker answered for:
\* a container that fails is left out, none that succeeded is missed.
GatheredExactly == \A a \in Actors : pc[a] = "return" => metrics[a] = good[a]

\* The cache never goes back in time: although two collections overlap, only
\* the background loop stores (container.go:120-123; Collect does not).
CacheNeverOlder == [][cachedAt' >= cachedAt]_vars

\* Docker is asked for something and has not answered.
Owing(a) == pc[a] = "list" \/ \E k \in Containers : worker[a][k] = "ask"

\* Collections go on ending unless Docker owes one of them an answer for ever
\* (the contexts have no deadline, container.go:160) or the process has died:
\* the fan-in itself never waits for a goroutine that has failed.
EndsUnlessDockerSilent ==
  \A a \in Actors : []<>(pc[a] = "idle") \/ <>[]Owing(a) \/ <>(panic # "no")
=============================================================================
