-------------------------- MODULE MemoryCollector --------------------------
(***************************************************************************)
(* MemoryCollector of internal/collectors/memory.go.  As in                *)
(* SystemCollector, the background loop and the Collect call of the        *)
(* current round share a cache; here a sync.Once loads the static part     *)
(* (memory and swap size, slots) and puts it into the cache itself.        *)
(***************************************************************************)
EXTENDS StaticInfo

VARIABLE collectStaticOnce   \* the sync.Once: "new", "busy" or "done"

cache == <<cachedInfo, fresh>>
vars == <<cache, staticInfoLoaded, collectStaticOnce, pc, info, reply, mishaps>>

TypeOK ==
  /\ cachedInfo \in Info
  /\ fresh \in BOOLEAN
  /\ staticInfoLoaded \in BOOLEAN
  /\ collectStaticOnce \in {"new", "busy", "done"}
  /\ pc \in [Actors -> {"idle", "once", "static", "copy", "dynamic", "store"}]
  /\ info \in [Actors -> Info]
  /\ result \in {"pending", "error", "ok"}
  /\ answer \in Info
  /\ mishaps \subseteq Mishaps

\* NewMemoryCollector
Init ==
  /\ cachedInfo = Empty
  /\ fresh = FALSE
  /\ staticInfoLoaded = FALSE
  /\ collectStaticOnce = "new"
  /\ pc = [a \in Actors |-> "idle"]
  /\ info = [a \in Actors |-> Empty]
  /\ result = "pending"
  /\ answer = Empty
  /\ mishaps = {}

-----------------------------------------------------------------------------
\* The background loop wakes up.
Wake ==
  /\ Goto("background", "idle", "once")
  /\ UNCHANGED <<cache, staticInfoLoaded, collectStaticOnce, info, reply, mishaps>>

\* Mutation: Collect trusts a loaded cache without looking at its age.
CollectFromLoaded ==
  /\ pc["collect"] = "idle"
  /\ staticInfoLoaded
  /\ result' = "ok" /\ answer' = cachedInfo
  /\ UNCHANGED <<cache, staticInfoLoaded, collectStaticOnce, pc, info, mishaps>>

\* Collect on a valid cache that has the static part.
CollectFromCache ==
  /\ pc["collect"] = "idle"
  /\ fresh /\ staticInfoLoaded
  /\ result' = "ok" /\ answer' = cachedInfo
  /\ UNCHANGED <<cache, staticInfoLoaded, collectStaticOnce, pc, info, mishaps>>

CollectDirectly ==
  /\ Goto("collect", "idle", "once")
  /\ ~(fresh /\ staticInfoLoaded)
  /\ result' = "pending"
  /\ UNCHANGED <<cache, staticInfoLoaded, collectStaticOnce, info, answer, mishaps>>

\* collectStaticOnce.Do: the first caller runs the function.
OnceFirst(a) ==
  /\ Goto(a, "once", "static")
  /\ collectStaticOnce = "new"
  /\ collectStaticOnce' = "busy"
  /\ UNCHANGED <<cache, staticInfoLoaded, info, reply, mishaps>>

\* Mutation: later callers do not wait for the first one.
OnceUnawaited(a) ==
  /\ Goto(a, "once", "copy")
  /\ collectStaticOnce # "new"
  /\ UNCHANGED <<cache, staticInfoLoaded, collectStaticOnce, info, reply, mishaps>>

\* Every other caller waits until the first one has returned.
OnceLater(a) ==
  /\ Goto(a, "once", "copy")
  /\ collectStaticOnce = "done"
  /\ UNCHANGED <<cache, staticInfoLoaded, collectStaticOnce, info, reply, mishaps>>

\* collectStaticInfo succeeds; under Lock its fields and the flag are set.
LoadStatic(a) ==
  /\ Goto(a, "static", "copy")
  /\ cachedInfo' = [cachedInfo EXCEPT !.static = TRUE]
  /\ staticInfoLoaded' = TRUE
  /\ collectStaticOnce' = "done"
  /\ UNCHANGED <<fresh, info, reply, mishaps>>

GiveUp(a) ==
  /\ result' = IF a = "collect" THEN "error" ELSE result
  /\ UNCHANGED answer

\* Mutation: a failed static load leaves the Once unfinished.
LoadStaticHangs(a) ==
  /\ Goto(a, "static", "idle")
  /\ GiveUp(a)
  /\ UNCHANGED <<cache, staticInfoLoaded, collectStaticOnce, info, mishaps>>

\* collectStaticInfo fails: the Once is spent all the same, and only the
\* caller that ran it gets the error.
LoadStaticFails(a) ==
  /\ Goto(a, "static", "idle")
  /\ collectStaticOnce' = "done"
  /\ GiveUp(a)
  /\ mishaps' = mishaps \union {"failed"}
  /\ UNCHANGED <<cache, staticInfoLoaded, info>>

\* Under RLock: metrics = c.cachedInfo (info[a] is its metrics).
CopyCache(a) ==
  /\ Goto(a, "copy", "dynamic")
  /\ info' = [info EXCEPT ![a] = cachedInfo]
  /\ UNCHANGED <<cache, staticInfoLoaded, collectStaticOnce, reply, mishaps>>

\* collectDynamicInfo
CollectDynamic(a) ==
  /\ \/ /\ Goto(a, "dynamic", "store")
        /\ info' = [info EXCEPT ![a] = [static |-> @.static, dynamic |-> TRUE]]
        /\ UNCHANGED reply
     \/ /\ Goto(a, "dynamic", "idle")
        /\ GiveUp(a)
        /\ UNCHANGED info
  /\ UNCHANGED <<cache, staticInfoLoaded, collectStaticOnce, mishaps>>

\* Under Lock: the cache and its time; Collect also returns the metrics.
Store(a) ==
  /\ Goto(a, "store", "idle")
  /\ cachedInfo' = info[a]
  /\ fresh' = TRUE
  /\ result' = IF a = "collect" THEN "ok" ELSE result
  /\ answer' = IF a = "collect" THEN info[a] ELSE answer
  /\ UNCHANGED <<staticInfoLoaded, collectStaticOnce, info, mishaps>>

\* cacheDuration has passed since the last store.
Expire ==
  /\ fresh
  /\ fresh' = FALSE
  /\ UNCHANGED
       <<cachedInfo, staticInfoLoaded, collectStaticOnce, pc, info, reply, mishaps>>

CollectMemoryInfo(a) ==
  \/ OnceFirst(a) \/ OnceLater(a) \/ LoadStatic(a) \/ LoadStaticFails(a)
  \/ CopyCache(a) \/ CollectDynamic(a) \/ Store(a)

Next ==
  \/ Wake \/ CollectFromCache \/ CollectDirectly \/ Expire
  \/ \E a \in Actors : CollectMemoryInfo(a)

\* Both goroutines are scheduled and the system calls return.
Fairness == \A a \in Actors : WF_vars(CollectMemoryInfo(a))

Spec == Init /\ [][Next]_vars
FairSpec == Spec /\ Fairness

-----------------------------------------------------------------------------
\* At most one goroutine is inside the function of the sync.Once, none gets
\* past the Once before it has returned, and until then nothing is cached:
\* the inductive invariant behind StaticKept and MissingStaticNeedsMishap.
OnceProtocol ==
  /\ \A a \in Actors :
       /\ pc[a] = "static" => collectStaticOnce = "busy"
       /\ pc[a] \in {"copy", "dynamic", "store"} => collectStaticOnce = "done"
       /\ pc[a] \in {"dynamic", "store"} => info[a].static = staticInfoLoaded
       /\ pc[a] = "store" => info[a].dynamic
       /\ \A b \in Actors : pc[a] = "static" /\ pc[b] = "static" => a = b
  /\ collectStaticOnce # "done" => ~staticInfoLoaded /\ ~fresh /\ result # "ok"
  /\ collectStaticOnce = "done" => staticInfoLoaded \/ mishaps # {}
  /\ cachedInfo.static = staticInfoLoaded
  /\ fresh => cachedInfo.dynamic

\* Every direct Collect ends, also one that waits for the other's Once.
CollectAnswers == pc["collect"] = "once" ~> result # "pending"
=============================================================================
