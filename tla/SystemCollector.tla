-------------------------- MODULE SystemCollector --------------------------
(***************************************************************************)
(* SystemCollector of internal/collectors/system.go.  Two goroutines run   *)
(* collectSystemInfo: the background loop, and the Collect call of the     *)
(* current collection round (CollectAll waits for it, so there is one).    *)
(* They share the cache and the flag staticInfoLoaded, both behind an      *)
(* RWMutex that is released between the steps below.                       *)
(* The static part is the hostname, OS, kernel, ...                        *)
(***************************************************************************)
EXTENDS StaticInfo

vars == <<cachedInfo, fresh, staticInfoLoaded, pc, info, reply, mishaps>>

TypeOK ==
  /\ cachedInfo \in Info
  /\ fresh \in BOOLEAN
  /\ staticInfoLoaded \in BOOLEAN
  /\ pc \in [Actors -> {"idle", "read", "static", "flag", "dynamic", "store"}]
  /\ info \in [Actors -> Info]
  /\ result \in {"pending", "error", "ok"}
  /\ answer \in Info
  /\ mishaps \subseteq Mishaps

\* NewSystemCollector
Init ==
  /\ cachedInfo = Empty
  /\ fresh = FALSE
  /\ staticInfoLoaded = FALSE
  /\ pc = [a \in Actors |-> "idle"]
  /\ info = [a \in Actors |-> Empty]
  /\ result = "pending"
  /\ answer = Empty
  /\ mishaps = {}

Return(i) == result' = "ok" /\ answer' = i

-----------------------------------------------------------------------------
\* The background loop wakes up.
Wake ==
  /\ Goto("background", "idle", "read")
  /\ UNCHANGED <<cachedInfo, fresh, staticInfoLoaded, info, reply, mishaps>>

\* Mutation: Collect trusts the cache without looking at its age.
CollectFromAnyCache ==
  /\ pc["collect"] = "idle"
  /\ Return(cachedInfo)
  /\ UNCHANGED <<cachedInfo, fresh, staticInfoLoaded, pc, info, mishaps>>

\* Collect on a valid cache.
CollectFromCache ==
  /\ pc["collect"] = "idle"
  /\ fresh
  /\ Return(cachedInfo)
  /\ UNCHANGED <<cachedInfo, fresh, staticInfoLoaded, pc, info, mishaps>>

\* Collect on an outdated cache.
CollectDirectly ==
  /\ Goto("collect", "idle", "read")
  /\ ~fresh
  /\ result' = "pending"
  /\ UNCHANGED <<cachedInfo, fresh, staticInfoLoaded, info, answer, mishaps>>

\* Mutation: the static part is collected every time.
ReadFlagIgnored(a) ==
  /\ Goto(a, "read", "static")
  /\ UNCHANGED <<cachedInfo, fresh, staticInfoLoaded, info, reply, mishaps>>

\* a has the static part, which is not in the cache yet.
Carries(a) ==
  /\ pc[a] \in {"flag", "dynamic", "store"}
  /\ info[a].static /\ ~cachedInfo.static

\* Where a collection goes after a look at the flag, and what it may miss there.
LookAtFlag(a) ==
  /\ Goto(a, "read", IF staticInfoLoaded THEN "dynamic" ELSE "static")
  /\ mishaps' = IF staticInfoLoaded /\ \E b \in Actors : Carries(b)
                THEN mishaps \union {"raced"} ELSE mishaps
  /\ UNCHANGED <<cachedInfo, fresh, staticInfoLoaded, reply>>

\* Mutation: the existing cache is not copied.
ReadFlagUncopied(a) == LookAtFlag(a) /\ info' = [info EXCEPT ![a] = Empty]

\* Under RLock: look at the flag, and copy the cache when it is set.
ReadFlag(a) ==
  /\ LookAtFlag(a)
  /\ info' = [info EXCEPT ![a] = IF staticInfoLoaded THEN cachedInfo ELSE @]

\* The caller of collectSystemInfo gets an error: the loop ignores it, Collect
\* passes it on.  The cache stays as it is.
GiveUp(a) ==
  /\ result' = IF a = "collect" THEN "error" ELSE result
  /\ UNCHANGED answer

\* collectStaticInfo
CollectStatic(a) ==
  /\ \/ Goto(a, "static", "flag") /\ UNCHANGED reply
     \/ Goto(a, "static", "idle") /\ GiveUp(a)
  /\ info' = [info EXCEPT ![a] = [static |-> pc'[a] = "flag", dynamic |-> FALSE]]
  /\ UNCHANGED <<cachedInfo, fresh, staticInfoLoaded, mishaps>>

\* The flag goes up; the cache does not hold the static part yet.
SetFlag(a) ==
  /\ Goto(a, "flag", "dynamic")
  /\ staticInfoLoaded' = TRUE
  /\ UNCHANGED <<cachedInfo, fresh, info, reply, mishaps>>

\* collectDynamicInfo: two goroutines, both awaited; either may fail.
CollectDynamic(a) ==
  \/ /\ Goto(a, "dynamic", "store")
     /\ info' = [info EXCEPT ![a].dynamic = TRUE]
     /\ UNCHANGED <<cachedInfo, fresh, staticInfoLoaded, reply, mishaps>>
  \/ /\ Goto(a, "dynamic", "idle")
     /\ GiveUp(a)
     /\ mishaps' = IF Carries(a) THEN mishaps \union {"failed"} ELSE mishaps
     /\ UNCHANGED <<cachedInfo, fresh, staticInfoLoaded, info>>

\* Under Lock: the cache and its time; Collect also returns info.
Store(a) ==
  /\ Goto(a, "store", "idle")
  /\ cachedInfo' = info[a]
  /\ fresh' = TRUE
  /\ IF a = "collect" THEN Return(info[a]) ELSE UNCHANGED reply
  /\ UNCHANGED <<staticInfoLoaded, info, mishaps>>

\* cacheDuration has passed since the last store.
Expire ==
  /\ fresh
  /\ fresh' = FALSE
  /\ UNCHANGED <<cachedInfo, staticInfoLoaded, pc, info, reply, mishaps>>

CollectSystemInfo(a) ==
  ReadFlag(a) \/ CollectStatic(a) \/ SetFlag(a) \/ CollectDynamic(a) \/ Store(a)

Next ==
  \/ Wake \/ CollectFromCache \/ CollectDirectly \/ Expire
  \/ \E a \in Actors : CollectSystemInfo(a)

Spec == Init /\ [][Next]_vars

-----------------------------------------------------------------------------
\* "Whether the static information is already loaded" (system.go:23), to be
\* copied "from the existing cache" (system.go:165): with the flag up and
\* nobody collecting, the cache has the static part.
StaticLoadedMeansCached ==
  (staticInfoLoaded /\ \A a \in Actors : pc[a] = "idle") => cachedInfo.static
=============================================================================
