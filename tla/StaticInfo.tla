----------------------------- MODULE StaticInfo -----------------------------
(***************************************************************************)
(* What internal/collectors/system.go and memory.go have in common: a      *)
(* cached value with a static part, to be loaded once, and a dynamic part, *)
(* sampled every time.  Only two things matter of such a value: whether    *)
(* its static part is filled in, and whether its dynamic part has ever     *)
(* been sampled.                                                           *)
(***************************************************************************)
EXTENDS Goroutines

Info == [static : BOOLEAN, dynamic : BOOLEAN]
Empty == [static |-> FALSE, dynamic |-> FALSE]

VARIABLES
  cachedInfo,        \* c.cachedInfo
  fresh,             \* time.Since(c.cachedTime) < c.cacheDuration
  staticInfoLoaded,  \* c.staticInfoLoaded
  info,              \* info[a]: the local variable of a collection
  result,            \* how the newest Collect ended: "pending", "error" or "ok"
  answer,            \* the Info returned by the newest Collect that succeeded
  mishaps            \* history: the kinds of mishap by which a static part got lost

reply == <<result, answer>>

\* "failed": an error on the way of the static part to the cache.  "raced": a
\* collection looked into the cache while another was still on its way there.
Mishaps == {"failed", "raced"}

-----------------------------------------------------------------------------
\* Collect never answers with the zero value of a cache that was never filled
\* or with an info whose sampling failed half-way.
AnswerSampled == result = "ok" => answer.dynamic

\* A successful Collect lacks the static part only after such a mishap, and a
\* host without one always reports it.  In memory.go the mishap is the failure
\* of the one attempt to load it: from then on every answer lacks it, although
\* memory.go:160 says that "the static info is now in c.cachedInfo".  In
\* system.go it is an error of the sampling that follows the load, or a second
\* collection between the flag and the store.
MissingStaticNeedsMishap == result = "ok" /\ ~answer.static => mishaps # {}

\* The static part is lost: marked as loaded, but neither in the cache nor on
\* its way there.
StaticLost ==
  /\ staticInfoLoaded
  /\ ~cachedInfo.static
  /\ \A a \in Actors :
       /\ pc[a] # "static"
       /\ pc[a] \in {"flag", "dynamic", "store"} => ~info[a].static

\* Once the static part is lost it never comes back: every later collection of
\* system.go copies it from the cache.  A host that gets there reports an empty
\* hostname, OS and kernel until the agent is restarted.
StaticLossIsPermanent ==
  [][StaticLost => StaticLost']_<<cachedInfo, staticInfoLoaded, pc, info>>

\* The static part, once loaded, is in the cache for good: no store by either
\* goroutine can overwrite it with metrics copied before it was loaded.
StaticKept == staticInfoLoaded => cachedInfo.static
=============================================================================
