----------------------------- MODULE Goroutines -----------------------------
(***************************************************************************)
(* The two goroutines that share the cache of a collector: its background  *)
(* loop, and the Collect call of the current collection round (CollectAll  *)
(* waits for it, so there is one).                                         *)
(***************************************************************************)
Actors == {"background", "collect"}

VARIABLE pc   \* pc[a]: where the goroutine is

Goto(a, from, to) == pc[a] = from /\ pc' = [pc EXCEPT ![a] = to]
=============================================================================
