------------------------- MODULE NetworkCollector -------------------------
(***************************************************************************)
(* NetworkCollector of internal/collectors/network.go.  The constructor    *)
(* collects once before it starts the background loop, the only writer;    *)
(* Collect returns the cache, whatever its age.  Rates are differences of  *)
(* the kernel's unsigned counters, which start again from zero when an     *)
(* interface is set up anew.                                               *)
(*                                                                         *)
(* One counter of one interface stands for all.  The bytes received since  *)
(* the program was started also date a sample.                             *)
(***************************************************************************)
EXTENDS Integers

CONSTANTS
  NetWidth,   \* counters are numbers modulo NetWidth (2^64 in the code)
  MaxBytes    \* bound on the bytes received

\* A true difference stays below MaxBytes, a wrapped one above.
ASSUME NetWidthAssumption ==
  NetWidth \in Nat /\ MaxBytes \in Nat /\ NetWidth > 2 * MaxBytes

NoCounter == -1   \* the interface is not in a counter map

VARIABLES
  netTotal,   \* bytes received since the start
  netCount,   \* the interface's counter in the kernel
  netPrev,    \* the interface's entry in c.prevCounters
  netReset,   \* history: the counter was reset since netPrev was read
  netLoop,    \* "boot": in the constructor; "run" or "dead": the loop
  netCache    \* c.cachedMetrics

netVars == <<netTotal, netCount, netPrev, netReset, netLoop, netCache>>

\* The date of a slice of metrics, the byte rate in it before the division, and
\* (history) whether the counter was reset between the two readings.
Metrics == [at : Nat \union {-1}, rate : 0..(NetWidth - 1), reset : BOOLEAN]
NoMetrics == [at |-> -1, rate |-> 0, reset |-> FALSE]

NetTypeOK ==
  /\ netTotal \in Nat
  /\ netCount \in Nat
  /\ netPrev \in Nat \union {NoCounter}
  /\ netReset \in BOOLEAN
  /\ netLoop \in {"boot", "run", "dead"}
  /\ netCache \in Metrics

\* NewNetworkCollector, at its synchronous first collection.
NetInit ==
  /\ netTotal = 0 /\ netCount = 0
  /\ netPrev = NoCounter /\ netReset = FALSE
  /\ netLoop = "boot"
  /\ netCache = NoMetrics

-----------------------------------------------------------------------------
BytesReceived ==
  /\ netTotal < MaxBytes
  /\ netTotal' = netTotal + 1
  /\ netCount' = netCount + 1
  /\ UNCHANGED <<netPrev, netReset, netLoop, netCache>>

\* The interface is set up anew.
CounterReset ==
  /\ netCount > 0
  /\ netCount' = 0
  /\ netReset' = (netPrev # NoCounter)
  /\ UNCHANGED <<netTotal, netPrev, netLoop, netCache>>

\* Mutation: the operands exchanged.
ByteRateReversed(count, prev) == (prev - count) % NetWidth

\* counter.BytesRecv - prevCounter.BytesRecv in uint64.
ByteRate(count, prev) == (count - prev) % NetWidth

\* collectNetworkMetrics, whose counters are kept for the next time.  An
\* interface that is down or a loopback is left out of the metrics, one without
\* a counter has no rate.
Sampled(up, counted) ==
  [at |-> netTotal,
   rate |-> IF up /\ counted /\ netPrev # NoCounter THEN ByteRate(netCount, netPrev) ELSE 0,
   reset |-> netReset]

\* collectAndCache, in the constructor or at a tick.  Only Collect runs beside
\* it, and only looks at the cache, so sampling and storing are one step.
NetCollect ==
  /\ netLoop # "dead"
  /\ \E up, counted \in BOOLEAN :
       /\ netCache' = Sampled(up, counted)
       /\ netPrev' = IF counted THEN netCount ELSE NoCounter
  /\ netReset' = FALSE
  /\ netLoop' = "run"
  /\ UNCHANGED <<netTotal, netCount>>

\* net.Interfaces or net.IOCounters fails, or panics with an error, which the
\* deferred function logs: nothing is stored, and the loop goes on.
NetFail ==
  /\ netLoop # "dead"
  /\ netLoop' = "run"
  /\ UNCHANGED <<netTotal, netCount, netPrev, netReset, netCache>>

\* A panic with another value makes r.(error) panic in turn.  The deferred
\* function of the goroutine stops that one, and the loop is over; the
\* constructor has no such function.
NetPanic ==
  /\ netLoop = "run"
  /\ netLoop' = "dead"
  /\ UNCHANGED <<netTotal, netCount, netPrev, netReset, netCache>>

NetBootPanics == netLoop = "boot" /\ UNCHANGED netVars

NetNext == BytesReceived \/ CounterReset \/ NetCollect \/ NetFail \/ NetPanic
=============================================================================
