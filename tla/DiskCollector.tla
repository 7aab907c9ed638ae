--------------------------- MODULE DiskCollector ---------------------------
(***************************************************************************)
(* DiskCollector of internal/collectors/disk.go.  The background loop and  *)
(* the Collect call of the current round both run collectDiskMetrics: they *)
(* read the kernel's I/O counters, exchange them under the lock for those  *)
(* of the previous collection, look up the mounted partition in both, and  *)
(* derive rates from the difference of two unsigned numbers.               *)
(*                                                                         *)
(* One counter of one partition and of its disk stands for all.  The       *)
(* operations done since the program started date a sample; the counters   *)
(* themselves start again when a disk of the same name is attached anew.   *)
(***************************************************************************)
EXTENDS Integers, Goroutines

CONSTANTS
  Width,   \* counters are numbers modulo Width (2^64 in the code)
  MaxIO    \* bound on the operations done

\* A true difference stays below MaxIO, a wrapped one above.
ASSUME WidthAssumption == Width \in Nat /\ MaxIO \in Nat /\ Width > 2 * MaxIO

Names == {"part", "disk"}   \* /dev/sda1 and /dev/sda
NoEntry == -1               \* the name is not in a counter map

VARIABLES
  nvme,       \* the names begin with "nvme"
  done,       \* operations done on the disk
  kernel,     \* kernel[n]: its counters; that of the disk includes the part's
  restarts,   \* how often the counters have started again
  block,      \* blockDeviceCache of the partition: a name, or "unknown"
  prev,       \* c.prevIOCounters
  prevEra,    \* history: the restarts before prev was read
  at,         \* at[a]: the date of its sample
  counter,    \* counter[a]: its ioCounters
  before,     \* before[a]: its prevCounters
  rate,       \* rate[a]: the difference it reports, NoEntry without I/O statistics
  era,        \* history: the restarts before a's sample
  crossed,    \* history: a restart lies between the samples that a subtracts
  overtaken,  \* history: the other goroutine swapped between a's sample and swap
  lapped,     \* history: the other one filled the cache since a's sample
  cachedAt,   \* the date of c.cachedMetrics, NoEntry while there are none
  late,       \* history: c.cachedMetrics was stored by a lapped goroutine
  fresh,      \* time.Since(c.cachedTime) < c.cacheDuration
  answerAt    \* the date of the newest answer of Collect

host == <<nvme, done, kernel, restarts>>
previous == <<prev, prevEra>>
local == <<at, counter, before, rate, era, crossed>>
cache == <<cachedAt, late, fresh, answerAt>>
vars == <<host, block, previous, pc, local, overtaken, lapped, cache>>

Entry == Nat \union {NoEntry}
Counters == [Names -> Entry]
NoCounters == [n \in Names |-> NoEntry]

TypeOK ==
  /\ nvme \in BOOLEAN
  /\ kernel \in [Names -> Nat] /\ done \in Nat /\ restarts \in Nat
  /\ block \in Names \union {"unknown"}
  /\ prev \in Counters /\ prevEra \in Nat
  /\ pc \in [Actors -> {"idle", "sample", "swap", "rate", "store"}]
  /\ at \in [Actors -> Nat]
  /\ counter \in [Actors -> Counters]
  /\ before \in [Actors -> Counters]
  /\ rate \in [Actors -> NoEntry..(Width - 1)]
  /\ era \in [Actors -> Nat] /\ crossed \in [Actors -> BOOLEAN]
  /\ overtaken \in [Actors -> BOOLEAN]
  /\ lapped \in [Actors -> BOOLEAN]
  /\ cachedAt \in Entry /\ late \in BOOLEAN
  /\ fresh \in BOOLEAN
  /\ answerAt \in Entry

\* NewDiskCollector; the background loop collects at once.
Init ==
  /\ nvme \in BOOLEAN
  /\ kernel = [n \in Names |-> 0] /\ done = 0 /\ restarts = 0
  /\ block = "unknown"
  /\ prev = NoCounters /\ prevEra = 0
  /\ pc = [a \in Actors |-> IF a = "background" THEN "sample" ELSE "idle"]
  /\ at = [a \in Actors |-> 0]
  /\ counter = [a \in Actors |-> NoCounters]
  /\ before = [a \in Actors |-> NoCounters]
  /\ rate = [a \in Actors |-> NoEntry]
  /\ era = [a \in Actors |-> 0] /\ crossed = [a \in Actors |-> FALSE]
  /\ overtaken = [a \in Actors |-> FALSE]
  /\ lapped = [a \in Actors |-> FALSE]
  /\ cachedAt = NoEntry /\ late = FALSE
  /\ fresh = FALSE
  /\ answerAt = NoEntry

-----------------------------------------------------------------------------
\* An operation on the partition, or elsewhere on the disk.
KernelIO ==
  /\ done < MaxIO
  /\ done' = done + 1
  /\ \E mounted \in {0, 1} :
       kernel' = [kernel EXCEPT !["disk"] = @ + 1, !["part"] = @ + mounted]
  /\ UNCHANGED <<nvme, restarts, block, previous, pc, local, overtaken, lapped, cache>>

\* The disk is attached or created anew under its name: counting starts again.
CountersRestart ==
  /\ kernel["disk"] > 0
  /\ kernel' = [n \in Names |-> 0]
  /\ restarts' = restarts + 1
  /\ UNCHANGED <<nvme, done, block, previous, pc, local, overtaken, lapped, cache>>

Tick ==
  /\ Goto("background", "idle", "sample")
  /\ UNCHANGED <<host, block, previous, local, overtaken, lapped, cache>>

\* Collect on a valid cache.
CollectFromCache ==
  /\ pc["collect"] = "idle"
  /\ fresh /\ cachedAt # NoEntry
  /\ answerAt' = cachedAt
  /\ UNCHANGED <<host, block, previous, pc, local, overtaken, lapped, cachedAt, late, fresh>>

CollectDirectly ==
  /\ Goto("collect", "idle", "sample")
  /\ ~(fresh /\ cachedAt # NoEntry)
  /\ UNCHANGED <<host, block, previous, local, overtaken, lapped, cache>>

\* disk.Partitions fails: nothing is collected.
PartitionsFail(a) ==
  /\ Goto(a, "sample", "idle")
  /\ UNCHANGED <<host, block, previous, local, overtaken, lapped, cache>>

\* disk.IOCounters, outside the lock.  It may count the partition, the disk, or
\* both; its failure leaves an empty map.
Sample(a) ==
  /\ Goto(a, "sample", "swap")
  /\ at' = [at EXCEPT ![a] = done]
  /\ era' = [era EXCEPT ![a] = restarts]
  /\ \E counted \in SUBSET Names :
       counter' = [counter EXCEPT ![a] =
                     [n \in Names |-> IF n \in counted THEN kernel[n] % Width ELSE NoEntry]]
  /\ UNCHANGED <<host, block, previous, before, rate, crossed, overtaken, lapped, cache>>

\* Under Lock: prevCounters from c.prevIOCounters, which gets the new ones.
Swap(a) ==
  /\ Goto(a, "swap", "rate")
  /\ before' = [before EXCEPT ![a] = prev]
  /\ prev' = counter[a]
  /\ prevEra' = era[a]
  /\ crossed' = [crossed EXCEPT ![a] = prevEra # era[a]]
  /\ overtaken' = [b \in Actors |-> overtaken[b] \/ (b # a /\ pc[b] = "swap")]
  /\ UNCHANGED <<host, block, at, counter, rate, era, lapped, cache>>

\* currentIO.X - prevIO.X in uint64.
Delta(cur, old) == (cur - old) % Width

\* Mutation: no second lookup under the name of the disk.
KeyPartOnly(counters, disk) ==
  IF nvme /\ counters[disk] # NoEntry THEN disk ELSE "part"

\* ioDeviceName: the name under which the counters are looked up.
Key(counters, disk) ==
  IF counters[disk] # NoEntry /\ (nvme \/ counters["part"] = NoEntry) THEN disk ELSE "part"

\* Mutation: the previous counters are looked up under the name of the disk.
RateOfMixed(cur, old, disk) ==
  LET key == Key(cur, disk)
  IN IF cur[key] = NoEntry THEN NoEntry
     ELSE IF old[disk] = NoEntry THEN 0 ELSE Delta(cur[key], old[disk])

\* The I/O statistics of the partition: none without a counter, rate 0 without
\* a previous one under the same name.
RateOf(cur, old, disk) ==
  LET key == Key(cur, disk)
  IN IF cur[key] = NoEntry THEN NoEntry
     ELSE IF old[key] = NoEntry THEN 0 ELSE Delta(cur[key], old[key])

\* The loop over the partitions, for the one there is.  At the first time
\* getBlockDeviceFromPartition looks into /sys/block for the disk, and its
\* answer, be it the partition itself, is kept for ever.
Rate(a) ==
  /\ Goto(a, "rate", "store")
  /\ block' \in IF block = "unknown" THEN Names ELSE {block}
  /\ rate' = [rate EXCEPT ![a] = RateOf(counter[a], before[a], block')]
  /\ before' = [before EXCEPT ![a] = NoCounters]
  /\ UNCHANGED <<host, previous, at, counter, era, crossed, overtaken, lapped, cache>>

\* Collect returns its metrics; the locals are gone.
Return(a) ==
  /\ Goto(a, "store", "idle")
  /\ answerAt' = IF a = "collect" THEN at[a] ELSE answerAt
  /\ at' = [at EXCEPT ![a] = 0]
  /\ counter' = [counter EXCEPT ![a] = NoCounters]
  /\ rate' = [rate EXCEPT ![a] = NoEntry]
  /\ era' = [era EXCEPT ![a] = 0]
  /\ crossed' = [crossed EXCEPT ![a] = FALSE]
  /\ overtaken' = [overtaken EXCEPT ![a] = FALSE]
  /\ UNCHANGED <<host, block, previous, before>>

FillCache(a) ==
  /\ cachedAt' = at[a]
  /\ late' = lapped[a]
  /\ fresh' = TRUE
  /\ lapped' = [b \in Actors |-> b # a /\ (lapped[b] \/ pc[b] \notin {"idle", "sample"})]

\* Mutation: Collect leaves the cache alone.
StoreNotDirect(a) ==
  /\ Return(a)
  /\ IF a = "collect" THEN UNCHANGED <<cachedAt, late, fresh, lapped>> ELSE FillCache(a)

\* Under Lock: the cache and its time.
Store(a) == Return(a) /\ FillCache(a)

\* cacheDuration has passed since the last store.
Expire ==
  /\ fresh
  /\ fresh' = FALSE
  /\ UNCHANGED <<host, block, previous, pc, local, overtaken, lapped, cachedAt, late, answerAt>>

CollectDiskMetrics(a) == PartitionsFail(a) \/ Sample(a) \/ Swap(a) \/ Rate(a) \/ Store(a)

Next ==
  \/ KernelIO \/ CountersRestart \/ Tick \/ CollectFromCache \/ CollectDirectly \/ Expire
  \/ \E a \in Actors : CollectDiskMetrics(a)

Spec == Init /\ [][Next]_vars

-----------------------------------------------------------------------------
\* A reported difference is no more than the operations the disk has done, under
\* whichever of the two names the kernel counted them each time, with two
\* exceptions.  The counters may have started again between the two samples,
\* which the code does not look for (disk.go:246-249); or the other goroutine
\* swapped in a newer sample between this one's disk.IOCounters and its Lock
\* (disk.go:161-167).  In both the unsigned counters wrap and a rate near 2^64
\* is sent.
WrapNeedsOverlapOrRestart ==
  \A a \in Actors :
    pc[a] = "store" /\ rate[a] > MaxIO => overtaken[a] \/ crossed[a]

\* The metrics lack I/O statistics, although the disk was counted, only when the
\* first look into /sys/block failed, and its answer was kept (disk.go:50-57).
StatsMissingNeedsBadName ==
  \A a \in Actors :
    pc[a] = "store" /\ rate[a] = NoEntry /\ counter[a]["disk"] # NoEntry => block = "part"

\* An answer is older than an earlier answer only when it comes from a cache
\* that a goroutine filled after the other had overtaken it: sampled later and
\* stored first (disk.go:146-149, 279-282).
OlderAnswerNeedsLap == [][answerAt' < answerAt => late]_vars
=============================================================================
