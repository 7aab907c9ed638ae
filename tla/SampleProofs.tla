---------------------------- MODULE SampleProofs ----------------------------
(***************************************************************************)
(* Proofs about the two collectors that subtract the sample of the         *)
(* previous collection from that of the current one while the background   *)
(* loop and Collect overlap: DiskCollector, for every width of the         *)
(* counters, and ProcessCollector, however the reads and the two writes    *)
(* interleave.  The two share nothing but the name pc: Spec is that of the *)
(* disk collector, ProcSpec that of the process collector.                 *)
(***************************************************************************)
EXTENDS DiskCollector, ProcessCollector, TLAPS

-----------------------------------------------------------------------------
(* DiskCollector                                                           *)

Sampled == {"swap", "rate", "store"}

\* Counters were read from the kernel, whose own only grow until they restart.
CountsBounded ==
  /\ kernel["part"] <= kernel["disk"] /\ kernel["disk"] <= done /\ done <= MaxIO
  /\ prevEra <= restarts
  /\ \A n \in Names :
       prev[n] <= MaxIO /\ (prevEra = restarts => prev[n] <= kernel[n])
  /\ \A a \in Actors : era[a] <= restarts
  /\ \A a \in Actors, n \in Names :
       counter[a][n] <= MaxIO /\ (era[a] = restarts => counter[a][n] <= kernel[n])

NoNewer(old, cur) ==
  \A n \in Names : old[n] # NoEntry /\ cur[n] # NoEntry => old[n] <= cur[n]

\* A goroutine that is not overtaken subtracts an older sample, and one of the
\* same counters unless they have started again in between.
Ordered(a) ==
  ~overtaken[a] =>
    /\ pc[a] = "swap" /\ prevEra = era[a] => NoNewer(prev, counter[a])
    /\ pc[a] = "rate" /\ ~crossed[a] => NoNewer(before[a], counter[a])
    /\ pc[a] = "store" /\ ~crossed[a] => rate[a] <= MaxIO

\* With metrics to store the block device is known, and I/O statistics are
\* missing for no other reason than its name.
Named(a) ==
  pc[a] = "store" =>
    /\ block # "unknown"
    /\ rate[a] = NoEntry /\ counter[a]["disk"] # NoEntry => block = "part"

\* Samples, cache and answers are dated in the past; only a goroutine that the
\* other lapped holds a sample older than the cache or the newest answer.
Dated ==
  /\ cachedAt <= done /\ answerAt <= done
  /\ ~late => answerAt <= cachedAt
  /\ pc["collect"] \in Sampled => answerAt <= at["collect"]
  /\ \A a \in Actors :
       pc[a] \in Sampled /\ ~lapped[a] => cachedAt <= at[a] /\ answerAt <= at[a]
  /\ \A a \in Actors : at[a] <= done

DiskInv ==
  /\ TypeOK /\ CountsBounded /\ Dated
  /\ \A a \in Actors : Ordered(a) /\ Named(a)

\* What RateOf reports: nothing, or a difference below Width, which is the true
\* one when the previous sample is no newer; and nothing, of a disk that is
\* counted, only for a partition whose block device is not known.
LEMMA RateFacts ==
  ASSUME NEW cur \in Counters, NEW old \in Counters, NEW disk \in Names
  PROVE  /\ RateOf(cur, old, disk) \in NoEntry..(Width - 1)
         /\ (NoNewer(old, cur) /\ \A n \in Names : cur[n] <= MaxIO) =>
              RateOf(cur, old, disk) <= MaxIO
         /\ RateOf(cur, old, disk) = NoEntry /\ cur["disk"] # NoEntry => disk = "part"
<1> DEFINE key == Key(cur, disk)
<1>1. key \in Names /\ cur[key] \in Entry /\ old[key] \in Entry
  BY DEF Key, Names, Counters
<1>2. ASSUME NEW x \in Nat, NEW y \in Nat
      PROVE  Delta(x, y) \in 0..(Width - 1) /\ (y <= x /\ x <= MaxIO => Delta(x, y) = x - y)
  BY WidthAssumption DEF Delta
<1>3. CASE cur[key] = NoEntry
  <2>1. RateOf(cur, old, disk) = NoEntry
    BY <1>3 DEF RateOf
  <2>2. cur["disk"] # NoEntry => disk = "part"
    BY <1>3 DEF Key, Names
  <2> QED BY <2>1, <2>2, WidthAssumption DEF NoEntry
<1>4. CASE cur[key] # NoEntry /\ old[key] = NoEntry
  <2>1. RateOf(cur, old, disk) = 0
    BY <1>4 DEF RateOf
  <2> QED BY <2>1, WidthAssumption DEF NoEntry
<1>5. CASE cur[key] # NoEntry /\ old[key] # NoEntry
  <2>1. RateOf(cur, old, disk) = Delta(cur[key], old[key]) /\ cur[key] \in Nat /\ old[key] \in Nat
    BY <1>1, <1>5 DEF RateOf, Entry
  <2> HIDE DEF key
  <2>2. RateOf(cur, old, disk) \in 0..(Width - 1)
    BY <1>2, <2>1
  <2>3. (NoNewer(old, cur) /\ \A n \in Names : cur[n] <= MaxIO) => RateOf(cur, old, disk) <= MaxIO
    <3> SUFFICES ASSUME NoNewer(old, cur), \A n \in Names : cur[n] <= MaxIO
                 PROVE  RateOf(cur, old, disk) <= MaxIO
      OBVIOUS
    <3>1. old[key] <= cur[key] /\ cur[key] <= MaxIO
      BY <1>1, <1>5 DEF NoNewer
    <3>2. Delta(cur[key], old[key]) = cur[key] - old[key]
      BY <1>2, <2>1, <3>1
    <3> QED BY <2>1, <3>1, <3>2, WidthAssumption
  <2> QED BY <2>2, <2>3, WidthAssumption DEF NoEntry
<1> QED BY <1>3, <1>4, <1>5

\* Every step of the disk, the background loop and Collect keeps the invariant.
THEOREM DiskInvHolds == Spec => []DiskInv
<1>1. Init => DiskInv
  <2> SUFFICES ASSUME Init PROVE DiskInv
    OBVIOUS
  <2>1. TypeOK
    <3>1. NoCounters \in Counters /\ NoEntry \in NoEntry..(Width - 1) /\ NoEntry \in Entry
      BY WidthAssumption DEF NoCounters, Counters, Entry, NoEntry
    <3> QED BY <3>1 DEF Init, TypeOK
  <2>2. CountsBounded
    BY WidthAssumption DEF Init, CountsBounded, Names, NoEntry, NoCounters
  <2>3. \A a \in Actors : pc[a] \notin Sampled
    BY DEF Init, Sampled, Actors
  <2>4. Dated
    BY <2>3 DEF Init, Dated, NoEntry, Actors
  <2> QED BY <2>1, <2>2, <2>3, <2>4 DEF DiskInv, Ordered, Named, Sampled
<1>2. DiskInv /\ [Next]_vars => DiskInv'
  <2> SUFFICES ASSUME DiskInv, [Next]_vars PROVE DiskInv'
    OBVIOUS
  <2>0. TypeOK /\ CountsBounded /\ Dated /\ \A a \in Actors : Ordered(a) /\ Named(a)
    BY DEF DiskInv
  <2>a. ASSUME NEW a \in Actors, NEW n \in Names
        PROVE  counter[a][n] \in Entry /\ prev[n] \in Entry /\ era[a] \in Nat /\ at[a] \in Nat
    BY <2>0 DEF TypeOK, Counters
  <2>b. /\ prevEra \in Nat /\ restarts \in Nat /\ done \in Nat /\ MaxIO \in Nat
        /\ kernel["disk"] \in Nat /\ kernel["part"] \in Nat
        /\ cachedAt \in Entry /\ answerAt \in Entry
    BY <2>0, WidthAssumption DEF TypeOK, Names
  <2>1. CASE KernelIO
    <3>1. PICK mounted \in {0, 1} :
            kernel' = [kernel EXCEPT !["disk"] = @ + 1, !["part"] = @ + mounted]
      BY <2>1 DEF KernelIO
    <3>2. /\ kernel' \in [Names -> Nat] /\ kernel'["disk"] = kernel["disk"] + 1
          /\ kernel'["part"] = kernel["part"] + mounted /\ done' = done + 1 /\ done < MaxIO
      BY <2>0, <2>1, <3>1 DEF TypeOK, Names, KernelIO
    <3>3. UNCHANGED <<nvme, restarts, block, previous, pc, local, overtaken, lapped, cache>>
      BY <2>1 DEF KernelIO
    <3>4. TypeOK'
      BY <2>0, <2>b, <3>2, <3>3 DEF TypeOK, previous, local, cache
    <3>5. \A n \in Names : kernel[n] <= kernel'[n] /\ kernel[n] \in Nat /\ kernel'[n] \in Nat
      BY <2>b, <3>2 DEF Names
    <3>6. ASSUME NEW x \in Entry, NEW n \in Names, x <= kernel[n] PROVE x <= kernel'[n]
      BY <3>5, <3>6 DEF Entry, NoEntry
    <3>7. CountsBounded'
      <4>1. prevEra' = prevEra /\ restarts' = restarts /\ prev' = prev /\ era' = era /\ counter' = counter
        BY <3>3 DEF previous, local
      <4>2. \A n \in Names :
              prev[n] <= MaxIO /\ (prevEra = restarts => prev[n] <= kernel'[n])
        BY <2>0, <2>a, <3>6 DEF CountsBounded, Actors
      <4>3. \A a \in Actors, n \in Names :
              counter[a][n] <= MaxIO /\ (era[a] = restarts => counter[a][n] <= kernel'[n])
        BY <2>0, <2>a, <3>6 DEF CountsBounded
      <4>4. kernel'["part"] <= kernel'["disk"] /\ kernel'["disk"] <= done' /\ done' <= MaxIO
        BY <2>0, <2>b, <3>2 DEF CountsBounded
      <4> QED BY <2>0, <4>1, <4>2, <4>3, <4>4 DEF CountsBounded
    <3>8. Dated'
      <4>1. ASSUME NEW x \in Entry, x <= done PROVE x <= done'
        BY <2>b, <3>2, <4>1 DEF Entry, NoEntry
      <4>2. \A a \in Actors : at[a] \in Entry
        BY <2>0 DEF TypeOK, Entry
      <4> QED BY <2>0, <2>b, <3>3, <4>1, <4>2 DEF Dated, local, cache
    <3> QED BY <2>0, <3>3, <3>4, <3>7, <3>8 DEF DiskInv, Ordered, Named, NoNewer, local, previous
  <2>12. CASE CountersRestart
    <3>1. /\ kernel' \in [Names -> Nat] /\ kernel'["disk"] = 0 /\ kernel'["part"] = 0
          /\ restarts' = restarts + 1
          /\ UNCHANGED <<nvme, done, block, previous, pc, local, overtaken, lapped, cache>>
      BY <2>12 DEF CountersRestart, Names
    <3>2. TypeOK'
      BY <2>0, <2>b, <3>1 DEF TypeOK, previous, local, cache
    <3>3. prevEra <= restarts' /\ prevEra # restarts'
      BY <2>0, <2>b, <3>1 DEF CountsBounded
    <3>4. \A a \in Actors : era[a] <= restarts' /\ era[a] # restarts'
      <4> SUFFICES ASSUME NEW a \in Actors PROVE era[a] <= restarts' /\ era[a] # restarts'
        OBVIOUS
      <4>1. era[a] \in Nat /\ era[a] <= restarts
        BY <2>0 DEF CountsBounded, TypeOK
      <4> QED BY <2>b, <3>1, <4>1
    <3>5. CountsBounded'
      BY <2>0, <2>b, <3>1, <3>3, <3>4 DEF CountsBounded, previous, local
    <3>6. Dated'
      BY <2>0, <3>1 DEF Dated, local, cache
    <3> QED BY <2>0, <3>1, <3>2, <3>5, <3>6 DEF DiskInv, Ordered, Named, NoNewer, local, previous
  <2>2. ASSUME NEW a \in Actors, NEW from \in {"idle", "sample"}, NEW to \in {"idle", "sample"},
               Goto(a, from, to), UNCHANGED <<host, block, previous, local, overtaken, lapped, cache>>
        PROVE  DiskInv'
    <3>1. TypeOK'
      BY <2>0, <2>2 DEF TypeOK, Goto, host, local, previous, cache
    <3>2. pc'[a] = to /\ \A b \in Actors \ {a} : pc'[b] = pc[b]
      BY <2>0, <2>2 DEF TypeOK, Goto
    <3>3. CountsBounded'
      BY <2>0, <2>2 DEF CountsBounded, host, local, previous
    <3>4. Dated'
      BY <2>0, <2>2, <3>2 DEF Dated, host, local, previous, cache, Sampled, Actors
    <3>5. \A b \in Actors : Ordered(b)' /\ Named(b)'
      BY <2>0, <2>2, <3>2 DEF Ordered, Named, NoNewer, local, previous
    <3> QED BY <3>1, <3>3, <3>4, <3>5 DEF DiskInv
  <2>3. CASE Tick \/ CollectDirectly
    BY <2>2, <2>3 DEF Tick, CollectDirectly, Actors
  <2>4. CASE CollectFromCache
    <3>1. TypeOK'
      BY <2>0, <2>4 DEF TypeOK, CollectFromCache, host, local, previous
    <3>2. CountsBounded'
      BY <2>0, <2>4 DEF CountsBounded, CollectFromCache, host, local, previous
    <3>3. Dated'
      BY <2>0, <2>4 DEF Dated, CollectFromCache, host, local, previous, Sampled, TypeOK, Entry, NoEntry
    <3>4. \A b \in Actors : Ordered(b)' /\ Named(b)'
      BY <2>0, <2>4 DEF Ordered, Named, NoNewer, CollectFromCache, local, previous
    <3> QED BY <3>1, <3>2, <3>3, <3>4 DEF DiskInv
  <2>5. CASE Expire
    <3>1. fresh' = FALSE
          /\ UNCHANGED <<host, block, previous, pc, local, overtaken, lapped, cachedAt, late, answerAt>>
      BY <2>5, Zenon DEF Expire
    <3>2. TypeOK' /\ CountsBounded' /\ Dated'
      BY <2>0, <3>1 DEF TypeOK, CountsBounded, Dated, host, local, previous
    <3>3. \A b \in Actors : Ordered(b)' /\ Named(b)'
      BY <2>0, <3>1 DEF Ordered, Named, NoNewer, local, previous
    <3> QED BY <3>2, <3>3 DEF DiskInv
  <2>6. ASSUME NEW a \in Actors, PartitionsFail(a) PROVE DiskInv'
    BY <2>2, <2>6 DEF PartitionsFail
  <2>7. ASSUME NEW a \in Actors, Sample(a) PROVE DiskInv'
    <3>1. PICK counted \in SUBSET Names :
            counter' = [counter EXCEPT ![a] =
                          [n \in Names |-> IF n \in counted THEN kernel[n] % Width ELSE NoEntry]]
      BY <2>7 DEF Sample
    <3>2. \A n \in Names : kernel[n] \in Nat /\ kernel[n] <= MaxIO /\ kernel[n] % Width = kernel[n]
      <4>1. \A n \in Names : kernel[n] \in Nat /\ kernel[n] <= MaxIO
        BY <2>0, <2>b DEF CountsBounded, Names
      <4>2. ASSUME NEW x \in Nat, x <= MaxIO PROVE x % Width = x
        BY <4>2, WidthAssumption
      <4> QED BY <4>1, <4>2
    <3>3. /\ counter' \in [Actors -> Counters]
          /\ \A n \in Names : counter'[a][n] = IF n \in counted THEN kernel[n] ELSE NoEntry
          /\ \A b \in Actors \ {a} : counter'[b] = counter[b]
      BY <2>0, <3>1, <3>2 DEF TypeOK, Counters, Entry
    <3>4. /\ pc[a] = "sample" /\ pc'[a] = "swap" /\ at'[a] = done /\ era'[a] = restarts
          /\ \A b \in Actors \ {a} : pc'[b] = pc[b] /\ at'[b] = at[b] /\ era'[b] = era[b]
          /\ UNCHANGED <<kernel, done, restarts, block, prev, prevEra, before, rate, crossed,
                         overtaken, lapped, cachedAt, late, answerAt>>
      BY <2>0, <2>7 DEF Sample, Goto, TypeOK, host, previous, cache
    <3>5. TypeOK'
      <4>1. /\ at' \in [Actors -> Nat] /\ era' \in [Actors -> Nat]
            /\ pc' \in [Actors -> {"idle", "sample", "swap", "rate", "store"}]
        BY <2>0, <2>7 DEF Sample, Goto, TypeOK
      <4> QED BY <2>0, <2>7, <3>3, <4>1 DEF Sample, TypeOK, host, previous, cache
    <3>6. \A n \in Names : counter'[a][n] <= kernel[n] /\ counter'[a][n] <= MaxIO
      BY <2>b, <3>2, <3>3 DEF NoEntry
    <3>7. CountsBounded'
      BY <2>0, <2>b, <3>3, <3>4, <3>6 DEF CountsBounded
    <3>8. Dated'
      <4>1. done <= done /\ cachedAt <= done /\ answerAt <= done
        BY <2>0, <2>b DEF Dated
      <4>2. pc'["collect"] \in Sampled => answerAt <= at'["collect"]
        BY <2>0, <3>4, <4>1 DEF Dated, Actors
      <4>3. ASSUME NEW b \in Actors
            PROVE  /\ at'[b] <= done
                   /\ pc'[b] \in Sampled /\ ~lapped[b] => cachedAt <= at'[b] /\ answerAt <= at'[b]
        BY <2>0, <3>4, <4>1 DEF Dated
      <4> QED BY <2>0, <3>4, <4>1, <4>2, <4>3 DEF Dated
    <3>9. prevEra = restarts => NoNewer(prev, counter'[a])
      BY <2>0, <3>3 DEF NoNewer, CountsBounded
    <3>10. \A b \in Actors : Ordered(b)' /\ Named(b)'
      BY <2>0, <3>3, <3>4, <3>9 DEF Ordered, Named, NoNewer
    <3> QED BY <3>5, <3>7, <3>8, <3>10 DEF DiskInv
  <2>8. ASSUME NEW a \in Actors, Swap(a) PROVE DiskInv'
    <3>1. /\ pc[a] = "swap" /\ pc'[a] = "rate" /\ before'[a] = prev /\ prev' = counter[a]
          /\ prevEra' = era[a] /\ crossed'[a] = (prevEra # era[a])
          /\ \A b \in Actors \ {a} :
               pc'[b] = pc[b] /\ before'[b] = before[b] /\ crossed'[b] = crossed[b]
          /\ UNCHANGED <<kernel, done, restarts, block, at, counter, rate, era, lapped,
                         cachedAt, late, answerAt>>
      BY <2>0, <2>8 DEF Swap, Goto, TypeOK, host, cache
    <3>2. /\ overtaken'[a] = overtaken[a]
          /\ \A b \in Actors \ {a} :
               (overtaken[b] => overtaken'[b]) /\ (pc[b] = "swap" => overtaken'[b])
      BY <2>0, <2>8 DEF Swap, TypeOK
    <3>3. TypeOK'
      BY <2>0, <2>8 DEF Swap, Goto, TypeOK, host, cache
    <3>4. CountsBounded'
      BY <2>0, <3>1 DEF CountsBounded
    <3>5. Dated'
      BY <2>0, <3>1 DEF Dated, Sampled, Actors
    <3>6. ASSUME NEW b \in Actors PROVE Ordered(b)' /\ Named(b)'
      <4>1. Ordered(b) /\ Named(b)
        BY <2>0
      <4>2. CASE b = a
        BY <3>1, <3>2, <4>1, <4>2 DEF Ordered, Named, NoNewer
      <4>3. CASE b # a
        BY <3>1, <3>2, <4>1, <4>3 DEF Ordered, Named, NoNewer
      <4> QED BY <4>2, <4>3
    <3> QED BY <3>3, <3>4, <3>5, <3>6 DEF DiskInv
  <2>9. ASSUME NEW a \in Actors, Rate(a) PROVE DiskInv'
    <3>1. /\ pc[a] = "rate" /\ pc'[a] = "store" /\ block' \in Names
          /\ block # "unknown" => block' = block
          /\ rate'[a] = RateOf(counter[a], before[a], block')
          /\ before'[a] = NoCounters
          /\ \A b \in Actors \ {a} : pc'[b] = pc[b] /\ rate'[b] = rate[b] /\ before'[b] = before[b]
          /\ UNCHANGED <<kernel, done, restarts, prev, prevEra, at, counter, era, crossed,
                         overtaken, lapped, cachedAt, late, answerAt>>
      BY <2>0, <2>9 DEF Rate, Goto, TypeOK, host, previous, cache
    <3>2. counter[a] \in Counters /\ before[a] \in Counters /\ \A n \in Names : counter[a][n] <= MaxIO
      BY <2>0 DEF TypeOK, CountsBounded
    <3>3. /\ rate'[a] \in NoEntry..(Width - 1)
          /\ NoNewer(before[a], counter[a]) => rate'[a] <= MaxIO
          /\ rate'[a] = NoEntry /\ counter[a]["disk"] # NoEntry => block' = "part"
      BY <3>1, <3>2, RateFacts
    <3>4. TypeOK'
      <4>1. NoCounters \in Counters
        BY DEF NoCounters, Counters, Entry
      <4>2. /\ before' \in [Actors -> Counters] /\ rate' \in [Actors -> NoEntry..(Width - 1)]
            /\ pc' \in [Actors -> {"idle", "sample", "swap", "rate", "store"}]
        BY <2>0, <2>9, <3>1, <3>3, <4>1 DEF Rate, Goto, TypeOK
      <4> QED BY <2>0, <2>9, <3>1, <4>2 DEF Rate, TypeOK, host, previous, cache
    <3>5. CountsBounded'
      BY <2>0, <3>1 DEF CountsBounded
    <3>6. Dated'
      BY <2>0, <3>1 DEF Dated, Sampled, Actors
    <3>7. ASSUME NEW b \in Actors PROVE Ordered(b)' /\ Named(b)'
      <4>1. Ordered(b) /\ Named(b)
        BY <2>0
      <4>2. CASE b = a
        BY <3>1, <3>3, <4>1, <4>2 DEF Ordered, Named, Names
      <4>3. CASE b # a
        BY <3>1, <4>1, <4>3 DEF Ordered, Named, NoNewer, Names
      <4> QED BY <4>2, <4>3
    <3> QED BY <3>4, <3>5, <3>6, <3>7 DEF DiskInv
  <2>10. ASSUME NEW a \in Actors, Store(a) PROVE DiskInv'
    <3>1. /\ pc[a] = "store" /\ pc'[a] = "idle" /\ at'[a] = 0 /\ counter'[a] = NoCounters
          /\ era'[a] = 0
          /\ answerAt' = (IF a = "collect" THEN at[a] ELSE answerAt)
          /\ cachedAt' = at[a] /\ late' = lapped[a]
          /\ \A b \in Actors \ {a} : /\ pc'[b] = pc[b] /\ at'[b] = at[b] /\ counter'[b] = counter[b]
                                      /\ rate'[b] = rate[b] /\ overtaken'[b] = overtaken[b]
                                      /\ era'[b] = era[b] /\ crossed'[b] = crossed[b]
          /\ UNCHANGED <<kernel, done, restarts, block, prev, prevEra, before>>
      BY <2>0, <2>10 DEF Store, Return, FillCache, Goto, TypeOK, host, previous
    <3>2. \A b \in Actors \ {a} : pc[b] \in Sampled => lapped'[b]
      BY <2>0, <2>10 DEF Store, FillCache, Sampled
    <3>3. TypeOK'
      <4>1. NoCounters \in Counters /\ NoEntry \in NoEntry..(Width - 1)
        BY WidthAssumption DEF NoCounters, Counters, Entry, NoEntry
      <4>2. /\ pc' \in [Actors -> {"idle", "sample", "swap", "rate", "store"}]
            /\ at' \in [Actors -> Nat] /\ counter' \in [Actors -> Counters]
            /\ rate' \in [Actors -> NoEntry..(Width - 1)] /\ era' \in [Actors -> Nat]
        BY <2>0, <2>10, <4>1 DEF Store, Return, Goto, TypeOK
      <4>3. cachedAt' \in Entry /\ answerAt' \in Entry
        BY <2>0, <3>1 DEF TypeOK, Entry
      <4>4. overtaken' \in [Actors -> BOOLEAN] /\ lapped' \in [Actors -> BOOLEAN] /\ late' \in BOOLEAN
            /\ crossed' \in [Actors -> BOOLEAN]
        BY <2>0, <2>10 DEF Store, Return, FillCache, TypeOK
      <4>5. fresh' \in BOOLEAN
        BY <2>10, Zenon DEF Store, FillCache
      <4> QED BY <2>0, <2>10, <4>2, <4>3, <4>4, <4>5 DEF Store, Return, TypeOK, host, previous
    <3>4. CountsBounded'
      <4>1. \A n \in Names : NoCounters[n] <= kernel[n] /\ NoCounters[n] <= MaxIO
        BY <2>0, <2>b DEF NoCounters, TypeOK, NoEntry
      <4>2. 0 <= restarts
        BY <2>b
      <4> QED BY <2>0, <3>1, <4>1, <4>2 DEF CountsBounded
    <3>5. Dated'
      <4>1. at[a] \in Nat /\ at[a] <= done /\ answerAt \in Entry /\ 0 <= done
        BY <2>0 DEF Dated, TypeOK
      <4>2. cachedAt' <= done /\ answerAt' <= done /\ (~late' => answerAt' <= cachedAt')
        BY <2>0, <3>1, <4>1 DEF Dated, Sampled
      <4>3. pc'["collect"] \in Sampled => answerAt' <= at'["collect"]
        BY <2>0, <3>1 DEF Dated, Sampled, Actors
      <4>4. \A b \in Actors : pc'[b] \notin Sampled \/ lapped'[b]
        BY <3>1, <3>2 DEF Sampled
      <4>5. \A b \in Actors : at'[b] <= done
        BY <2>0, <3>1, <4>1 DEF Dated
      <4> QED BY <3>1, <4>2, <4>3, <4>4, <4>5 DEF Dated
    <3>6. \A b \in Actors : Ordered(b)' /\ Named(b)'
      BY <2>0, <3>1 DEF Ordered, Named, NoNewer
    <3> QED BY <3>3, <3>4, <3>5, <3>6 DEF DiskInv
  <2>11. CASE UNCHANGED vars
    <3>1. TypeOK' /\ CountsBounded' /\ Dated'
      BY <2>0, <2>11 DEF TypeOK, CountsBounded, Dated, vars, host, local, previous, cache
    <3>2. \A b \in Actors : Ordered(b)' /\ Named(b)'
      BY <2>0, <2>11 DEF Ordered, Named, NoNewer, vars, local, previous
    <3> QED BY <3>1, <3>2 DEF DiskInv
  <2> QED
    BY <2>1, <2>12, <2>3, <2>4, <2>5, <2>6, <2>7, <2>8, <2>9, <2>10, <2>11
    DEF Next, CollectDiskMetrics
<1> QED BY <1>1, <1>2, PTL DEF Spec

\* A disk rate wraps only when the counters started again between the two
\* samples, or the other goroutine exchanged its newer counters between this
\* one's disk.IOCounters and its Lock, for every counter width.
THEOREM WrapNeedsOverlapOrRestartHolds == Spec => []WrapNeedsOverlapOrRestart
<1>1. DiskInv => WrapNeedsOverlapOrRestart
  <2> SUFFICES ASSUME DiskInv, NEW a \in Actors, pc[a] = "store", rate[a] > MaxIO
               PROVE  overtaken[a] \/ crossed[a]
    BY DEF WrapNeedsOverlapOrRestart
  <2>1. Ordered(a) /\ rate[a] \in Int /\ MaxIO \in Int
    BY WidthAssumption DEF DiskInv, TypeOK, NoEntry
  <2> QED BY <2>1 DEF Ordered
<1> QED BY <1>1, DiskInvHolds, PTL

\* I/O statistics of a disk that is counted are missing only when the cached
\* answer of getBlockDeviceFromPartition is the partition itself.
THEOREM StatsMissingNeedsBadNameHolds == Spec => []StatsMissingNeedsBadName
<1>1. DiskInv => StatsMissingNeedsBadName
  BY DEF DiskInv, Named, StatsMissingNeedsBadName
<1> QED BY <1>1, DiskInvHolds, PTL

\* An answer of Collect is older than an earlier one only when it comes from
\* the cache of a goroutine that the other had overtaken.
THEOREM OlderAnswerNeedsLapHolds == Spec => OlderAnswerNeedsLap
<1>1. DiskInv /\ [Next]_vars => [answerAt' < answerAt => late]_vars
  <2> SUFFICES ASSUME DiskInv, Next, answerAt' < answerAt PROVE late
    OBVIOUS
  <2>0. answerAt \in Entry /\ cachedAt \in Entry /\ late \in BOOLEAN /\ at \in [Actors -> Nat]
    BY DEF DiskInv, TypeOK
  <2>1. CASE CollectFromCache
    BY <2>0, <2>1 DEF CollectFromCache, DiskInv, Dated, Entry, NoEntry
  <2>2. CASE UNCHANGED answerAt
    BY <2>0, <2>2 DEF Entry, NoEntry
  <2>3. ASSUME NEW a \in Actors, Store(a) PROVE late
    <3>1. a = "collect" => answerAt' = at["collect"] /\ answerAt <= at["collect"] /\ at["collect"] \in Nat
      BY <2>0, <2>3 DEF Store, Return, Goto, DiskInv, Dated, Sampled
    <3>2. a # "collect" => UNCHANGED answerAt
      BY <2>3 DEF Store, Return
    <3> QED BY <2>0, <2>2, <3>1, <3>2 DEF Entry, NoEntry
  <2> QED
    BY <2>1, <2>2, <2>3
    DEF Next, CollectDiskMetrics, KernelIO, CountersRestart, Tick, CollectDirectly, Expire, PartitionsFail,
        Sample, Swap, Rate, cache
<1> QED BY <1>1, DiskInvHolds, PTL DEF Spec, OlderAnswerNeedsLap

-----------------------------------------------------------------------------
(* ProcessCollector                                                        *)

\* The lock: one goroutine at a time writes.
Mutex == \A a, b \in Actors : pc[a] \in Writing /\ pc[b] \in Writing => a = b

\* Of a goroutine's own samples: the time is in the past, and the CPU time was
\* read no earlier.
SampleDated(a) ==
  /\ current[a] <= now
  /\ pc[a] \in {"usage", "lock"} \union Writing /\ cpu[a] # None =>
       cpu[a] + born >= current[a]

\* Which of the two writes has been done.
HalfWritten(a) ==
  /\ pc[a] = "timeLeft" => prevCPU = cpu[a]
  /\ pc[a] = "timesLeft" => prevTime = current[a]

\* Between the critical sections, and until the first write of one, the two
\* fields belong together.
Pair ==
  (\A a \in Actors : pc[a] \notin {"timeLeft", "timesLeft"}) /\ prevCPU # None =>
    prevCPU + born >= prevTime

\* A goroutine whose reads met no critical section has read one and the same
\* previous collection: nobody writes, its duration is the time since then,
\* and the CPU time since then is no more.
Undisturbed(a) ==
  pc[a] \in Reading /\ ~overlap[a] =>
    /\ \A b \in Actors : pc[b] \notin Writing
    /\ pc[a] # "first" => (first[a] <=> prevTime = None)
    /\ pc[a] \in {"times", "usage"} /\ ~first[a] =>
         duration[a] = Since(current[a], prevTime)
    /\ pc[a] = "usage" /\ cpu[a] # None /\ prevCPU # None =>
         cpu[a] + prevTime <= prevCPU + current[a] + lag[a]

\* What the metrics of a claim is explained by its reads.
Explained(a) ==
  pc[a] = "lock" /\ used[a] > duration[a] + lag[a] => overlap[a]

ProcInv ==
  /\ ProcTypeOK /\ Mutex /\ Pair
  /\ \A a \in Actors : SampleDated(a) /\ HalfWritten(a) /\ Undisturbed(a) /\ Explained(a)

\* Of a step, what it leaves alone of the other goroutine.
SameProc(b) ==
  /\ pc'[b] = pc[b] /\ current'[b] = current[b] /\ first'[b] = first[b]
  /\ duration'[b] = duration[b] /\ cpu'[b] = cpu[b] /\ lag'[b] = lag[b]
  /\ used'[b] = used[b] /\ overlap'[b] = overlap[b]

\* A step of goroutine a outside the critical section keeps the invariant if
\* it keeps what concerns a.
LEMMA OutsideLock ==
  ASSUME ProcInv, NEW a \in Actors, ProcTypeOK', UNCHANGED <<now, born, prevTime, prevCPU>>,
         \A b \in Actors \ {a} : SameProc(b),
         pc[a] \notin Writing, pc'[a] \notin Writing,
         SampleDated(a)', Undisturbed(a)', Explained(a)'
  PROVE  ProcInv'
<1>1. \A b \in Actors : pc'[b] \in Writing <=> pc[b] \in Writing
  BY DEF SameProc
<1>2. \A b \in Actors : pc'[b] \in {"timeLeft", "timesLeft"} <=> pc[b] \in {"timeLeft", "timesLeft"}
  BY DEF SameProc, Writing
<1>3. Mutex'
  BY <1>1 DEF ProcInv, Mutex
<1>4. Pair'
  BY <1>2 DEF ProcInv, Pair
<1>5. ASSUME NEW b \in Actors \ {a}
      PROVE  SampleDated(b)' /\ HalfWritten(b)' /\ Undisturbed(b)' /\ Explained(b)'
  <2>1. SampleDated(b) /\ HalfWritten(b) /\ Undisturbed(b) /\ Explained(b) /\ SameProc(b)
    BY DEF ProcInv
  <2>2. SampleDated(b)' /\ HalfWritten(b)' /\ Explained(b)'
    BY <2>1 DEF SampleDated, HalfWritten, Explained, SameProc
  <2>3. Undisturbed(b)'
    BY <1>1, <2>1 DEF Undisturbed, SameProc, Since
  <2> QED BY <2>2, <2>3
<1>6. HalfWritten(a)'
  BY DEF HalfWritten, Writing
<1> QED BY <1>3, <1>4, <1>5, <1>6 DEF ProcInv

\* Every step of the clock, the background loop and Collect keeps the invariant.
THEOREM ProcInvHolds == ProcSpec => []ProcInv
<1> USE DEF None, Date, Actors
<1>0. MaxClock \in Nat \ {0} /\ Second \in Nat \ {0}
  BY ClockAssumption
<1>1. ProcInit => ProcInv
  <2> SUFFICES ASSUME ProcInit PROVE ProcInv
    OBVIOUS
  <2>1. ProcTypeOK
    BY <1>0 DEF ProcInit, ProcTypeOK
  <2>2. \A a \in Actors : pc[a] \in {"idle", "list"} /\ current[a] = 0 /\ now = 0
    BY DEF ProcInit
  <2>3. prevCPU = -1
    BY DEF ProcInit
  <2> QED
    BY <2>1, <2>2, <2>3
    DEF ProcInv, Mutex, Pair, SampleDated, HalfWritten, Undisturbed, Explained, Writing,
        Reading
<1>2. ProcInv /\ [ProcNext]_procVars => ProcInv'
  <2> SUFFICES ASSUME ProcInv, [ProcNext]_procVars PROVE ProcInv'
    OBVIOUS
  <2>0. ProcTypeOK /\ Mutex /\ Pair
    BY DEF ProcInv
  <2>a. ASSUME NEW a \in Actors
        PROVE  SampleDated(a) /\ HalfWritten(a) /\ Undisturbed(a) /\ Explained(a)
    BY DEF ProcInv
  <2>b. ASSUME NEW a \in Actors
        PROVE  /\ now \in Nat /\ born \in 0..now /\ current[a] \in Nat
               /\ prevTime \in Nat \union {-1} /\ prevCPU \in Nat \union {-1}
               /\ cpu[a] \in Nat \union {-1} /\ lag[a] \in Nat /\ duration[a] \in Nat \ {0}
    BY <2>0 DEF ProcTypeOK
  <2>1. CASE ClockTicks \/ PidReused
    <3>1. /\ now' \in Nat /\ now' >= now /\ born' \in 0..now' /\ born' >= born
          /\ now \in Nat /\ born \in 0..now
          /\ UNCHANGED <<prevTime, prevCPU, pc, current, first, duration, cpu, lag, used, overlap, procCache>>
      BY <1>0, <2>0, <2>1 DEF ClockTicks, PidReused, ProcTypeOK, shared, sample
    <3>2. ProcTypeOK'
      BY <2>0, <3>1 DEF ProcTypeOK
    <3>3. Mutex'
      BY <2>0, <3>1 DEF Mutex
    <3>4. Pair'
      <4>1. prevCPU \in Int /\ prevTime \in Int
        BY <2>0 DEF ProcTypeOK
      <4>2. born \in Int /\ born' \in Int /\ born' >= born
        BY <3>1
      <4>3. \A p, t, b, c \in Int : p + b >= t /\ c >= b => p + c >= t
        OBVIOUS
      <4>4. prevCPU + born >= prevTime => prevCPU + born' >= prevTime
        BY <4>1, <4>2, <4>3
      <4> QED BY <2>0, <3>1, <4>4 DEF Pair
    <3>5. ASSUME NEW a \in Actors
          PROVE  SampleDated(a)' /\ HalfWritten(a)' /\ Undisturbed(a)' /\ Explained(a)'
      <4>1. SampleDated(a)'
        BY <2>a, <2>b, <3>1 DEF SampleDated
      <4>2. HalfWritten(a)' /\ Undisturbed(a)' /\ Explained(a)'
        BY <2>a, <3>1 DEF HalfWritten, Undisturbed, Explained, Since
      <4> QED BY <4>1, <4>2
    <3> QED BY <3>2, <3>3, <3>4, <3>5 DEF ProcInv
  <2>2. CASE ProcExpire \/ ProcFromCache \/ UNCHANGED procVars
    <3>1. /\ procCache' \in {"empty", "valid", "expired"}
          /\ UNCHANGED <<now, born, prevTime, prevCPU, pc, current, first, duration, cpu, lag, used, overlap>>
      BY <2>0, <2>2
      DEF ProcExpire, ProcFromCache, procVars, shared, sample, ProcTypeOK
    <3>2. ProcTypeOK' /\ Mutex' /\ Pair'
      BY <2>0, <3>1 DEF ProcTypeOK, Mutex, Pair
    <3>3. \A a \in Actors : SampleDated(a)' /\ HalfWritten(a)' /\ Undisturbed(a)' /\ Explained(a)'
      BY <2>a, <3>1 DEF SampleDated, HalfWritten, Undisturbed, Explained, Since
    <3> QED BY <3>2, <3>3 DEF ProcInv
  <2>3. ASSUME NEW a \in Actors, NEW from \in {"idle", "list"}, NEW to \in {"idle", "list"},
               Goto(a, from, to),
               UNCHANGED <<now, born, shared, sample, overlap, procCache>>
        PROVE  ProcInv'
    <3>1. ProcTypeOK'
      BY <2>0, <2>3 DEF ProcTypeOK, Goto, shared, sample
    <3>2. pc[a] = from /\ pc'[a] = to /\ current'[a] = current[a]
          /\ (\A b \in Actors \ {a} : SameProc(b)) /\ UNCHANGED <<now, born, prevTime, prevCPU>>
      BY <2>0, <2>3 DEF ProcTypeOK, Goto, SameProc, shared, sample
    <3>3. SampleDated(a)' /\ Undisturbed(a)' /\ Explained(a)'
      BY <2>a, <3>2 DEF SampleDated, Undisturbed, Explained, Reading, Writing
    <3> QED BY <3>1, <3>2, <3>3, OutsideLock DEF Writing
  <2>4. CASE ProcTick \/ ProcDirectly
    BY <2>3, <2>4 DEF ProcTick, ProcDirectly
  <2>5. ASSUME NEW a \in Actors, ProcessesFail(a) PROVE ProcInv'
    BY <2>3, <2>5 DEF ProcessesFail
  <2>6. ASSUME NEW a \in Actors, ReadClock(a) PROVE ProcInv'
    <3>1. ProcTypeOK'
      BY <2>0, <2>6 DEF ReadClock, ProcTypeOK, Goto, shared, Reading
    <3>2. pc[a] = "list" /\ pc'[a] = "first" /\ current'[a] = now
          /\ (\A b \in Actors \ {a} : SameProc(b)) /\ UNCHANGED <<now, born, prevTime, prevCPU>>
      BY <2>0, <2>6 DEF ReadClock, ProcTypeOK, Goto, SameProc, shared
    <3>3. ~overlap'[a] => Unlocked
      BY <2>0, <2>6 DEF ReadClock, ProcTypeOK
    <3>4. \A b \in Actors : pc[b] \in Writing <=> pc'[b] \in Writing
      BY <3>2 DEF SameProc, Writing
    <3>5. SampleDated(a)' /\ Undisturbed(a)' /\ Explained(a)'
      BY <2>b, <3>2, <3>3, <3>4
      DEF SampleDated, Undisturbed, Explained, Unlocked, Writing
    <3> QED BY <3>1, <3>2, <3>5, OutsideLock DEF Writing
  <2>7. ASSUME NEW a \in Actors, IsFirst(a) PROVE ProcInv'
    <3>1. PICK torn \in {FALSE, ~Unlocked} :
            first' = [first EXCEPT ![a] = prevTime = None /\ ~torn]
      BY <2>7 DEF IsFirst
    <3>2. ProcTypeOK'
      <4>1. first' \in [Actors -> BOOLEAN]
        BY <2>0, <3>1 DEF ProcTypeOK
      <4>2. pc' \in [Actors -> {"idle", "list", "lock", "store"} \union Reading \union Writing]
        BY <2>0, <2>7 DEF IsFirst, ProcTypeOK, Goto, Reading
      <4> QED BY <2>0, <2>7, <4>1, <4>2 DEF IsFirst, ProcTypeOK, shared
    <3>3. pc[a] = "first" /\ pc'[a] = "duration" /\ current'[a] = current[a] /\ overlap'[a] = overlap[a]
          /\ (\A b \in Actors \ {a} : SameProc(b)) /\ UNCHANGED <<now, born, prevTime, prevCPU>>
      BY <2>0, <2>7 DEF IsFirst, ProcTypeOK, Goto, SameProc, shared
    <3>4. \A b \in Actors : pc[b] \in Writing <=> pc'[b] \in Writing
      BY <3>3 DEF SameProc, Writing
    <3>5. ~overlap[a] => \A b \in Actors : pc[b] \notin Writing
      BY <2>a, <3>3 DEF Undisturbed, Reading
    <3>6. ~overlap[a] => (first'[a] <=> prevTime = None)
      BY <2>0, <3>1, <3>5 DEF Unlocked, ProcTypeOK
    <3>7. SampleDated(a)' /\ Undisturbed(a)' /\ Explained(a)'
      BY <2>a, <3>3, <3>4, <3>5, <3>6 DEF SampleDated, Undisturbed, Explained, Writing
    <3> QED BY <3>2, <3>3, <3>7, OutsideLock DEF Writing
  <2>8. ASSUME NEW a \in Actors, ReadPrevTime(a) PROVE ProcInv'
    <3>1. Since(current[a], prevTime) \in Nat \ {0}
      BY <1>0, <2>b DEF Since, Long
    <3>2. ProcTypeOK'
      BY <1>0, <2>0, <2>8, <3>1 DEF ReadPrevTime, ProcTypeOK, Goto, shared, Reading
    <3>3. /\ pc[a] = "duration" /\ pc'[a] = "times"
          /\ ~first[a] => duration'[a] = Since(current[a], prevTime)
          /\ current'[a] = current[a] /\ overlap'[a] = overlap[a] /\ first'[a] = first[a]
          /\ (\A b \in Actors \ {a} : SameProc(b)) /\ UNCHANGED <<now, born, prevTime, prevCPU>>
      BY <2>0, <2>8 DEF ReadPrevTime, ProcTypeOK, Goto, SameProc, shared
    <3>4. \A b \in Actors : pc[b] \in Writing <=> pc'[b] \in Writing
      BY <3>3 DEF SameProc, Writing
    <3>5. ~overlap[a] => /\ \A b \in Actors : pc[b] \notin Writing
                         /\ first[a] <=> prevTime = None
      BY <2>a, <3>3 DEF Undisturbed, Reading
    <3>6. SampleDated(a)' /\ Undisturbed(a)' /\ Explained(a)'
      BY <2>a, <3>3, <3>4, <3>5 DEF SampleDated, Undisturbed, Explained, Writing, Since
    <3> QED BY <3>2, <3>3, <3>6, OutsideLock DEF Writing
  <2>9. ASSUME NEW a \in Actors, ReadTimes(a) PROVE ProcInv'
    <3>1. PICK t \in {now - born, None} : cpu' = [cpu EXCEPT ![a] = t]
      BY <2>9 DEF ReadTimes
    <3>2. now - current[a] \in Nat /\ t \in Nat \union {-1} /\ (t # -1 => t + born = now)
      BY <2>a, <2>b DEF SampleDated
    <3>3. ProcTypeOK'
      BY <2>0, <2>9, <3>1, <3>2 DEF ReadTimes, ProcTypeOK, Goto, shared, Reading
    <3>4. /\ pc[a] = "times" /\ pc'[a] = "usage" /\ cpu'[a] = t /\ lag'[a] = now - current[a]
          /\ current'[a] = current[a] /\ overlap'[a] = overlap[a] /\ first'[a] = first[a]
          /\ duration'[a] = duration[a]
          /\ (\A b \in Actors \ {a} : SameProc(b)) /\ UNCHANGED <<now, born, prevTime, prevCPU>>
      BY <2>0, <2>9, <3>1 DEF ReadTimes, ProcTypeOK, Goto, SameProc, shared
    <3>5. \A b \in Actors : pc[b] \in Writing <=> pc'[b] \in Writing
      BY <3>4 DEF SameProc, Writing
    <3>6. ~overlap[a] =>
            /\ \A b \in Actors : pc[b] \notin Writing
            /\ first[a] <=> prevTime = None
            /\ ~first[a] => duration[a] = Since(current[a], prevTime)
      BY <2>a, <3>4 DEF Undisturbed, Reading
    <3>7. ~overlap[a] /\ t # -1 /\ prevCPU # -1 => t + prevTime <= prevCPU + current[a] + (now - current[a])
      <4>1. ~overlap[a] /\ prevCPU # -1 => prevCPU + born >= prevTime
        BY <2>0, <3>6 DEF Pair, Writing
      <4> QED BY <2>b, <3>2, <4>1
    <3>8. SampleDated(a)'
      BY <2>a, <2>b, <3>2, <3>4 DEF SampleDated
    <3>9. Undisturbed(a)' /\ Explained(a)'
      BY <3>4, <3>5, <3>6, <3>7 DEF Undisturbed, Explained, Since
    <3> QED BY <3>3, <3>4, <3>8, <3>9, OutsideLock DEF Writing
  <2>10. ASSUME NEW a \in Actors, ReadPrevCPU(a) PROVE ProcInv'
    <3>1. Usage(a) \in Nat \union {-1}
      BY <2>b DEF Usage
    <3>2. ProcTypeOK'
      BY <2>0, <2>10, <3>1 DEF ReadPrevCPU, ProcTypeOK, Goto, shared
    <3>3. /\ pc[a] = "usage" /\ pc'[a] = "lock" /\ used'[a] = Usage(a)
          /\ current'[a] = current[a] /\ overlap'[a] = overlap[a] /\ cpu'[a] = cpu[a]
          /\ duration'[a] = duration[a] /\ lag'[a] = lag[a]
          /\ (\A b \in Actors \ {a} : SameProc(b)) /\ UNCHANGED <<now, born, prevTime, prevCPU>>
      BY <2>0, <2>10 DEF ReadPrevCPU, ProcTypeOK, Goto, SameProc, shared
    <3>4. ASSUME ~overlap[a] PROVE Usage(a) <= duration[a] + lag[a]
      <4>1. CASE first[a] \/ prevCPU = -1
        BY <2>b, <4>1 DEF Usage
      <4>2. CASE ~first[a] /\ prevCPU # -1 /\ cpu[a] = -1
        BY <2>b, <4>2 DEF Usage
      <4>3. CASE ~first[a] /\ prevCPU # -1 /\ cpu[a] # -1
        <5>1. /\ prevTime # -1 /\ duration[a] = Since(current[a], prevTime)
              /\ cpu[a] + prevTime <= prevCPU + current[a] + lag[a]
          BY <2>a, <3>3, <3>4, <4>3 DEF Undisturbed, Reading
        <5>2. Usage(a) = -1 \/ Usage(a) = cpu[a] - prevCPU
          BY <4>3 DEF Usage
        <5>3. CASE current[a] > prevTime
          BY <2>b, <4>3, <5>1, <5>2, <5>3 DEF Since
        <5>4. CASE ~(current[a] > prevTime)
          BY <2>b, <4>3, <5>1, <5>2, <5>4
        <5> QED BY <5>3, <5>4
      <4> QED BY <4>1, <4>2, <4>3
    <3>5. Explained(a)'
      BY <2>b, <3>1, <3>3, <3>4 DEF Explained
    <3>6. SampleDated(a)' /\ Undisturbed(a)'
      BY <2>a, <3>3 DEF SampleDated, Undisturbed, Reading
    <3> QED BY <3>2, <3>3, <3>5, <3>6, OutsideLock DEF Writing
  <2>11. ASSUME NEW a \in Actors, Lock(a) PROVE ProcInv'
    <3>1. /\ pc[a] = "lock" /\ pc'[a] = "write" /\ current'[a] = current[a] /\ cpu'[a] = cpu[a]
          /\ \A b \in Actors \ {a} :
               /\ pc'[b] = pc[b] /\ current'[b] = current[b] /\ cpu'[b] = cpu[b] /\ first'[b] = first[b]
               /\ duration'[b] = duration[b] /\ lag'[b] = lag[b] /\ used'[b] = used[b]
          /\ UNCHANGED <<now, born, prevTime, prevCPU>>
      BY <2>0, <2>11 DEF Lock, ProcTypeOK, Goto, shared
    <3>2. \A b \in Actors \ {a} :
            /\ overlap[b] => overlap'[b]
            /\ pc[b] \in Reading => overlap'[b]
            /\ pc[b] \notin Writing
      BY <2>0, <2>11 DEF Lock, ProcTypeOK, Unlocked
    <3>3. ProcTypeOK'
      <4>1. overlap' \in [Actors -> BOOLEAN]
        BY <2>11 DEF Lock
      <4> QED
        BY <1>0, <2>0, <2>11, <4>1 DEF Lock, ProcTypeOK, Goto, shared, Writing
    <3>4. Mutex'
      BY <3>1, <3>2 DEF Mutex
    <3>5. Pair'
      BY <2>0, <3>1, <3>2 DEF Pair, Writing
    <3>6. SampleDated(a)' /\ HalfWritten(a)' /\ Undisturbed(a)' /\ Explained(a)'
      BY <2>a, <3>1 DEF SampleDated, HalfWritten, Undisturbed, Explained, Reading, Writing
    <3>7. ASSUME NEW b \in Actors \ {a}
          PROVE  SampleDated(b)' /\ HalfWritten(b)' /\ Undisturbed(b)' /\ Explained(b)'
      BY <2>a, <3>1, <3>2 DEF SampleDated, HalfWritten, Undisturbed, Explained
    <3> QED BY <3>3, <3>4, <3>5, <3>6, <3>7 DEF ProcInv
  <2>12. ASSUME NEW a \in Actors, pc[a] \in Writing, NEW b \in Actors \ {a}
         PROVE  pc[b] \notin Writing /\ (pc[b] \in Reading => overlap[b])
    BY <2>0, <2>a, <2>12 DEF Mutex, Undisturbed
  <2>13. ASSUME NEW a \in Actors, WriteTimes(a) \/ WriteTime(a) PROVE ProcInv'
    <3>1. /\ pc[a] \in Writing /\ pc'[a] \in {"timeLeft", "timesLeft", "store"}
          /\ pc' = [pc EXCEPT ![a] = pc'[a]]
          /\ \A b \in Actors \ {a} : pc'[b] = pc[b]
          /\ UNCHANGED <<now, born, current, first, duration, cpu, lag, used, overlap, procCache>>
      BY <2>0, <2>13
      DEF WriteTimes, WriteTime, ProcTypeOK, Goto, sample, Writing
    <3>2. /\ pc'[a] = "timeLeft" => prevCPU' = cpu[a]
          /\ pc'[a] = "timesLeft" => prevTime' = current[a]
          /\ pc'[a] = "store" => prevCPU' = cpu[a] /\ prevTime' = current[a]
      BY <2>0, <2>a, <2>13 DEF WriteTimes, WriteTime, ProcTypeOK, Goto, HalfWritten
    <3>3. ProcTypeOK'
      <4>1. prevTime' \in Nat \union {-1} /\ prevCPU' \in Nat \union {-1}
        BY <2>b, <2>13 DEF WriteTimes, WriteTime
      <4>2. pc' \in [Actors -> {"idle", "list", "lock", "store"} \union Reading \union Writing]
        BY <2>0, <3>1 DEF ProcTypeOK, Writing
      <4> QED BY <2>0, <3>1, <4>1, <4>2 DEF ProcTypeOK
    <3>4. Mutex'
      BY <2>12, <3>1 DEF Mutex
    <3>5. Pair'
      <4>1. cpu[a] # -1 => cpu[a] + born >= current[a]
        BY <2>a, <3>1 DEF SampleDated
      <4>2. CASE pc'[a] = "store"
        BY <3>1, <3>2, <4>1, <4>2 DEF Pair
      <4>3. CASE pc'[a] # "store"
        BY <3>1, <4>3 DEF Pair
      <4> QED BY <4>2, <4>3
    <3>6. SampleDated(a)' /\ HalfWritten(a)' /\ Undisturbed(a)' /\ Explained(a)'
      BY <2>a, <3>1, <3>2 DEF SampleDated, HalfWritten, Undisturbed, Explained, Reading, Writing
    <3>7. ASSUME NEW b \in Actors \ {a}
          PROVE  SampleDated(b)' /\ HalfWritten(b)' /\ Undisturbed(b)' /\ Explained(b)'
      <4>1. pc[b] \notin Writing /\ (pc[b] \in Reading => overlap[b])
        BY <2>12, <3>1
      <4> QED BY <2>a, <3>1, <4>1 DEF SampleDated, HalfWritten, Undisturbed, Explained, Writing
    <3> QED BY <3>3, <3>4, <3>5, <3>6, <3>7 DEF ProcInv
  <2>14. ASSUME NEW a \in Actors, ProcStore(a) PROVE ProcInv'
    <3>1. ProcTypeOK'
      BY <2>0, <2>14 DEF ProcStore, ProcTypeOK, Goto, shared
    <3>2. pc[a] = "store" /\ pc'[a] = "idle" /\ current'[a] = 0
          /\ (\A b \in Actors \ {a} : SameProc(b)) /\ UNCHANGED <<now, born, prevTime, prevCPU>>
      BY <2>0, <2>14 DEF ProcStore, ProcTypeOK, Goto, SameProc, shared
    <3>3. SampleDated(a)' /\ Undisturbed(a)' /\ Explained(a)'
      BY <2>b, <3>2 DEF SampleDated, Undisturbed, Explained, Reading, Writing
    <3> QED BY <3>1, <3>2, <3>3, OutsideLock DEF Writing
  <2> QED
    BY <2>1, <2>2, <2>4, <2>5, <2>6, <2>7, <2>8, <2>9, <2>10, <2>11, <2>13, <2>14
    DEF ProcNext, CollectProcessMetrics
<1> QED BY <1>1, <1>2, PTL DEF ProcSpec

\* The types: in particular no duration is zero or negative, so that the usage
\* is never divided by one (process.go:97-106).
THEOREM ProcTypeCorrect == ProcSpec => []ProcTypeOK
<1>1. ProcInv => ProcTypeOK
  BY DEF ProcInv
<1> QED BY <1>1, ProcInvHolds, PTL

\* Whenever the lock is free, c.prevCPUTimes was read no earlier than
\* c.prevTime was taken, whichever goroutine stored last.
THEOREM StoredPairConsistentHolds == ProcSpec => []StoredPairConsistent
<1>1. ProcInv => StoredPairConsistent
  BY DEF ProcInv, Pair, StoredPairConsistent, Unlocked, Writing, Actors
<1> QED BY <1>1, ProcInvHolds, PTL

\* A usage beyond the duration, and the time the loop itself took, is reported
\* only by a goroutine whose unlocked reads met a critical section of the other.
THEOREM InflationNeedsOverlapHolds == ProcSpec => []InflationNeedsOverlap
<1>1. ProcInv => InflationNeedsOverlap
  BY DEF ProcInv, Explained, InflationNeedsOverlap, Actors
<1> QED BY <1>1, ProcInvHolds, PTL
=============================================================================
