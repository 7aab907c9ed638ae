-------------------------- MODULE CollectionProofs --------------------------
(***************************************************************************)
(* Proofs about CollectAll and its loop: first MasterCollector alone, for  *)
(* every finite set of collectors and every number of rounds, then with    *)
(* the CPU and the network collector in place, for every set of hosts and  *)
(* every width of the counters.  TwoCollectors, the assumption of the      *)
(* composition, is used by CollectionSteps and what follows from it only.  *)
(***************************************************************************)
EXTENDS Collection, FiniteSetTheorems, TLAPS

\* The goroutines of the round that have not called wg.Done yet.
Active == {c \in Collectors : worker[c] # "idle"}

\* The WaitGroup counts exactly the goroutines that are still at work, and a
\* collector's field and error entry are untouched until its goroutine ends.
WaitGroupExact ==
  /\ wg = Cardinality(Active)
  /\ loop = "tick" => Active = {}
  /\ loop # "spawn" => unspawned = {}
  /\ \A c \in Collectors :
       IF c \in unspawned \union Active
       THEN fields[c] = 0 /\ c \notin errors
       ELSE loop # "tick" => fields[c] = IF c \in errors THEN 0 ELSE round
  /\ \A c \in unspawned : worker[c] = "idle"

Inv == TypeOK /\ WaitGroupExact /\ SnapshotComplete

-----------------------------------------------------------------------------
\* A goroutine that starts adds one to the count, one that ends takes one off.
LEMMA ActiveCount ==
  ASSUME TypeOK, NEW c \in Collectors, NEW w \in {"idle", "collect", "store", "fail"},
         worker' = [worker EXCEPT ![c] = w]
  PROVE  /\ Cardinality(Active) \in Nat
         /\ (worker[c] = "idle" /\ w # "idle") =>
              Active' = Active \union {c} /\ Cardinality(Active') = Cardinality(Active) + 1
         /\ (worker[c] # "idle" /\ w = "idle") =>
              Active' = Active \ {c} /\ Cardinality(Active') = Cardinality(Active) - 1
         /\ (worker[c] # "idle" /\ w # "idle") => Active' = Active
<1>1. IsFiniteSet(Active) /\ Cardinality(Active) \in Nat
  BY CollectorsAssumption, FS_Subset, FS_CardinalityType DEF Active
<1>2. ASSUME worker[c] = "idle", w # "idle"
      PROVE  Active' = Active \union {c} /\ Cardinality(Active') = Cardinality(Active) + 1
  <2>1. Active' = Active \union {c} /\ c \notin Active
    BY <1>2 DEF Active, TypeOK
  <2> QED BY <1>1, <2>1, FS_AddElement
<1>3. ASSUME worker[c] # "idle", w = "idle"
      PROVE  Active' = Active \ {c} /\ Cardinality(Active') = Cardinality(Active) - 1
  <2>1. Active' = Active \ {c} /\ c \in Active
    BY <1>3 DEF Active, TypeOK
  <2> QED BY <1>1, <2>1, FS_RemoveElement
<1>4. ASSUME worker[c] # "idle", w # "idle" PROVE Active' = Active
  BY <1>4 DEF Active, TypeOK
<1> QED BY <1>1, <1>2, <1>3, <1>4

\* The invariant of the fan-out and the fan-in.
THEOREM InvHolds == Spec => []Inv
<1>1. Init => Inv
  <2> SUFFICES ASSUME Init PROVE Inv
    OBVIOUS
  <2>1. TypeOK
    BY DEF Init, TypeOK, Blank
  <2>2. Active = {}
    BY DEF Init, Active
  <2>3. WaitGroupExact
    BY <2>2, FS_EmptySet DEF Init, WaitGroupExact, Blank
  <2>4. SnapshotComplete
    BY DEF Init, SnapshotComplete, Blank
  <2> QED BY <2>1, <2>3, <2>4 DEF Inv
<1>2. Inv /\ [Next]_vars => Inv'
  <2> SUFFICES ASSUME Inv, [Next]_vars PROVE Inv'
    OBVIOUS
  <2>0. TypeOK /\ WaitGroupExact /\ SnapshotComplete
    BY DEF Inv
  <2>1. CASE BeginRound
    <3>1. Active' = Active /\ Active = {}
      BY <2>0, <2>1 DEF BeginRound, Active, WaitGroupExact
    <3>2. TypeOK'
      BY <2>0, <2>1 DEF BeginRound, TypeOK, Blank
    <3>3. WaitGroupExact'
      BY <2>0, <2>1, <3>1 DEF BeginRound, WaitGroupExact, TypeOK, Blank, Active
    <3>4. SnapshotComplete'
      BY <2>0, <2>1 DEF BeginRound, SnapshotComplete
    <3> QED BY <3>2, <3>3, <3>4 DEF Inv
  <2>2. ASSUME NEW c \in Collectors, Spawn(c) PROVE Inv'
    <3>1. worker[c] = "idle"
      BY <2>0, <2>2 DEF Spawn, WaitGroupExact
    <3>2. Active' = Active \union {c} /\ Cardinality(Active') = Cardinality(Active) + 1
      BY <2>0, <2>2, <3>1, ActiveCount DEF Spawn
    <3>3. TypeOK'
      BY <2>0, <2>2 DEF Spawn, TypeOK
    <3>4. WaitGroupExact'
      BY <2>0, <2>2, <3>2 DEF Spawn, WaitGroupExact, TypeOK
    <3>5. SnapshotComplete'
      BY <2>0, <2>2 DEF Spawn, SnapshotComplete
    <3> QED BY <3>3, <3>4, <3>5 DEF Inv
  <2>3. CASE SpawnedAll
    <3>1. Active' = Active
      BY <2>3 DEF SpawnedAll, Active
    <3> QED BY <2>0, <2>3, <3>1
            DEF SpawnedAll, Inv, TypeOK, WaitGroupExact, SnapshotComplete
  <2>4. ASSUME NEW c \in Collectors, CollectReturns(c) PROVE Inv'
    <3>1. PICK r \in {"store", "fail"} : worker' = [worker EXCEPT ![c] = r]
      BY <2>4 DEF CollectReturns
    <3>2. Active' = Active
      BY <2>0, <2>4, <3>1, ActiveCount DEF CollectReturns
    <3>3. TypeOK'
      BY <2>0, <2>4, <3>1 DEF CollectReturns, TypeOK
    <3>4. c \notin unspawned
      BY <2>0, <2>4 DEF CollectReturns, WaitGroupExact
    <3>5. WaitGroupExact'
      BY <2>0, <2>4, <3>1, <3>2, <3>4 DEF CollectReturns, WaitGroupExact, TypeOK
    <3>6. SnapshotComplete'
      BY <2>0, <2>4 DEF CollectReturns, SnapshotComplete
    <3> QED BY <3>3, <3>5, <3>6 DEF Inv
  <2>5. ASSUME NEW c \in Collectors, Store(c) PROVE Inv'
    <3>1. Active' = Active \ {c} /\ Cardinality(Active') = Cardinality(Active) - 1
          /\ Cardinality(Active) \in Nat
      BY <2>0, <2>5, ActiveCount DEF Store
    <3>2. c \in Active /\ c \notin unspawned /\ c \notin errors /\ loop # "tick"
      BY <2>0, <2>5 DEF Store, WaitGroupExact, Active
    <3>3. Cardinality(Active') \in Nat
      BY CollectorsAssumption, FS_Subset, FS_CardinalityType DEF Active
    <3>4. TypeOK'
      BY <2>0, <2>5, <3>1, <3>3 DEF Store, TypeOK, WaitGroupExact
    <3>5. WaitGroupExact'
      BY <2>0, <2>5, <3>1, <3>2 DEF Store, WaitGroupExact, TypeOK
    <3>6. SnapshotComplete'
      BY <2>0, <2>5 DEF Store, SnapshotComplete
    <3> QED BY <3>4, <3>5, <3>6 DEF Inv
  <2>6. ASSUME NEW c \in Collectors, Fail(c) PROVE Inv'
    <3>1. Active' = Active \ {c} /\ Cardinality(Active') = Cardinality(Active) - 1
          /\ Cardinality(Active) \in Nat
      BY <2>0, <2>6, ActiveCount DEF Fail
    <3>2. c \in Active /\ c \notin unspawned /\ fields[c] = 0 /\ loop # "tick"
      BY <2>0, <2>6 DEF Fail, WaitGroupExact, Active
    <3>3. Cardinality(Active') \in Nat
      BY CollectorsAssumption, FS_Subset, FS_CardinalityType DEF Active
    <3>4. TypeOK'
      BY <2>0, <2>6, <3>1, <3>3 DEF Fail, TypeOK, WaitGroupExact
    <3>5. WaitGroupExact'
      BY <2>0, <2>6, <3>1, <3>2 DEF Fail, WaitGroupExact, TypeOK
    <3>6. SnapshotComplete'
      BY <2>0, <2>6 DEF Fail, SnapshotComplete
    <3> QED BY <3>4, <3>5, <3>6 DEF Inv
  <2>7. CASE PushSnapshot
    <3>1. Active' = Active
      BY <2>7 DEF PushSnapshot, Active
    <3>2. Active = {}
      <4>1. IsFiniteSet(Active) /\ Cardinality(Active) = 0
        BY <2>0, <2>7, CollectorsAssumption, FS_Subset
        DEF PushSnapshot, WaitGroupExact, Active
      <4> QED BY <4>1, FS_EmptySet
    <3>3. TypeOK'
      BY <2>0, <2>7 DEF PushSnapshot, TypeOK
    <3>4. WaitGroupExact'
      BY <2>0, <2>7, <3>1, <3>2 DEF PushSnapshot, WaitGroupExact
    <3>5. \A c \in Collectors : fields[c] = IF c \in errors THEN 0 ELSE round
      BY <2>0, <2>7, <3>2 DEF PushSnapshot, WaitGroupExact
    <3>6. SnapshotComplete'
      BY <2>7, <3>5 DEF PushSnapshot, SnapshotComplete
    <3> QED BY <3>3, <3>4, <3>6 DEF Inv
  <2>8. CASE UNCHANGED vars
    <3>1. Active' = Active
      BY <2>8 DEF vars, Active
    <3> QED BY <2>0, <2>8, <3>1
            DEF vars, Inv, TypeOK, WaitGroupExact, SnapshotComplete
  <2> QED
    BY <2>1, <2>2, <2>3, <2>4, <2>5, <2>6, <2>7, <2>8 DEF Next
<1> QED BY <1>1, <1>2, PTL DEF Spec

\* Every pushed snapshot is complete: this round's data in each field, or
\* zero and a recorded failure.
THEOREM SnapshotCompleteHolds == Spec => []SnapshotComplete
<1>1. Inv => SnapshotComplete
  BY DEF Inv
<1> QED BY <1>1, InvHolds, PTL

\* No goroutine of a round survives it.
THEOREM NoStragglerHolds == Spec => []NoStraggler
<1>1. Inv => NoStraggler
  BY DEF Inv, WaitGroupExact, NoStraggler, Active
<1> QED BY <1>1, InvHolds, PTL

-----------------------------------------------------------------------------
\* The composition takes MasterCollector's own steps: the last step of each
\* collector's Collect is its CollectReturns, and all steps before it leave the
\* loop's state alone.
LEMMA CollectionSteps == AllSpec => Spec
<1>1. AllInit => Init
  BY DEF AllInit
<1>2. [AllNext]_allVars => [Next]_vars
  <2> SUFFICES ASSUME [AllNext]_allVars PROVE [Next]_vars
    OBVIOUS
  <2>0. "cpu" \in Collectors /\ "network" \in Collectors
    BY TwoCollectors
  <2>1. CASE Begin \/ Wait \/ Push
    BY <2>1 DEF Begin, Wait, Push, Next
  <2>2. CASE SpawnNetwork \/ StoreNetwork
    BY <2>0, <2>2 DEF SpawnNetwork, StoreNetwork, Next
  <2>3. CASE SpawnCPU \/ RecordCPU
    BY <2>0, <2>3 DEF SpawnCPU, RecordCPU, Next
  <2>4. CASE NetworkReturns
    <3>1. CollectReturns("network")
      BY <2>4 DEF NetworkReturns, CollectReturns
    <3> QED BY <2>0, <3>1 DEF Next
  <2>5. CASE CPUReturns
    <3>1. CollectReturns("cpu")
      BY <2>5 DEF CPUReturns, CollectReturns
    <3> QED BY <2>0, <3>1 DEF Next
  <2>6. CASE CPURun \/ CPUStep \/ NetStep \/ Die
    BY <2>6 DEF CPURun, CPUStep, NetStep, Die
  <2>7. CASE UNCHANGED allVars
    BY <2>7 DEF allVars
  <2> QED
    BY <2>1, <2>2, <2>3, <2>4, <2>5, <2>6, <2>7 DEF AllNext, Alive
<1> QED BY <1>1, <1>2, PTL DEF AllSpec, Spec

\* The completeness of snapshots, proved of MasterCollector, holds of the
\* composition as well.
COROLLARY CollectionSnapshotComplete == AllSpec => []SnapshotComplete
BY CollectionSteps, SnapshotCompleteHolds, PTL

-----------------------------------------------------------------------------
\* On a host whose cores are numbered without gaps and have one or two threads
\* each, no sensor's core number leads out of the slice of cores
\* (cpu.go:240-246).
LEMMA RegularInRange ==
  ASSUME NEW host \in Hosts, Regular(host)
  PROVE  ~OutOfRange(host)
<1>1. /\ host.logical \in Nat \ {0}
      /\ host.physical \in Nat \ {0}
      /\ host.sensors \in SUBSET Nat
  BY HostsAssumption
<1> SUFFICES ASSUME NEW id \in host.sensors
             PROVE  CoresOf(host, id) \subseteq 0..(host.logical - 1)
  BY DEF OutOfRange
<1>2. id \in Nat /\ id <= host.physical - 1
  BY <1>1 DEF Regular
<1>3. CASE host.logical = host.physical
  BY <1>1, <1>2, <1>3 DEF CoresOf
<1>4. CASE host.logical = 2 * host.physical
  BY <1>1, <1>2, <1>4 DEF CoresOf
<1> QED BY <1>3, <1>4 DEF Regular

\* No step changes the host, and only an index out of range ends the process
\* with a panic of the CPU collector.
PanicOutOfRange ==
  /\ cpuHost \in Hosts
  /\ died = "cpu" => OutOfRange(cpuHost)

\* A regular host never takes the process down in the CPU collector, whatever
\* the numbers of its cores and sensors and the interleaving of collections.
THEOREM RegularHostSurvivesHolds == AllSpec => []RegularHostSurvives
<1>1. AllInit => PanicOutOfRange
  BY DEF AllInit, CPUInit, PanicOutOfRange
<1>2. PanicOutOfRange /\ [AllNext]_allVars => PanicOutOfRange'
  <2> SUFFICES ASSUME PanicOutOfRange, [AllNext]_allVars PROVE PanicOutOfRange'
    OBVIOUS
  <2>1. cpuHost' = cpuHost
    <3>1. CPUCollect \/ CPUOk \/ CPUError \/ CPUInside \/ CPUBackground \/ CPUExpire
            \/ CPUPanics => cpuHost' = cpuHost
      BY DEF CPUCollect, CPUOk, CPUError, CPUInside, CPUFromCache, CPUDirectly,
             CPUGathered, CPUPart, CPUBackground, CPUExpire, CPUPanics, cpuVars
    <3>2. UNCHANGED cpuVars => cpuHost' = cpuHost
      BY DEF cpuVars
    <3> QED
      BY <3>1, <3>2 DEF AllNext, Alive, Begin, SpawnNetwork, SpawnCPU, Wait,
         NetworkReturns, CPUReturns, StoreNetwork, RecordCPU, Push, CPURun, CPUStep,
         NetStep, Die, allVars
  <2>2. died' = died \/ died' = "boot" \/ (died' = "cpu" /\ CPUPanics)
    BY DEF AllNext, Alive, Die, allVars
  <2> QED BY <2>1, <2>2 DEF PanicOutOfRange, CPUPanics, OutOfRange, CoresOf
<1>3. PanicOutOfRange => RegularHostSurvives
  BY RegularInRange DEF PanicOutOfRange, RegularHostSurvives
<1> QED BY <1>1, <1>2, <1>3, PTL DEF AllSpec

-----------------------------------------------------------------------------
\* The kernel's counter never exceeds what was received, and it has not gone
\* back behind the previous reading unless it was reset since.
CounterGrows ==
  /\ netTotal \in 0..MaxBytes
  /\ netCount \in 0..netTotal
  /\ netPrev \in 0..MaxBytes \union {NoCounter}
  /\ netPrev # NoCounter /\ netPrev > netCount => netReset

\* A rate above what was ever received was computed across a reset.
Explained(m) == m.rate > MaxBytes => m.reset

RatesExplained ==
  /\ CounterGrows
  /\ Explained(netCache) /\ Explained(netAnswer) /\ Explained(netPushed)

\* The unsigned difference of two readings in their order is the true one.
LEMMA TrueDifference ==
  ASSUME NEW count \in 0..MaxBytes, NEW prev \in 0..count
  PROVE  ByteRate(count, prev) <= MaxBytes
<1>1. count - prev \in 0..(NetWidth - 1) /\ NetWidth \in Nat \ {0} /\ MaxBytes \in Nat
  BY NetWidthAssumption
<1>2. (count - prev) % NetWidth = count - prev
  BY <1>1
<1> QED BY <1>1, <1>2 DEF ByteRate

\* What a collection stores is explained.
LEMMA SampledExplained ==
  ASSUME CounterGrows, NEW up \in BOOLEAN, NEW counted \in BOOLEAN
  PROVE  Explained(Sampled(up, counted))
<1>1. MaxBytes \in Nat
  BY NetWidthAssumption
<1>2. Sampled(up, counted).reset = netReset
  BY DEF Sampled
<1>3. CASE up /\ counted /\ netPrev # NoCounter
  <2>1. Sampled(up, counted).rate = ByteRate(netCount, netPrev)
    BY <1>3 DEF Sampled
  <2>2. CASE netPrev > netCount
    BY <1>2, <1>3, <2>2 DEF CounterGrows, Explained
  <2>3. CASE netPrev <= netCount
    <3>1. netCount \in 0..MaxBytes /\ netPrev \in 0..netCount
      BY <1>1, <1>3, <2>3 DEF CounterGrows
    <3>2. ByteRate(netCount, netPrev) <= MaxBytes
      BY <3>1, TrueDifference
    <3>3. ByteRate(netCount, netPrev) \in Int
      BY <3>1, NetWidthAssumption DEF ByteRate
    <3> QED BY <1>1, <2>1, <3>2, <3>3 DEF Explained
  <2>4. netPrev \in Int /\ netCount \in Int
    BY <1>1, <1>3 DEF CounterGrows
  <2>5. netPrev > netCount \/ netPrev <= netCount
    BY <2>4
  <2> QED BY <2>2, <2>3, <2>5
<1>4. CASE ~(up /\ counted /\ netPrev # NoCounter)
  BY <1>1, <1>4 DEF Sampled, Explained
<1> QED BY <1>3, <1>4

\* A pushed byte rate near 2^64 needs a reset of the interface's counter
\* between two readings, for every width of the counters and however the
\* network loop, the resets and the rounds interleave (network.go:163).
THEOREM WrapNeedsResetHolds == AllSpec => []WrapNeedsReset
<1>0. MaxBytes \in Nat
  BY NetWidthAssumption
<1>1. AllInit => RatesExplained
  BY <1>0 DEF AllInit, NetInit, RatesExplained, CounterGrows, Explained, NoMetrics, NoCounter
<1>2. RatesExplained /\ [AllNext]_allVars => RatesExplained'
  <2> SUFFICES ASSUME RatesExplained, [AllNext]_allVars PROVE RatesExplained'
    OBVIOUS
  <2>0. CounterGrows /\ Explained(netCache) /\ Explained(netAnswer) /\ Explained(netPushed)
    BY DEF RatesExplained
  <2>1. CASE NetStep
    <3>0. UNCHANGED carried
      BY <2>1 DEF NetStep
    <3>1. CASE BytesReceived
      <4>1. CounterGrows'
        BY <1>0, <2>0, <3>1 DEF BytesReceived, CounterGrows, NoCounter
      <4> QED BY <2>0, <3>0, <3>1, <4>1 DEF BytesReceived, RatesExplained, carried, Explained
    <3>2. CASE CounterReset
      <4>0. netPrev # NoCounter => netReset'
        BY <3>2, Zenon DEF CounterReset
      <4>1. CounterGrows'
        BY <1>0, <2>0, <3>2, <4>0 DEF CounterReset, CounterGrows, NoCounter
      <4> QED BY <2>0, <3>0, <3>2, <4>1 DEF CounterReset, RatesExplained, carried, Explained
    <3>3. CASE NetCollect
      <4>1. PICK up \in BOOLEAN, counted \in BOOLEAN :
              /\ netCache' = Sampled(up, counted)
              /\ netPrev' = IF counted THEN netCount ELSE NoCounter
        BY <3>3 DEF NetCollect
      <4>2. CounterGrows'
        BY <1>0, <2>0, <3>3, <4>1 DEF NetCollect, CounterGrows, NoCounter
      <4>3. Explained(netCache')
        BY <2>0, <4>1, SampledExplained
      <4> QED BY <2>0, <3>0, <4>2, <4>3 DEF RatesExplained, carried, Explained
    <3>4. CASE NetFail \/ NetPanic
      BY <2>0, <3>0, <3>4 DEF NetFail, NetPanic, RatesExplained, CounterGrows, carried, Explained
    <3> QED BY <2>1, <3>1, <3>2, <3>3, <3>4 DEF NetStep, NetNext
  <2>2. CASE NetworkReturns
    BY <2>0, <2>2 DEF NetworkReturns, RatesExplained, CounterGrows, Explained, netVars
  <2>3. CASE Push
    BY <1>0, <2>0, <2>3 DEF Push, RatesExplained, CounterGrows, Explained, NoMetrics, netVars
  <2>4. CASE UNCHANGED <<netVars, carried>>
    BY <2>0, <2>4 DEF RatesExplained, CounterGrows, Explained, netVars, carried
  <2>5. Begin \/ SpawnNetwork \/ SpawnCPU \/ Wait \/ CPUReturns \/ StoreNetwork \/ RecordCPU
          \/ CPURun \/ CPUStep \/ Die \/ UNCHANGED allVars => UNCHANGED <<netVars, carried>>
    BY DEF Begin, SpawnNetwork, SpawnCPU, Wait, CPUReturns, StoreNetwork, RecordCPU,
           CPURun, CPUStep, Die, NetBootPanics, allVars
  <2> QED
    BY <2>1, <2>2, <2>3, <2>4, <2>5 DEF AllNext, Alive
<1>3. RatesExplained => WrapNeedsReset
  BY DEF RatesExplained, Explained, WrapNeedsReset
<1> QED BY <1>1, <1>2, <1>3, PTL DEF AllSpec
=============================================================================
