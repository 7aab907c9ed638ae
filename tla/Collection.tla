---------------------------- MODULE Collection ----------------------------
(***************************************************************************)
(* The collection loop with two real collectors: MasterCollector composed  *)
(* with CPUCollector, whose Collect takes several steps and can take the   *)
(* process down, and NetworkCollector, whose Collect always has an answer. *)
(* What MasterCollector calls the return of a Collect is here the last     *)
(* step of the collector's own.                                            *)
(***************************************************************************)
EXTENDS MasterCollector, CPUCollector, NetworkCollector

\* The two of the eight collectors that are composed here.
ASSUME TwoCollectors == Collectors = {"cpu", "network"}

VARIABLES
  netAnswer,  \* the metrics the network goroutine puts into the snapshot
  netPushed,  \* those of the newest pushed snapshot
  died        \* why the process ended: "no", "boot" or "cpu"

carried == <<netAnswer, netPushed>>
allVars == <<vars, cpuVars, netVars, carried, died>>

AllTypeOK ==
  /\ TypeOK /\ CPUTypeOK /\ NetTypeOK
  /\ netAnswer \in Metrics /\ netPushed \in Metrics
  /\ died \in {"no", "boot", "cpu"}
  /\ cpuPc # "idle" <=> worker["cpu"] = "collect"

AllInit ==
  /\ Init /\ CPUInit /\ NetInit
  /\ netAnswer = NoMetrics /\ netPushed = NoMetrics
  /\ died = "no"

-----------------------------------------------------------------------------
\* The loop is started when all constructors have returned.
Begin == netLoop # "boot" /\ BeginRound /\ UNCHANGED <<cpuVars, netVars, carried>>

SpawnNetwork == Spawn("network") /\ UNCHANGED <<cpuVars, netVars, carried>>
SpawnCPU == Spawn("cpu") /\ CPUCollect /\ UNCHANGED <<netVars, carried>>
Wait == SpawnedAll /\ UNCHANGED <<cpuVars, netVars, carried>>

\* Collect under RLock: the cache, and never an error.
NetworkReturns ==
  /\ worker["network"] = "collect"
  /\ worker' = [worker EXCEPT !["network"] = "store"]
  /\ netAnswer' = netCache
  /\ UNCHANGED <<round, loop, unspawned, wg, fields, errors, pushed, cpuVars, netVars, netPushed>>

CPUReturns ==
  /\ worker["cpu"] = "collect"
  /\ \/ CPUOk /\ worker' = [worker EXCEPT !["cpu"] = "store"]
     \/ CPUError /\ worker' = [worker EXCEPT !["cpu"] = "fail"]
  /\ UNCHANGED <<round, loop, unspawned, wg, fields, errors, pushed, netVars, carried>>

StoreNetwork == Store("network") /\ UNCHANGED <<cpuVars, netVars, carried>>
RecordCPU == (Store("cpu") \/ Fail("cpu")) /\ UNCHANGED <<cpuVars, netVars, carried>>

Push ==
  /\ PushSnapshot
  /\ netPushed' = netAnswer
  /\ netAnswer' = NoMetrics
  /\ UNCHANGED <<cpuVars, netVars>>

\* Steps of the collectors that the collection loop does not see.
CPURun == CPUInside /\ UNCHANGED <<vars, netVars, carried>>
CPUStep == (CPUBackground \/ CPUExpire) /\ UNCHANGED <<vars, netVars, carried>>
NetStep == NetNext /\ UNCHANGED <<vars, cpuVars, carried>>

\* A panic of Collect's goroutine, or of the constructor: nothing recovers it.
Die ==
  /\ \/ CPUPanics /\ died' = "cpu" /\ UNCHANGED netVars
     \/ NetBootPanics /\ died' = "boot" /\ UNCHANGED cpuVars
  /\ UNCHANGED <<vars, carried>>

\* A step of a process that is alive.
Alive(A) == died = "no" /\ A /\ UNCHANGED died

AllNext ==
  \/ Alive(Begin)
  \/ Alive(SpawnNetwork)
  \/ Alive(SpawnCPU)
  \/ Alive(Wait)
  \/ Alive(NetworkReturns)
  \/ Alive(CPUReturns)
  \/ Alive(StoreNetwork)
  \/ Alive(RecordCPU)
  \/ Alive(Push)
  \/ Alive(CPURun)
  \/ Alive(CPUStep)
  \/ Alive(NetStep)
  \/ died = "no" /\ Die

\* Goroutines are scheduled and the system calls of Collect return, with a
\* result or an error.  Nothing is assumed of the background loops.
AllFairness ==
  /\ WF_allVars(Alive(Wait \/ Push))
  /\ WF_allVars(Alive(SpawnNetwork)) /\ WF_allVars(Alive(SpawnCPU))
  /\ WF_allVars(Alive(NetworkReturns \/ StoreNetwork))
  /\ WF_allVars(Alive(CPURun \/ CPUReturns \/ RecordCPU))

AllSpec == AllInit /\ [][AllNext]_allVars /\ AllFairness

-----------------------------------------------------------------------------
\* A host whose cores are numbered without gaps and have one thread each or two
\* each never takes the process down (cpu.go:240-246 checks coreID, and then
\* indexes with coreID*2+1).
RegularHostSurvives == Regular(cpuHost) => died # "cpu"

\* Every round ends with a push, on a host whose sensors stay in range.
RoundsEnd == loop = "spawn" ~> loop = "tick" \/ OutOfRange(cpuHost)

\* A pushed byte rate is a true difference, unless the interface's counter was
\* reset between the two readings: then it is near 2^64 (network.go:163).
WrapNeedsReset == netPushed.rate > MaxBytes => netPushed.reset
=============================================================================
