--------------------------- MODULE CPUCollector ---------------------------
(***************************************************************************)
(* CPUCollector of internal/collectors/cpu.go.  A background loop samples  *)
(* the usage of the CPU and of its cores into a cache; Collect takes the   *)
(* cache or, when it is too old, samples both in two goroutines of its own *)
(* and fills the cache.  It then writes the temperatures of the sensors    *)
(* into the slice of cores, indexed by the numbers in the sensors' names.  *)
(*                                                                         *)
(* A failed sample of the background loop changes nothing and is no step.  *)
(***************************************************************************)
EXTENDS Integers

CONSTANTS
  Hosts   \* hosts the program may run on, each with its CPU counts and the
          \* core numbers that its core_<n> sensors name

ASSUME HostsAssumption ==
  Hosts \subseteq [logical : Nat \ {0}, physical : Nat \ {0}, sensors : SUBSET Nat]

VARIABLES
  cpuHost,    \* the host
  cpuCache,   \* the cached percentages are there and fresh
  cpuPc,      \* where Collect is
  cpuPart     \* cpuPart[p]: the goroutine of a direct collection that samples p

cpuVars == <<cpuHost, cpuCache, cpuPc, cpuPart>>

Parts == {"total", "cores"}
Resting == [p \in Parts |-> "off"]

CPUTypeOK ==
  /\ cpuHost \in Hosts
  /\ cpuCache \in BOOLEAN
  /\ cpuPc \in {"idle", "info", "sample", "temps"}
  /\ cpuPart \in [Parts -> {"off", "run", "ok", "error"}]

\* NewCPUCollector
CPUInit ==
  /\ cpuHost \in Hosts
  /\ cpuCache = FALSE
  /\ cpuPc = "idle"
  /\ cpuPart = Resting

-----------------------------------------------------------------------------
\* The background loop's two samples succeed: both go into the cache at once.
CPUBackground ==
  /\ cpuCache' = TRUE
  /\ UNCHANGED <<cpuHost, cpuPc, cpuPart>>

CPUExpire ==
  /\ cpuCache
  /\ cpuCache' = FALSE
  /\ UNCHANGED <<cpuHost, cpuPc, cpuPart>>

CPUCollect ==
  /\ cpuPc = "idle"
  /\ cpuPc' = "info"
  /\ UNCHANGED <<cpuHost, cpuCache, cpuPart>>

\* cpu.Info and cpu.Counts succeed, and the cache decides.
CPUFromCache ==
  /\ cpuPc = "info" /\ cpuCache
  /\ cpuPc' = "temps"
  /\ UNCHANGED <<cpuHost, cpuCache, cpuPart>>

CPUDirectly ==
  /\ cpuPc = "info" /\ ~cpuCache
  /\ cpuPc' = "sample"
  /\ cpuPart' = [p \in Parts |-> "run"]
  /\ UNCHANGED <<cpuHost, cpuCache>>

\* cpu.PercentWithContext in one of the two goroutines, then wg.Done.
CPUPart(p) ==
  /\ cpuPart[p] = "run"
  /\ \E r \in {"ok", "error"} : cpuPart' = [cpuPart EXCEPT ![p] = r]
  /\ UNCHANGED <<cpuHost, cpuCache, cpuPc>>

\* wg.Wait returns and neither failed: the cache is filled.
CPUGathered ==
  /\ cpuPc = "sample" /\ \A p \in Parts : cpuPart[p] = "ok"
  /\ cpuCache' = TRUE
  /\ cpuPc' = "temps"
  /\ cpuPart' = Resting
  /\ UNCHANGED cpuHost

\* Collect returns an error: of cpu.Info or cpu.Counts, or of a direct sample.
CPUError ==
  /\ \/ cpuPc = "info"
     \/ cpuPc = "sample" /\ (\A p \in Parts : cpuPart[p] # "run")
                         /\ (\E p \in Parts : cpuPart[p] = "error")
  /\ cpuPc' = "idle"
  /\ cpuPart' = Resting
  /\ UNCHANGED <<cpuHost, cpuCache>>

\* Mutation: the threads of a core counted from 1.
CoresOfFromOne(host, id) ==
  IF id >= host.logical THEN {}
  ELSE IF host.logical # host.physical THEN {2 * id + 1, 2 * id + 2} ELSE {id}

\* The elements of cores that the sensor core_<id> writes to.  cores has one
\* element for each percentage, taken to be one for each logical CPU.
CoresOf(host, id) ==
  IF id >= host.logical THEN {}
  ELSE IF host.logical # host.physical THEN {2 * id, 2 * id + 1} ELSE {id}

\* One of the writes is out of the range of cores.
OutOfRange(host) ==
  \E id \in host.sensors : ~(CoresOf(host, id) \subseteq 0..(host.logical - 1))

\* host.SensorsTemperatures fails, which is only logged, or all writes are in
\* range: Collect returns the metrics.
CPUOk ==
  /\ cpuPc = "temps"
  /\ \E sensed \in BOOLEAN : ~(sensed /\ OutOfRange(cpuHost))
  /\ cpuPc' = "idle"
  /\ UNCHANGED <<cpuHost, cpuCache, cpuPart>>

\* The index panic, which nobody recovers.
CPUPanics == cpuPc = "temps" /\ OutOfRange(cpuHost) /\ UNCHANGED cpuVars

\* Steps of Collect inside, between its call and its return.
CPUInside == CPUFromCache \/ CPUDirectly \/ CPUGathered \/ \E p \in Parts : CPUPart(p)

\* A host whose cores are numbered from 0 without gaps and have one thread each
\* or two threads each.
Regular(host) ==
  /\ host.sensors \subseteq 0..(host.physical - 1)
  /\ host.logical \in {host.physical, 2 * host.physical}
=============================================================================
