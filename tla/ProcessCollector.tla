------------------------- MODULE ProcessCollector -------------------------
(***************************************************************************)
(* ProcessCollector of internal/collectors/process.go.  The background     *)
(* loop and the Collect call of the current round both run                 *)
(* collectProcessMetrics: it takes the time, derives from c.prevTime how   *)
(* long ago the previous collection was, reads the CPU time of every       *)
(* process, compares it with the one in c.prevCPUTimes, and only then      *)
(* takes the lock to store its own time and CPU times for the next one.    *)
(*                                                                         *)
(* One process stands for all: one that keeps one core busy, so that its   *)
(* CPU time is its age and a true usage is one core.  Its pid may be       *)
(* reused.  Both fields are read without the lock: a reader sees the two   *)
(* writes of the critical section one at a time and in either order.       *)
(***************************************************************************)
EXTENDS Integers, Goroutines

CONSTANTS
  MaxClock,   \* bound on the clock
  Second      \* clock ticks in the duration that replaces a bad one

\* The zero time.Time is long ago: Long is positive.
ASSUME ClockAssumption == MaxClock \in Nat \ {0} /\ Second \in Nat \ {0}

None == -1               \* no entry, no value, the zero time.Time
Long == 2 * MaxClock     \* the duration since the zero time.Time

VARIABLES
  now,       \* the clock
  born,      \* when the process with the pid was started
  prevTime,  \* c.prevTime
  prevCPU,   \* the pid's entry in c.prevCPUTimes
  current,   \* current[a]: its currentTime
  first,     \* first[a]: its isFirstCollection
  duration,  \* duration[a]
  cpu,       \* cpu[a]: the pid's entry in its newCPUTimes
  lag,       \* lag[a]: from currentTime to the reading of the CPU time
  used,      \* used[a]: the CPU time it divides by duration, None if no usage
  overlap,   \* history: a critical section of the other met a's reads
  procCache  \* c.cachedMetrics with c.cachedTime: "empty", "valid" or "expired"

shared == <<prevTime, prevCPU>>
sample == <<current, first, duration, cpu, lag, used>>
procVars == <<now, born, shared, pc, sample, overlap, procCache>>

Reading == {"first", "duration", "times", "usage"}
Writing == {"write", "timeLeft", "timesLeft"}
Date == Nat \union {None}

ProcTypeOK ==
  /\ now \in Nat /\ born \in 0..now
  /\ prevTime \in Date /\ prevCPU \in Date
  /\ pc \in [Actors -> {"idle", "list", "lock", "store"} \union Reading \union Writing]
  /\ current \in [Actors -> Nat]
  /\ first \in [Actors -> BOOLEAN]
  /\ duration \in [Actors -> Nat \ {0}]
  /\ cpu \in [Actors -> Date]
  /\ lag \in [Actors -> Nat]
  /\ used \in [Actors -> Date]
  /\ overlap \in [Actors -> BOOLEAN]
  /\ procCache \in {"empty", "valid", "expired"}

\* NewProcessCollector
ProcInit ==
  /\ now = 0 /\ born = 0
  /\ prevTime = None /\ prevCPU = None
  /\ pc = [a \in Actors |-> IF a = "background" THEN "list" ELSE "idle"]
  /\ current = [a \in Actors |-> 0]
  /\ first = [a \in Actors |-> FALSE]
  /\ duration = [a \in Actors |-> Second]
  /\ cpu = [a \in Actors |-> None]
  /\ lag = [a \in Actors |-> 0]
  /\ used = [a \in Actors |-> None]
  /\ overlap = [a \in Actors |-> FALSE]
  /\ procCache = "empty"

Unlocked == \A a \in Actors : pc[a] \notin Writing

-----------------------------------------------------------------------------
ClockTicks ==
  /\ now < MaxClock
  /\ now' = now + 1
  /\ UNCHANGED <<born, shared, pc, sample, overlap, procCache>>

\* The process ends and another one gets its pid.
PidReused ==
  /\ born < now
  /\ born' = now
  /\ UNCHANGED <<now, shared, pc, sample, overlap, procCache>>

ProcTick ==
  /\ Goto("background", "idle", "list")
  /\ UNCHANGED <<now, born, shared, sample, overlap, procCache>>

\* Collect on a valid cache answers at once.
ProcFromCache ==
  /\ pc["collect"] = "idle" /\ Unlocked
  /\ procCache = "valid"
  /\ UNCHANGED procVars

ProcDirectly ==
  /\ Goto("collect", "idle", "list")
  /\ Unlocked
  /\ procCache # "valid"
  /\ UNCHANGED <<now, born, shared, sample, overlap, procCache>>

-----------------------------------------------------------------------------
\* process.Processes fails.
ProcessesFail(a) ==
  /\ Goto(a, "list", "idle")
  /\ UNCHANGED <<now, born, shared, sample, overlap, procCache>>

\* process.Processes succeeds; currentTime := time.Now()
ReadClock(a) ==
  /\ Goto(a, "list", "first")
  /\ current' = [current EXCEPT ![a] = now]
  /\ overlap' = [overlap EXCEPT ![a] = ~Unlocked]
  /\ UNCHANGED <<now, born, shared, first, duration, cpu, lag, used, procCache>>

\* c.prevTime.IsZero(); half of the first write makes it nonzero already.
IsFirst(a) ==
  /\ Goto(a, "first", "duration")
  /\ \E torn \in {FALSE, ~Unlocked} :
       first' = [first EXCEPT ![a] = prevTime = None /\ ~torn]
  /\ UNCHANGED <<now, born, shared, current, duration, cpu, lag, used, overlap, procCache>>

\* Mutation: no replacement for a duration that is not positive.
SinceUnchecked(time, prev) == IF prev = None THEN Long ELSE time - prev

\* currentTime.Sub(c.prevTime), a second read of the field.
Since(time, prev) ==
  IF prev = None THEN Long ELSE IF time > prev THEN time - prev ELSE Second

ReadPrevTime(a) ==
  /\ Goto(a, "duration", "times")
  /\ duration' = [duration EXCEPT ![a] =
                    IF first[a] THEN Second ELSE Since(current[a], prevTime)]
  /\ UNCHANGED <<now, born, shared, current, first, cpu, lag, used, overlap, procCache>>

\* p.Times(), which fails when the process has ended.
ReadTimes(a) ==
  /\ Goto(a, "times", "usage")
  /\ \E t \in {now - born, None} : cpu' = [cpu EXCEPT ![a] = t]
  /\ lag' = [lag EXCEPT ![a] = now - current[a]]
  /\ UNCHANGED <<now, born, shared, current, first, duration, used, overlap, procCache>>

\* The processInfo.CPUUsage of the pid, before the division; a failed Times
\* leaves a CPU time of 0, and a negative usage is dropped.
Usage(a) ==
  LET diff == (IF cpu[a] = None THEN 0 ELSE cpu[a]) - prevCPU
  IN IF first[a] \/ prevCPU = None \/ diff < 0 THEN None ELSE diff

ReadPrevCPU(a) ==
  /\ Goto(a, "usage", "lock")
  /\ used' = [used EXCEPT ![a] = Usage(a)]
  /\ UNCHANGED <<now, born, shared, current, first, duration, cpu, lag, overlap, procCache>>

\* Mutation: the previous times are replaced without the lock.
LockNot(a) ==
  /\ Goto(a, "lock", "write")
  /\ overlap' = [b \in Actors |-> b # a /\ (overlap[b] \/ pc[b] \in Reading)]
  /\ first' = [first EXCEPT ![a] = FALSE]
  /\ duration' = [duration EXCEPT ![a] = Second]
  /\ lag' = [lag EXCEPT ![a] = 0]
  /\ used' = [used EXCEPT ![a] = None]
  /\ UNCHANGED <<now, born, shared, current, cpu, procCache>>

\* The metrics are complete; what went into them is not needed any more.
Lock(a) ==
  /\ Unlocked
  /\ Goto(a, "lock", "write")
  /\ overlap' = [b \in Actors |-> b # a /\ (overlap[b] \/ pc[b] \in Reading)]
  /\ first' = [first EXCEPT ![a] = FALSE]
  /\ duration' = [duration EXCEPT ![a] = Second]
  /\ lag' = [lag EXCEPT ![a] = 0]
  /\ used' = [used EXCEPT ![a] = None]
  /\ UNCHANGED <<now, born, shared, current, cpu, procCache>>

\* c.prevCPUTimes = newCPUTimes; Unlock follows the second of the writes.
WriteTimes(a) ==
  /\ \/ Goto(a, "write", "timeLeft")
     \/ Goto(a, "timesLeft", "store")
  /\ prevCPU' = cpu[a]
  /\ UNCHANGED <<now, born, prevTime, sample, overlap, procCache>>

\* Mutation: the time of the store instead of that of the readings.
WriteTimeLate(a) ==
  /\ \/ Goto(a, "write", "timesLeft")
     \/ Goto(a, "timeLeft", "store")
  /\ prevTime' = now
  /\ UNCHANGED <<now, born, prevCPU, sample, overlap, procCache>>

\* c.prevTime = currentTime
WriteTime(a) ==
  /\ \/ Goto(a, "write", "timesLeft")
     \/ Goto(a, "timeLeft", "store")
  /\ prevTime' = current[a]
  /\ UNCHANGED <<now, born, prevCPU, sample, overlap, procCache>>

\* Under Lock: the cache and its time; Collect also returns the metrics.
ProcStore(a) ==
  /\ Unlocked
  /\ Goto(a, "store", "idle")
  /\ procCache' = "valid"
  /\ current' = [current EXCEPT ![a] = 0]
  /\ cpu' = [cpu EXCEPT ![a] = None]
  /\ UNCHANGED <<now, born, shared, first, duration, lag, used, overlap>>

\* cacheDuration has passed since the last store.
ProcExpire ==
  /\ procCache = "valid"
  /\ procCache' = "expired"
  /\ UNCHANGED <<now, born, shared, pc, sample, overlap>>

CollectProcessMetrics(a) ==
  \/ ProcessesFail(a) \/ ReadClock(a) \/ IsFirst(a) \/ ReadPrevTime(a)
  \/ ReadTimes(a) \/ ReadPrevCPU(a) \/ Lock(a) \/ WriteTimes(a) \/ WriteTime(a) \/ ProcStore(a)

ProcNext ==
  \/ ClockTicks \/ PidReused \/ ProcTick \/ ProcFromCache \/ ProcDirectly \/ ProcExpire
  \/ \E a \in Actors : CollectProcessMetrics(a)

ProcSpec == ProcInit /\ [][ProcNext]_procVars

-----------------------------------------------------------------------------
\* Outside the critical section the two fields belong together: the stored CPU
\* time was read no earlier than the stored time was taken, although two
\* goroutines store and either may have begun first (process.go:206-210).  The
\* CPU time since then therefore never exceeds the time since then.
StoredPairConsistent ==
  Unlocked /\ prevCPU # None => prevCPU + born >= prevTime

\* A process that uses one core is reported with more CPU time than the
\* duration it is divided by, and the time the loop itself took to reach it,
\* only when the other goroutine stored its times between this one's unlocked
\* reads of c.prevTime and c.prevCPUTimes (process.go:99-101, 157, 206-210).
InflationNeedsOverlap ==
  \A a \in Actors : pc[a] = "lock" /\ used[a] > duration[a] + lag[a] => overlap[a]
=============================================================================
