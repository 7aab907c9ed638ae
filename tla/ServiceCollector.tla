------------------------- MODULE ServiceCollector -------------------------
(***************************************************************************)
(* ServiceCollector of internal/collectors/service.go.  The background     *)
(* loop and the Collect call of the current round both run                 *)
(* collectServiceMetrics: it takes the D-Bus connection from c.conn, where *)
(* the first caller has put the one dbus.SystemBus gave it, asks systemd   *)
(* for its units, and makes two more calls for each service, whose         *)
(* failures it ignores.  c.conn is read and written without the lock.      *)
(*                                                                         *)
(* Connections are numbered as they are dialled.  The library shares the   *)
(* newest and dials again when it is closed; an older one stays closed.    *)
(***************************************************************************)
EXTENDS Integers, Goroutines

CONSTANTS
  MaxDials,    \* bound on the connections the library dials
  UnitCalls    \* calls made after ListUnits, two for each service

ASSUME BoundsAssumption == MaxDials \in Nat /\ UnitCalls \in Nat

Nil == 0

VARIABLES
  dialled,   \* connections the library has dialled; the newest is shared
  up,        \* the newest connection is open
  conn,      \* c.conn: the number of a connection, or Nil
  mine,      \* mine[a]: its conn
  found,     \* found[a]: its ListUnits named a service
  left,      \* left[a]: calls it has still to make
  empty,     \* empty[a]: a field of one of its services was left empty
  refused,   \* history: systemd has refused a value to a since its ListUnits
  dropped,   \* history: the bus has closed a connection since a's ListUnits
  cache      \* c.cachedMetrics with c.cachedTime: "empty", "valid" or "expired"

bus == <<dialled, up>>
unfilled == <<empty, refused>>
local == <<mine, found, left, unfilled, dropped>>
vars == <<bus, conn, pc, local, cache>>

TypeOK ==
  /\ dialled \in Nat /\ up \in BOOLEAN
  /\ conn \in 0..dialled
  /\ pc \in [Actors -> {"idle", "check", "reuse", "dial", "assign", "list", "units", "store"}]
  /\ mine \in [Actors -> 0..dialled]
  /\ found \in [Actors -> BOOLEAN]
  /\ left \in [Actors -> 0..UnitCalls]
  /\ empty \in [Actors -> BOOLEAN]
  /\ refused \in [Actors -> BOOLEAN] /\ dropped \in [Actors -> BOOLEAN]
  /\ cache \in {"empty", "valid", "expired"}

\* NewServiceCollector; the background loop collects at once.
Init ==
  /\ dialled = 0 /\ up = FALSE
  /\ conn = Nil
  /\ pc = [a \in Actors |-> IF a = "background" THEN "check" ELSE "idle"]
  /\ mine = [a \in Actors |-> Nil]
  /\ found = [a \in Actors |-> FALSE]
  /\ left = [a \in Actors |-> 0]
  /\ empty = [a \in Actors |-> FALSE]
  /\ refused = [a \in Actors |-> FALSE]
  /\ dropped = [a \in Actors |-> FALSE]
  /\ cache = "empty"

Open(c) == c # Nil /\ c = dialled /\ up

-----------------------------------------------------------------------------
\* The bus or the daemon behind it goes away.
BusDrops ==
  /\ up
  /\ up' = FALSE
  /\ dropped' = [a \in Actors |-> TRUE]
  /\ UNCHANGED <<dialled, conn, pc, mine, found, left, unfilled, cache>>

Tick ==
  /\ Goto("background", "idle", "check")
  /\ UNCHANGED <<bus, conn, local, cache>>

\* Collect on a cache that is not valid; a valid one is returned at once.
CollectDirectly ==
  /\ cache # "valid"
  /\ Goto("collect", "idle", "check")
  /\ UNCHANGED <<bus, conn, local, cache>>

Expire ==
  /\ cache = "valid"
  /\ cache' = "expired"
  /\ UNCHANGED <<bus, conn, pc, local>>

-----------------------------------------------------------------------------
\* getDbusConnection: c.conn != nil
CheckConn(a) ==
  /\ pc[a] = "check"
  /\ pc' = [pc EXCEPT ![a] = IF conn = Nil THEN "dial" ELSE "reuse"]
  /\ UNCHANGED <<bus, conn, local, cache>>

\* return c.conn, a second read
ReuseConn(a) ==
  /\ Goto(a, "reuse", "list")
  /\ mine' = [mine EXCEPT ![a] = conn]
  /\ UNCHANGED <<bus, conn, found, left, unfilled, dropped, cache>>

\* dbus.SystemBus: the shared connection if it is open, or a new one.
SystemBus(a) ==
  /\ Goto(a, "dial", "assign")
  /\ up \/ dialled < MaxDials
  /\ dialled' = IF up THEN dialled ELSE dialled + 1
  /\ up' = TRUE
  /\ mine' = [mine EXCEPT ![a] = dialled']
  /\ UNCHANGED <<conn, found, left, unfilled, dropped, cache>>

SystemBusFails(a) ==
  /\ ~up
  /\ Goto(a, "dial", "idle")
  /\ UNCHANGED <<bus, conn, local, cache>>

\* Mutation: the connection is used but not kept.
AssignNot(a) ==
  /\ Goto(a, "assign", "list")
  /\ UNCHANGED <<bus, conn, local, cache>>

\* c.conn = conn
AssignConn(a) ==
  /\ Goto(a, "assign", "list")
  /\ conn' = mine[a]
  /\ UNCHANGED <<bus, local, cache>>

\* Mutation: an error of ListUnits is ignored.
ListFailsOn(a) ==
  /\ ~Open(mine[a])
  /\ Goto(a, "list", "units")
  /\ left' = [left EXCEPT ![a] = UnitCalls]
  /\ dropped' = [dropped EXCEPT ![a] = FALSE]
  /\ UNCHANGED <<bus, conn, mine, found, unfilled, cache>>

\* ListUnits fails, on a closed connection or with an error of systemd: the
\* collection ends.
ListFails(a) ==
  /\ ~Open(mine[a])
  /\ Goto(a, "list", "idle")
  /\ mine' = [mine EXCEPT ![a] = Nil]
  /\ UNCHANGED <<bus, conn, found, left, unfilled, dropped, cache>>

ListRefused(a) ==
  /\ Open(mine[a])
  /\ Goto(a, "list", "idle")
  /\ mine' = [mine EXCEPT ![a] = Nil]
  /\ UNCHANGED <<bus, conn, found, left, unfilled, dropped, cache>>

\* ListUnits answers, with or without a unit whose name ends in .service.
ListUnits(a) ==
  /\ Open(mine[a])
  /\ Goto(a, "list", "units")
  /\ \E some \in BOOLEAN :
       /\ found' = [found EXCEPT ![a] = some]
       /\ left' = [left EXCEPT ![a] = IF some THEN UnitCalls ELSE 0]
  /\ dropped' = [dropped EXCEPT ![a] = FALSE]
  /\ UNCHANGED <<bus, conn, mine, unfilled, cache>>

\* GetUnitFileState or the MemoryCurrent property: systemd answers with a value.
CallAnswered(a) ==
  /\ pc[a] = "units" /\ left[a] > 0
  /\ Open(mine[a])
  /\ left' = [left EXCEPT ![a] = @ - 1]
  /\ UNCHANGED <<bus, conn, pc, mine, found, unfilled, dropped, cache>>

\* It answers with an error about this unit, or with a memory usage of zero:
\* the field stays empty.
CallRefused(a) ==
  /\ pc[a] = "units" /\ left[a] > 0
  /\ Open(mine[a])
  /\ left' = [left EXCEPT ![a] = @ - 1]
  /\ empty' = [empty EXCEPT ![a] = TRUE]
  /\ refused' = [refused EXCEPT ![a] = TRUE]
  /\ UNCHANGED <<bus, conn, pc, mine, found, dropped, cache>>

\* Mutation: the call is repeated until it succeeds.
CallRetried(a) ==
  /\ pc[a] = "units" /\ left[a] > 0
  /\ ~Open(mine[a])
  /\ empty' = [empty EXCEPT ![a] = TRUE]
  /\ UNCHANGED <<bus, conn, pc, mine, found, left, refused, dropped, cache>>

\* The same on a closed connection: the field stays empty, the loop goes on.
CallFails(a) ==
  /\ pc[a] = "units" /\ left[a] > 0
  /\ ~Open(mine[a])
  /\ left' = [left EXCEPT ![a] = @ - 1]
  /\ empty' = [empty EXCEPT ![a] = TRUE]
  /\ UNCHANGED <<bus, conn, pc, mine, found, refused, dropped, cache>>

UnitsDone(a) ==
  /\ left[a] = 0
  /\ Goto(a, "units", "store")
  /\ UNCHANGED <<bus, conn, local, cache>>

\* Under Lock: the cache and its time; Collect also returns the metrics.  An
\* empty cache is never valid.
Store(a) ==
  /\ Goto(a, "store", "idle")
  /\ cache' = IF found[a] THEN "valid" ELSE "empty"
  /\ mine' = [mine EXCEPT ![a] = Nil]
  /\ found' = [found EXCEPT ![a] = FALSE]
  /\ empty' = [empty EXCEPT ![a] = FALSE]
  /\ refused' = [refused EXCEPT ![a] = FALSE]
  /\ UNCHANGED <<bus, conn, left, dropped>>

\* What the goroutine does alone: calls on a closed connection included.
Run(a) ==
  \/ CheckConn(a) \/ ReuseConn(a) \/ AssignConn(a) \/ UnitsDone(a) \/ Store(a)
  \/ ListFails(a) \/ CallFails(a)
\* What needs an answer.
Answered(a) ==
  \/ SystemBus(a) \/ SystemBusFails(a) \/ ListUnits(a) \/ ListRefused(a)
  \/ CallAnswered(a) \/ CallRefused(a)

Next ==
  \/ BusDrops \/ Tick \/ CollectDirectly \/ Expire
  \/ \E a \in Actors : Run(a) \/ Answered(a)

\* Goroutines are scheduled and calls on a closed connection return; nothing
\* is assumed of an open one, since the calls have no deadline.
Fairness == \A a \in Actors : WF_vars(Run(a))

Spec == Init /\ [][Next]_vars
FairSpec == Spec /\ Fairness

-----------------------------------------------------------------------------
\* c.conn is closed and nobody has another connection or a list of units.
Lost ==
  /\ conn # Nil /\ ~Open(conn)
  /\ \A a \in Actors :
       /\ pc[a] \notin {"dial", "assign", "units", "store"}
       /\ pc[a] = "list" => ~Open(mine[a])

\* Once the kept connection is closed, no collection ever succeeds again: the
\* library would dial a new one, but nobody asks it to (service.go:69), so the
\* cache expires and stays so.
LossIsPermanent == [][Lost => Lost' /\ (cache' = "valid" => cache = "valid")]_vars

\* The connection is never renewed: the library is made to dial at most once
\* for each of the two goroutines that can find c.conn nil, however often the
\* bus comes and goes.
DialsBounded == dialled <= 2

\* Services with empty fields are stored only when systemd itself refused one
\* of the values to this collection, or the bus went away between its ListUnits
\* and its last call (service.go:104, 127-141): a connection that was closed
\* before never gets so far, and nothing is left over from the collection
\* before or comes from the other goroutine's.
EmptyNeedsRefusalOrDrop ==
  \A a \in Actors : pc[a] = "store" /\ empty[a] => refused[a] \/ dropped[a]

\* Every collection ends, unless an open connection never answers: a closed one
\* does not hold it up, and neither does the other goroutine.
EndsUnlessBusSilent ==
  \A a \in Actors :
    []<>(pc[a] = "idle") \/ <>[](pc[a] = "dial" \/ (pc[a] \in {"list", "units"} /\ Open(mine[a])))
=============================================================================
