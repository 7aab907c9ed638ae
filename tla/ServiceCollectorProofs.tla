---------------------- MODULE ServiceCollectorProofs ----------------------
(***************************************************************************)
(* Theorems about ServiceCollector: how often the bus is dialled, when the *)
(* fields of a service stay empty, and that a lost connection is lost for  *)
(* good, for every number of services and of connections.                  *)
(***************************************************************************)
EXTENDS ServiceCollector, TLAPS

\* 1 for a goroutine at p, else 0.
At(a, p) == IF pc[a] = p THEN 1 ELSE 0
Number(p) == At("background", p) + At("collect", p)

\* While c.conn is nil, each connection dialled is still to be assigned; once
\* it is set, only the goroutines that are about to dial can add one.
DialsCounted ==
  /\ conn = Nil => dialled <= Number("assign")
  /\ conn # Nil => dialled + Number("dial") <= 2
  /\ up => dialled # 0
  /\ \A a \in Actors : pc[a] = "assign" => mine[a] # Nil

\* A collection whose bus has not gone away has an open connection; a field is
\* left empty only after that, or when systemd refused its value.
OpenUnlessDropped ==
  \A a \in Actors :
    /\ pc[a] \in {"units", "store"} /\ ~dropped[a] => Open(mine[a])
    /\ empty[a] => pc[a] \in {"units", "store"} /\ (refused[a] \/ dropped[a])

USE BoundsAssumption DEF Actors, Nil

\* Every reachable state of the service collector has the declared types.
THEOREM TypeCorrect == Spec => []TypeOK
<1>1. Init => TypeOK
  <2> SUFFICES ASSUME Init PROVE TypeOK
    OBVIOUS
  <2>1. left \in [Actors -> 0..UnitCalls] /\ mine \in [Actors -> 0..dialled]
    BY DEF Init
  <2>2. found \in [Actors -> BOOLEAN] /\ empty \in [Actors -> BOOLEAN]
        /\ refused \in [Actors -> BOOLEAN] /\ dropped \in [Actors -> BOOLEAN]
    BY Zenon DEF Init
  <2>3. pc \in [Actors -> {"idle", "check"}]
    BY DEF Init
  <2> QED
    BY <2>1, <2>2, <2>3 DEF Init, TypeOK
<1>2. TypeOK /\ [Next]_vars => TypeOK'
  <2> SUFFICES ASSUME TypeOK, [Next]_vars PROVE TypeOK'
    OBVIOUS
  <2> USE DEF TypeOK, Goto
  <2>1. CASE BusDrops
    BY <2>1 DEF BusDrops, unfilled
  <2>2. CASE Tick \/ CollectDirectly \/ Expire
    BY <2>2 DEF Tick, CollectDirectly, Expire, bus, local, unfilled
  <2>3. ASSUME NEW a \in Actors, Run(a) PROVE TypeOK'
    <3>1. CASE CheckConn(a) \/ ReuseConn(a) \/ AssignConn(a)
      BY <3>1, <2>3 DEF CheckConn, ReuseConn, AssignConn, bus, local, unfilled
    <3>2. CASE UnitsDone(a)
      BY <3>2, <2>3 DEF UnitsDone, bus, local, unfilled
    <3>3. CASE Store(a)
      BY <3>3, <2>3 DEF Store, bus, local, unfilled
    <3>4. CASE ListFails(a)
      BY <3>4, <2>3 DEF ListFails, bus, unfilled
    <3>5. CASE CallFails(a)
      <4>1. left' \in [Actors -> 0..UnitCalls]
        BY <3>5, <2>3 DEF CallFails
      <4> QED
        BY <4>1, <3>5, <2>3 DEF CallFails, bus
    <3> QED
      BY <2>3, <3>1, <3>2, <3>3, <3>4, <3>5 DEF Run
  <2>4. ASSUME NEW a \in Actors, Answered(a) PROVE TypeOK'
    <3>1. CASE SystemBus(a)
      BY <3>1, <2>4 DEF SystemBus, unfilled
    <3>2. CASE SystemBusFails(a) \/ ListRefused(a)
      BY <3>2, <2>4 DEF SystemBusFails, ListRefused, bus, local, unfilled
    <3>3. CASE ListUnits(a)
      BY <3>3, <2>4 DEF ListUnits, bus, unfilled
    <3>4. CASE CallAnswered(a)
      BY <3>4, <2>4 DEF CallAnswered, bus, unfilled
    <3>5. CASE CallRefused(a)
      <4>1. left' \in [Actors -> 0..UnitCalls]
        BY <3>5, <2>4 DEF CallRefused
      <4> QED
        BY <4>1, <3>5, <2>4 DEF CallRefused, bus
    <3> QED
      BY <2>4, <3>1, <3>2, <3>3, <3>4, <3>5 DEF Answered
  <2>5. CASE UNCHANGED vars
    BY <2>5 DEF vars, bus, local, unfilled
  <2> QED
    BY <2>1, <2>2, <2>3, <2>4, <2>5 DEF Next
<1> QED
  BY <1>1, <1>2, PTL DEF Spec

\* The library dials at most twice: c.conn, once set, is never nil again, so
\* that a goroutine dials at most once (service.go:69-77).
THEOREM DialsBoundedHolds == Spec => []DialsBounded
<1>1. Init => DialsCounted
  BY DEF Init, DialsCounted, Number, At
<1>2. TypeOK /\ DialsCounted /\ [Next]_vars => DialsCounted'
  <2> SUFFICES ASSUME TypeOK, DialsCounted, [Next]_vars PROVE DialsCounted'
    OBVIOUS
  <2> USE DEF TypeOK, DialsCounted, Number, At, Goto
  <2>1. CASE BusDrops \/ Tick \/ CollectDirectly \/ Expire
    BY <2>1 DEF BusDrops, Tick, CollectDirectly, Expire, bus, local, unfilled
  <2>2. ASSUME NEW a \in Actors, Run(a) PROVE DialsCounted'
    <3>1. CASE CheckConn(a) \/ ReuseConn(a)
      BY <3>1, <2>2 DEF CheckConn, ReuseConn, bus, local, unfilled
    <3>2. CASE AssignConn(a)
      BY <3>2, <2>2 DEF AssignConn, bus, local, unfilled
    <3>3. CASE UnitsDone(a) \/ Store(a) \/ ListFails(a) \/ CallFails(a)
      BY <3>3, <2>2 DEF UnitsDone, Store, ListFails, CallFails, bus, local, unfilled
    <3> QED
      BY <2>2, <3>1, <3>2, <3>3 DEF Run
  <2>3. ASSUME NEW a \in Actors, Answered(a) PROVE DialsCounted'
    <3>1. CASE SystemBus(a)
      <4>1. dialled' \in Nat /\ dialled' <= dialled + 1 /\ dialled' # 0 /\ conn' = conn
        BY <3>1 DEF SystemBus, unfilled
      <4>2. Number("assign")' = Number("assign") + 1 /\ Number("dial")' = Number("dial") - 1
        BY <3>1, <2>3 DEF SystemBus, unfilled
      <4>3. \A b \in Actors : pc'[b] = "assign" => mine'[b] # Nil
        BY <3>1, <2>3, <4>1 DEF SystemBus, unfilled
      <4>4. (conn = Nil => dialled <= Number("assign"))'
        BY <4>1, <4>2
      <4>5. (conn # Nil => dialled + Number("dial") <= 2)'
        <5>1. Number("dial") \in Int /\ Number("dial")' \in Int
          OBVIOUS
        <5> HIDE DEF Number, At
        <5> QED
          BY <4>1, <4>2, <5>1
      <4> QED
        BY <4>1, <4>3, <4>4, <4>5, Zenon
    <3>2. CASE SystemBusFails(a) \/ ListRefused(a)
      BY <3>2, <2>3 DEF SystemBusFails, ListRefused, bus, local, unfilled
    <3>3. CASE ListUnits(a) \/ CallAnswered(a) \/ CallRefused(a)
      BY <3>3, <2>3 DEF ListUnits, CallAnswered, CallRefused, bus
    <3> QED
      BY <2>3, <3>1, <3>2, <3>3 DEF Answered
  <2>4. CASE UNCHANGED vars
    BY <2>4 DEF vars, bus, local, unfilled
  <2> QED
    BY <2>1, <2>2, <2>3, <2>4 DEF Next
<1>3. TypeOK /\ DialsCounted => DialsBounded
  BY DEF TypeOK, DialsCounted, Number, At, DialsBounded
<1> QED
  BY <1>1, <1>2, <1>3, TypeCorrect, PTL DEF Spec

\* Services with empty fields are stored only when systemd refused a value to
\* this collection or the bus went away after its ListUnits (service.go:104,
\* 127-141).
THEOREM EmptyNeedsRefusalOrDropHolds == Spec => []EmptyNeedsRefusalOrDrop
<1>1. Init => OpenUnlessDropped
  BY DEF Init, OpenUnlessDropped
<1>2. TypeOK /\ OpenUnlessDropped /\ [Next]_vars => OpenUnlessDropped'
  <2> SUFFICES ASSUME TypeOK, OpenUnlessDropped, [Next]_vars
               PROVE  OpenUnlessDropped'
    OBVIOUS
  <2> USE DEF TypeOK, OpenUnlessDropped, Open, Goto
  <2>1. CASE BusDrops
    BY <2>1 DEF BusDrops, unfilled
  <2>2. CASE Tick \/ CollectDirectly \/ Expire
    BY <2>2 DEF Tick, CollectDirectly, Expire, bus, local, unfilled
  <2>3. ASSUME NEW a \in Actors, Run(a) PROVE OpenUnlessDropped'
    <3>1. CASE CheckConn(a) \/ ReuseConn(a) \/ AssignConn(a)
      BY <3>1, <2>3 DEF CheckConn, ReuseConn, AssignConn, bus, local, unfilled
    <3>2. CASE UnitsDone(a) \/ Store(a)
      BY <3>2, <2>3 DEF UnitsDone, Store, bus, local, unfilled
    <3>3. CASE ListFails(a) \/ CallFails(a)
      BY <3>3, <2>3 DEF ListFails, CallFails, bus, unfilled
    <3> QED
      BY <2>3, <3>1, <3>2, <3>3 DEF Run
  <2>4. ASSUME NEW a \in Actors, Answered(a) PROVE OpenUnlessDropped'
    <3>1. CASE SystemBus(a)
      BY <3>1, <2>4 DEF SystemBus, unfilled
    <3>2. CASE SystemBusFails(a) \/ ListRefused(a)
      BY <3>2, <2>4 DEF SystemBusFails, ListRefused, bus, local, unfilled
    <3>3. CASE ListUnits(a) \/ CallAnswered(a) \/ CallRefused(a)
      BY <3>3, <2>4 DEF ListUnits, CallAnswered, CallRefused, bus, unfilled
    <3> QED
      BY <2>4, <3>1, <3>2, <3>3 DEF Answered
  <2>5. CASE UNCHANGED vars
    BY <2>5 DEF vars, bus, local, unfilled
  <2> QED
    BY <2>1, <2>2, <2>3, <2>4, <2>5 DEF Next
<1>3. OpenUnlessDropped => EmptyNeedsRefusalOrDrop
  BY DEF OpenUnlessDropped, EmptyNeedsRefusalOrDrop
<1> QED
  BY <1>1, <1>2, <1>3, TypeCorrect, PTL DEF Spec

\* Once the kept connection is closed and nobody holds another one, that stays
\* so and the cache never becomes valid again (service.go:69): every later
\* caller finds c.conn set and returns the closed connection.
THEOREM LossIsPermanentHolds == Spec => LossIsPermanent
<1>1. TypeOK /\ [Next]_vars
        => [Lost => Lost' /\ (cache' = "valid" => cache = "valid")]_vars
  <2> SUFFICES ASSUME TypeOK, [Next]_vars, Lost
               PROVE  Lost' /\ (cache' = "valid" => cache = "valid")
    OBVIOUS
  <2> USE DEF TypeOK, Lost, Open, Goto
  <2>1. CASE BusDrops \/ Tick \/ CollectDirectly \/ Expire
    BY <2>1 DEF BusDrops, Tick, CollectDirectly, Expire, bus, local, unfilled
  <2>2. ASSUME NEW a \in Actors, Run(a)
        PROVE  Lost' /\ (cache' = "valid" => cache = "valid")
    <3>1. CASE CheckConn(a) \/ ReuseConn(a) \/ AssignConn(a)
      BY <3>1, <2>2 DEF CheckConn, ReuseConn, AssignConn, bus, local, unfilled
    <3>2. CASE UnitsDone(a) \/ Store(a) \/ ListFails(a) \/ CallFails(a)
      BY <3>2, <2>2 DEF UnitsDone, Store, ListFails, CallFails, bus, local, unfilled
    <3> QED
      BY <2>2, <3>1, <3>2 DEF Run
  <2>3. ASSUME NEW a \in Actors, Answered(a)
        PROVE  Lost' /\ (cache' = "valid" => cache = "valid")
    BY <2>3 DEF Answered, SystemBus, SystemBusFails, ListUnits, ListRefused,
                CallAnswered, CallRefused, bus, local, unfilled
  <2>4. CASE UNCHANGED vars
    BY <2>4 DEF vars, bus, local, unfilled
  <2> QED
    BY <2>1, <2>2, <2>3, <2>4 DEF Next
<1> QED
  BY <1>1, TypeCorrect, PTL DEF Spec, LossIsPermanent
=============================================================================
