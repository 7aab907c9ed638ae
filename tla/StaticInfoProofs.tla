-------------------------- MODULE StaticInfoProofs --------------------------
(***************************************************************************)
(* Proofs about the two collectors that load a static part once and then   *)
(* copy it from one cache to the next: MemoryCollector, whose sync.Once    *)
(* keeps it, and SystemCollector, whose flag may lose it.  They share the  *)
(* variables of StaticInfo: Spec is that of the memory collector, Sys!Spec *)
(* that of the system collector.                                           *)
(***************************************************************************)
EXTENDS MemoryCollector, TLAPS

Sys == INSTANCE SystemCollector

-----------------------------------------------------------------------------
(* MemoryCollector                                                         *)

\* The inductive invariant: the types, the discipline of the sync.Once, and
\* what the answers owe to it.
Inv == TypeOK /\ OnceProtocol /\ AnswerSampled /\ MissingStaticNeedsMishap

\* Every step of the background loop and of Collect keeps the invariant.
THEOREM InvHolds == Spec => []Inv
<1>1. Init => Inv
  <2> SUFFICES ASSUME Init PROVE Inv
    OBVIOUS
  <2>1. Empty \in Info /\ ~Empty.static
    BY DEF Empty, Info
  <2>2. TypeOK
    BY <2>1 DEF Init, TypeOK
  <2>3. \A a \in Actors : pc[a] = "idle"
    BY DEF Init
  <2>4. OnceProtocol
    BY <2>1, <2>3 DEF Init, OnceProtocol, Empty
  <2>5. AnswerSampled /\ MissingStaticNeedsMishap
    BY DEF Init, AnswerSampled, MissingStaticNeedsMishap
  <2> QED BY <2>2, <2>4, <2>5 DEF Inv
<1>2. Inv /\ [Next]_vars => Inv'
  <2> SUFFICES ASSUME Inv, [Next]_vars PROVE Inv'
    OBVIOUS
  <2> USE DEF Inv, TypeOK, OnceProtocol, AnswerSampled, MissingStaticNeedsMishap,
              Info, Mishaps, Goto, cache, reply
  <2>1. CASE Wake
    BY <2>1 DEF Wake, Actors
  <2>2. CASE CollectFromCache
    BY <2>2 DEF CollectFromCache, Actors
  <2>3. CASE CollectDirectly
    BY <2>3 DEF CollectDirectly, Actors
  <2>4. CASE Expire
    BY <2>4 DEF Expire
  <2>5. ASSUME NEW a \in Actors, OnceFirst(a) PROVE Inv'
    BY <2>5 DEF OnceFirst
  <2>6. ASSUME NEW a \in Actors, OnceLater(a) PROVE Inv'
    BY <2>6 DEF OnceLater
  <2>7. ASSUME NEW a \in Actors, LoadStatic(a) PROVE Inv'
    BY <2>7 DEF LoadStatic
  <2>8. ASSUME NEW a \in Actors, LoadStaticFails(a) PROVE Inv'
    BY <2>8 DEF LoadStaticFails, GiveUp
  <2>9. ASSUME NEW a \in Actors, CopyCache(a) PROVE Inv'
    BY <2>9 DEF CopyCache
  <2>10. ASSUME NEW a \in Actors, CollectDynamic(a) PROVE Inv'
    <3>1. CASE Goto(a, "dynamic", "store")
      <4>0. pc[a] = "dynamic" /\ pc'[a] = "store"
        BY <3>1
      <4>1. info' = [info EXCEPT ![a] = [static |-> @.static, dynamic |-> TRUE]]
            /\ UNCHANGED reply
        BY <2>10, <4>0 DEF CollectDynamic
      <4>2. info[a] \in Info /\ info[a].static \in BOOLEAN
        OBVIOUS
      <4>3. /\ info'[a] = [static |-> info[a].static, dynamic |-> TRUE]
            /\ \A b \in Actors \ {a} : info'[b] = info[b]
        BY <4>1
      <4>4. info' \in [Actors -> Info]
        BY <4>1, <4>2
      <4> QED BY <2>10, <3>1, <4>1, <4>3, <4>4 DEF CollectDynamic
    <3>2. CASE Goto(a, "dynamic", "idle")
      BY <2>10, <3>2 DEF CollectDynamic, GiveUp
    <3> QED BY <2>10, <3>1, <3>2 DEF CollectDynamic
  <2>11. ASSUME NEW a \in Actors, Store(a) PROVE Inv'
    BY <2>11 DEF Store
  <2>12. CASE UNCHANGED vars
    BY <2>12 DEF vars
  <2> QED
    BY <2>1, <2>2, <2>3, <2>4, <2>5, <2>6, <2>7, <2>8, <2>9, <2>10, <2>11, <2>12
    DEF Next, CollectMemoryInfo
<1> QED BY <1>1, <1>2, PTL DEF Spec

\* The static part never disappears from the cache once it is marked loaded.
THEOREM StaticKeptHolds == Spec => []StaticKept
<1>1. Inv => StaticKept
  BY DEF Inv, OnceProtocol, StaticKept
<1> QED BY <1>1, InvHolds, PTL

\* An answer of the memory collector lacks the static part only after its one
\* load failed, however Collect and that load overlapped.
THEOREM MemoryMissesOnlyFailed == Spec => []MissingStaticNeedsMishap
<1>1. Inv => MissingStaticNeedsMishap
  BY DEF Inv
<1> QED BY <1>1, InvHolds, PTL

\* No Collect of the memory collector answers with metrics that were never
\* sampled, in particular not with a cache that only the load has touched.
THEOREM MemoryAnswerSampled == Spec => []AnswerSampled
<1>1. Inv => AnswerSampled
  BY DEF Inv
<1> QED BY <1>1, InvHolds, PTL

-----------------------------------------------------------------------------
(* SystemCollector                                                         *)

\* Without a mishap the static part is in every collection that got past its
\* load, in every valid cache and in every answer; when the flag is up it is in
\* the cache or somebody carries it there.
Unharmed ==
  mishaps = {} =>
    /\ \A a \in Actors : pc[a] \in {"flag", "dynamic", "store"} => info[a].static
    /\ staticInfoLoaded /\ ~cachedInfo.static => \E a \in Actors : Sys!Carries(a)
    /\ fresh => cachedInfo.static
    /\ result = "ok" => answer.static

\* The types, and a sample wherever one is about to be stored, is cached and
\* valid, or was returned.
SysInv ==
  /\ Sys!TypeOK
  /\ fresh => cachedInfo.dynamic
  /\ \A a \in Actors : pc[a] = "store" => info[a].dynamic
  /\ AnswerSampled

\* Every step of the background loop and of Collect keeps the invariant.
THEOREM SysInvHolds == Sys!Spec => []SysInv
<1> USE DEF Sys!Actors, Actors, Sys!Info, Info, Sys!Empty, Sys!Mishaps, Mishaps
<1>1. Sys!Init => SysInv
  <2> SUFFICES ASSUME Sys!Init PROVE SysInv
    OBVIOUS
  <2>1. Sys!TypeOK
    BY DEF Sys!Init, Sys!TypeOK
  <2> QED BY <2>1 DEF Sys!Init, SysInv, AnswerSampled
<1>2. SysInv /\ [Sys!Next]_Sys!vars => SysInv'
  <2> SUFFICES ASSUME SysInv, [Sys!Next]_Sys!vars PROVE SysInv'
    OBVIOUS
  <2> USE DEF SysInv, Sys!TypeOK, AnswerSampled, Sys!Goto, Goto, Sys!reply, reply, Sys!Return
  <2>1. CASE Sys!Wake
    BY <2>1 DEF Sys!Wake
  <2>2. CASE Sys!CollectFromCache
    BY <2>2 DEF Sys!CollectFromCache
  <2>3. CASE Sys!CollectDirectly
    BY <2>3 DEF Sys!CollectDirectly
  <2>4. CASE Sys!Expire
    BY <2>4 DEF Sys!Expire
  <2>5. ASSUME NEW a \in Actors, Sys!ReadFlag(a) PROVE SysInv'
    BY <2>5 DEF Sys!ReadFlag, Sys!LookAtFlag
  <2>6. ASSUME NEW a \in Actors, Sys!CollectStatic(a) PROVE SysInv'
    BY <2>6 DEF Sys!CollectStatic, Sys!GiveUp
  <2>7. ASSUME NEW a \in Actors, Sys!SetFlag(a) PROVE SysInv'
    BY <2>7 DEF Sys!SetFlag
  <2>8. ASSUME NEW a \in Actors, Sys!CollectDynamic(a) PROVE SysInv'
    <3>1. CASE Goto(a, "dynamic", "store")
      <4>1. info' = [info EXCEPT ![a].dynamic = TRUE]
            /\ UNCHANGED <<cachedInfo, fresh, staticInfoLoaded, reply, mishaps>>
        BY <2>8, <3>1 DEF Sys!CollectDynamic
      <4>2. info[a] \in Info
        OBVIOUS
      <4>3. info' \in [Actors -> Info] /\ info'[a].dynamic
            /\ \A b \in Actors \ {a} : info'[b] = info[b]
        BY <4>1, <4>2
      <4> QED BY <3>1, <4>1, <4>3
    <3>2. CASE Goto(a, "dynamic", "idle")
      BY <2>8, <3>2 DEF Sys!CollectDynamic, Sys!GiveUp
    <3> QED BY <2>8, <3>1, <3>2 DEF Sys!CollectDynamic
  <2>9. ASSUME NEW a \in Actors, Sys!Store(a) PROVE SysInv'
    BY <2>9 DEF Sys!Store
  <2>10. CASE UNCHANGED Sys!vars
    BY <2>10 DEF Sys!vars
  <2> QED
    BY <2>1, <2>2, <2>3, <2>4, <2>5, <2>6, <2>7, <2>8, <2>9, <2>10
    DEF Sys!Next, Sys!CollectSystemInfo
<1> QED BY <1>1, <1>2, PTL DEF Sys!Spec

\* No Collect of the system collector answers with a cache that was never
\* filled or with an info whose dynamic part was not sampled.
THEOREM AnswerSampledHolds == Sys!Spec => []AnswerSampled
<1>1. SysInv => AnswerSampled
  BY DEF SysInv
<1> QED BY <1>1, SysInvHolds, PTL

\* Only a failed sampling and a collection between the flag and the store ever
\* harm the static part: every other step keeps Unharmed.
THEOREM UnharmedHolds == Sys!Spec => []Unharmed
<1> USE DEF Sys!Actors, Actors, Sys!Info, Info, Sys!Empty
<1>1. Sys!Init => Unharmed
  BY DEF Sys!Init, Unharmed, Sys!Carries
<1>2. SysInv /\ Unharmed /\ [Sys!Next]_Sys!vars => Unharmed'
  <2> SUFFICES ASSUME SysInv, Unharmed, [Sys!Next]_Sys!vars, mishaps' = {}
               PROVE  Unharmed'
    BY DEF Unharmed
  <2> USE DEF SysInv, Sys!TypeOK, Unharmed, Sys!Carries, Sys!Goto, Goto,
              Sys!reply, reply, Sys!Return
  <2>1. CASE Sys!Wake
    BY <2>1 DEF Sys!Wake
  <2>2. CASE Sys!CollectFromCache
    BY <2>2 DEF Sys!CollectFromCache
  <2>3. CASE Sys!CollectDirectly
    BY <2>3 DEF Sys!CollectDirectly
  <2>4. CASE Sys!Expire
    BY <2>4 DEF Sys!Expire
  <2>5. ASSUME NEW a \in Actors, Sys!ReadFlag(a) PROVE Unharmed'
    BY <2>5 DEF Sys!ReadFlag, Sys!LookAtFlag
  <2>6. ASSUME NEW a \in Actors, Sys!CollectStatic(a) PROVE Unharmed'
    BY <2>6 DEF Sys!CollectStatic, Sys!GiveUp
  <2>7. ASSUME NEW a \in Actors, Sys!SetFlag(a) PROVE Unharmed'
    BY <2>7 DEF Sys!SetFlag
  <2>8. ASSUME NEW a \in Actors, Sys!CollectDynamic(a) PROVE Unharmed'
    <3>1. CASE Goto(a, "dynamic", "store")
      <4>1. info' = [info EXCEPT ![a].dynamic = TRUE]
            /\ UNCHANGED <<cachedInfo, fresh, staticInfoLoaded, reply, mishaps>>
        BY <2>8, <3>1 DEF Sys!CollectDynamic
      <4>2. info[a] \in Info
        OBVIOUS
      <4>3. info'[a].static = info[a].static /\ \A b \in Actors \ {a} : info'[b] = info[b]
        BY <4>1, <4>2
      <4> QED BY <3>1, <4>1, <4>3
    <3>2. CASE Goto(a, "dynamic", "idle")
      BY <2>8, <3>2 DEF Sys!CollectDynamic, Sys!GiveUp
    <3> QED BY <2>8, <3>1, <3>2 DEF Sys!CollectDynamic
  <2>9. ASSUME NEW a \in Actors, Sys!Store(a) PROVE Unharmed'
    BY <2>9 DEF Sys!Store
  <2>10. CASE UNCHANGED Sys!vars
    BY <2>10 DEF Sys!vars
  <2> QED
    BY <2>1, <2>2, <2>3, <2>4, <2>5, <2>6, <2>7, <2>8, <2>9, <2>10
    DEF Sys!Next, Sys!CollectSystemInfo
<1> QED BY <1>1, <1>2, SysInvHolds, PTL DEF Sys!Spec

\* An answer of the system collector lacks the static part only after one of
\* the two mishaps.
THEOREM SystemMissesOnlyHarmed == Sys!Spec => []MissingStaticNeedsMishap
<1>1. Unharmed => MissingStaticNeedsMishap
  BY DEF Unharmed, MissingStaticNeedsMishap
<1> QED BY <1>1, UnharmedHolds, PTL

\* The flag staticInfoLoaded never goes down, and every collection that finds
\* it up copies its static part from the cache: one that is lost stays lost.
THEOREM StaticLossIsPermanentHolds == Sys!Spec => StaticLossIsPermanent
<1> USE DEF Sys!Actors, Actors, Sys!Info, Info
<1>1. Sys!TypeOK /\ [Sys!Next]_Sys!vars =>
        [StaticLost => StaticLost']_<<cachedInfo, staticInfoLoaded, pc, info>>
  <2> SUFFICES ASSUME Sys!TypeOK, Sys!Next, StaticLost PROVE StaticLost'
    BY DEF Sys!vars
  <2> USE DEF Sys!TypeOK, StaticLost, Sys!Goto, Goto, Sys!reply, reply, Sys!Return
  <2>1. CASE Sys!Wake \/ Sys!CollectFromCache \/ Sys!CollectDirectly \/ Sys!Expire
    BY <2>1 DEF Sys!Wake, Sys!CollectFromCache, Sys!CollectDirectly, Sys!Expire
  <2>2. ASSUME NEW a \in Actors, Sys!ReadFlag(a) PROVE StaticLost'
    BY <2>2 DEF Sys!ReadFlag, Sys!LookAtFlag
  <2>3. ASSUME NEW a \in Actors, Sys!CollectStatic(a) PROVE StaticLost'
    BY <2>3 DEF Sys!CollectStatic
  <2>4. ASSUME NEW a \in Actors, Sys!SetFlag(a) PROVE StaticLost'
    BY <2>4 DEF Sys!SetFlag
  <2>5. ASSUME NEW a \in Actors, Sys!CollectDynamic(a) PROVE StaticLost'
    <3>1. CASE Goto(a, "dynamic", "store")
      <4>1. info' = [info EXCEPT ![a].dynamic = TRUE]
            /\ UNCHANGED <<cachedInfo, staticInfoLoaded>>
        BY <2>5, <3>1 DEF Sys!CollectDynamic
      <4>2. info[a] \in Info
        OBVIOUS
      <4>3. info'[a].static = info[a].static /\ \A b \in Actors \ {a} : info'[b] = info[b]
        BY <4>1, <4>2
      <4> QED BY <3>1, <4>1, <4>3
    <3>2. CASE Goto(a, "dynamic", "idle")
      BY <2>5, <3>2 DEF Sys!CollectDynamic
    <3> QED BY <2>5, <3>1, <3>2 DEF Sys!CollectDynamic
  <2>6. ASSUME NEW a \in Actors, Sys!Store(a) PROVE StaticLost'
    BY <2>6 DEF Sys!Store
  <2> QED
    BY <2>1, <2>2, <2>3, <2>4, <2>5, <2>6 DEF Sys!Next, Sys!CollectSystemInfo
<1>2. SysInv => Sys!TypeOK
  BY DEF SysInv
<1> QED BY <1>1, <1>2, SysInvHolds, PTL DEF Sys!Spec, StaticLossIsPermanent
=============================================================================
