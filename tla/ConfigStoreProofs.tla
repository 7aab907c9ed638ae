------------------------- MODULE ConfigStoreProofs -------------------------
(***************************************************************************)
(* Theorems about ConfigStore: what the agent knows itself by, and what it *)
(* leaves on disk, over any number of starts, crashes and failed saves,    *)
(* for every first file and every number of IP services.                   *)
(***************************************************************************)
EXTENDS ConfigStore, TLAPS

\* main after LoadConfigFromPath has returned a Config.
Loaded == {"ip", "ask", "saveIP", "arg", "saveArg", "decide", "running"}

\* The operator's own file has an interval that is not positive.
BadIntervalsGiven == given.state = "good" /\ ~given.content.ticks

\* From the return of LoadConfigFromPath on, the file holds the local key of
\* the process or does not parse, and there is a key unless this start found
\* such a file; a key that is about to be saved for the first time is one.
KeyKept ==
  /\ pc \in Loaded =>
       /\ \/ file.state = "torn"
          \/ file.state = "good" /\ file.content.localKey = config.localKey
       /\ config.localKey = 0 => tornNow
  /\ pc = "saveNew" => config.localKey # 0

\* Once the host is known by a key, and until a later start reads a torn file,
\* that key is in the file or the file is torn, a loaded Config has it, and no
\* new one is made.
IdentityKept ==
  lastKey # 0 /\ ~tornSince =>
    /\ \/ file.state = "torn"
       \/ file.state = "good" /\ file.content.localKey = lastKey
    /\ pc \in Loaded => config.localKey = lastKey
    /\ pc # "saveNew"

\* Intervals that are not positive come from the operator's file only.
IntervalsKept ==
  /\ config.ticks \/ BadIntervalsGiven
  /\ file.state = "good" => file.content.ticks \/ BadIntervalsGiven
  /\ panicked => BadIntervalsGiven

Inv == KeyKept /\ IdentityKept /\ IntervalsKept

-----------------------------------------------------------------------------
\* The configurations the program starts from are well typed.
LEMMA DefaultTypes ==
  /\ ZeroConfig \in Configs /\ DefaultConfig \in Configs
  /\ DefaultConfig.ticks /\ DefaultConfig.localKey = 0
  /\ Torn \in Files /\ Torn.state = "torn"
<1>1. ZeroConfig \in Configs
  BY DEF ZeroConfig, Configs
<1>2. DefaultConfig \in Configs
  BY <1>1 DEF DefaultConfig, Configs
<1>3. DefaultConfig.ticks /\ DefaultConfig.localKey = 0
  BY DEF DefaultConfig, ZeroConfig
<1>4. Torn \in Files
  BY <1>2 DEF Torn, Files
<1> QED BY <1>1, <1>2, <1>3, <1>4 DEF Torn

\* A good file and the fields of its content.
LEMMA GoodFacts ==
  ASSUME NEW c \in Configs
  PROVE  Good(c) \in Files /\ Good(c).state = "good" /\ Good(c).content = c
BY DEF Good, Files

\* What changing one field of a Config leaves alone.
LEMMA FieldFacts ==
  ASSUME NEW c \in Configs, NEW k \in Nat, NEW b \in BOOLEAN
  PROVE  /\ LET d == [c EXCEPT !.localKey = k] IN
              d \in Configs /\ d.localKey = k /\ d.ticks = c.ticks
         /\ LET d == [c EXCEPT !.ip = b] IN
              d \in Configs /\ d.localKey = c.localKey /\ d.ticks = c.ticks
         /\ LET d == [c EXCEPT !.userKey = b] IN
              d \in Configs /\ d.localKey = c.localKey /\ d.ticks = c.ticks
BY DEF Configs

-----------------------------------------------------------------------------
\* Every reachable state has its declared type: a truncated file belongs to a
\* save in progress, and a service is asked only in GetExternalIP.
THEOREM TypeCorrect == Spec => []TypeOK
<1> USE ConfigAssumption, DefaultTypes
<1>1. Init => TypeOK
  <2> SUFFICES ASSUME Init PROVE TypeOK
    OBVIOUS
  <2>1. file \in Files /\ given \in Files /\ config \in Configs
    BY DEF Init
  <2>2. service \in 0..Services /\ keys \in Nat /\ starts \in Nat
        /\ lastKey \in Nat \union {SampleKey}
    BY DEF Init
  <2>3. opened = FALSE /\ arg = FALSE /\ panicked = FALSE
        /\ tornNow = FALSE /\ tornSince = FALSE
    BY Zenon DEF Init
  <2> QED BY <2>1, <2>2, <2>3 DEF Init, TypeOK
<1>2. TypeOK /\ [Next]_vars => TypeOK'
  <2> SUFFICES ASSUME TypeOK, [Next]_vars PROVE TypeOK'
    OBVIOUS
  <2>0. file.content \in Configs /\ file.state \in {"absent", "torn", "good"}
    BY DEF TypeOK, Files
  <2> USE DEF TypeOK, Saving, history, tornReads
  <2>1. CASE Start
    <3>1. tornNow' \in BOOLEAN /\ arg' \in BOOLEAN
      BY <2>1, Zenon DEF Start
    <3>2. pc = "down" /\ pc' = "load" /\ config' = DefaultConfig /\ starts' = starts + 1
          /\ UNCHANGED <<file, opened, service, keys, lastKey, tornSince, given, panicked>>
      BY <2>1 DEF Start
    <3> QED BY <3>1, <3>2
  <2>2. CASE Crash
    <3>1. opened' = FALSE /\ service' = 0 /\ pc' = "down"
      BY <2>2, Zenon DEF Crash
    <3>2. service' \in 0..Services /\ (service' # 0 <=> pc' = "ask")
      BY <3>1
    <3>3. UNCHANGED <<file, config, arg, keys, starts, history>>
      BY <2>2 DEF Crash
    <3> QED BY <3>1, <3>2, <3>3
  <2>3. ASSUME NEW base \in Configs, NewKey(base),
               pc = "load", UNCHANGED <<file, opened, arg, service, starts, history>>
        PROVE  TypeOK'
    <3>1. config' = [base EXCEPT !.localKey = keys + 1] /\ keys + 1 \in Nat
      BY <2>3 DEF NewKey
    <3>2. config' \in Configs
      BY <3>1, FieldFacts
    <3> QED BY <2>3, <3>2 DEF NewKey
  <2>4. CASE LoadAbsent \/ LoadKeyless
    BY <2>0, <2>3, <2>4 DEF LoadAbsent, LoadKeyless
  <2>5. CASE LoadTorn
    BY <2>5 DEF LoadTorn
  <2>6. CASE LoadGood \/ LoadFails
    BY <2>0, <2>6 DEF LoadGood, LoadFails
  <2>7. CASE OpenFile
    BY <2>7 DEF OpenFile
  <2>8. CASE WriteFile
    <3>1. file' \in Files
      BY <2>8, GoodFacts DEF WriteFile
    <3>2. AfterSave[pc] \in {"ip", "arg", "decide"}
      BY <2>8 DEF WriteFile, AfterSave
    <3> QED BY <2>8, <3>1, <3>2 DEF WriteFile
  <2>9. CASE SaveFails
    <3>1. pc' \in {"down", "ip", "arg", "decide"}
      BY <2>9 DEF SaveFails, AfterSave
    <3>2. opened' = FALSE
      BY <2>9, Zenon DEF SaveFails
    <3> QED BY <2>9, <3>1, <3>2 DEF SaveFails
  <2>10. CASE KeepIP \/ LookUpIP
    BY <2>10 DEF KeepIP, LookUpIP
  <2>11. CASE ServiceFails
    BY <2>11 DEF ServiceFails, TryNext
  <2>12. ASSUME NEW valid \in BOOLEAN, ServiceAnswers(valid) PROVE TypeOK'
    <3>1. CASE valid
      <4>0. config \in Configs /\ config' = [config EXCEPT !.ip = TRUE]
        BY <2>12, <3>1 DEF ServiceAnswers
      <4>1. config' \in Configs
        BY <4>0, 0 \in Nat, FieldFacts
      <4> QED BY <2>12, <3>1, <4>1 DEF ServiceAnswers
    <3>2. CASE ~valid
      BY <2>12, <3>2 DEF ServiceAnswers, TryNext
    <3> QED BY <3>1, <3>2
  <2>13. CASE UseArg
    <3>1. config' \in Configs
      BY <2>13, FieldFacts DEF UseArg
    <3> QED BY <2>13, <3>1 DEF UseArg
  <2>14. CASE NoArg \/ Refuse
    BY <2>14 DEF NoArg, Refuse
  <2>15. CASE Run
    <3>1. config.localKey \in Nat \union {SampleKey}
      BY DEF Configs
    <3> QED BY <2>15, <3>1 DEF Run
  <2>16. CASE TickerPanics
    BY <2>16 DEF TickerPanics
  <2>17. CASE UNCHANGED vars
    BY <2>17 DEF vars
  <2> QED
    BY <2>1, <2>2, <2>4, <2>5, <2>6, <2>7, <2>8, <2>9, <2>10, <2>11, <2>12, <2>13,
       <2>14, <2>15, <2>16, <2>17
    DEF Next, LoadConfigFromPath, Save, GetExternalIP
<1> QED BY <1>1, <1>2, PTL DEF Spec

\* The inductive invariant behind the theorems below.
THEOREM InvHolds == Spec => []Inv
<1> USE ConfigAssumption, DefaultTypes
<1>1. Init => Inv
  <2> SUFFICES ASSUME Init PROVE Inv
    OBVIOUS
  <2>1. KeyKept /\ IdentityKept
    BY DEF Init, KeyKept, IdentityKept, Loaded
  <2>2. IntervalsKept
    <3>1. file \in Files /\ given = file /\ panicked = FALSE /\ config = DefaultConfig
      BY Zenon DEF Init
    <3>2. file.content.ticks \in BOOLEAN
      BY <3>1 DEF Files, Configs
    <3> QED BY <3>1, <3>2 DEF IntervalsKept, BadIntervalsGiven
  <2> QED BY <2>1, <2>2 DEF Inv
<1>2. TypeOK /\ Inv /\ [Next]_vars => Inv'
  <2> SUFFICES ASSUME TypeOK, Inv, [Next]_vars PROVE Inv'
    OBVIOUS
  <2>0. config \in Configs /\ file.content \in Configs /\ keys \in Nat
    BY DEF TypeOK, Files
  <2> USE DEF Inv, KeyKept, IdentityKept, IntervalsKept, BadIntervalsGiven,
              Loaded, history, tornReads
  <2>1. ASSUME UNCHANGED <<file, config, history>>,
               pc' \in Loaded => pc \in Loaded, pc' # "saveNew"
        PROVE  Inv'
    BY <2>1
  <2>2. CASE Start
    BY <2>2 DEF Start
  <2>3. CASE Crash \/ LoadFails \/ Refuse \/ NoArg \/ KeepIP \/ LookUpIP
    BY <2>1, <2>3 DEF Crash, LoadFails, Refuse, NoArg, KeepIP, LookUpIP
  <2>4. CASE SaveFails
    <3>1. pc' \in Loaded => pc \in Loaded
      BY <2>4 DEF SaveFails, Saving, AfterSave
    <3>2. pc' # "saveNew"
      BY <2>4 DEF SaveFails, Saving, AfterSave
    <3> QED BY <2>1, <2>4, <3>1, <3>2 DEF SaveFails
  <2>5. ASSUME TryNext, pc = "ask", UNCHANGED <<file, history>> PROVE Inv'
    <3>1. pc' \in {"ask", "arg"}
      BY <2>5 DEF TryNext
    <3> QED BY <2>1, <2>5, <3>1 DEF TryNext
  <2>6. CASE ServiceFails
    BY <2>5, <2>6 DEF ServiceFails
  <2>7. ASSUME NEW valid \in BOOLEAN, ServiceAnswers(valid) PROVE Inv'
    <3>1. CASE valid
      <4>1. config' = [config EXCEPT !.ip = TRUE]
            /\ pc = "ask" /\ pc' = "saveIP" /\ UNCHANGED <<file, history>>
        BY <2>7, <3>1 DEF ServiceAnswers
      <4>2. config'.localKey = config.localKey /\ config'.ticks = config.ticks
        BY <2>0, <4>1, FieldFacts
      <4> QED BY <4>1, <4>2
    <3>2. CASE ~valid
      BY <2>5, <2>7, <3>2 DEF ServiceAnswers
    <3> QED BY <3>1, <3>2
  <2>8. ASSUME NEW base \in Configs, NewKey(base), pc = "load",
               base.ticks \/ BadIntervalsGiven,
               ~(lastKey # 0 /\ ~tornSince), UNCHANGED <<file, history>>
        PROVE  Inv'
    <3>1. config' = [base EXCEPT !.localKey = keys + 1] /\ keys + 1 \in Nat
          /\ pc' = "saveNew"
      BY <2>0, <2>8 DEF NewKey
    <3>2. config'.ticks = base.ticks /\ config'.localKey = keys + 1
      BY <2>8, <3>1, FieldFacts
    <3>3. config'.localKey # 0
      BY <2>0, <3>2
    <3> QED BY <2>8, <3>1, <3>2, <3>3
  <2>9. CASE LoadAbsent
    BY <2>8, <2>9 DEF LoadAbsent
  <2>10. CASE LoadKeyless
    BY <2>0, <2>8, <2>10 DEF LoadKeyless
  <2>11. CASE LoadTorn
    BY <2>11 DEF LoadTorn
  <2>12. CASE LoadGood
    BY <2>12 DEF LoadGood
  <2>13. CASE OpenFile
    BY <2>13 DEF OpenFile, Saving
  <2>14. CASE WriteFile
    <3>1. file'.state = "good" /\ file'.content = config /\ UNCHANGED <<config, history>>
      BY <2>0, <2>14, GoodFacts DEF WriteFile
    <3>2. pc' \in {"ip", "arg", "decide"} /\ pc \in {"saveNew", "saveIP", "saveArg"}
      BY <2>14 DEF WriteFile, Saving, AfterSave
    <3> QED BY <3>1, <3>2
  <2>15. CASE UseArg
    <3>1. config'.localKey = config.localKey /\ config'.ticks = config.ticks
      BY <2>0, <2>15, FieldFacts DEF UseArg
    <3> QED BY <2>15, <3>1 DEF UseArg
  <2>16. CASE Run
    BY <2>16 DEF Run
  <2>17. CASE TickerPanics
    BY <2>17 DEF TickerPanics
  <2>18. CASE UNCHANGED vars
    BY <2>18 DEF vars
  <2> QED
    BY <2>2, <2>3, <2>4, <2>6, <2>7, <2>9, <2>10, <2>11, <2>12, <2>13, <2>14, <2>15,
       <2>16, <2>17, <2>18
    DEF Next, LoadConfigFromPath, Save, GetExternalIP
<1> QED BY <1>1, <1>2, TypeCorrect, PTL DEF Spec

-----------------------------------------------------------------------------
\* The client never runs under a key that the next start will not find, be it
\* new, given by the operator or saved again with an address (config.go:291-304).
THEOREM KeyOnDiskHolds == Spec => []KeyOnDisk
<1>1. Inv => KeyOnDisk
  BY DEF Inv, KeyKept, Loaded, KeyOnDisk
<1> QED BY <1>1, InvHolds, PTL

\* The client runs without a local key only in a process that itself found a
\* file that does not parse (config.go:284-289).
THEOREM KeylessNeedsTornHolds == Spec => []KeylessNeedsTorn
<1>1. Inv => KeylessNeedsTorn
  BY DEF Inv, KeyKept, Loaded, KeylessNeedsTorn
<1> QED BY <1>1, InvHolds, PTL

\* The agent never brings itself to panic on an interval: defaults and saved
\* configurations have positive ones.
THEOREM PanicNeedsGivenIntervalsHolds == Spec => []PanicNeedsGivenIntervals
<1>1. Inv => PanicNeedsGivenIntervals
  BY DEF Inv, IntervalsKept, BadIntervalsGiven, PanicNeedsGivenIntervals
<1> QED BY <1>1, InvHolds, PTL

\* The key under which the server knows the host changes, from one start that
\* reaches the client to the next, only if a start in between or the second one
\* has read a half-written file.
THEOREM IdentityStableHolds == Spec => IdentityStable
<1>1. Inv /\ [Next]_vars => [lastKey # 0 /\ lastKey' # lastKey => tornSince]_vars
  <2> SUFFICES ASSUME Inv, [Next]_vars, lastKey # 0, lastKey' # lastKey PROVE tornSince
    OBVIOUS
  <2>1. Run
    BY DEF Next, vars, history, tornReads, Start, Crash, LoadConfigFromPath, LoadAbsent, LoadTorn,
       LoadGood, LoadKeyless, LoadFails, Save, OpenFile, WriteFile, SaveFails, KeepIP,
       GetExternalIP, LookUpIP, ServiceFails, ServiceAnswers, UseArg, NoArg, Refuse,
       TickerPanics
  <2> QED BY <2>1 DEF Run, Inv, IdentityKept, Loaded
<1> QED BY <1>1, InvHolds, PTL DEF Spec, IdentityStable
=============================================================================
