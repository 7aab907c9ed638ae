---------------------------- MODULE ConfigStore ----------------------------
(***************************************************************************)
(* The agent's configuration file over starts, crashes and restarts:       *)
(* LoadConfigFromPath and generateSystemKey of internal/config/config.go,  *)
(* loadConfig, saveConfigToPath and the first half of main in              *)
(* cmd/system-monitor/main.go; GetExternalIP and isValidIP of              *)
(* internal/utils/network.go.                                              *)
(*                                                                         *)
(* os.WriteFile truncates the file and then writes it; a crash or an I/O   *)
(* error in between leaves a file that does not parse.  Generated keys are *)
(* the numbers 1, 2, 3, ...; key 0 is the empty string.                    *)
(***************************************************************************)
EXTENDS Naturals

CONSTANTS
  SampleKey,     \* the localKey of the README's sample file
  InitialFiles,  \* what the first start may find: subset of Files
  Services,      \* how many IP services there are (5 in the code)
  MaxKeys,       \* bound on the number of generated keys
  MaxStarts      \* bound on the number of starts

\* The fields of Config that the program changes or acts on: of UserKey and the
\* external IP, whether they are set; of the intervals, whether all of them are
\* positive.
Configs ==
  [localKey : Nat \union {SampleKey}, userKey : BOOLEAN, ip : BOOLEAN,
   ticks : BOOLEAN]

\* Config{}: the value json.Unmarshal starts from, and what it leaves of a
\* field that the file does not mention.
ZeroConfig == [localKey |-> 0, userKey |-> FALSE, ip |-> FALSE, ticks |-> FALSE]

DefaultConfig == [ZeroConfig EXCEPT !.ticks = TRUE]

\* "torn": the file exists but does not parse; "good": it parses to content,
\* which means nothing in the other two states.
Files == [state : {"absent", "torn", "good"}, content : Configs]
Absent == [state |-> "absent", content |-> DefaultConfig]
Torn == [state |-> "torn", content |-> DefaultConfig]
Good(c) == [state |-> "good", content |-> c]

ASSUME ConfigAssumption ==
  /\ SampleKey \notin Nat
  /\ InitialFiles \subseteq Files
  /\ Services \in Nat \ {0}
  /\ MaxKeys \in Nat /\ MaxStarts \in Nat

VARIABLES
  file,      \* the configuration file
  config,    \* the process's Config
  pc,        \* "down", or where main is
  opened,    \* os.WriteFile has truncated the file and not yet written it
  arg,       \* this start has a key in -k
  service,   \* the IP service that is asked; 0: none
  keys,      \* how many keys generateSystemKey has made
  starts,    \* how many times the process was started
  lastKey,   \* history: the LocalKey of the newest start that reached the
             \* client, 0 before the first
  tornNow,   \* history: this start loaded a file that does not parse
  tornSince, \* history: some start since lastKey was set did
  given,     \* history: the file the first start found
  panicked   \* history: time.NewTicker has panicked

tornReads == <<tornNow, tornSince>>
history == <<lastKey, tornReads, given, panicked>>
vars == <<file, config, pc, opened, arg, service, keys, starts, history>>

\* The three writes, and where main goes on after each.
Saving == {"saveNew", "saveIP", "saveArg"}
AfterSave == [saveNew |-> "ip", saveIP |-> "arg", saveArg |-> "decide"]

TypeOK ==
  /\ file \in Files
  /\ config \in Configs
  /\ pc \in {"down", "load", "ip", "ask", "arg", "decide", "running"} \union Saving
  /\ opened \in BOOLEAN /\ (opened => pc \in Saving /\ file.state = "torn")
  /\ arg \in BOOLEAN
  /\ service \in 0..Services /\ (service # 0 <=> pc = "ask")
  /\ keys \in Nat /\ starts \in Nat
  /\ lastKey \in Nat \union {SampleKey}
  /\ tornNow \in BOOLEAN /\ tornSince \in BOOLEAN /\ panicked \in BOOLEAN
  /\ given \in Files

Init ==
  /\ file \in InitialFiles
  /\ config = DefaultConfig
  /\ pc = "down"
  /\ opened = FALSE
  /\ arg = FALSE
  /\ service = 0
  /\ keys = 0
  /\ starts = 0
  /\ lastKey = 0
  /\ tornNow = FALSE /\ tornSince = FALSE
  /\ given = file
  /\ panicked = FALSE

-----------------------------------------------------------------------------
Start ==
  /\ pc = "down" /\ starts < MaxStarts
  /\ starts' = starts + 1
  /\ arg' \in BOOLEAN
  /\ config' = DefaultConfig
  /\ pc' = "load"
  /\ tornNow' = FALSE
  /\ UNCHANGED <<file, opened, service, keys, lastKey, tornSince, given, panicked>>

\* The process ends, at any moment, by a crash or a kill.  What it has written
\* stays: the machine itself does not go down here.
Crash ==
  /\ pc # "down"
  /\ pc' = "down"
  /\ opened' = FALSE
  /\ service' = 0
  /\ UNCHANGED <<file, config, arg, keys, starts, history>>

\* What generateSystemKey and the write that follows do to base.
NewKey(base) ==
  /\ keys < MaxKeys
  /\ keys' = keys + 1
  /\ config' = [base EXCEPT !.localKey = keys + 1]
  /\ pc' = "saveNew"

\* LoadConfigFromPath without a file.
LoadAbsent ==
  /\ pc = "load" /\ file.state = "absent"
  /\ NewKey(DefaultConfig)
  /\ UNCHANGED <<file, opened, arg, service, starts, history>>

\* Mutation: the unfilled Config is returned instead of the defaults.
LoadTornZero ==
  /\ pc = "load" /\ file.state = "torn"
  /\ config' = ZeroConfig
  /\ tornNow' = TRUE /\ tornSince' = TRUE
  /\ pc' = "ip"
  /\ UNCHANGED <<file, opened, arg, service, keys, starts, lastKey, given, panicked>>

\* A file that does not parse: the defaults, and no error.
LoadTorn ==
  /\ pc = "load" /\ file.state = "torn"
  /\ config' = DefaultConfig
  /\ tornNow' = TRUE /\ tornSince' = TRUE
  /\ pc' = "ip"
  /\ UNCHANGED <<file, opened, arg, service, keys, starts, lastKey, given, panicked>>

\* Mutation: the check for an empty key is inverted into "always generate".
LoadGoodRekey ==
  /\ pc = "load" /\ file.state = "good"
  /\ NewKey(file.content)
  /\ UNCHANGED <<file, opened, arg, service, starts, history>>

\* Mutation: the key of the file is not looked at.
LoadGoodUnchecked ==
  /\ pc = "load" /\ file.state = "good"
  /\ config' = file.content
  /\ pc' = "ip"
  /\ UNCHANGED <<file, opened, arg, service, keys, starts, history>>

\* A file with a key is used as it is.
LoadGood ==
  /\ pc = "load" /\ file.state = "good"
  /\ file.content.localKey # 0
  /\ config' = file.content
  /\ pc' = "ip"
  /\ UNCHANGED <<file, opened, arg, service, keys, starts, history>>

\* A file without a key gets one.
LoadKeyless ==
  /\ pc = "load" /\ file.state = "good"
  /\ file.content.localKey = 0
  /\ NewKey(file.content)
  /\ UNCHANGED <<file, opened, arg, service, starts, history>>

\* Reading the file or making the key fails: loadConfig returns nil.
LoadFails ==
  /\ pc = "load"
  /\ pc' = "down"
  /\ UNCHANGED <<file, config, opened, arg, service, keys, starts, history>>

\* os.WriteFile opens and truncates (or creates) the file.
OpenFile ==
  /\ pc \in Saving /\ ~opened
  /\ opened' = TRUE
  /\ file' = Torn
  /\ UNCHANGED <<config, pc, arg, service, keys, starts, history>>

WriteFile ==
  /\ pc \in Saving /\ opened
  /\ opened' = FALSE
  /\ file' = Good(config)
  /\ pc' = AfterSave[pc]
  /\ UNCHANGED <<config, arg, service, keys, starts, history>>

\* Mutation: a failed first save is ignored like the later ones.
SaveFailsIgnored ==
  /\ pc \in Saving
  /\ opened' = FALSE
  /\ pc' = AfterSave[pc]
  /\ UNCHANGED <<file, config, arg, service, keys, starts, history>>

\* A save that fails, before or after the truncation, ends the start when the
\* key is new; otherwise it is logged and main goes on.
SaveFails ==
  /\ pc \in Saving
  /\ opened' = FALSE
  /\ pc' = IF pc = "saveNew" THEN "down" ELSE AfterSave[pc]
  /\ UNCHANGED <<file, config, arg, service, keys, starts, history>>

\* loadConfig with an external IP in the file: it is never asked for again.
KeepIP ==
  /\ pc = "ip" /\ config.ip
  /\ pc' = "arg"
  /\ UNCHANGED <<file, config, opened, arg, service, keys, starts, history>>

\* GetExternalIP begins with the first service.
LookUpIP ==
  /\ pc = "ip" /\ ~config.ip
  /\ service' = 1
  /\ pc' = "ask"
  /\ UNCHANGED <<file, config, opened, arg, keys, starts, history>>

\* On to the next service; after the last one loadConfig goes on without IP.
TryNext ==
  /\ IF service < Services THEN service' = service + 1 /\ pc' = pc
                           ELSE service' = 0 /\ pc' = "arg"
  /\ UNCHANGED config

\* The service cannot be reached within 5 seconds, does not say 200, or its
\* answer breaks off.
ServiceFails ==
  /\ pc = "ask"
  /\ TryNext
  /\ UNCHANGED <<file, opened, arg, keys, starts, history>>

\* The service answers, and isValidIP has passed the text or not (it asks for
\* four parts of one to three digits, and not for their range): the first text
\* that passes is kept.
ServiceAnswers(valid) ==
  /\ pc = "ask"
  /\ IF valid
       THEN /\ config' = [config EXCEPT !.ip = TRUE]
            /\ service' = 0
            /\ pc' = "saveIP"
       ELSE TryNext
  /\ UNCHANGED <<file, opened, arg, keys, starts, history>>

\* main: a key in -k replaces the stored user key.
UseArg ==
  /\ pc = "arg" /\ arg
  /\ config' = [config EXCEPT !.userKey = TRUE]
  /\ pc' = "saveArg"
  /\ UNCHANGED <<file, opened, arg, service, keys, starts, history>>

NoArg ==
  /\ pc = "arg" /\ ~arg
  /\ pc' = "decide"
  /\ UNCHANGED <<file, config, opened, arg, service, keys, starts, history>>

\* Without any user key main returns; otherwise the client is created with
\* the keys of config.
Refuse ==
  /\ pc = "decide" /\ ~config.userKey
  /\ pc' = "down"
  /\ UNCHANGED <<file, config, opened, arg, service, keys, starts, history>>

Run ==
  /\ pc = "decide" /\ config.userKey
  /\ pc' = "running"
  /\ lastKey' = config.localKey
  /\ tornSince' = FALSE
  /\ UNCHANGED <<file, config, opened, arg, service, keys, starts, tornNow, given, panicked>>

\* An interval that is not positive makes time.NewTicker panic, in the
\* collection loop, the sending loop or a collector's background loop: the
\* process ends.
TickerPanics ==
  /\ pc = "running" /\ ~config.ticks
  /\ pc' = "down"
  /\ panicked' = TRUE
  /\ UNCHANGED <<file, config, opened, arg, service, keys, starts, lastKey,
                 tornReads, given>>

LoadConfigFromPath == LoadAbsent \/ LoadTorn \/ LoadGood \/ LoadKeyless \/ LoadFails
Save == OpenFile \/ WriteFile \/ SaveFails
GetExternalIP ==
  LookUpIP \/ ServiceFails \/ \E valid \in BOOLEAN : ServiceAnswers(valid)
Next ==
  \/ Start \/ Crash \/ LoadConfigFromPath \/ Save
  \/ KeepIP \/ GetExternalIP \/ UseArg \/ NoArg \/ Refuse \/ Run \/ TickerPanics

Spec == Init /\ [][Next]_vars

-----------------------------------------------------------------------------
\* The key under which the server knows this host survives every crash and
\* restart: between two starts that reach the client it changes only if one of
\* the starts after the first of them read a half-written file.
IdentityStable ==
  [][lastKey # 0 /\ lastKey' # lastKey => tornSince]_vars

\* An agent never reports under a key that the next start will not find:
\* when the client runs, the file holds its local key, or was torn by a later
\* save and is known not to parse.
KeyOnDisk ==
  pc = "running" =>
    \/ file.state = "torn"
    \/ file.state = "good" /\ file.content.localKey = config.localKey

\* "If there is no key, generate and save one" (config.go:291) holds over all
\* restarts with one exception: the client runs without a local key only in a
\* process that itself found a file that does not parse.  The start after it
\* finds the empty key in the file it saved, and makes one.
KeylessNeedsTorn == pc = "running" /\ config.localKey = 0 => tornNow

\* The program never saves or falls back to intervals on which its next start
\* would panic: NewTicker panics only on those of the operator's own file.
PanicNeedsGivenIntervals ==
  panicked => given.state = "good" /\ ~given.content.ticks
=============================================================================
