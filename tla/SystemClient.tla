---------------------------- MODULE SystemClient ----------------------------
(***************************************************************************)
(* The running agent: main (cmd/system-monitor/main.go) drives a           *)
(* SystemClient (internal/network/client/system_client.go), which starts   *)
(* the collection loop of MasterCollector (internal/collectors/            *)
(* collector.go) and the two goroutines of DataSender.  The four           *)
(* goroutines interleave; the loop and the sender share the metrics queue. *)
(***************************************************************************)
EXTENDS DataSender

CONSTANT MaxCollected   \* bound on the number of collection rounds

ASSUME MaxCollectedAssumption == MaxCollected \in Nat

VARIABLES
  mainPc,      \* where main is
  collected,   \* collection rounds begun: the number of the newest snapshot
  collecting   \* the collection loop: "off", "tick" (waiting) or "round"

clientVars == <<mainPc, collected, collecting>>
vars == <<senderVars, clientVars>>

\* main before it listens for signals, and main inside SystemClient.Disconnect.
Starting == {"start", "dial", "startSending", "notify"}
Disconnecting ==
  {"stopSending", "stopCollecting", "lock", "check", "close", "clear", "unlock"}

TypeOK ==
  /\ SenderTypes
  /\ mainPc \in Starting \union {"wait"} \union Disconnecting \union {"exit"}
  /\ collected \in Nat
  /\ collecting \in {"off", "tick", "round"}

Init ==
  /\ SenderInit
  /\ mainPc = "start"
  /\ collected = 0
  /\ collecting = "off"

-----------------------------------------------------------------------------
\* main
Goto(from, to) ==
  /\ Alive /\ mainPc = from
  /\ mainPc' = to
  /\ UNCHANGED collected

\* collectorManager.Start: the loop runs from here on, connected or not.
StartCollecting ==
  /\ Goto("start", "dial")
  /\ collecting' = "tick"
  /\ UNCHANGED senderVars

ConnectOk == Goto("dial", "startSending") /\ DialOk /\ UNCHANGED collecting

\* The dial fails: main logs it and returns, which ends the process.
ConnectFails ==
  /\ Goto("dial", "exit")
  /\ proc' = "exited"
  /\ UNCHANGED <<dataVars, conn, link, flags, mutex, sendPc, recvPc, collecting>>

BeginSending == Goto("startSending", "notify") /\ StartSending /\ UNCHANGED collecting

\* signal.Notify: only now does a signal reach main.
Notify == Goto("notify", "wait") /\ UNCHANGED <<senderVars, collecting>>

\* Before that, SIGINT and SIGTERM have their default action.
KilledBySignal ==
  /\ Alive /\ mainPc \in Starting
  /\ proc' = "killed"
  /\ UNCHANGED <<dataVars, conn, link, flags, mutex, sendPc, recvPc, clientVars>>

ReceiveSignal ==
  Goto("wait", "stopSending") /\ UNCHANGED <<senderVars, collecting>>

EndSending ==
  Goto("stopSending", "stopCollecting") /\ StopSending /\ UNCHANGED collecting

\* MasterCollector.Stop only logs.
StopCollecting ==
  Goto("stopCollecting", "lock") /\ UNCHANGED <<senderVars, collecting>>

LockSender == Goto("lock", "check") /\ DisconnectLock /\ UNCHANGED collecting

SkipDisconnect == Goto("check", "exit") /\ DisconnectSkip /\ UNCHANGED collecting

SignalReceiver == Goto("check", "close") /\ DisconnectSignal /\ UNCHANGED collecting

CloseConn == Goto("close", "clear") /\ DisconnectClose /\ UNCHANGED collecting

ClearConn == Goto("clear", "unlock") /\ DisconnectClear /\ UNCHANGED collecting

UnlockSender == Goto("unlock", "exit") /\ DisconnectUnlock /\ UNCHANGED collecting

\* main returns after Disconnect: every other goroutine is gone with it.
Exit ==
  /\ Goto("exit", "exit")
  /\ proc' = "exited"
  /\ UNCHANGED <<dataVars, conn, link, flags, mutex, sendPc, recvPc, collecting>>

\* system_client.Connect, Disconnect and the lines of main around them.
Main ==
  \/ StartCollecting \/ ConnectOk \/ ConnectFails \/ BeginSending \/ Notify
  \/ ReceiveSignal \/ EndSending \/ StopCollecting \/ LockSender
  \/ SkipDisconnect \/ SignalReceiver \/ CloseConn \/ ClearConn
  \/ UnlockSender \/ Exit

-----------------------------------------------------------------------------
\* The collection loop.

\* A tick starts CollectAll.
BeginRound ==
  /\ Alive /\ collecting = "tick"
  /\ collected < MaxCollected
  /\ collected' = collected + 1
  /\ collecting' = "round"
  /\ UNCHANGED <<senderVars, mainPc>>

\* Mutation: the loop pushes a snapshot twice.
PushRoundTwice ==
  /\ Alive /\ collecting = "round"
  /\ queue' = Pushed(Pushed(queue, collected), collected)
  /\ collecting' = "tick"
  /\ UNCHANGED <<cur, delivered, conn, link, flags, mutex, sendPc, recvPc, proc,
                 mainPc, collected>>

\* CollectAll returned (it never fails) and its snapshot is queued.
PushRound ==
  /\ Alive /\ collecting = "round"
  /\ queue' = Pushed(queue, collected)
  /\ collecting' = "tick"
  /\ UNCHANGED <<cur, delivered, conn, link, flags, mutex, sendPc, recvPc, proc,
                 mainPc, collected>>

CollectLoop == BeginRound \/ PushRound

Next ==
  \/ Main
  \/ KilledBySignal
  \/ CollectLoop
  \/ (SendLoop \/ ReceiveMessages \/ Network) /\ UNCHANGED clientVars

\* Goroutines are scheduled, ticks keep coming, a Go mutex hands over to a
\* waiter that starves, and a blocked write goes on when the peer reads again
\* and again.  Nothing is assumed of the network, of signals or
\* of the dial, and ReadMessage need never return on a live link.
Fairness ==
  /\ WF_vars(Main /\ mainPc \notin {"dial", "wait"})
  /\ SF_vars(LockSender)
  /\ WF_vars(CollectLoop)
  /\ WF_vars(SendLoop /\ UNCHANGED clientVars)
  /\ SF_vars((SendLock \/ SendWrite) /\ UNCHANGED clientVars)
  /\ WF_vars(ReceiveMessages /\ recvPc # "read" /\ UNCHANGED clientVars)
  /\ WF_vars(RecvError /\ UNCHANGED clientVars)

Spec == Init /\ [][Next]_vars
FairSpec == Spec /\ Fairness

-----------------------------------------------------------------------------
\* Snapshots move in one order through the agent: what has been delivered is
\* no newer than what the sender holds, which is older than anything queued,
\* and the queue ascends towards the newest collected round.  A snapshot
\* evicted from the full queue or given up by sendMetrics leaves a gap, never
\* an inversion.
SnapshotOrder ==
  /\ delivered <= cur
  /\ sendPc \in {"check", "lock", "write"} => delivered < cur
  /\ cur <= collected
  /\ \A i \in 1..Len(queue) :
       /\ cur < queue[i]
       /\ queue[i] <= collected
       /\ collecting = "round" => queue[i] < collected
       /\ \A j \in 1..(i - 1) : queue[j] < queue[i]
  /\ collecting = "round" => cur < collected

\* Every snapshot written to the live connection is newer than all those
\* written before it: the server gets none twice and none out of order.
DeliveredOnceInOrder == [][SendWrite /\ link = "up" => delivered' > delivered]_vars

\* The flag that sendMetrics trusts without the mutex never promises a nil
\* connection while the mutex is free: Disconnect clears conn and the flag
\* under one lock.
FlagGuardsConn == (isConnected /\ mutex = "free") => conn

\* A nil connection is dereferenced, if ever, by a goroutine that raced with
\* SystemClient.Disconnect; losing the peer alone never crashes the agent.
PanicOnlyInShutdown == proc = "panicked" => mainPc \in Disconnecting \union {"exit"}

\* After the stop signal the process ends ("close the connection and clean up",
\* main.go:200), unless a write hangs for ever on a peer that stopped reading:
\* it holds the mutex that Disconnect waits for.
ShutdownCompletes ==
  mainPc = "stopSending" ~> (~Alive \/ [](link = "stalled"))

\* A reset connection does not go unnoticed.
LossNoticed == link = "lost" ~> (~Alive \/ ~isConnected)

\* Once sendLoop runs, no snapshot stays in the queue for ever: it is popped
\* or evicted, whatever has become of the connection.
NoSnapshotStuck ==
  \A n \in 1..MaxCollected :
    (sendPc # "off" /\ \E i \in 1..Len(queue) : queue[i] = n)
      ~> (~Alive \/ [](link = "stalled") \/ \A i \in 1..Len(queue) : queue[i] # n)

-----------------------------------------------------------------------------
\* A statement of the source that the code does not keep.

\* Disconnect logs that the client "was shut down normally"
\* (system_client.go:133): the shutdown never makes sendMetrics use a
\* connection that Disconnect has set to nil.
CleanShutdown == ~(proc = "panicked" /\ sendPc = "write")
=============================================================================
