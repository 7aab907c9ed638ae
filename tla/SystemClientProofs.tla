------------------------- MODULE SystemClientProofs -------------------------
(***************************************************************************)
(* Proofs about the running agent, for every queue capacity and every      *)
(* number of collection rounds.                                            *)
(***************************************************************************)
EXTENDS SystemClient, TLAPS

-----------------------------------------------------------------------------
\* Types, and the capacity of the queue.
THEOREM TypeCorrect == Spec => []TypeOK
<1>1. Init => TypeOK
  <2> SUFFICES ASSUME Init PROVE TypeOK
    OBVIOUS
  <2>1. queue \in Seq(Nat) /\ Len(queue) <= Capacity
    BY CapacityAssumption DEF Init, SenderInit
  <2> QED
    BY <2>1 DEF Init, SenderInit, TypeOK, SenderTypes, Links, Starting, Disconnecting
<1>2. TypeOK /\ [Next]_vars => TypeOK'
  <2> SUFFICES ASSUME TypeOK, [Next]_vars PROVE TypeOK'
    OBVIOUS
  <2> USE DEF TypeOK, SenderTypes, Links, Starting, Disconnecting, dataVars, flags,
              clientVars, senderVars
  <2>1. CASE Main
    BY <2>1
    DEF Main, Goto, StartCollecting, ConnectOk, DialOk, ConnectFails, BeginSending,
        StartSending, Notify, ReceiveSignal, EndSending, StopSending, StopCollecting,
        LockSender, DisconnectLock, SkipDisconnect, DisconnectSkip, SignalReceiver,
        DisconnectSignal, CloseConn, DisconnectClose, ClearConn, DisconnectClear,
        UnlockSender, DisconnectUnlock, Exit
  <2>2. CASE KilledBySignal
    BY <2>2 DEF KilledBySignal
  <2>3. CASE BeginRound
    BY <2>3 DEF BeginRound
  <2>4. CASE PushRound
    <3>1. queue' \in Seq(Nat) /\ Len(queue') <= Capacity
      BY <2>4, CapacityAssumption DEF PushRound, Pushed
    <3> QED BY <2>4, <3>1 DEF PushRound
  <2>5. CASE SelectTick /\ UNCHANGED clientVars
    <3>1. queue' \in Seq(Nat) /\ Len(queue') <= Capacity /\ cur' \in Nat
      BY <2>5, CapacityAssumption DEF SelectTick
    <3> QED BY <2>5, <3>1 DEF SelectTick
  <2>6. CASE (SelectDone \/ SendCheck \/ SendLock \/ SendWrite \/ SendPanic)
               /\ UNCHANGED clientVars
    <3>1. CASE SendCheck
      BY <2>6, <3>1 DEF SendCheck
    <3>2. CASE SendWrite
      BY <2>6, <3>2 DEF SendWrite
    <3>3. CASE SelectDone \/ SendLock \/ SendPanic
      BY <2>6, <3>3 DEF SelectDone, SendLock, SendPanic
    <3> QED BY <2>6, <3>1, <3>2, <3>3
  <2>7. CASE ReceiveMessages /\ UNCHANGED clientVars
    <3>1. CASE RecvSelect
      BY <2>7, <3>1 DEF RecvSelect
    <3>2. CASE RecvCheck
      BY <2>7, <3>2 DEF RecvCheck
    <3>3. CASE RecvLoad \/ RecvPanic \/ RecvMessage
      BY <2>7, <3>3 DEF RecvLoad, RecvPanic, RecvMessage
    <3>4. CASE RecvError
      <4>1. isConnected' \in BOOLEAN /\ recvPc' = "done"
        BY <3>4 DEF RecvError
      <4>2. UNCHANGED <<queue, cur, delivered, conn, link, running, senderDone,
                        clientDone, mutex, sendPc, proc, mainPc, collected, collecting>>
        BY <2>7, <3>4 DEF RecvError
      <4> QED BY <4>1, <4>2
    <3> QED BY <2>7, <3>1, <3>2, <3>3, <3>4 DEF ReceiveMessages
  <2>8. CASE Network /\ UNCHANGED clientVars
    BY <2>8 DEF Network, LinkStalls, LinkRecovers, LinkLost
  <2>9. CASE UNCHANGED vars
    BY <2>9 DEF vars
  <2> QED
    BY <2>1, <2>2, <2>3, <2>4, <2>5, <2>6, <2>7, <2>8, <2>9
    DEF Next, CollectLoop, SendLoop
<1> QED BY <1>1, <1>2, PTL DEF Spec

-----------------------------------------------------------------------------
\* Who may be where: the mutex is held exactly between Lock and Unlock, the
\* goroutines exist only after their start, and conn is set from the dial to
\* the line of Disconnect that clears it.
Control ==
  /\ mutex = "owner" <=> mainPc \in {"check", "close", "clear", "unlock"}
  /\ mutex = "sender" <=> sendPc = "write"
  /\ mainPc \in {"start", "dial"} =>
       recvPc = "off" /\ sendPc = "off" /\ ~isConnected
  /\ mainPc = "startSending" => sendPc = "off"
  /\ mainPc \in {"startSending", "notify", "wait", "stopSending",
                 "stopCollecting", "lock", "check", "close", "clear"} => conn
  /\ (isConnected /\ mutex # "owner") => conn
  /\ PanicOnlyInShutdown

\* Control is inductive together with the types.
THEOREM ControlHolds == Spec => []Control
<1>1. Init => Control
  BY DEF Init, SenderInit, Control, PanicOnlyInShutdown
<1>2. TypeOK /\ Control /\ [Next]_vars => Control'
  <2> SUFFICES ASSUME TypeOK, Control, [Next]_vars PROVE Control'
    OBVIOUS
  <2> USE DEF Control, PanicOnlyInShutdown, TypeOK, SenderTypes, Links, Starting,
              Disconnecting, Alive, flags, clientVars, senderVars
  <2>1. CASE StartCollecting \/ ConnectOk \/ ConnectFails \/ BeginSending \/ Notify
             \/ ReceiveSignal
    BY <2>1 DEF Goto, StartCollecting, ConnectOk, DialOk, ConnectFails, BeginSending,
                StartSending, Notify, ReceiveSignal
  <2>2. CASE EndSending \/ StopCollecting \/ LockSender \/ SkipDisconnect
             \/ SignalReceiver
    BY <2>2 DEF Goto, EndSending, StopSending, StopCollecting, LockSender,
                DisconnectLock, SkipDisconnect, DisconnectSkip, SignalReceiver,
                DisconnectSignal
  <2>3. CASE CloseConn \/ ClearConn \/ UnlockSender \/ Exit
    BY <2>3 DEF Goto, CloseConn, DisconnectClose, ClearConn, DisconnectClear,
                UnlockSender, DisconnectUnlock, Exit
  <2>4. CASE KilledBySignal \/ CollectLoop
    BY <2>4 DEF KilledBySignal, CollectLoop, BeginRound, PushRound
  <2>5. CASE SendLoop /\ UNCHANGED clientVars
    BY <2>5 DEF SendLoop, SelectDone, SelectTick, SendCheck, SendLock, SendWrite,
                SendPanic
  <2>6. CASE ReceiveMessages /\ UNCHANGED clientVars
    BY <2>6 DEF ReceiveMessages, RecvSelect, RecvCheck, RecvLoad, RecvPanic,
                RecvMessage, RecvError
  <2>7. CASE Network /\ UNCHANGED clientVars
    BY <2>7 DEF Network, LinkStalls, LinkRecovers, LinkLost
  <2>8. CASE UNCHANGED vars
    BY <2>8 DEF vars
  <2> QED
    BY <2>1, <2>2, <2>3, <2>4, <2>5, <2>6, <2>7, <2>8 DEF Next, Main
<1> QED BY <1>1, <1>2, TypeCorrect, PTL DEF Spec

\* The flag sendMetrics reads without the mutex never promises a nil
\* connection while the mutex is free.
THEOREM FlagGuardsConnHolds == Spec => []FlagGuardsConn
<1>1. Control => FlagGuardsConn
  BY DEF Control, FlagGuardsConn
<1> QED BY <1>1, ControlHolds, PTL

\* Losing the peer never crashes the agent; only a race with its own
\* SystemClient.Disconnect can.
THEOREM PanicOnlyInShutdownHolds == Spec => []PanicOnlyInShutdown
<1>1. Control => PanicOnlyInShutdown
  BY DEF Control
<1> QED BY <1>1, ControlHolds, PTL

-----------------------------------------------------------------------------
\* Snapshots never overtake each other between CollectAll and the wire.
THEOREM SnapshotOrderHolds == Spec => []SnapshotOrder
<1>1. Init => SnapshotOrder
  BY DEF Init, SenderInit, SnapshotOrder
<1>2. TypeOK /\ SnapshotOrder /\ [Next]_vars => SnapshotOrder'
  <2> SUFFICES ASSUME TypeOK, SnapshotOrder, [Next]_vars PROVE SnapshotOrder'
    OBVIOUS
  <2> USE DEF SnapshotOrder, TypeOK, SenderTypes
  <2>1. CASE BeginRound
    BY <2>1 DEF BeginRound, senderVars
  <2>a. /\ Len(queue) \in Nat /\ queue \in Seq(Nat) /\ Len(queue) <= Capacity
        /\ cur \in Nat /\ collected \in Nat /\ delivered \in Nat
        /\ \A k \in 1..Len(queue) : queue[k] \in Nat
    OBVIOUS
  <2>b. \A k \in 1..Len(queue) :
          /\ cur < queue[k] /\ queue[k] <= collected
          /\ collecting = "round" => queue[k] < collected
          /\ \A j \in 1..(k - 1) : queue[j] < queue[k]
    OBVIOUS
  <2>2. CASE PushRound
    <3> HIDE DEF SnapshotOrder, TypeOK, SenderTypes
    <3>1. queue' = Pushed(queue, collected)
          /\ UNCHANGED <<cur, delivered, sendPc, collected>>
          /\ collecting = "round" /\ collecting' = "tick"
      BY <2>2 DEF PushRound
    <3> DEFINE drop == IF Len(queue) = Capacity THEN 1 ELSE 0
    <3>2. /\ drop \in {0, 1} /\ drop <= Len(queue)
          /\ Len(queue') = Len(queue) - drop + 1
          /\ \A i \in 1..(Len(queue) - drop) : queue'[i] = queue[i + drop]
          /\ queue'[Len(queue) - drop + 1] = collected
      <4>1. CASE Len(queue) = Capacity
        <5>1. queue' = Append(Tail(queue), collected) /\ queue # <<>>
          BY <2>a, <3>1, <4>1, CapacityAssumption DEF Pushed
        <5> QED BY <2>a, <4>1, <5>1
      <4>2. CASE Len(queue) # Capacity
        <5>1. queue' = Append(queue, collected)
          BY <2>a, <3>1, <4>2, CapacityAssumption DEF Pushed
        <5> QED BY <2>a, <4>2, <5>1
      <4> QED BY <4>1, <4>2
    <3> HIDE DEF drop
    <3>3. ASSUME NEW i \in 1..Len(queue')
          PROVE  /\ cur < queue'[i]
                 /\ queue'[i] <= collected
                 /\ \A j \in 1..(i - 1) : queue'[j] < queue'[i]
      <4>1. CASE i = Len(queue')
        <5>1. queue'[i] = collected
          BY <3>2, <4>1
        <5>2. ASSUME NEW j \in 1..(i - 1) PROVE queue'[j] < collected
          <6>1. j \in 1..(Len(queue) - drop) /\ j + drop \in 1..Len(queue)
            BY <2>a, <3>2, <4>1
          <6>2. queue'[j] = queue[j + drop]
            BY <3>2, <6>1
          <6> QED BY <2>b, <3>1, <6>1, <6>2
        <5>3. cur < collected
          BY <3>1 DEF SnapshotOrder
        <5> QED BY <2>a, <5>1, <5>2, <5>3
      <4>2. CASE i # Len(queue')
        <5>1. i \in 1..(Len(queue) - drop) /\ i + drop \in 1..Len(queue)
          BY <2>a, <3>2, <4>2
        <5>2. queue'[i] = queue[i + drop]
          BY <3>2, <5>1
        <5>3. ASSUME NEW j \in 1..(i - 1) PROVE queue'[j] < queue'[i]
          <6>1. j \in 1..(Len(queue) - drop) /\ j + drop \in 1..((i + drop) - 1)
            BY <2>a, <3>2, <5>1
          <6>2. queue'[j] = queue[j + drop]
            BY <3>2, <6>1
          <6> QED BY <2>b, <5>1, <5>2, <6>1, <6>2
        <5> QED BY <2>b, <5>1, <5>2, <5>3
      <4> QED BY <4>1, <4>2
    <3> QED BY <3>1, <3>3 DEF SnapshotOrder
  <2>3. CASE SelectTick /\ UNCHANGED clientVars
    <3> HIDE DEF SnapshotOrder, TypeOK, SenderTypes
    <3>1. /\ cur' = queue[1] /\ queue' = Tail(queue) /\ queue # <<>>
          /\ UNCHANGED <<delivered, collected, collecting>>
      BY <2>3 DEF SelectTick, clientVars
    <3>2. /\ Len(queue) \in Nat \ {0} /\ Len(queue') = Len(queue) - 1
          /\ \A i \in 1..(Len(queue) - 1) : queue'[i] = queue[i + 1]
          /\ queue[1] \in Nat
      BY <2>a, <3>1
    <3>3. cur < queue[1] /\ queue[1] <= collected
          /\ (collecting = "round" => queue[1] < collected)
      BY <2>b, <3>2
    <3>4. ASSUME NEW i \in 1..Len(queue')
          PROVE  /\ queue[1] < queue'[i]
                 /\ queue'[i] <= collected
                 /\ collecting = "round" => queue'[i] < collected
                 /\ \A j \in 1..(i - 1) : queue'[j] < queue'[i]
      <4>1. i \in 1..(Len(queue) - 1) /\ i + 1 \in 1..Len(queue) /\ 1 \in 1..((i + 1) - 1)
        BY <3>2
      <4>2. queue'[i] = queue[i + 1]
        BY <3>2, <4>1
      <4>3. ASSUME NEW j \in 1..(i - 1) PROVE queue'[j] < queue'[i]
        <5>1. j \in 1..(Len(queue) - 1) /\ j + 1 \in 1..((i + 1) - 1)
          BY <3>2, <4>1
        <5>2. queue'[j] = queue[j + 1]
          BY <3>2, <5>1
        <5> QED BY <2>b, <4>1, <4>2, <5>1, <5>2
      <4> QED BY <2>b, <4>1, <4>2, <4>3
    <3>5. delivered <= cur
      BY DEF SnapshotOrder
    <3>6. delivered < cur'
      BY <2>a, <3>1, <3>2, <3>3, <3>5
    <3> QED BY <2>a, <3>1, <3>2, <3>3, <3>4, <3>6 DEF SnapshotOrder
  <2>4. CASE SendWrite /\ UNCHANGED clientVars
    BY <2>4 DEF SendWrite, clientVars
  <2>5. CASE (SelectDone \/ SendCheck \/ SendLock) /\ UNCHANGED clientVars
    BY <2>5 DEF SelectDone, SendCheck, SendLock, dataVars, clientVars
  <2>6. CASE /\ UNCHANGED <<dataVars, collected, collecting>>
             /\ sendPc' # sendPc => sendPc' = "select"
    BY <2>6 DEF dataVars
  <2>7. CASE StartCollecting
    BY <2>7 DEF StartCollecting, Goto, senderVars
  <2>8. Main => \/ /\ UNCHANGED <<dataVars, collected, collecting>>
                   /\ sendPc' # sendPc => sendPc' = "select"
                \/ StartCollecting
    BY DEF Main, Goto, ConnectOk, DialOk, ConnectFails, BeginSending,
           StartSending, Notify, ReceiveSignal, EndSending, StopSending,
           StopCollecting, LockSender, DisconnectLock, SkipDisconnect,
           DisconnectSkip, SignalReceiver, DisconnectSignal, CloseConn,
           DisconnectClose, ClearConn, DisconnectClear, UnlockSender,
           DisconnectUnlock, Exit, dataVars, senderVars
  <2>9. ASSUME \/ KilledBySignal
               \/ UNCHANGED vars
               \/ (SendPanic \/ ReceiveMessages \/ Network) /\ UNCHANGED clientVars
        PROVE  UNCHANGED <<dataVars, collected, collecting, sendPc>>
    BY <2>9 DEF KilledBySignal, SendPanic, ReceiveMessages, RecvSelect, RecvCheck,
           RecvLoad, RecvPanic, RecvMessage, RecvError, Network, LinkStalls,
           LinkRecovers, LinkLost, clientVars, senderVars, vars, dataVars
  <2>10. CASE Main
    BY <2>6, <2>7, <2>8, <2>10
  <2>11. CASE \/ KilledBySignal
              \/ UNCHANGED vars
              \/ (SendPanic \/ ReceiveMessages \/ Network) /\ UNCHANGED clientVars
    BY <2>6, <2>9, <2>11
  <2> HIDE DEF SnapshotOrder, TypeOK, SenderTypes
  <2> QED
    BY <2>1, <2>2, <2>3, <2>4, <2>5, <2>10, <2>11 DEF Next, CollectLoop, SendLoop
<1> QED BY <1>1, <1>2, TypeCorrect, PTL DEF Spec

\* Every snapshot the server receives is newer than all it received before.
THEOREM DeliveredOnceInOrderHolds == Spec => DeliveredOnceInOrder
<1>1. TypeOK /\ SnapshotOrder /\ [Next]_vars
        => [SendWrite /\ link = "up" => delivered' > delivered]_vars
  BY DEF SendWrite, SnapshotOrder, TypeOK, SenderTypes
<1> QED BY <1>1, TypeCorrect, SnapshotOrderHolds, PTL DEF Spec, DeliveredOnceInOrder
=============================================================================
