----------------------------- MODULE DataSender -----------------------------
(***************************************************************************)
(* DataSender of internal/network/client/data_sender.go: the goroutine     *)
(* sendLoop, the goroutine receiveMessages, and the operations their owner *)
(* calls.  The three share conn (the WebSocket), the atomic flag           *)
(* isConnected, a mutex around writes, and two channels that are closed to *)
(* stop the goroutines.                                                    *)
(*                                                                         *)
(* Metrics snapshots are numbered 1, 2, 3, ... in the order in which they  *)
(* are collected.  An action is a stretch of code with one access to state *)
(* that another goroutine writes.                                          *)
(***************************************************************************)
EXTENDS QueueOps

VARIABLES
  queue,        \* ds.dataQueue: numbers of the snapshots waiting to be sent
  cur,          \* the snapshot sendLoop popped last, 0 before the first
  delivered,    \* the snapshot written last to a live connection, 0 at first
  conn,         \* ds.conn # nil
  link,         \* the connection behind conn, see Links
  isConnected,  \* ds.isConnected
  running,      \* ds.running
  senderDone,   \* close(ds.senderDone) has happened
  clientDone,   \* close(ds.clientDone) has happened
  mutex,        \* who holds ds.mutex: "free", "sender" or "owner"
  sendPc,       \* where sendLoop is
  recvPc,       \* where receiveMessages is
  proc          \* the process: "running" or how it ended

flags == <<isConnected, running, senderDone, clientDone>>
dataVars == <<queue, cur, delivered>>
senderVars ==
  <<queue, cur, delivered, conn, link, isConnected, running, senderDone,
    clientDone, mutex, sendPc, recvPc, proc>>

\* "stalled": the peer has stopped reading and the socket buffers are full;
\* "lost": reset or closed by the peer; "closed": closed by this side.
Links == {"none", "up", "stalled", "lost", "closed"}
Alive == proc = "running"

SenderTypes ==
  /\ queue \in Seq(Nat) /\ Len(queue) <= Capacity
  /\ cur \in Nat
  /\ delivered \in Nat
  /\ conn \in BOOLEAN
  /\ link \in Links
  /\ isConnected \in BOOLEAN
  /\ running \in BOOLEAN
  /\ senderDone \in BOOLEAN
  /\ clientDone \in BOOLEAN
  /\ mutex \in {"free", "sender", "owner"}
  /\ sendPc \in {"off", "select", "check", "lock", "write", "done"}
  /\ recvPc \in {"off", "select", "check", "load", "read", "done"}
  /\ proc \in {"running", "exited", "killed", "panicked"}

\* NewDataSender
SenderInit ==
  /\ queue = <<>>
  /\ cur = 0
  /\ delivered = 0
  /\ conn = FALSE
  /\ link = "none"
  /\ isConnected = FALSE
  /\ running = FALSE
  /\ senderDone = FALSE
  /\ clientDone = FALSE
  /\ mutex = "free"
  /\ sendPc = "off"
  /\ recvPc = "off"
  /\ proc = "running"

-----------------------------------------------------------------------------
\* sendLoop.  With senderDone closed and a tick pending, select takes either.

SelectDone ==
  /\ Alive /\ sendPc = "select"
  /\ senderDone
  /\ sendPc' = "done"
  /\ UNCHANGED <<dataVars, conn, link, flags, mutex, recvPc, proc>>

\* A tick and TryPop.  On an empty queue the loop only logs and selects again.
SelectTick ==
  /\ Alive /\ sendPc = "select"
  /\ queue # <<>>
  /\ cur' = queue[1]
  /\ queue' = Tail(queue)
  /\ sendPc' = "check"
  /\ UNCHANGED <<delivered, conn, link, flags, mutex, recvPc, proc>>

\* sendMetrics up to the lock.  The flag is read without the mutex.  A
\* snapshot that finds no connection, or that json.Marshal refuses, is given up.
SendCheck ==
  /\ Alive /\ sendPc = "check"
  /\ sendPc' \in IF isConnected THEN {"select", "lock"} ELSE {"select"}
  /\ UNCHANGED <<dataVars, conn, link, flags, mutex, recvPc, proc>>

SendLock ==
  /\ Alive /\ sendPc = "lock"
  /\ mutex = "free"
  /\ mutex' = "sender"
  /\ sendPc' = "write"
  /\ UNCHANGED <<dataVars, conn, link, flags, recvPc, proc>>

\* Mutation: the error path returns without unlocking.
SendWriteKeepsLock ==
  /\ Alive /\ sendPc = "write"
  /\ conn
  /\ link # "stalled"
  /\ delivered' = IF link = "up" THEN cur ELSE delivered
  /\ mutex' = IF link = "up" THEN "free" ELSE mutex
  /\ sendPc' = "select"
  /\ UNCHANGED <<queue, cur, conn, link, flags, recvPc, proc>>

\* ds.conn.WriteMessage, Unlock, and back to the loop.  There is no write
\* deadline, so the call blocks while the peer is stalled.  On a dead
\* connection it returns an error, or success with nobody to receive.
SendWrite ==
  /\ Alive /\ sendPc = "write"
  /\ conn
  /\ link # "stalled"
  /\ delivered' = IF link = "up" THEN cur ELSE delivered
  /\ mutex' = "free"
  /\ sendPc' = "select"
  /\ UNCHANGED <<queue, cur, conn, link, flags, recvPc, proc>>

\* WriteMessage on a nil *websocket.Conn dereferences it: the process dies.
SendPanic ==
  /\ Alive /\ sendPc = "write"
  /\ ~conn
  /\ proc' = "panicked"
  /\ UNCHANGED <<dataVars, conn, link, flags, mutex, sendPc, recvPc>>

-----------------------------------------------------------------------------
\* receiveMessages

RecvSelect ==
  /\ Alive /\ recvPc = "select"
  /\ recvPc' = IF clientDone THEN "done" ELSE "check"
  /\ UNCHANGED <<dataVars, conn, link, flags, mutex, sendPc, proc>>

\* ds.conn is read without the mutex; nil means sleep and try again.
RecvCheck ==
  /\ Alive /\ recvPc = "check"
  /\ recvPc' = IF conn THEN "load" ELSE "select"
  /\ UNCHANGED <<dataVars, conn, link, flags, mutex, sendPc, proc>>

\* ds.conn is read again for ReadMessage.  The race with Disconnect leaves it
\* open whether the pointer is loaded anew or reused from the nil check.
RecvLoad ==
  /\ Alive /\ recvPc = "load"
  /\ recvPc' = "read"
  /\ UNCHANGED <<dataVars, conn, link, flags, mutex, sendPc, proc>>

RecvPanic ==
  /\ Alive /\ recvPc = "load"
  /\ ~conn
  /\ proc' = "panicked"
  /\ UNCHANGED <<dataVars, conn, link, flags, mutex, sendPc, recvPc>>

\* A message arrives, also from a peer that has stopped reading; handleMessage
\* only logs it.
RecvMessage ==
  /\ Alive /\ recvPc = "read"
  /\ link \in {"up", "stalled"}
  /\ recvPc' = "select"
  /\ UNCHANGED <<dataVars, conn, link, flags, mutex, sendPc, proc>>

\* Mutation: the receiver returns without recording the loss.
RecvErrorSilent ==
  /\ Alive /\ recvPc = "read"
  /\ link \in {"lost", "closed"}
  /\ recvPc' = "done"
  /\ UNCHANGED <<dataVars, conn, link, flags, mutex, sendPc, proc>>

\* ReadMessage fails on a connection that the peer or Disconnect closed.
RecvError ==
  /\ Alive /\ recvPc = "read"
  /\ link \in {"lost", "closed"}
  /\ isConnected' = FALSE
  /\ recvPc' = "done"
  /\ UNCHANGED <<dataVars, conn, link, running, senderDone, clientDone, mutex,
                 sendPc, proc>>

-----------------------------------------------------------------------------
\* The network.

LinkStalls ==
  /\ Alive /\ link = "up"
  /\ link' = "stalled"
  /\ UNCHANGED <<dataVars, conn, flags, mutex, sendPc, recvPc, proc>>

LinkRecovers ==
  /\ Alive /\ link = "stalled"
  /\ link' = "up"
  /\ UNCHANGED <<dataVars, conn, flags, mutex, sendPc, recvPc, proc>>

LinkLost ==
  /\ Alive /\ link \in {"up", "stalled"}
  /\ link' = "lost"
  /\ UNCHANGED <<dataVars, conn, flags, mutex, sendPc, recvPc, proc>>

-----------------------------------------------------------------------------
\* The operations of the owner; SystemClient says when they are called.

\* Mutation: the flag is raised without storing the connection.
DialOkNoConn ==
  /\ link' = "up"
  /\ isConnected' = TRUE
  /\ recvPc' = "select"
  /\ UNCHANGED <<dataVars, conn, running, senderDone, clientDone, mutex,
                 sendPc, proc>>

\* Connect after a successful dial.  No goroutine that reads conn or
\* isConnected exists before its last line starts receiveMessages.
DialOk ==
  /\ conn' = TRUE
  /\ link' = "up"
  /\ isConnected' = TRUE
  /\ recvPc' = "select"
  /\ UNCHANGED <<dataVars, running, senderDone, clientDone, mutex, sendPc, proc>>

\* SystemClient calls StartSending and then StopSending once each, so their
\* early returns on the flag running are never taken.
StartSending ==
  /\ ~running
  /\ running' = TRUE
  /\ sendPc' = "select"
  /\ UNCHANGED <<dataVars, conn, link, isConnected, senderDone, clientDone,
                 mutex, recvPc, proc>>

StopSending ==
  /\ running
  /\ running' = FALSE
  /\ senderDone' = TRUE
  /\ UNCHANGED <<dataVars, conn, link, isConnected, clientDone, mutex, sendPc,
                 recvPc, proc>>

\* Disconnect, from Lock to Unlock.
DisconnectLock ==
  /\ mutex = "free"
  /\ mutex' = "owner"
  /\ UNCHANGED <<dataVars, conn, link, flags, sendPc, recvPc, proc>>

DisconnectSkip ==
  /\ ~isConnected
  /\ mutex' = "free"
  /\ UNCHANGED <<dataVars, conn, link, flags, sendPc, recvPc, proc>>

DisconnectSignal ==
  /\ isConnected
  /\ clientDone' = TRUE
  /\ UNCHANGED <<dataVars, conn, link, isConnected, running, senderDone, mutex,
                 sendPc, recvPc, proc>>

\* WriteControl has a deadline of a second and its error is ignored.  Only
\* Disconnect sets conn to nil, so its nil check always succeeds.
DisconnectClose ==
  /\ link' = "closed"
  /\ UNCHANGED <<dataVars, conn, flags, mutex, sendPc, recvPc, proc>>

DisconnectClear ==
  /\ conn' = FALSE
  /\ UNCHANGED <<dataVars, link, flags, mutex, sendPc, recvPc, proc>>

DisconnectUnlock ==
  /\ isConnected' = FALSE
  /\ mutex' = "free"
  /\ UNCHANGED <<dataVars, conn, link, running, senderDone, clientDone, sendPc,
                 recvPc, proc>>

-----------------------------------------------------------------------------
SendLoop == SelectDone \/ SelectTick \/ SendCheck \/ SendLock \/ SendWrite \/ SendPanic
ReceiveMessages ==
  RecvSelect \/ RecvCheck \/ RecvLoad \/ RecvPanic \/ RecvMessage \/ RecvError
Network == LinkStalls \/ LinkRecovers \/ LinkLost
=============================================================================
