------------------------------- MODULE Client -------------------------------
(***************************************************************************)
(* The phone's connection to the car (Client.java): one selector thread    *)
(* that connects, reads, writes and reconnects, and sender threads that    *)
(* hand it data through two lists, pendingChanges and pendingData, and     *)
(* wake it up.                                                             *)
(*                                                                         *)
(* A block that holds the lock of a list is one step, and so is a call of  *)
(* the Selector; everything else interleaves.  Of the channel a request    *)
(* names, only whether it is still the client's channel matters.           *)
(* External: the selector, the socket and the network.                     *)
(***************************************************************************)
EXTENDS Integers, Sequences

CONSTANTS
  Sender,                       \* the threads that call send()
  MaxWaiting,                   \* bound: send() begins with fewer requests, or data, waiting
  MaxFails,                     \* bound: failures of the network or of a callback
  SendEarly,                    \* send() may be called while not connected
  INIT_RECONNECT_INTERVAL,
  MAX_RECONNECT_INTERVAL

ASSUME ClientAssumption ==
  /\ MaxWaiting \in Nat \ {0} /\ MaxFails \in Nat
  /\ SendEarly \in BOOLEAN
  /\ INIT_RECONNECT_INTERVAL \in Nat \ {0}
  /\ MAX_RECONNECT_INTERVAL \in Nat

-----------------------------------------------------------------------------
VARIABLES
  open,                 \* channel.isOpen()
  interestOps,          \* of the channel's key
  wakeup,               \* a wakeup() of the selector that no select() has seen
  pendingChanges,       \* the requests, all APPENDOPS of OP_WRITE: for the "channel",
                        \* or for an "old" one
  pendingData,          \* the data that waits; one of them may be "watched" on its way
  connected,
  reconnectInterval,
  pc,                   \* where the selector thread is
  ready,                \* the ready operations still to be processed
  spc,                  \* where each sender is in send()
  fails,                \* failures so far
  net,                  \* the connection, as the operating system sees it
  inbound,              \* there is something to read
  room                  \* there is room in the socket's send buffer

lists == <<pendingChanges, pendingData>>
key == <<interestOps, wakeup>>
network == <<net, inbound, room>>
thread == <<open, connected, reconnectInterval, pc, ready>>
vars == <<lists, key, network, thread, spc, fails>>

-----------------------------------------------------------------------------
Init ==
  /\ open = FALSE
  /\ interestOps = {} /\ wakeup = FALSE
  /\ pendingChanges = <<>> /\ pendingData = <<>>
  /\ connected = FALSE
  /\ reconnectInterval = INIT_RECONNECT_INTERVAL
  /\ pc = "open" /\ ready = {}
  /\ spc = [t \in Sender |-> "out"]
  /\ fails = 0
  /\ net = "down" /\ inbound = FALSE /\ room = TRUE

\* One more failure that nothing in the program prevents.
Fail ==
  /\ fails < MaxFails
  /\ fails' = fails + 1

-----------------------------------------------------------------------------
(* send(), line 274.                                                       *)

\* A request for the channel of this moment; before the first one that is null,
\* which is no better than a channel that was closed.
AddChange(t) ==
  /\ spc[t] = "out"
  /\ Len(pendingChanges) < MaxWaiting /\ Len(pendingData) < MaxWaiting
  /\ SendEarly \/ connected
  /\ pendingChanges' = Append(pendingChanges, "channel")
  /\ spc' = [spc EXCEPT ![t] = "data"]
  /\ UNCHANGED <<pendingData, key, network, thread, fails>>

Watched == \E i \in DOMAIN pendingData : pendingData[i] = "watched"

AddData(t) ==
  /\ spc[t] = "data"
  /\ \E d \in {"data", "watched"} :
       /\ d = "watched" => ~Watched
       /\ pendingData' = Append(pendingData, d)
  /\ spc' = [spc EXCEPT ![t] = "wakeup"]
  /\ UNCHANGED <<pendingChanges, key, network, thread, fails>>

\* Mutant of Wakeup: send() returns without it.
NoWakeup(t) ==
  /\ spc[t] = "wakeup"
  /\ spc' = [spc EXCEPT ![t] = "out"]
  /\ UNCHANGED <<lists, key, network, thread, fails>>

Wakeup(t) ==
  /\ spc[t] = "wakeup"
  /\ wakeup' = TRUE
  /\ spc' = [spc EXCEPT ![t] = "out"]
  /\ UNCHANGED <<lists, interestOps, network, thread, fails>>

Send(t) == AddChange(t) \/ AddData(t) \/ Wakeup(t)

-----------------------------------------------------------------------------
(* run(), line 75.                                                         *)

Go(from, to) == pc = from /\ pc' = to

\* The requests made so far are for another one.
NewChannel ==
  /\ open' = TRUE
  /\ pendingChanges' = [i \in DOMAIN pendingChanges |-> "old"]

\* A selector, and a channel that is registered with it and connects ...
Open ==
  /\ Go("open", "loop")
  /\ NewChannel
  /\ interestOps' = {"OP_CONNECT"} /\ wakeup' = FALSE
  /\ net' = "pending" /\ inbound' = FALSE /\ room' = TRUE
  /\ UNCHANGED <<pendingData, connected, reconnectInterval, ready, spc, fails>>

\* ... or not, as when the network is unreachable.
OpenFails ==
  /\ Go("open", "finally")
  /\ Fail
  /\ NewChannel
  /\ interestOps' = {} /\ wakeup' = FALSE
  /\ UNCHANGED <<pendingData, connected, reconnectInterval, ready, spc, network>>

\* while (!thread.isInterrupted() && channel.isOpen()); nothing interrupts it.
Loop ==
  /\ Go("loop", IF open THEN "pending" ELSE "finally")
  /\ UNCHANGED <<open, connected, reconnectInterval, ready,
                 lists, key, network, spc, fails>>

\* processPendingChanges.  keyFor(this.selector) is null for an old channel.
ProcessPendingChanges ==
  /\ \A i \in DOMAIN pendingChanges : pendingChanges[i] = "channel"
  /\ Go("pending", "select")
  /\ interestOps' = IF pendingChanges = <<>> THEN interestOps
                                             ELSE interestOps \cup {"OP_WRITE"}
  /\ pendingChanges' = <<>>
  /\ UNCHANGED <<pendingData, wakeup, network, open, connected,
                 reconnectInterval, ready, spc, fails>>

\* The NullPointerException ends the connection.
ProcessStaleChange ==
  /\ \E i \in DOMAIN pendingChanges : pendingChanges[i] = "old"
  /\ Go("pending", "finally")
  /\ UNCHANGED <<open, connected, reconnectInterval, ready,
                 lists, key, network, spc, fails>>

\* External: the operations select() would find ready.
Ready ==
  {op \in interestOps :
     \/ op = "OP_CONNECT" /\ net \in {"done", "refused"}
     \/ op = "OP_READ" /\ net = "up" /\ inbound
     \/ op = "OP_WRITE" /\ net = "up" /\ room
     \/ op # "OP_CONNECT" /\ net = "eof"}

\* select() > 0, and the selected key; it blocks until there is one, or a wakeup.
Select ==
  /\ wakeup \/ Ready # {}
  /\ Go("select", IF Ready = {} THEN "loop" ELSE "keys")
  /\ ready' = Ready
  /\ wakeup' = FALSE
  /\ UNCHANGED <<open, connected, reconnectInterval, lists,
                 interestOps, network, spc, fails>>

(* processSelectedKeys: read, write and connect, in this order.            *)

\* Reads everything there is and passes it to onRead.
ProcessRead ==
  /\ pc = "keys" /\ "OP_READ" \in ready /\ net = "up"
  /\ inbound' = FALSE
  /\ ready' = ready \ {"OP_READ"}
  /\ \/ pc' = pc /\ UNCHANGED fails
     \/ pc' = "finally" /\ Fail                 \* onRead throws
  /\ UNCHANGED <<open, connected, reconnectInterval, lists, key,
                 net, room, spc>>

\* The peer has closed: so does the client.  key.isWritable() then throws a
\* CancelledKeyException.
ProcessReadClosed ==
  /\ "OP_READ" \in ready /\ net = "eof"
  /\ Go("keys", "finally")
  /\ open' = FALSE
  /\ UNCHANGED <<connected, reconnectInterval, ready, lists, key,
                 network, spc, fails>>

\* Mutant of ProcessWrite: nothing is listened for any more.
ProcessWriteOnly ==
  /\ pc = "keys" /\ ready \in {{"OP_WRITE"}, {"OP_WRITE", "OP_CONNECT"}}
  /\ pendingData' = <<>>
  /\ interestOps' = {}
  /\ room' \in BOOLEAN
  /\ ready' = ready \ {"OP_WRITE"}
  /\ UNCHANGED <<open, connected, reconnectInterval, pc,
                 pendingChanges, wakeup, net, inbound, spc, fails>>

\* Writes as much as there is room for; when all is written OP_WRITE goes.  A
\* socket that is ready has room for one packet at least.
ProcessWrite ==
  /\ pc = "keys" /\ "OP_WRITE" \in ready /\ "OP_READ" \notin ready
  /\ \E n \in 0 .. Len(pendingData) :
       /\ n = 0 => pendingData = <<>>
       /\ pendingData' = SubSeq(pendingData, n + 1, Len(pendingData))
       /\ IF n = Len(pendingData)
            THEN interestOps' = {"OP_READ"} /\ room' \in BOOLEAN
            ELSE interestOps' = interestOps /\ room' = FALSE
  /\ ready' = ready \ {"OP_WRITE"}
  /\ UNCHANGED <<open, connected, reconnectInterval, pc,
                 pendingChanges, wakeup, net, inbound, spc, fails>>

\* write() throws when the peer is gone.
ProcessWriteFails ==
  /\ "OP_WRITE" \in ready /\ "OP_READ" \notin ready /\ net = "eof"
  /\ Go("keys", "finally")
  /\ UNCHANGED <<open, connected, reconnectInterval, ready, lists,
                 key, network, spc, fails>>

\* finishConnect.  OP_READ replaces all other interests.
ProcessConnect ==
  /\ pc = "keys" /\ ready = {"OP_CONNECT"} /\ net = "done"
  /\ net' = "up"
  /\ interestOps' = {"OP_READ"}
  /\ reconnectInterval' = INIT_RECONNECT_INTERVAL
  /\ connected' = TRUE
  /\ ready' = {}
  /\ \/ pc' = pc /\ UNCHANGED fails
     \/ pc' = "finally" /\ Fail                 \* onConnected throws
  /\ UNCHANGED <<open, lists, wakeup, inbound, room, spc>>

\* Mutant of ProcessConnectFails: the channel is not closed.
ProcessConnectFailsOpen ==
  /\ pc = "keys" /\ ready = {"OP_CONNECT"} /\ net = "refused"
  /\ interestOps' = {}
  /\ ready' = {}
  /\ UNCHANGED <<open, connected, reconnectInterval, pc, lists, wakeup,
                 network, spc, fails>>

\* finishConnect throws, and has closed the channel.
ProcessConnectFails ==
  /\ pc = "keys" /\ ready = {"OP_CONNECT"} /\ net = "refused"
  /\ open' = FALSE
  /\ interestOps' = {}
  /\ ready' = {}
  /\ UNCHANGED <<connected, reconnectInterval, pc, lists, wakeup,
                 network, spc, fails>>

ProcessSelectedKeys ==
  \/ ProcessRead \/ ProcessReadClosed \/ ProcessWrite \/ ProcessWriteFails
  \/ ProcessConnect \/ ProcessConnectFails

KeysDone ==
  /\ ready = {}
  /\ Go("keys", "loop")
  /\ UNCHANGED <<open, connected, reconnectInterval, ready, lists,
                 key, network, spc, fails>>

\* finally: connected = false, onDisconnect(), the two lists cleared, without
\* their locks, and the channel and the selector closed.
Disconnected ==
  /\ Go("finally", "clearData")
  /\ connected' = FALSE
  /\ ready' = {}
  /\ UNCHANGED <<open, reconnectInterval, lists, key, network,
                 spc, fails>>

ClearData ==
  /\ Go("clearData", "clearChanges")
  /\ pendingData' = <<>>
  /\ UNCHANGED <<open, connected, reconnectInterval, ready,
                 pendingChanges, key, network, spc, fails>>

ClearChanges ==
  /\ Go("clearChanges", "close")
  /\ pendingChanges' = <<>>
  /\ UNCHANGED <<open, connected, reconnectInterval, ready,
                 pendingData, key, network, spc, fails>>

Close ==
  /\ Go("close", "sleep")
  /\ open' = FALSE
  /\ interestOps' = {} /\ net' = "down" /\ inbound' = FALSE
  /\ UNCHANGED <<connected, reconnectInterval, ready, lists, wakeup,
                 room, spc, fails>>

\* Thread.sleep(reconnectInterval), and twice the interval next time.
Sleep ==
  /\ Go("sleep", "open")
  /\ reconnectInterval' = IF reconnectInterval < MAX_RECONNECT_INTERVAL
                            THEN 2 * reconnectInterval ELSE reconnectInterval
  /\ UNCHANGED <<open, connected, ready, lists, key, network,
                 spc, fails>>

Run ==
  \/ Open \/ OpenFails \/ Loop \/ ProcessPendingChanges \/ ProcessStaleChange \/ Select
  \/ ProcessSelectedKeys \/ KeysDone
  \/ Disconnected \/ ClearData \/ ClearChanges \/ Close \/ Sleep

-----------------------------------------------------------------------------
(* External: the network.                                                  *)

Answer ==
  /\ net = "pending"
  /\ \/ net' = "done" /\ UNCHANGED fails
     \/ net' = "refused" /\ Fail
  /\ UNCHANGED <<lists, key, inbound, room, thread, spc>>

Receive ==
  /\ net = "up" /\ ~inbound
  /\ inbound' = TRUE
  /\ UNCHANGED <<lists, key, net, room, thread, spc, fails>>

Drain ==
  /\ net = "up" /\ ~room
  /\ room' = TRUE
  /\ UNCHANGED <<lists, key, net, inbound, thread, spc, fails>>

PeerCloses ==
  /\ net = "up"
  /\ Fail
  /\ net' = "eof"
  /\ UNCHANGED <<lists, key, inbound, room, thread, spc>>

Next ==
  \/ Run
  \/ \E t \in Sender : Send(t)
  \/ Answer \/ Receive \/ Drain \/ PeerCloses

Spec == Init /\ [][Next]_vars

\* Every thread runs on: the selector thread, and a sender inside of send().
\* A handshake is answered, and the peer reads what has been sent to it.
Fairness ==
  /\ WF_vars(Run)
  /\ \A t \in Sender : WF_vars(AddData(t) \/ Wakeup(t))
  /\ WF_vars(Answer) /\ WF_vars(Drain)

FairSpec == Spec /\ Fairness

-----------------------------------------------------------------------------
\* No request is slept on: when the selector thread is about to block while a
\* request waits, and no thread is inside of send(), its wakeup is still there
\* (lines 277-291 against lines 91-92).
NoRequestSleptOn ==
  pc = "select" /\ pendingChanges # <<>> /\ (\A t \in Sender : spc[t] = "out")
    => wakeup

\* While the client is connected it listens, for data and for the end of the
\* connection, and no longer for the connect (lines 234 and 249): a leftover
\* OP_CONNECT, or no interest at all, would go unnoticed.
ConnectedListens ==
  connected /\ pc \notin {"finally", "clearData"} =>
    "OP_READ" \in interestOps /\ "OP_CONNECT" \notin interestOps

\* Where no connection is under way: a request made here outlives the clearing of
\* the lists (lines 104-105) and names a channel that is replaced.
BetweenConnections == pc \in {"close", "sleep", "open"}

\* Every failure is overcome (lines 77-127): once the network stops failing the
\* client gets connected and stays so, with senders that go on for ever, before,
\* during and after a connection - unless they make requests between two
\* connections again and again.
GetsConnected ==
  <>[][\A t \in Sender : AddChange(t) => ~BetweenConnections]_vars => <>[]connected

\* A request has all the data before it written, unless the connection ends
\* first (lines 141-163 and 214-235): any of it, the watched one, leaves with the
\* next send() at the latest, however many follow.
RequestsFlush == connected /\ pendingChanges # <<>> /\ Watched ~> ~Watched \/ ~connected

-----------------------------------------------------------------------------
(* What the comments say and the code does not do.                         *)

\* "Send requests are pushed in this queue after which a pending change request
\* is made." (line 41): data that waits is written, or the connection ends.
DataWritten == connected /\ pendingData # <<>> ~> ~connected \/ pendingData = <<>>

\* "reset state." (line 103): a connection starts without the data and the
\* requests of the one before it.
StateReset == pc = "open" => pendingData = <<>> /\ pendingChanges = <<>>

\* "reconnection loop." (line 77): once the network stops failing the client gets
\* connected, whatever its senders do.
Reconnects == <>[]connected
=============================================================================
