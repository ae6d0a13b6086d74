------------------------------ MODULE TradeHub ------------------------------
(***************************************************************************)
(* The websocket hub of src/rserver/ws: trade events are pushed into the   *)
(* hub, whose one goroutine keeps the clients of each topic and copies     *)
(* every event into their send channels; each client has a goroutine that  *)
(* reads its connection and one that writes it.  Channels are bounded      *)
(* sequences; closing a channel leaves what it holds to be received.       *)
(***************************************************************************)
EXTENDS Integers, Sequences, FiniteSets

CONSTANTS Clients,     \* the connections of a behaviour
          Topics,      \* the coins of the hub
          BroadcastCap, RegisterCap, UnregisterCap, SendCap, \* channel capacities
          MaxPushed    \* how many trade events are pushed

ASSUME TradeHubAssumption ==
  /\ BroadcastCap \in Nat \ {0} /\ RegisterCap \in Nat \ {0}
  /\ UnregisterCap \in Nat \ {0} /\ SendCap \in Nat \ {0}
  /\ MaxPushed \in Nat

VARIABLES
  hub,          \* where the hub's goroutine is; "off" before wsOnce starts it
  register, unregister, broadcast, \* the hub's channels
  members,      \* the clients in topicClients
  topic,        \* the topic of each client
  todo,         \* the clients that the event being copied still goes to
  event,        \* that event, a position in pushed
  send, closed, \* each client's send channel
  reader, writer, \* where its two goroutines are
  conn,         \* whether its connection is usable at this end
  batch, left,  \* what writePump has put in the message it writes, and what it still takes
  delivered,    \* what has been written to the connection
  pushed        \* the topics of all events pushed so far

channels == <<register, unregister, broadcast>>
client   == <<send, closed>>
pumps    == <<reader, writer, conn, batch, left, delivered>>
vars     == <<hub, channels, members, topic, todo, event, client, pumps, pushed>>

Init ==
  /\ hub = "off"
  /\ register = <<>> /\ unregister = <<>> /\ broadcast = <<>>
  /\ members = {} /\ todo = {} /\ event = 0
  /\ topic \in [Clients -> Topics]
  /\ send = [c \in Clients |-> <<>>] /\ closed = [c \in Clients |-> FALSE]
  /\ reader = [c \in Clients |-> "none"] /\ writer = [c \in Clients |-> "none"]
  /\ conn = [c \in Clients |-> TRUE]
  /\ batch = [c \in Clients |-> <<>>] /\ left = [c \in Clients |-> 0]
  /\ delivered = [c \in Clients |-> <<>>]
  /\ pushed = <<>>
-----------------------------------------------------------------------------
\* WsHandle: the first connection starts the hub's goroutine.
Connect(c) ==
  /\ reader[c] = "none"
  /\ reader' = [reader EXCEPT ![c] = "joining"]
  /\ hub' = IF hub = "off" THEN "starting" ELSE hub
  /\ UNCHANGED <<channels, members, topic, todo, event, client,
                 writer, conn, batch, left, delivered, pushed>>

\* serveWs hands the client to the hub, waiting for room, and starts the pumps.
Join(c) ==
  /\ reader[c] = "joining" /\ Len(register) < RegisterCap
  /\ register' = Append(register, c)
  /\ reader' = [reader EXCEPT ![c] = "reading"]
  /\ writer' = [writer EXCEPT ![c] = "idle"]
  /\ UNCHANGED <<hub, unregister, broadcast, members, topic, todo, event, client,
                 conn, batch, left, delivered, pushed>>

\* readPump: a read fails, because the peer left or the connection was closed.
ReadFails(c) ==
  /\ reader[c] = "reading"
  /\ reader' = [reader EXCEPT ![c] = "leaving"]
  /\ UNCHANGED <<hub, channels, members, topic, todo, event, client,
                 writer, conn, batch, left, delivered, pushed>>

\* readPump's deferred function: unregister, waiting for room, then close.
Leave(c) ==
  /\ reader[c] = "leaving" /\ Len(unregister) < UnregisterCap
  /\ unregister' = Append(unregister, c)
  /\ reader' = [reader EXCEPT ![c] = "gone"]
  /\ conn' = [conn EXCEPT ![c] = FALSE]
  /\ UNCHANGED <<hub, register, broadcast, members, topic, todo, event, client,
                 writer, batch, left, delivered, pushed>>

\* PushMsg.  Before the hub runs, or on a stale read of isRun, nothing happens.
Push(t) ==
  /\ hub \notin {"off", "starting"} /\ Len(pushed) < MaxPushed
  /\ Len(broadcast) < BroadcastCap
  /\ pushed' = Append(pushed, t)
  /\ broadcast' = Append(broadcast, Len(pushed) + 1)
  /\ UNCHANGED <<hub, register, unregister, members, topic, todo, event, client, pumps>>
-----------------------------------------------------------------------------
\* run: isRun is set and the loop is entered.
HubStart ==
  /\ hub = "starting" /\ hub' = "loop"
  /\ UNCHANGED <<channels, members, topic, todo, event, client, pumps, pushed>>

HubRegister ==
  /\ hub = "loop" /\ register # <<>>
  /\ members' = members \cup {Head(register)}
  /\ register' = Tail(register)
  /\ UNCHANGED <<hub, unregister, broadcast, topic, todo, event, client, pumps, pushed>>

\* Faulty variant: the channel is closed without looking the client up.
HubUnregisterUnchecked ==
  /\ hub = "loop" /\ unregister # <<>>
  /\ members' = members \ {Head(unregister)}
  /\ closed' = [closed EXCEPT ![Head(unregister)] = TRUE]
  /\ unregister' = Tail(unregister)
  /\ UNCHANGED <<hub, register, broadcast, topic, todo, event, send, pumps, pushed>>
HubUnregister ==
  /\ hub = "loop" /\ unregister # <<>>
  /\ LET c == Head(unregister)
     IN  IF c \in members
         THEN members' = members \ {c} /\ closed' = [closed EXCEPT ![c] = TRUE]
         ELSE UNCHANGED <<members, closed>>
  /\ unregister' = Tail(unregister)
  /\ UNCHANGED <<hub, register, broadcast, topic, todo, event, send, pumps, pushed>>

\* An event is received; the clients of its topic are about to be visited.
HubBroadcast ==
  /\ hub = "loop" /\ broadcast # <<>>
  /\ event' = Head(broadcast)
  /\ broadcast' = Tail(broadcast)
  /\ todo' = {c \in members : topic[c] = pushed[event']}
  /\ hub' = IF todo' = {} THEN "loop" ELSE "copying"
  /\ UNCHANGED <<register, unregister, members, topic, client, pumps, pushed>>

\* Faulty variants: a full channel loses the event, makes the hub wait, or is
\* taken for one with room.
HubSendDrops(c) ==
  /\ hub = "copying" /\ c \in todo
  /\ todo' = todo \ {c}
  /\ hub' = IF todo' = {} THEN "loop" ELSE "copying"
  /\ send' = IF Len(send[c]) < SendCap
             THEN [send EXCEPT ![c] = Append(@, event)] ELSE send
  /\ UNCHANGED <<closed, members, channels, topic, event, pumps, pushed>>
HubSendWaits(c) ==
  /\ hub = "copying" /\ c \in todo
  /\ Len(send[c]) < SendCap
  /\ todo' = todo \ {c}
  /\ hub' = IF todo' = {} THEN "loop" ELSE "copying"
  /\ send' = [send EXCEPT ![c] = Append(@, event)]
  /\ UNCHANGED <<closed, members, channels, topic, event, pumps, pushed>>
HubSendOverfills(c) ==
  /\ hub = "copying" /\ c \in todo
  /\ todo' = todo \ {c}
  /\ hub' = IF todo' = {} THEN "loop" ELSE "copying"
  /\ send' = [send EXCEPT ![c] = Append(@, event)]
  /\ UNCHANGED <<closed, members, channels, topic, event, pumps, pushed>>

\* One client gets the event, or is dropped because its channel is full.
HubSend(c) ==
  /\ hub = "copying" /\ c \in todo
  /\ todo' = todo \ {c}
  /\ hub' = IF todo' = {} THEN "loop" ELSE "copying"
  /\ IF Len(send[c]) < SendCap
     THEN /\ send' = [send EXCEPT ![c] = Append(@, event)]
          /\ UNCHANGED <<closed, members>>
     ELSE /\ closed' = [closed EXCEPT ![c] = TRUE]
          /\ members' = members \ {c}
          /\ UNCHANGED send
  /\ UNCHANGED <<channels, topic, event, pumps, pushed>>

HubStep ==
  \/ HubStart \/ HubRegister \/ HubUnregister \/ HubBroadcast
  \/ \E c \in Clients : HubSend(c)
-----------------------------------------------------------------------------
\* writePump receives a message and starts a websocket message with it.
WriterTake(c) ==
  /\ writer[c] = "idle" /\ send[c] # <<>>
  /\ batch' = [batch EXCEPT ![c] = <<Head(send[c])>>]
  /\ send' = [send EXCEPT ![c] = Tail(@)]
  /\ writer' = [writer EXCEPT ![c] = "begun"]
  /\ UNCHANGED <<hub, channels, members, topic, todo, event, closed,
                 reader, conn, left, delivered, pushed>>

\* Faulty variant: one message too many is counted.
WriterCountOver(c) ==
  /\ writer[c] = "begun"
  /\ left' = [left EXCEPT ![c] = Len(send[c]) + 1]
  /\ writer' = [writer EXCEPT ![c] = "draining"]
  /\ UNCHANGED <<hub, channels, members, topic, todo, event, client,
                 reader, conn, batch, delivered, pushed>>
\* n := len(c.send): how many messages to add to it.
WriterCount(c) ==
  /\ writer[c] = "begun"
  /\ left' = [left EXCEPT ![c] = Len(send[c])]
  /\ writer' = [writer EXCEPT ![c] = "draining"]
  /\ UNCHANGED <<hub, channels, members, topic, todo, event, client,
                 reader, conn, batch, delivered, pushed>>

WriterDrain(c) ==
  /\ writer[c] = "draining" /\ left[c] > 0 /\ send[c] # <<>>
  /\ batch' = [batch EXCEPT ![c] = Append(@, Head(send[c]))]
  /\ send' = [send EXCEPT ![c] = Tail(@)]
  /\ left' = [left EXCEPT ![c] = @ - 1]
  /\ UNCHANGED <<hub, channels, members, topic, todo, event, closed,
                 reader, writer, conn, delivered, pushed>>

\* w.Close sends the message.
WriterFlush(c) ==
  /\ writer[c] = "draining" /\ left[c] = 0 /\ conn[c]
  /\ delivered' = [delivered EXCEPT ![c] = @ \o batch[c]]
  /\ batch' = [batch EXCEPT ![c] = <<>>]
  /\ writer' = [writer EXCEPT ![c] = "idle"]
  /\ UNCHANGED <<hub, channels, members, topic, todo, event, client,
                 reader, conn, left, pushed>>

\* Faulty variant: writePump returns without closing the connection.
WriterReturnsOnly(c) ==
  /\ writer' = [writer EXCEPT ![c] = "gone"]
  /\ UNCHANGED <<hub, channels, members, topic, todo, event, client,
                 reader, conn, batch, left, delivered, pushed>>
\* writePump returns and its deferred function closes the connection.
WriterReturns(c) ==
  /\ writer' = [writer EXCEPT ![c] = "gone"]
  /\ conn' = [conn EXCEPT ![c] = FALSE]
  /\ UNCHANGED <<hub, channels, members, topic, todo, event, client,
                 reader, batch, left, delivered, pushed>>

\* The hub closed the channel: the peer is told and the pump ends.
WriterSeesClose(c) ==
  /\ writer[c] = "idle" /\ send[c] = <<>> /\ closed[c]
  /\ WriterReturns(c)

\* NextWriter, w.Close or a ping fails: the peer is gone or the connection closed.
WriteFails(c) ==
  /\ \/ writer[c] \in {"idle", "begun"}
     \/ writer[c] = "draining" /\ left[c] = 0
  /\ WriterReturns(c)

PumpStep(c) ==
  \/ WriterTake(c) \/ WriterCount(c) \/ WriterDrain(c) \/ WriterFlush(c)
  \/ WriterSeesClose(c)

Next ==
  \/ HubStep
  \/ \E t \in Topics : Push(t)
  \/ \E c \in Clients : \/ Connect(c) \/ Join(c) \/ ReadFails(c) \/ Leave(c)
                        \/ PumpStep(c) \/ WriteFails(c)

Spec == Init /\ [][Next]_vars

\* Goroutines that can run do run, and a select that is ready again and again
\* in a case takes it.  A write or a read on a closed connection fails; on an
\* open one it may, but peers need neither come, leave nor break.
FairSpec ==
  /\ Spec
  /\ WF_vars(HubStart) /\ SF_vars(HubRegister) /\ SF_vars(HubUnregister)
  /\ SF_vars(HubBroadcast) /\ \A c \in Clients : WF_vars(HubSend(c))
  /\ \A c \in Clients :
       /\ SF_vars(Join(c)) /\ SF_vars(Leave(c)) /\ WF_vars(PumpStep(c))
       /\ WF_vars(~conn[c] /\ ReadFails(c)) /\ WF_vars(~conn[c] /\ WriteFails(c))
-----------------------------------------------------------------------------
Events == 1..MaxPushed

TypeOK ==
  /\ hub \in {"off", "starting", "loop", "copying"}
  /\ register \in Seq(Clients) /\ Len(register) <= RegisterCap
  /\ unregister \in Seq(Clients) /\ Len(unregister) <= UnregisterCap
  /\ broadcast \in Seq(Nat) /\ Len(broadcast) <= BroadcastCap
  /\ members \in SUBSET Clients /\ todo \in SUBSET Clients
  /\ topic \in [Clients -> Topics] /\ event \in Nat
  /\ send \in [Clients -> Seq(Nat)] /\ \A c \in Clients : Len(send[c]) <= SendCap
  /\ closed \in [Clients -> BOOLEAN]
  /\ reader \in [Clients -> {"none", "joining", "reading", "leaving", "gone"}]
  /\ writer \in [Clients -> {"none", "idle", "begun", "draining", "gone"}]
  /\ conn \in [Clients -> BOOLEAN]
  /\ batch \in [Clients -> Seq(Nat)] /\ left \in [Clients -> Nat]
  /\ delivered \in [Clients -> Seq(Nat)]
  /\ pushed \in Seq(Topics)

\* The hub never sends on a closed channel and never closes one twice (both
\* panic, and end the process): a client it may still send to has an open
\* channel, even when unregister overtakes register, or follows an eviction.
SendsOnOpenOnly ==
  /\ \A c \in members : ~closed[c]
  /\ todo \subseteq members

\* writePump's loop over the n messages it has counted finds each of them: it
\* neither waits in the middle of a websocket message nor reads from a channel
\* that was closed and is empty.
CountedAreThere == \A c \in Clients : writer[c] = "draining" => left[c] <= Len(send[c])

\* The events a client gets are those of its topic, in order, and without a gap
\* from the first of them on, however the two pumps and the hub interleave; as long as
\* the hub has the client, none is missing at the end either.
InOrder(events, t) ==
  /\ \A i \in 1..Len(events) : pushed[events[i]] = t
  /\ \A i \in 1..(Len(events) - 1) :
       /\ events[i] < events[i + 1]
       /\ \A k \in (events[i] + 1)..(events[i + 1] - 1) : pushed[k] # t
Passed(c) == delivered[c] \o batch[c] \o send[c]
NoGaps ==
  \A c \in Clients :
    /\ InOrder(delivered[c], topic[c])
    /\ writer[c] # "gone" => InOrder(Passed(c), topic[c])
    /\ writer[c] # "gone" /\ c \in members /\ Passed(c) # <<>> =>
         \A k \in (Passed(c)[Len(Passed(c))] + 1)..event :
           pushed[k] = topic[c] => k = event /\ c \in todo

\* However slow or stuck the clients are, each event that PushMsg accepts is
\* copied to the clients in the end, so no producer stays blocked on the hub.
EventsAreCopied ==
  \A k \in Events :
    (k <= Len(pushed)) ~>
      /\ ~\E i \in 1..Len(broadcast) : broadcast[i] = k
      /\ ~(hub = "copying" /\ event = k)

\* A client dropped by the hub is disconnected: both its goroutines end.
DroppedClientsEnd ==
  \A c \in Clients : closed[c] ~> (writer[c] = "gone" /\ reader[c] = "gone")
=============================================================================
