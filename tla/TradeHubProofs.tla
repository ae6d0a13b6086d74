--------------------------- MODULE TradeHubProofs ---------------------------
(***************************************************************************)
(* The hub of TradeHub.tla never panics on a closed channel, writePump     *)
(* never reads more than it counted and no client misses an event between  *)
(* two others, for any number of clients, topics and events and any        *)
(* channel capacities.  HInv follows a client through the register         *)
(* channel: until it is taken out it is there once, is no member and its   *)
(* channel is open.  GInv follows the events from the producer's push to   *)
(* the client's message.                                                   *)
(***************************************************************************)
EXTENDS TradeHub, TLAPS, SequenceTheorems

New(c) == reader[c] \in {"none", "joining"}

Queued ==
  /\ \A i \in 1..Len(register) :
       /\ register[i] \notin members /\ ~closed[register[i]] /\ ~New(register[i])
  /\ \A i, j \in 1..Len(register) : register[i] = register[j] => i = j

Lifecycle ==
  /\ \A c \in Clients : New(c) => c \notin members /\ ~closed[c]
  /\ hub # "copying" => todo = {}

HInv == TypeOK /\ SendsOnOpenOnly /\ CountedAreThere /\ Queued /\ Lifecycle

LEMMA InitHInv == Init => HInv
<1> SUFFICES ASSUME Init PROVE HInv
  OBVIOUS
<1>1. TypeOK
  <2>1. /\ <<>> \in Seq(Clients) /\ <<>> \in Seq(Nat) /\ <<>> \in Seq(Topics)
        /\ Len(<<>>) = 0
    OBVIOUS
  <2>2. QED
    BY <2>1, TradeHubAssumption DEF Init, TypeOK
<1>2. QED
  BY <1>1 DEF Init, HInv, SendsOnOpenOnly, CountedAreThere, Queued, Lifecycle, New

\* Taking the head of a bounded queue leaves a bounded queue of the others.
LEMMA TailOfQueue ==
  ASSUME NEW S, NEW s \in Seq(S), s # <<>>
  PROVE  /\ Head(s) \in S /\ Tail(s) \in Seq(S) /\ Len(Tail(s)) = Len(s) - 1
         /\ Len(s) \in Nat \ {0}
         /\ \A i \in 1..Len(Tail(s)) : Tail(s)[i] = s[i + 1]
         /\ Head(s) = s[1]
  OBVIOUS

LEMMA AppendToQueue ==
  ASSUME NEW S, NEW s \in Seq(S), NEW e \in S
  PROVE  /\ Append(s, e) \in Seq(S) /\ Len(Append(s, e)) = Len(s) + 1
         /\ Len(s) \in Nat
         /\ \A i \in 1..Len(s) : Append(s, e)[i] = s[i]
         /\ Append(s, e)[Len(s) + 1] = e
  OBVIOUS

\* A step that changes neither the register channel, the members nor what is
\* closed, and takes no client back to before it joined, keeps Queued.
LEMMA QueuedKept ==
  HInv /\ UNCHANGED <<register, members, closed>> /\ (\A d \in Clients : New(d)' => New(d))
    => Queued'
<1> SUFFICES ASSUME HInv, UNCHANGED <<register, members, closed>>,
                    \A d \in Clients : New(d)' => New(d)
             PROVE  Queued'
  OBVIOUS
<1>1. \A i \in 1..Len(register) : register[i] \in Clients
  BY DEF HInv, TypeOK
<1>2. \A i \in 1..Len(register) : ~New(register[i])'
  BY <1>1 DEF HInv, Queued
<1>3. QED
  BY <1>2 DEF HInv, Queued

LEMMA StepHInv == HInv /\ [Next]_vars => HInv'
<1> SUFFICES ASSUME HInv, [Next]_vars PROVE HInv'
  OBVIOUS
<1> USE TradeHubAssumption
<1>1. ASSUME NEW c \in Clients, Connect(c) PROVE HInv'
  <2>1. TypeOK'
    BY <1>1 DEF HInv, Connect, TypeOK, channels, client
  <2>2. Queued' /\ Lifecycle'
    <3>1. /\ reader[c] = "none" /\ reader' = [reader EXCEPT ![c] = "joining"]
          /\ hub' = IF hub = "off" THEN "starting" ELSE hub
          /\ UNCHANGED <<register, members, closed, todo>>
      BY <1>1 DEF Connect, channels, client
    <3>2. \A d \in Clients : New(d)' => New(d)
      BY <3>1 DEF HInv, TypeOK, New
    <3>3. QED
      BY <3>1, <3>2, QueuedKept DEF HInv, Lifecycle
  <2>3. QED
    BY <1>1, <2>1, <2>2 DEF HInv, Connect, client, SendsOnOpenOnly, CountedAreThere
<1>2. ASSUME NEW c \in Clients, Join(c) PROVE HInv'
  <2>1. /\ register' = Append(register, c) /\ register \in Seq(Clients)
        /\ reader' = [reader EXCEPT ![c] = "reading"]
        /\ writer' = [writer EXCEPT ![c] = "idle"]
        /\ UNCHANGED <<hub, unregister, broadcast, members, topic, todo, event,
                       send, closed, conn, batch, left, delivered, pushed>>
    BY <1>2 DEF Join, client, HInv, TypeOK
  <2>2. /\ register' \in Seq(Clients) /\ Len(register') = Len(register) + 1
        /\ \A i \in 1..Len(register) : register'[i] = register[i]
        /\ register'[Len(register')] = c /\ Len(register) \in Nat
    BY <2>1, AppendToQueue
  <2>3. TypeOK'
    BY <1>2, <2>1, <2>2, SMTT(30) DEF HInv, Join, TypeOK
  <2>4. New(c) /\ ~New(c)'
    BY <1>2, <2>1 DEF Join, New, HInv, TypeOK
  <2>5. \A d \in Clients \ {c} : New(d)' <=> New(d)
    BY <2>1 DEF New, HInv, TypeOK
  <2>6. Lifecycle'
    BY <2>1, <2>4, <2>5 DEF HInv, Lifecycle
  <2>7. Queued'
    <3>1. \A i \in 1..Len(register) : register[i] \in Clients /\ register[i] # c
      BY <2>1, <2>4 DEF HInv, Queued
    <3>2. c \notin members /\ ~closed[c]
      BY <2>4 DEF HInv, Lifecycle
    <3>3. ASSUME NEW i \in 1..Len(register')
          PROVE  /\ register'[i] \notin members' /\ ~closed'[register'[i]] /\ reader'[register'[i]] \notin {"none", "joining"}
      <4>1. CASE i = Len(register')
        <5>1. register'[i] = c
          BY <2>2, <4>1
        <5>2. reader'[c] \notin {"none", "joining"}
          BY <2>4 DEF New
        <5>3. QED
          BY <2>1, <3>2, <5>1, <5>2
      <4>2. CASE i \in 1..Len(register)
        <5>1. register'[i] = register[i]
          BY <2>2, <4>2
        <5>2. register[i] \notin members /\ ~closed[register[i]] /\ ~New(register[i])
          BY <4>2 DEF HInv, Queued
        <5>3. register[i] \in Clients \ {c}
          BY <3>1, <4>2
        <5>4. reader'[register[i]] \notin {"none", "joining"}
          BY <2>5, <5>2, <5>3 DEF New
        <5>5. QED
          BY <2>1, <5>1, <5>2, <5>4
      <4>3. QED
        BY <2>2, <4>1, <4>2
    <3>4. \A i, j \in 1..Len(register') : register'[i] = register'[j] => i = j
      BY <2>2, <3>1 DEF HInv, Queued
    <3>5. \A i \in 1..Len(register') :
             register'[i] \notin members' /\ ~closed'[register'[i]] /\ reader'[register'[i]] \notin {"none", "joining"}
      BY <3>3
    <3>6. QED
      BY <3>4, <3>5 DEF Queued, New
  <2>8. QED
    BY <2>1, <2>3, <2>6, <2>7 DEF HInv, SendsOnOpenOnly, CountedAreThere, TypeOK
<1>3. ASSUME NEW c \in Clients, ReadFails(c) PROVE HInv'
  <2>1. TypeOK'
    BY <1>3 DEF HInv, ReadFails, TypeOK, channels, client
  <2>2. Queued' /\ Lifecycle'
    <3>1. /\ reader' = [reader EXCEPT ![c] = "leaving"]
          /\ UNCHANGED <<hub, register, members, closed, todo>>
      BY <1>3 DEF ReadFails, channels, client
    <3>2. \A d \in Clients : New(d)' => New(d)
      BY <3>1 DEF HInv, TypeOK, New
    <3>3. QED
      BY <3>1, <3>2, QueuedKept DEF HInv, Lifecycle
  <2>3. QED
    BY <1>3, <2>1, <2>2 DEF HInv, ReadFails, client, SendsOnOpenOnly, CountedAreThere
<1>4. ASSUME NEW c \in Clients, Leave(c) PROVE HInv'
  <2>1. unregister' \in Seq(Clients) /\ Len(unregister') <= UnregisterCap
    BY <1>4, AppendToQueue DEF HInv, Leave, TypeOK
  <2>2. TypeOK'
    BY <1>4, <2>1 DEF HInv, Leave, TypeOK, client
  <2>3. Queued' /\ Lifecycle'
    <3>1. /\ reader' = [reader EXCEPT ![c] = "gone"]
          /\ UNCHANGED <<hub, register, members, closed, todo>>
      BY <1>4 DEF Leave, client
    <3>2. \A d \in Clients : New(d)' => New(d)
      BY <3>1 DEF HInv, TypeOK, New
    <3>3. QED
      BY <3>1, <3>2, QueuedKept DEF HInv, Lifecycle
  <2>4. QED
    BY <1>4, <2>2, <2>3 DEF HInv, Leave, client, SendsOnOpenOnly, CountedAreThere
<1>5. ASSUME NEW t \in Topics, Push(t) PROVE HInv'
  <2>1. /\ pushed' \in Seq(Topics) /\ broadcast' \in Seq(Nat) /\ Len(broadcast') <= BroadcastCap
    <3>1. Len(pushed) + 1 \in Nat
      BY AppendToQueue DEF HInv, TypeOK
    <3>2. QED
      BY <1>5, <3>1, AppendToQueue DEF HInv, Push, TypeOK
  <2>2. TypeOK'
    <3>1. UNCHANGED <<hub, register, unregister, members, topic, todo, event, send, closed,
                      reader, writer, conn, batch, left, delivered>>
      BY <1>5 DEF Push, client, pumps
    <3>2. QED
      BY <2>1, <3>1 DEF HInv, TypeOK
  <2>3. QED
    BY <1>5, <2>2 DEF HInv, Push, client, pumps, SendsOnOpenOnly, CountedAreThere,
                      Queued, Lifecycle, New
<1>6. ASSUME HubStart PROVE HInv'
  BY <1>6 DEF HInv, HubStart, TypeOK, channels, client, pumps, SendsOnOpenOnly,
              CountedAreThere, Queued, Lifecycle, New
<1>7. ASSUME HubRegister PROVE HInv'
  <2>1. /\ members' = members \cup {Head(register)} /\ register' = Tail(register)
        /\ register \in Seq(Clients) /\ register # <<>> /\ todo = {}
        /\ UNCHANGED <<hub, unregister, broadcast, topic, todo, event, send, closed,
                       reader, writer, conn, batch, left, delivered, pushed>>
    BY <1>7 DEF HubRegister, client, pumps, HInv, TypeOK, Lifecycle
  <2>2. /\ Head(register) \in Clients /\ register' \in Seq(Clients)
        /\ Len(register') = Len(register) - 1 /\ Head(register) = register[1]
        /\ \A i \in 1..Len(register') : register'[i] = register[i + 1]
        /\ Len(register) \in Nat \ {0}
    BY <2>1, TailOfQueue
  <2>3. TypeOK'
    <3>1. members' \in SUBSET Clients /\ Len(register') <= RegisterCap
      BY <2>1, <2>2, SMTT(30) DEF HInv, TypeOK
    <3>2. QED
      BY <2>1, <2>2, <3>1 DEF HInv, TypeOK
  <2>4. 1 \in 1..Len(register)
    BY <2>2
  <2>5. ~closed[Head(register)] /\ ~New(Head(register))
    BY <2>2, <2>4 DEF HInv, Queued
  <2>6. SendsOnOpenOnly' /\ CountedAreThere' /\ Lifecycle'
    BY <2>1, <2>5 DEF HInv, SendsOnOpenOnly, CountedAreThere, Lifecycle, New
  <2>7. \A i \in 1..Len(register') : i + 1 \in 1..Len(register) /\ i + 1 # 1
    BY <2>2
  <2>8. Queued'
    BY <2>1, <2>2, <2>4, <2>7 DEF HInv, Queued, New
  <2>9. QED
    BY <2>3, <2>6, <2>8 DEF HInv
<1>8. ASSUME HubUnregister PROVE HInv'
  <2> DEFINE c == Head(unregister)
  <2>1. /\ c \in Clients /\ unregister' \in Seq(Clients) /\ Len(unregister') <= UnregisterCap
        /\ todo = {}
    <3>1. /\ unregister \in Seq(Clients) /\ unregister # <<>> /\ hub = "loop"
          /\ unregister' = Tail(unregister) /\ Len(unregister) <= UnregisterCap
      BY <1>8 DEF HubUnregister, HInv, TypeOK
    <3>2. QED
      BY <3>1, TailOfQueue DEF HInv, Lifecycle
  <2>2. \/ UNCHANGED <<members, closed>>
        \/ /\ c \in members /\ members' = members \ {c}
           /\ closed' = [closed EXCEPT ![c] = TRUE]
    BY <1>8 DEF HubUnregister
  <2>3. UNCHANGED <<hub, register, broadcast, topic, todo, event, send,
                    reader, writer, conn, batch, left, delivered, pushed>>
    BY <1>8 DEF HubUnregister, pumps
  <2> HIDE DEF c
  <2>4. TypeOK'
    BY <2>1, <2>2, <2>3 DEF HInv, TypeOK
  <2>5. \A d \in Clients : d # c => closed'[d] = closed[d]
    BY <2>2 DEF HInv, TypeOK
  <2>6. SendsOnOpenOnly' /\ CountedAreThere'
    BY <2>1, <2>2, <2>3, <2>5 DEF HInv, SendsOnOpenOnly, CountedAreThere, TypeOK
  <2>7. Lifecycle'
    BY <2>2, <2>3, <2>5 DEF HInv, Lifecycle, New
  <2>8. Queued'
    <3>1. \A i \in 1..Len(register) : register[i] \in Clients
      BY DEF HInv, TypeOK
    <3>2. QED
      BY <2>2, <2>3, <2>5, <3>1 DEF HInv, Queued, New
  <2>9. QED
    BY <2>4, <2>6, <2>7, <2>8 DEF HInv
<1>9. ASSUME HubBroadcast PROVE HInv'
  <2>1. event' \in Nat /\ broadcast' \in Seq(Nat) /\ Len(broadcast') <= BroadcastCap
    BY <1>9, TailOfQueue, SMTT(30) DEF HubBroadcast, HInv, TypeOK
  <2>2. todo' \subseteq members /\ hub' \in {"loop", "copying"} /\ (hub' # "copying" => todo' = {})
    BY <1>9 DEF HubBroadcast
  <2>3. UNCHANGED <<register, unregister, members, topic, send, closed,
                    reader, writer, conn, batch, left, delivered, pushed>>
    BY <1>9 DEF HubBroadcast, client, pumps
  <2>4. TypeOK'
    BY <2>1, <2>2, <2>3 DEF HInv, TypeOK
  <2>5. QED
    BY <2>2, <2>3, <2>4 DEF HInv, SendsOnOpenOnly, CountedAreThere, Queued, Lifecycle, New
<1>10. ASSUME NEW c \in Clients, HubSend(c) PROVE HInv'
  <2>1. /\ c \in todo /\ c \in members /\ todo' = todo \ {c}
        /\ hub' \in {"loop", "copying"} /\ (hub' # "copying" => todo' = {})
        /\ UNCHANGED <<register, unregister, broadcast, topic, event, reader, writer,
                       conn, batch, left, delivered, pushed>>
    BY <1>10 DEF HubSend, channels, pumps, HInv, SendsOnOpenOnly
  <2>2. CASE /\ Len(send[c]) < SendCap
             /\ send' = [send EXCEPT ![c] = Append(@, event)]
             /\ UNCHANGED <<closed, members>>
    <3>1. /\ send'[c] \in Seq(Nat) /\ Len(send'[c]) = Len(send[c]) + 1
          /\ Len(send[c]) \in Nat
      BY <2>2, AppendToQueue DEF HInv, TypeOK
    <3>2. \A d \in Clients \ {c} : send'[d] = send[d]
      BY <2>2 DEF HInv, TypeOK
    <3>3. send' \in [Clients -> Seq(Nat)] /\ \A d \in Clients : Len(send'[d]) <= SendCap
      BY <2>2, <3>1, <3>2, SMTT(30) DEF HInv, TypeOK
    <3>4. TypeOK'
      BY <2>1, <2>2, <3>3 DEF HInv, TypeOK
    <3>5. CountedAreThere'
      <4>1. \A d \in Clients : Len(send[d]) \in Nat /\ left[d] \in Nat
        BY DEF HInv, TypeOK
      <4>2. \A d \in Clients : Len(send[d]) <= Len(send'[d])
        BY <3>1, <3>2, <4>1
      <4>3. \A d \in Clients : Len(send'[d]) \in Nat
        BY <3>3
      <4>4. ASSUME NEW d \in Clients, writer'[d] = "draining" PROVE left'[d] <= Len(send'[d])
        BY <2>1, <4>1, <4>2, <4>3, <4>4 DEF HInv, CountedAreThere
      <4>5. QED
        BY <4>4 DEF CountedAreThere
    <3>6. QED
      BY <2>1, <2>2, <3>4, <3>5 DEF HInv, SendsOnOpenOnly, Queued, Lifecycle, New
  <2>3. CASE /\ closed' = [closed EXCEPT ![c] = TRUE]
             /\ members' = members \ {c}
             /\ UNCHANGED send
    <3>1. TypeOK'
      BY <2>1, <2>3 DEF HInv, TypeOK
    <3>2. \A d \in Clients : d # c => closed'[d] = closed[d]
      BY <2>3 DEF HInv, TypeOK
    <3>3. SendsOnOpenOnly' /\ CountedAreThere' /\ Lifecycle'
      BY <2>1, <2>3, <3>2 DEF HInv, SendsOnOpenOnly, CountedAreThere, Lifecycle, New, TypeOK
    <3>4. \A i \in 1..Len(register) : register[i] \in Clients
      BY DEF HInv, TypeOK
    <3>5. Queued'
      BY <2>1, <2>3, <3>2, <3>4 DEF HInv, Queued, New
    <3>6. QED
      BY <3>1, <3>3, <3>5 DEF HInv
  <2>4. QED
    BY <1>10, <2>2, <2>3 DEF HubSend
<1>11. ASSUME NEW c \in Clients, WriterTake(c) \/ WriterDrain(c) PROVE HInv'
  <2>1. /\ send[c] # <<>> /\ send' = [send EXCEPT ![c] = Tail(@)]
        /\ UNCHANGED <<hub, register, unregister, broadcast, members, topic, todo,
                       event, closed, reader, conn, delivered, pushed>>
    BY <1>11 DEF WriterTake, WriterDrain, channels
  <2>2. /\ send[c] \in Seq(Nat) /\ Head(send[c]) \in Nat /\ send'[c] \in Seq(Nat)
        /\ Len(send'[c]) = Len(send[c]) - 1 /\ Len(send[c]) \in Nat \ {0}
    BY <2>1, TailOfQueue DEF HInv, TypeOK
  <2>3. \A d \in Clients \ {c} : send'[d] = send[d]
    BY <2>1 DEF HInv, TypeOK
  <2>4. send' \in [Clients -> Seq(Nat)] /\ \A d \in Clients : Len(send'[d]) <= SendCap
    BY <2>1, <2>2, <2>3, SMTT(30) DEF HInv, TypeOK
  <2>5. batch' \in [Clients -> Seq(Nat)]
    <3>1. <<Head(send[c])>> \in Seq(Nat) /\ Append(batch[c], Head(send[c])) \in Seq(Nat)
      BY <2>2, AppendToQueue DEF HInv, TypeOK
    <3>2. \/ batch' = [batch EXCEPT ![c] = <<Head(send[c])>>]
          \/ batch' = [batch EXCEPT ![c] = Append(batch[c], Head(send[c]))]
      BY <1>11 DEF WriterTake, WriterDrain, HInv, TypeOK
    <3>3. QED
      BY <3>1, <3>2 DEF HInv, TypeOK
  <2>6. \/ left' = left /\ writer' = [writer EXCEPT ![c] = "begun"]
        \/ left[c] > 0 /\ left' = [left EXCEPT ![c] = @ - 1] /\ writer' = writer
    BY <1>11 DEF WriterTake, WriterDrain
  <2>7. TypeOK'
    <3>1. writer' \in [Clients -> {"none", "idle", "begun", "draining", "gone"}]
      BY <2>6 DEF HInv, TypeOK
    <3>2. left' \in [Clients -> Nat]
      <4>1. left \in [Clients -> Nat] /\ (left[c] > 0 => left[c] - 1 \in Nat)
        BY DEF HInv, TypeOK
      <4>2. QED
        BY <2>6, <4>1
    <3>3. QED
      BY <2>1, <2>4, <2>5, <3>1, <3>2 DEF HInv, TypeOK
  <2>8. CountedAreThere'
    <3>1. \A d \in Clients : Len(send[d]) \in Nat /\ left[d] \in Nat
      BY DEF HInv, TypeOK
    <3>2. ASSUME NEW d \in Clients, d # c, writer'[d] = "draining"
          PROVE  left'[d] <= Len(send'[d])
      <4>1. left'[d] = left[d] /\ writer[d] = "draining"
        BY <2>6, <3>2 DEF HInv, TypeOK
      <4>2. QED
        BY <2>3, <3>2, <4>1 DEF HInv, CountedAreThere
    <3>3. ASSUME writer'[c] = "draining" PROVE left'[c] <= Len(send'[c])
      <4>1. left[c] > 0 /\ left'[c] = left[c] - 1 /\ writer[c] = "draining"
        BY <2>6, <3>3 DEF HInv, TypeOK
      <4>2. QED
        BY <2>2, <3>1, <4>1 DEF HInv, CountedAreThere
    <3>4. QED
      BY <3>2, <3>3 DEF CountedAreThere
  <2>9. QED
    BY <2>1, <2>7, <2>8 DEF HInv, SendsOnOpenOnly, Queued, Lifecycle, New
<1>12. ASSUME NEW c \in Clients, WriterCount(c) PROVE HInv'
  <2>1. UNCHANGED <<hub, register, unregister, broadcast, members, topic, todo, event,
                    send, closed, reader, conn, batch, delivered, pushed>>
    BY <1>12 DEF WriterCount, channels, client
  <2>2. left' = [left EXCEPT ![c] = Len(send[c])] /\ writer' = [writer EXCEPT ![c] = "draining"]
    BY <1>12 DEF WriterCount
  <2>3. Len(send[c]) \in Nat
    BY DEF HInv, TypeOK
  <2>4. TypeOK' /\ CountedAreThere'
    BY <2>1, <2>2, <2>3, SMTT(30) DEF HInv, TypeOK, CountedAreThere
  <2>5. QED
    BY <2>1, <2>4 DEF HInv, SendsOnOpenOnly, Queued, Lifecycle, New
<1>13. ASSUME NEW c \in Clients, WriterFlush(c) PROVE HInv'
  <2>1. UNCHANGED <<hub, register, unregister, broadcast, members, topic, todo, event,
                    send, closed, reader, conn, left, pushed>>
    BY <1>13 DEF WriterFlush, channels, client
  <2>2. delivered' \in [Clients -> Seq(Nat)] /\ batch' \in [Clients -> Seq(Nat)]
    <3>1. delivered[c] \o batch[c] \in Seq(Nat) /\ <<>> \in Seq(Nat)
      BY DEF HInv, TypeOK
    <3>2. QED
      BY <1>13, <3>1 DEF WriterFlush, HInv, TypeOK
  <2>3. writer' = [writer EXCEPT ![c] = "idle"]
    BY <1>13 DEF WriterFlush
  <2>4. TypeOK' /\ CountedAreThere'
    BY <2>1, <2>2, <2>3 DEF HInv, TypeOK, CountedAreThere
  <2>5. QED
    BY <2>1, <2>4 DEF HInv, SendsOnOpenOnly, Queued, Lifecycle, New
<1>14. ASSUME NEW c \in Clients, WriterSeesClose(c) \/ WriteFails(c) PROVE HInv'
  <2>1. /\ writer' = [writer EXCEPT ![c] = "gone"] /\ conn' = [conn EXCEPT ![c] = FALSE]
        /\ UNCHANGED <<hub, register, unregister, broadcast, members, topic, todo, event,
                       send, closed, reader, batch, left, delivered, pushed>>
    BY <1>14 DEF WriterSeesClose, WriteFails, WriterReturns, channels, client
  <2>2. TypeOK' /\ CountedAreThere'
    BY <2>1 DEF HInv, TypeOK, CountedAreThere
  <2>3. QED
    BY <2>1, <2>2 DEF HInv, SendsOnOpenOnly, Queued, Lifecycle, New
<1>15. CASE UNCHANGED vars
  BY <1>15 DEF vars, channels, client, pumps, HInv, TypeOK, SendsOnOpenOnly,
               CountedAreThere, Queued, Lifecycle, New
<1>16. QED
  BY <1>1, <1>2, <1>3, <1>4, <1>5, <1>6, <1>7, <1>8, <1>9, <1>10, <1>11, <1>12,
     <1>13, <1>14, <1>15 DEF Next, HubStep, PumpStep

\* The channels stay within their capacities, whatever the hub and pumps do.
THEOREM TradeHubTypeOK == Spec => []TypeOK
<1>1. HInv => TypeOK
  BY DEF HInv
<1>2. QED
  BY InitHInv, StepHInv, <1>1, PTL DEF Spec

\* No client, event or order of the channels makes the hub send on a closed
\* channel or close one twice.
THEOREM TradeHubSendsOnOpenOnly == Spec => []SendsOnOpenOnly
<1>1. HInv => SendsOnOpenOnly
  BY DEF HInv
<1>2. QED
  BY InitHInv, StepHInv, <1>1, PTL DEF Spec

\* writePump always finds the messages it has counted.
THEOREM TradeHubCountedAreThere == Spec => []CountedAreThere
<1>1. HInv => CountedAreThere
  BY DEF HInv
<1>2. QED
  BY InitHInv, StepHInv, <1>1, PTL DEF Spec
-----------------------------------------------------------------------------
\* What a client has been sent, through the three places it passes: the channel,
\* the message being written, and the connection.
LEMMA PassedType ==
  ASSUME TypeOK, NEW c \in Clients
  PROVE  /\ Passed(c) \in Seq(Nat) /\ Passed(c) = (delivered[c] \o batch[c]) \o send[c]
         /\ delivered[c] \in Seq(Nat) /\ batch[c] \in Seq(Nat) /\ send[c] \in Seq(Nat)
         /\ delivered[c] \o batch[c] \in Seq(Nat)
         /\ Len(Passed(c)) \in Nat
<1>1. delivered[c] \in Seq(Nat) /\ batch[c] \in Seq(Nat) /\ send[c] \in Seq(Nat)
  BY DEF TypeOK
<1>2. delivered[c] \o batch[c] \in Seq(Nat)
  BY <1>1
<1>3. (delivered[c] \o batch[c]) \o send[c] \in Seq(Nat)
  BY <1>1, <1>2
<1>4. Passed(c) = (delivered[c] \o batch[c]) \o send[c]
  BY DEF Passed
<1> HIDE DEF Passed
<1>5. Len(Passed(c)) \in Nat
  BY <1>3, <1>4, LenProperties
<1>6. QED
  BY <1>1, <1>2, <1>3, <1>4, <1>5

\* Moving the head of a channel to the end of what comes before it.
LEMMA MoveHead ==
  ASSUME NEW S, NEW s \in Seq(S), NEW t \in Seq(S), t # <<>>
  PROVE  Append(s, Head(t)) \o Tail(t) = s \o t
<1>1. Head(t) \in S /\ Tail(t) \in Seq(S) /\ Len(t) \in Nat \ {0} /\ Head(t) = t[1]
  BY TailOfQueue
<1>2. t = <<Head(t)>> \o Tail(t)
  <2>1. 1 \in 1..Len(t) /\ Len(t) \in 1..Len(t) /\ 1 + 1 = 2
    BY <1>1
  <2>2. SubSeq(t, 1, Len(t)) = <<t[1]>> \o SubSeq(t, 1 + 1, Len(t))
    BY <2>1, SubSeqRecursiveFirst
  <2>3. SubSeq(t, 1, Len(t)) = t /\ Tail(t) = SubSeq(t, 2, Len(t))
    BY SubSeqFull, TailIsSubSeq
  <2>4. QED
    BY <1>1, <2>1, <2>2, <2>3
<1>3. Append(s, Head(t)) = s \o <<Head(t)>>
  BY <1>1, AppendIsConcat
<1>4. <<Head(t)>> \in Seq(S)
  BY <1>1
<1>5. (s \o <<Head(t)>>) \o Tail(t) = s \o (<<Head(t)>> \o Tail(t))
  BY <1>1, <1>4, ConcatAssociative
<1>6. QED
  BY <1>2, <1>3, <1>5

LEMMA AppendAtTheEnd ==
  ASSUME NEW S, NEW s \in Seq(S), NEW t \in Seq(S), NEW e \in S
  PROVE  s \o Append(t, e) = Append(s \o t, e)
<1>1. <<e>> \in Seq(S) /\ s \o t \in Seq(S)
  OBVIOUS
<1>2. Append(t, e) = t \o <<e>> /\ Append(s \o t, e) = (s \o t) \o <<e>>
  BY <1>1, AppendIsConcat
<1>3. QED
  BY <1>1, <1>2, ConcatAssociative

\* The steps of writePump move events on and change nothing of what has passed;
\* a copy of an event is added at the end.
LEMMA WriterMoves ==
  ASSUME NEW d \in Seq(Nat), NEW b \in Seq(Nat), NEW s \in Seq(Nat), s # <<>>
  PROVE  /\ (d \o <<Head(s)>>) \o Tail(s) = d \o s
         /\ (d \o Append(b, Head(s))) \o Tail(s) = (d \o b) \o s
<1>1. Head(s) \in Nat /\ d \o b \in Seq(Nat)
  BY TailOfQueue
<1>2. d \o <<Head(s)>> = Append(d, Head(s))
  BY <1>1, AppendIsConcat
<1>3. d \o Append(b, Head(s)) = Append(d \o b, Head(s))
  BY <1>1, AppendAtTheEnd
<1>4. QED
  BY <1>1, <1>2, <1>3, MoveHead

\* The events of a topic in order, when one more of it comes after all others and
\* none in between, or when more events are pushed.
LEMMA InOrderAppend ==
  ASSUME NEW events \in Seq(Nat), NEW t, NEW e \in Nat,
         InOrder(events, t), pushed[e] = t,
         events # <<>> => /\ events[Len(events)] < e
                          /\ \A k \in (events[Len(events)] + 1)..(e - 1) : pushed[k] # t
  PROVE  InOrder(Append(events, e), t)
<1>1. /\ Append(events, e) \in Seq(Nat) /\ Len(Append(events, e)) = Len(events) + 1
      /\ Len(events) \in Nat
      /\ \A i \in 1..Len(events) : Append(events, e)[i] = events[i]
      /\ Append(events, e)[Len(events) + 1] = e
  BY AppendToQueue
<1> DEFINE more == Append(events, e)
<1>2. ASSUME NEW i \in 1..Len(more) PROVE pushed[more[i]] = t
  <2>1. i \in 1..Len(events) \/ i = Len(events) + 1
    BY <1>1
  <2>2. QED
    BY <1>1, <2>1 DEF InOrder
<1>3. ASSUME NEW i \in 1..(Len(more) - 1)
      PROVE  /\ more[i] < more[i + 1]
             /\ \A k \in (more[i] + 1)..(more[i + 1] - 1) : pushed[k] # t
  <2>1. i \in 1..Len(events)
    BY <1>1
  <2>2. more[i] = events[i]
    BY <1>1, <2>1
  <2>3. CASE i = Len(events)
    <3>1. more[i + 1] = e /\ events # <<>>
      BY <1>1, <2>1, <2>3
    <3>2. QED
      BY <2>2, <2>3, <3>1
  <2>4. CASE i # Len(events)
    <3>1. i + 1 \in 1..Len(events) /\ i \in 1..(Len(events) - 1)
      BY <1>1, <2>1, <2>4
    <3>2. more[i + 1] = events[i + 1]
      BY <1>1, <3>1
    <3>3. QED
      BY <2>2, <3>1, <3>2 DEF InOrder
  <2>5. QED
    BY <2>3, <2>4
<1> HIDE DEF more
<1>4. InOrder(more, t)
  BY <1>2, <1>3 DEF InOrder
<1>5. QED
  BY <1>4 DEF more

LEMMA InOrderPrefix ==
  ASSUME NEW first \in Seq(Nat), NEW others \in Seq(Nat), NEW t, InOrder(first \o others, t)
  PROVE  InOrder(first, t)
<1>1. /\ Len(first \o others) = Len(first) + Len(others)
      /\ Len(first) \in Nat /\ Len(others) \in Nat
      /\ \A i \in 1..Len(first) : (first \o others)[i] = first[i]
  BY ConcatProperties
<1>2. ASSUME NEW i \in 1..Len(first) PROVE pushed[first[i]] = t
  <2>1. i \in 1..Len(first \o others)
    BY <1>1
  <2>2. QED
    BY <1>1, <2>1 DEF InOrder
<1>3. ASSUME NEW i \in 1..(Len(first) - 1)
      PROVE  /\ first[i] < first[i + 1]
             /\ \A k \in (first[i] + 1)..(first[i + 1] - 1) : pushed[k] # t
  <2>1. /\ i \in 1..(Len(first \o others) - 1) /\ i \in 1..Len(first) /\ i + 1 \in 1..Len(first)
    BY <1>1
  <2>2. (first \o others)[i] = first[i] /\ (first \o others)[i + 1] = first[i + 1]
    BY <1>1, <2>1
  <2>3. QED
    BY <2>1, <2>2 DEF InOrder
<1>4. QED
  BY <1>2, <1>3 DEF InOrder

\* The events wait in the broadcast channel in the order of their numbers, from
\* the one after the event being copied to the last one pushed.
Numbered ==
  /\ event + Len(broadcast) = Len(pushed)
  /\ \A i \in 1..Len(broadcast) : broadcast[i] = event + i
  /\ \A c \in todo : event >= 1 /\ pushed[event] = topic[c]

\* A client has been sent events up to the one being copied, and a member has
\* been sent all of its topic since its first one, but for that one if it still
\* is to get it.
Sent(c) ==
  /\ InOrder(Passed(c), topic[c])
  /\ \A i \in 1..Len(Passed(c)) :
       Passed(c)[i] \in 1..event /\ (c \in todo => Passed(c)[i] # event)
  /\ c \in members /\ Passed(c) # <<>> =>
       \A k \in (Passed(c)[Len(Passed(c))] + 1)..event :
         pushed[k] = topic[c] => k = event /\ c \in todo

\* Whoever has not been a member has been sent nothing, and writePump holds
\* nothing back between two messages.
Untouched(c) ==
  /\ New(c) => Passed(c) = <<>>
  /\ writer[c] \in {"none", "idle"} => batch[c] = <<>>
Awaiting ==
  \A c \in Clients : \A i \in 1..Len(register) : register[i] = c => Passed(c) = <<>>

GInv == Numbered /\ Awaiting /\ \A c \in Clients : Sent(c) /\ Untouched(c)

LEMMA InitGInv == Init => GInv
<1> SUFFICES ASSUME Init PROVE GInv
  OBVIOUS
<1>1. \A c \in Clients : Passed(c) = <<>> /\ batch[c] = <<>>
  <2>1. (<<>> \o <<>>) \o <<>> = <<>>
    OBVIOUS
  <2>2. QED
    BY <2>1 DEF Init, Passed
<1>2. Numbered /\ Awaiting
  BY DEF Init, Numbered, Awaiting
<1>3. \A c \in Clients : Sent(c) /\ Untouched(c)
  BY <1>1 DEF Sent, Untouched, InOrder
<1>4. QED
  BY <1>2, <1>3 DEF GInv

\* A step that copies no event and moves none out of what a client was sent.
LEMMA GInvKept ==
  ASSUME HInv, GInv, UNCHANGED <<broadcast, topic, event, todo, pushed>>,
         \A d \in Clients : Passed(d)' = Passed(d),
         \A d \in Clients : d \in members' => d \in members \/ Passed(d) = <<>>,
         \A d \in Clients : New(d)' => New(d),
         \A d \in Clients : writer'[d] \in {"none", "idle"} => batch'[d] = <<>>,
         \A d \in Clients : \A i \in 1..Len(register') : register'[i] = d => Passed(d) = <<>>
  PROVE  GInv'
<1>1. Numbered'
  BY DEF GInv, Numbered
<1>2. Awaiting'
  BY DEF Awaiting
<1>3. ASSUME NEW d \in Clients PROVE Sent(d)'
  BY <1>3 DEF GInv, Sent, InOrder
<1>4. ASSUME NEW d \in Clients PROVE Untouched(d)'
  BY <1>4 DEF GInv, Untouched
<1>5. QED
  BY <1>1, <1>2, <1>3, <1>4 DEF GInv

\* A step that leaves the three places alone.
LEMMA QuietStep ==
  ASSUME HInv, GInv,
         UNCHANGED <<broadcast, topic, event, todo, pushed, send, batch, delivered>>,
         \A d \in Clients : d \in members' => d \in members \/ Passed(d) = <<>>,
         \A d \in Clients : New(d)' => New(d),
         \A d \in Clients : writer'[d] \in {"none", "idle"} => writer[d] \in {"none", "idle"},
         \A d \in Clients : \A i \in 1..Len(register') : register'[i] = d => Passed(d) = <<>>
  PROVE  GInv'
<1>1. \A d \in Clients : Passed(d)' = Passed(d)
  BY DEF Passed
<1>2. \A d \in Clients : writer'[d] \in {"none", "idle"} => batch'[d] = <<>>
  BY DEF GInv, Untouched
<1>3. QED
  BY <1>1, <1>2, GInvKept

LEMMA StepGInv == HInv /\ GInv /\ [Next]_vars => GInv'
<1> SUFFICES ASSUME HInv, GInv, [Next]_vars PROVE GInv'
  OBVIOUS
<1> USE TradeHubAssumption
<1>0. \A d \in Clients : \A i \in 1..Len(register) : register[i] = d => Passed(d) = <<>>
  BY DEF GInv, Awaiting
<1>1. ASSUME NEW c \in Clients, Connect(c) \/ ReadFails(c) \/ Leave(c) PROVE GInv'
  <2>1. UNCHANGED <<register, broadcast, members, topic, event, todo, pushed,
                    send, batch, delivered, writer>>
    BY <1>1 DEF Connect, ReadFails, Leave, channels, client
  <2>2. \A d \in Clients : New(d)' => New(d)
    BY <1>1 DEF Connect, ReadFails, Leave, New, HInv, TypeOK
  <2>3. QED
    BY <1>0, <2>1, <2>2, QuietStep
<1>2. ASSUME NEW c \in Clients, Join(c) PROVE GInv'
  <2>1. /\ UNCHANGED <<broadcast, members, topic, event, todo, pushed, send, batch, delivered>>
        /\ register' = Append(register, c) /\ register \in Seq(Clients) /\ New(c)
    BY <1>2 DEF Join, client, New, HInv, TypeOK
  <2>2. \A d \in Clients : New(d)' => New(d)
    BY <1>2 DEF Join, New, HInv, TypeOK
  <2>3. \A d \in Clients : Passed(d)' = Passed(d)
    BY <2>1 DEF Passed
  <2>4. Passed(c) = <<>> /\ batch[c] = <<>>
    <3>1. Passed(c) = <<>>
      BY <2>1 DEF GInv, Untouched
    <3>2. /\ delivered[c] \in Seq(Nat) /\ batch[c] \in Seq(Nat) /\ send[c] \in Seq(Nat)
          /\ delivered[c] \o batch[c] \in Seq(Nat)
          /\ (delivered[c] \o batch[c]) \o send[c] = <<>>
      BY <3>1, PassedType DEF HInv
    <3>3. delivered[c] \o batch[c] = <<>>
      BY <3>2, ConcatEqualIffEmpty
    <3>4. batch[c] = <<>>
      BY <3>2, <3>3, ConcatEqualIffEmpty
    <3>5. QED
      BY <3>1, <3>4
  <2>5. \A d \in Clients : writer'[d] \in {"none", "idle"} => batch'[d] = <<>>
    <3>1. writer' = [writer EXCEPT ![c] = "idle"] /\ batch' = batch
      BY <1>2 DEF Join
    <3>2. QED
      BY <2>4, <3>1 DEF GInv, Untouched, HInv, TypeOK
  <2>6. \A d \in Clients : \A i \in 1..Len(register') : register'[i] = d => Passed(d) = <<>>
    <3>1. /\ Len(register') = Len(register) + 1 /\ Len(register) \in Nat
          /\ \A i \in 1..Len(register) : register'[i] = register[i]
          /\ register'[Len(register) + 1] = c
      BY <2>1, AppendToQueue
    <3>2. \A i \in 1..Len(register') : i \in 1..Len(register) \/ i = Len(register) + 1
      BY <3>1
    <3>3. QED
      BY <1>0, <2>4, <3>1, <3>2
  <2>7. QED
    BY <2>1, <2>2, <2>3, <2>5, <2>6, GInvKept
<1>3. ASSUME HubStart PROVE GInv'
  <2>1. UNCHANGED <<register, broadcast, members, topic, event, todo, pushed,
                    send, batch, delivered, writer, reader>>
    BY <1>3 DEF HubStart, channels, client, pumps
  <2>2. QED
    BY <1>0, <2>1, QuietStep DEF New
<1>4. ASSUME HubRegister PROVE GInv'
  <2>1. /\ members' = members \cup {Head(register)} /\ register' = Tail(register)
        /\ register \in Seq(Clients) /\ register # <<>>
        /\ UNCHANGED <<broadcast, topic, event, todo, pushed, send, batch, delivered, writer, reader>>
    BY <1>4 DEF HubRegister, client, pumps, HInv, TypeOK
  <2>2. /\ Len(register') = Len(register) - 1 /\ Head(register) = register[1]
        /\ \A i \in 1..Len(register') : register'[i] = register[i + 1]
        /\ Len(register) \in Nat \ {0}
    BY <2>1, TailOfQueue
  <2>3. 1 \in 1..Len(register) /\ \A i \in 1..Len(register') : i + 1 \in 1..Len(register)
    BY <2>2
  <2>4. \A d \in Clients : \A i \in 1..Len(register') : register'[i] = d => Passed(d) = <<>>
    BY <1>0, <2>2, <2>3
  <2>5. \A d \in Clients : d \in members' => d \in members \/ Passed(d) = <<>>
    BY <1>0, <2>1, <2>2, <2>3
  <2>6. QED
    BY <2>1, <2>4, <2>5, QuietStep DEF New
<1>5. ASSUME HubUnregister PROVE GInv'
  <2>1. /\ UNCHANGED <<register, broadcast, topic, event, todo, pushed,
                       send, batch, delivered, writer, reader>>
        /\ members' \subseteq members
    BY <1>5 DEF HubUnregister, pumps
  <2>2. QED
    BY <1>0, <2>1, QuietStep DEF New
<1>6. ASSUME NEW c \in Clients, WriterCount(c) \/ WriterSeesClose(c) \/ WriteFails(c) PROVE GInv'
  <2>1. /\ UNCHANGED <<register, broadcast, members, topic, event, todo, pushed,
                       send, batch, delivered, reader>>
        /\ \E w \in {"draining", "gone"} : writer' = [writer EXCEPT ![c] = w]
    BY <1>6 DEF WriterCount, WriterSeesClose, WriteFails, WriterReturns, channels, client
  <2>2. \A d \in Clients : writer'[d] \in {"none", "idle"} => writer[d] \in {"none", "idle"}
    BY <2>1 DEF HInv, TypeOK
  <2>3. QED
    BY <1>0, <2>1, <2>2, QuietStep DEF New
<1>7. ASSUME NEW c \in Clients, WriterTake(c) \/ WriterDrain(c) \/ WriterFlush(c) PROVE GInv'
  <2>1. UNCHANGED <<register, broadcast, members, topic, event, todo, pushed, reader>>
    BY <1>7 DEF WriterTake, WriterDrain, WriterFlush, channels, client
  <2>2. /\ delivered[c] \in Seq(Nat) /\ batch[c] \in Seq(Nat) /\ send[c] \in Seq(Nat)
        /\ delivered[c] \o batch[c] \in Seq(Nat)
        /\ writer[c] = "idle" => batch[c] = <<>>
    BY PassedType DEF HInv, GInv, Untouched
  <2>3. \A d \in Clients \ {c} : /\ delivered'[d] = delivered[d] /\ batch'[d] = batch[d]
                                 /\ send'[d] = send[d] /\ writer'[d] = writer[d]
    BY <1>7 DEF WriterTake, WriterDrain, WriterFlush, client, HInv, TypeOK
  <2>4. Passed(c)' = Passed(c) /\ (writer'[c] \in {"none", "idle"} => batch'[c] = <<>>)
    <3>1. CASE WriterTake(c)
      <4>1. /\ writer[c] = "idle" /\ send[c] # <<>> /\ delivered'[c] = delivered[c]
            /\ batch'[c] = <<Head(send[c])>> /\ send'[c] = Tail(send[c]) /\ writer'[c] = "begun"
        BY <3>1 DEF WriterTake, HInv, TypeOK
      <4>2. (delivered[c] \o <<Head(send[c])>>) \o Tail(send[c]) = delivered[c] \o send[c]
        BY <2>2, <4>1, WriterMoves
      <4>3. delivered[c] \o batch[c] = delivered[c]
        BY <2>2, <4>1, ConcatEmptySeq
      <4>4. Passed(c)' = (delivered[c] \o <<Head(send[c])>>) \o Tail(send[c])
        BY <4>1 DEF Passed
      <4>5. Passed(c) = delivered[c] \o send[c]
        BY <4>3 DEF Passed
      <4>6. QED
        BY <4>1, <4>2, <4>4, <4>5
    <3>2. CASE WriterDrain(c)
      <4>1. /\ writer[c] = "draining" /\ send[c] # <<>> /\ delivered'[c] = delivered[c]
            /\ batch'[c] = Append(batch[c], Head(send[c])) /\ send'[c] = Tail(send[c])
            /\ writer'[c] = "draining"
        BY <3>2 DEF WriterDrain, HInv, TypeOK
      <4>2. (delivered[c] \o Append(batch[c], Head(send[c]))) \o Tail(send[c])
              = (delivered[c] \o batch[c]) \o send[c]
        BY <2>2, <4>1, WriterMoves
      <4>3. Passed(c)' = (delivered[c] \o Append(batch[c], Head(send[c]))) \o Tail(send[c])
        BY <4>1 DEF Passed
      <4>4. Passed(c) = (delivered[c] \o batch[c]) \o send[c]
        BY DEF Passed
      <4>5. QED
        BY <4>1, <4>2, <4>3, <4>4
    <3>3. CASE WriterFlush(c)
      <4>1. /\ delivered'[c] = delivered[c] \o batch[c] /\ batch'[c] = <<>> /\ send'[c] = send[c]
        BY <3>3 DEF WriterFlush, client, HInv, TypeOK
      <4>2. (delivered[c] \o batch[c]) \o <<>> = delivered[c] \o batch[c]
        BY <2>2, ConcatEmptySeq
      <4>3. Passed(c)' = ((delivered[c] \o batch[c]) \o <<>>) \o send[c]
        BY <4>1 DEF Passed
      <4>4. Passed(c) = (delivered[c] \o batch[c]) \o send[c]
        BY DEF Passed
      <4>5. QED
        BY <4>1, <4>2, <4>3, <4>4
    <3>4. QED
      BY <1>7, <3>1, <3>2, <3>3
  <2>5. \A d \in Clients : Passed(d)' = Passed(d)
    <3>1. \A d \in Clients \ {c} : Passed(d)' = Passed(d)
      BY <2>3 DEF Passed
    <3>2. QED
      BY <2>4, <3>1
  <2>6. \A d \in Clients : writer'[d] \in {"none", "idle"} => batch'[d] = <<>>
    BY <2>3, <2>4 DEF GInv, Untouched
  <2>7. QED
    BY <1>0, <2>1, <2>5, <2>6, GInvKept DEF New
<1>8. ASSUME NEW t \in Topics, Push(t) PROVE GInv'
  <2>1. /\ pushed' = Append(pushed, t) /\ pushed \in Seq(Topics)
        /\ broadcast' = Append(broadcast, Len(pushed) + 1) /\ broadcast \in Seq(Nat)
        /\ UNCHANGED <<register, members, topic, event, todo, send, batch, delivered, reader, writer>>
    BY <1>8 DEF Push, client, pumps, HInv, TypeOK
  <2>2. /\ Len(pushed') = Len(pushed) + 1 /\ Len(pushed) \in Nat
        /\ \A k \in 1..Len(pushed) : pushed'[k] = pushed[k]
    BY <2>1, AppendToQueue
  <2>3. /\ Len(broadcast') = Len(broadcast) + 1 /\ Len(broadcast) \in Nat
        /\ \A i \in 1..Len(broadcast) : broadcast'[i] = broadcast[i]
        /\ broadcast'[Len(broadcast) + 1] = Len(pushed) + 1
    BY <2>1, <2>2, AppendToQueue
  <2>4. event \in Nat /\ event <= Len(pushed) /\ event + Len(broadcast) = Len(pushed)
    BY <2>2, <2>3 DEF HInv, TypeOK, GInv, Numbered
  <2>5. Numbered'
    <3>1. \A i \in 1..Len(broadcast') : broadcast'[i] = event + i
      <4>1. \A i \in 1..Len(broadcast') : i \in 1..Len(broadcast) \/ i = Len(broadcast) + 1
        BY <2>3
      <4>2. Len(pushed) + 1 = event + (Len(broadcast) + 1)
        BY <2>2, <2>3, <2>4
      <4>3. QED
        BY <2>3, <4>1, <4>2 DEF GInv, Numbered
    <3>2. event' + Len(broadcast') = Len(pushed')
      BY <2>1, <2>2, <2>3, <2>4
    <3>3. \A d \in todo : event >= 1 /\ pushed'[event] = topic[d]
      BY <2>2, <2>4 DEF GInv, Numbered
    <3>4. QED
      BY <2>1, <3>1, <3>2, <3>3 DEF Numbered
  <2>6. \A d \in Clients : Passed(d)' = Passed(d)
    BY <2>1 DEF Passed
  <2>7. ASSUME NEW d \in Clients PROVE Sent(d)'
    <3> DEFINE P == Passed(d)
    <3>1. /\ InOrder(P, topic[d])
          /\ \A i \in 1..Len(P) : P[i] \in 1..event /\ (d \in todo => P[i] # event)
          /\ d \in members /\ P # <<>> =>
               \A k \in (P[Len(P)] + 1)..event : pushed[k] = topic[d] => k = event /\ d \in todo
      BY DEF GInv, Sent
    <3>2. P \in Seq(Nat) /\ Len(P) \in Nat /\ (P # <<>> => Len(P) \in 1..Len(P))
      <4>1. P \in Seq(Nat)
        BY PassedType DEF HInv
      <4> HIDE DEF P
      <4>2. QED
        BY <4>1
    <3> HIDE DEF P
    <3>3. \A k \in 1..event : pushed'[k] = pushed[k]
      BY <2>2, <2>4
    <3>4. \A i \in 1..Len(P) : pushed'[P[i]] = topic[d]
      BY <3>1, <3>3 DEF InOrder
    <3>5. ASSUME NEW i \in 1..(Len(P) - 1)
          PROVE  /\ P[i] < P[i + 1]
                 /\ \A k \in (P[i] + 1)..(P[i + 1] - 1) : pushed'[k] # topic[d]
      <4>1. i \in 1..Len(P) /\ i + 1 \in 1..Len(P)
        BY <3>2
      <4>2. P[i] \in 1..event /\ P[i + 1] \in 1..event
        BY <3>1, <4>1
      <4>3. \A k \in (P[i] + 1)..(P[i + 1] - 1) : k \in 1..event
        BY <2>4, <4>2
      <4>4. QED
        BY <3>1, <3>3, <4>3 DEF InOrder
    <3>6. d \in members /\ P # <<>> =>
            \A k \in (P[Len(P)] + 1)..event : pushed'[k] = topic[d] => k = event /\ d \in todo
      <4>1. P # <<>> => \A k \in (P[Len(P)] + 1)..event : k \in 1..event
        BY <2>4, <3>1, <3>2
      <4>2. QED
        BY <3>1, <3>3, <4>1
    <3>7. /\ Passed(d)' = P /\ topic' = topic /\ event' = event /\ todo' = todo
          /\ members' = members
      BY <2>1, <2>6 DEF P
    <3>8. InOrder(Passed(d), topic[d])'
      BY <3>4, <3>5, <3>7 DEF InOrder
    <3>9. QED
      BY <3>1, <3>6, <3>7, <3>8 DEF Sent
  <2>8. Awaiting' /\ \A d \in Clients : Untouched(d)'
    <3>1. \A d \in Clients : \A i \in 1..Len(register) : register[i] = d => Passed(d)' = <<>>
      BY <1>0, <2>6
    <3>2. QED
      BY <2>1, <2>6, <3>1 DEF GInv, Awaiting, Untouched, New
  <2>9. QED
    BY <2>5, <2>7, <2>8 DEF GInv
<1>9. ASSUME HubBroadcast PROVE GInv'
  <2>1. /\ broadcast # <<>> /\ event' = Head(broadcast) /\ broadcast' = Tail(broadcast)
        /\ todo' = {c \in members : topic[c] = pushed[event']} /\ todo = {}
        /\ UNCHANGED <<register, members, topic, pushed, send, batch, delivered, reader, writer>>
    BY <1>9 DEF HubBroadcast, client, pumps, HInv, Lifecycle
  <2>2. /\ broadcast \in Seq(Nat) /\ Len(broadcast) \in Nat \ {0} /\ event \in Nat
        /\ Len(broadcast') = Len(broadcast) - 1 /\ Head(broadcast) = broadcast[1]
        /\ \A i \in 1..Len(broadcast') : broadcast'[i] = broadcast[i + 1]
    BY <2>1, TailOfQueue DEF HInv, TypeOK
  <2>3. event' = event + 1
    <3>1. 1 \in 1..Len(broadcast)
      BY <2>2
    <3>2. QED
      BY <2>1, <2>2, <3>1 DEF GInv, Numbered
  <2>4. Numbered'
    <3>1. \A i \in 1..Len(broadcast') : i + 1 \in 1..Len(broadcast) /\ event + (i + 1) = event' + i
      BY <2>2, <2>3
    <3>2. \A i \in 1..Len(broadcast') : broadcast'[i] = event' + i
      BY <2>2, <3>1 DEF GInv, Numbered
    <3>3. event + Len(broadcast) = Len(pushed)
      BY DEF GInv, Numbered
    <3>4. event' + Len(broadcast') = Len(pushed') /\ event' >= 1
      BY <2>1, <2>2, <2>3, <3>3
    <3>5. \A c \in todo' : pushed'[event'] = topic'[c]
      BY <2>1
    <3>6. QED
      BY <3>2, <3>4, <3>5 DEF Numbered
  <2>5. \A d \in Clients : Passed(d)' = Passed(d)
    BY <2>1 DEF Passed
  <2>6. ASSUME NEW d \in Clients PROVE Sent(d)'
    <3> DEFINE P == Passed(d)
    <3>1. /\ InOrder(P, topic[d])
          /\ \A i \in 1..Len(P) : P[i] \in 1..event
          /\ d \in members /\ P # <<>> =>
               \A k \in (P[Len(P)] + 1)..event : pushed[k] = topic[d] => k = event /\ d \in todo
      BY DEF GInv, Sent
    <3>2. P \in Seq(Nat) /\ Len(P) \in Nat /\ (P # <<>> => Len(P) \in 1..Len(P))
      <4>1. P \in Seq(Nat)
        BY PassedType DEF HInv
      <4> HIDE DEF P
      <4>2. QED
        BY <4>1
    <3> HIDE DEF P
    <3>3. \A i \in 1..Len(P) : P[i] \in 1..event' /\ P[i] # event'
      BY <2>2, <2>3, <3>1
    <3>4. d \in members /\ P # <<>> =>
            \A k \in (P[Len(P)] + 1)..event' : pushed[k] = topic[d] => k = event' /\ d \in todo'
      <4>1. SUFFICES ASSUME d \in members, P # <<>>, NEW k \in (P[Len(P)] + 1)..event',
                            pushed[k] = topic[d]
                     PROVE  k = event' /\ d \in todo'
        OBVIOUS
      <4>2. P[Len(P)] \in 1..event
        BY <3>1, <3>2, <4>1
      <4>3. k \in (P[Len(P)] + 1)..event \/ k = event'
        BY <2>2, <2>3, <4>2
      <4>4. k = event'
        BY <2>1, <3>1, <4>1, <4>3
      <4>5. QED
        BY <2>1, <4>1, <4>4
    <3>5. Passed(d)' = P /\ topic' = topic /\ pushed' = pushed /\ members' = members
      BY <2>1, <2>5 DEF P
    <3>6. InOrder(Passed(d), topic[d])'
      BY <3>1, <3>5 DEF InOrder
    <3>7. QED
      BY <3>3, <3>4, <3>5, <3>6 DEF Sent
  <2>7. Awaiting' /\ \A d \in Clients : Untouched(d)'
    <3>1. \A d \in Clients : \A i \in 1..Len(register) : register[i] = d => Passed(d)' = <<>>
      BY <1>0, <2>5
    <3>2. QED
      BY <2>1, <2>5, <3>1 DEF GInv, Awaiting, Untouched, New
  <2>8. QED
    BY <2>4, <2>6, <2>7 DEF GInv
<1>10. ASSUME NEW c \in Clients, HubSend(c) PROVE GInv'
  <2>1. /\ c \in todo /\ c \in members /\ todo' = todo \ {c} /\ todo \subseteq Clients
        /\ UNCHANGED <<register, broadcast, topic, event, pushed, batch, delivered, reader, writer>>
    BY <1>10 DEF HubSend, channels, pumps, HInv, SendsOnOpenOnly, TypeOK
  <2>2. Numbered'
    BY <2>1 DEF GInv, Numbered
  <2>3. \A d \in Clients \ {c} : send'[d] = send[d] /\ (d \in members' <=> d \in members)
    BY <1>10 DEF HubSend, HInv, TypeOK
  <2>4. \A d \in Clients \ {c} : Passed(d)' = Passed(d)
    BY <2>1, <2>3 DEF Passed
  <2>5. ASSUME NEW d \in Clients, d # c PROVE Sent(d)'
    <3>1. /\ Passed(d)' = Passed(d) /\ (d \in members' <=> d \in members)
          /\ d \in todo' <=> d \in todo
      BY <2>1, <2>3, <2>4, <2>5
    <3>2. Sent(d)
      BY DEF GInv
    <3>3. InOrder(Passed(d), topic[d])'
      BY <2>1, <3>1, <3>2 DEF Sent, InOrder
    <3>4. QED
      BY <2>1, <3>1, <3>2, <3>3 DEF Sent
  <2>6. ~New(c) /\ \A i \in 1..Len(register) : register[i] # c
    BY <2>1 DEF HInv, Lifecycle, Queued
  <2>7. Awaiting' /\ \A d \in Clients : Untouched(d)'
    <3>1. \A d \in Clients : \A i \in 1..Len(register) : register[i] = d => Passed(d)' = <<>>
      BY <1>0, <2>4, <2>6
    <3>2. \A d \in Clients \ {c} : Untouched(d)'
      BY <2>1, <2>4 DEF GInv, Untouched, New
    <3>3. Untouched(c)'
      BY <2>1, <2>6 DEF GInv, Untouched, New
    <3>4. QED
      BY <2>1, <3>1, <3>2, <3>3 DEF Awaiting
  <2> DEFINE P == Passed(c)
  <2>8. /\ InOrder(P, topic[c])
        /\ \A i \in 1..Len(P) : P[i] \in 1..event /\ P[i] # event
        /\ P # <<>> => \A k \in (P[Len(P)] + 1)..event : pushed[k] = topic[c] => k = event
    BY <2>1 DEF GInv, Sent
  <2>9. P \in Seq(Nat) /\ Len(P) \in Nat /\ (P # <<>> => Len(P) \in 1..Len(P))
    <3>1. P \in Seq(Nat)
      BY PassedType DEF HInv
    <3> HIDE DEF P
    <3>2. QED
      BY <3>1
  <2>10. event \in Nat /\ event >= 1 /\ pushed[event] = topic[c]
    BY <2>1 DEF HInv, TypeOK, GInv, Numbered
  <2>11. Sent(c)'
    <3>1. CASE send' = [send EXCEPT ![c] = Append(@, event)] /\ UNCHANGED <<closed, members>>
      <4>1. Passed(c)' = Append(P, event)
        <5>1. Passed(c)' = (delivered[c] \o batch[c]) \o Append(send[c], event)
          BY <2>1, <3>1 DEF Passed, HInv, TypeOK
        <5>2. /\ delivered[c] \o batch[c] \in Seq(Nat) /\ send[c] \in Seq(Nat)
              /\ P = (delivered[c] \o batch[c]) \o send[c]
          BY PassedType DEF HInv
        <5>3. (delivered[c] \o batch[c]) \o Append(send[c], event)
                = Append((delivered[c] \o batch[c]) \o send[c], event)
          <6>1. \A u, v \in Seq(Nat), e \in Nat : u \o Append(v, e) = Append(u \o v, e)
            BY AppendAtTheEnd
          <6>2. QED
            BY <2>10, <5>2, <6>1, Zenon
        <5> HIDE DEF P
        <5>4. QED
          BY <5>1, <5>2, <5>3, Zenon
      <4> HIDE DEF P
      <4>2. /\ Len(Append(P, event)) = Len(P) + 1
            /\ \A i \in 1..Len(P) : Append(P, event)[i] = P[i]
            /\ Append(P, event)[Len(P) + 1] = event
        BY <2>9, <2>10, AppendToQueue
      <4>3. P # <<>> => /\ P[Len(P)] < event
                        /\ \A k \in (P[Len(P)] + 1)..(event - 1) : pushed[k] # topic[c]
        <5>1. P # <<>> => P[Len(P)] \in 1..event /\ P[Len(P)] # event
          BY <2>8, <2>9
        <5>2. P # <<>> => \A k \in (P[Len(P)] + 1)..(event - 1) :
                            k \in (P[Len(P)] + 1)..event /\ k # event
          BY <2>10, <5>1
        <5>3. QED
          BY <2>8, <2>10, <5>1, <5>2
      <4>4. InOrder(Append(P, event), topic[c])
        BY <2>8, <2>9, <2>10, <4>3, InOrderAppend
      <4>5. \A i \in 1..Len(Append(P, event)) : Append(P, event)[i] \in 1..event
        <5>1. \A i \in 1..(Len(P) + 1) : i \in 1..Len(P) \/ i = Len(P) + 1
          BY <2>9
        <5>2. event \in 1..event
          BY <2>10
        <5>3. QED
          BY <2>8, <4>2, <5>1, <5>2
      <4>6. InOrder(Passed(c), topic[c])'
        BY <2>1, <4>1, <4>4 DEF InOrder
      <4>7. \A k \in (event + 1)..event : FALSE
        BY <2>10
      <4>8. Passed(c)'[Len(Passed(c)')] = event
        BY <4>1, <4>2
      <4>9. QED
        BY <2>1, <4>1, <4>5, <4>6, <4>7, <4>8 DEF Sent
    <3>2. CASE members' = members \ {c} /\ UNCHANGED send
      <4>1. Passed(c)' = Passed(c) /\ c \notin members' /\ c \notin todo'
        BY <2>1, <3>2 DEF Passed
      <4>2. QED
        BY <2>1, <4>1 DEF GInv, Sent, InOrder
    <3>3. QED
      BY <1>10, <3>1, <3>2 DEF HubSend
  <2>12. QED
    BY <2>2, <2>5, <2>7, <2>11 DEF GInv
<1>11. CASE UNCHANGED vars
  <2>1. UNCHANGED <<register, broadcast, members, topic, event, todo, pushed,
                    send, batch, delivered, reader, writer>>
    BY <1>11 DEF vars, channels, client, pumps
  <2>2. QED
    BY <1>0, <2>1, QuietStep DEF New
<1>12. QED
  BY <1>1, <1>2, <1>3, <1>4, <1>5, <1>6, <1>7, <1>8, <1>9, <1>10, <1>11
     DEF Next, HubStep, PumpStep

\* Each client gets the events of its topic in order and without a gap from its
\* first one on, and a member misses none at the end: whatever the hub and the two
\* pumps of any number of clients do in any order, a full channel drops the client
\* and never an event.
THEOREM TradeHubNoGaps == Spec => []NoGaps
<1>1. HInv /\ GInv => NoGaps
  <2> SUFFICES ASSUME HInv, GInv, NEW c \in Clients
               PROVE  /\ InOrder(delivered[c], topic[c])
                      /\ InOrder(Passed(c), topic[c])
                      /\ c \in members /\ Passed(c) # <<>> =>
                           \A k \in (Passed(c)[Len(Passed(c))] + 1)..event :
                             pushed[k] = topic[c] => k = event /\ c \in todo
    BY DEF NoGaps
  <2>1. Sent(c)
    BY DEF GInv
  <2>2. InOrder(delivered[c] \o batch[c], topic[c])
    <3>1. InOrder((delivered[c] \o batch[c]) \o send[c], topic[c])
      BY <2>1, PassedType DEF Sent, HInv
    <3>2. QED
      BY <3>1, PassedType, InOrderPrefix DEF HInv
  <2>3. InOrder(delivered[c], topic[c])
    BY <2>2, PassedType, InOrderPrefix DEF HInv
  <2>4. QED
    BY <2>1, <2>3 DEF Sent
<1>2. QED
  BY InitHInv, InitGInv, StepHInv, StepGInv, <1>1, PTL DEF Spec
=============================================================================
