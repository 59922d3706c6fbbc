------------------------ MODULE SensorNetworkProofs ------------------------
(***************************************************************************)
(* Proofs about SensorNetwork, for every set of sensors, every interval    *)
(* and every fault of the network.                                         *)
(***************************************************************************)
EXTENDS SensorNetwork, GatewayProofs, SerializerProofs

USE GatewayAssumption, SerializerAssumption

-----------------------------------------------------------------------------
\* Sequences of packets.

LEMMA ToSetOfAppend ==
  ASSUME NEW S, NEW s \in Seq(S), NEW x \in S
  PROVE  /\ Append(s, x) \in Seq(S)
         /\ ToSet(Append(s, x)) = ToSet(s) \cup {x}
<1>1. Append(s, x) \in Seq(S) /\ DOMAIN Append(s, x) = 1 .. Len(s) + 1
  OBVIOUS
<1>2. \A i \in 1 .. Len(s) : Append(s, x)[i] = s[i]
  OBVIOUS
<1>3. Append(s, x)[Len(s) + 1] = x /\ Len(s) + 1 \in 1 .. Len(s) + 1
  OBVIOUS
<1>4. DOMAIN s = 1 .. Len(s) /\ Len(s) \in Nat
  OBVIOUS
<1> QED
  BY <1>1, <1>2, <1>3, <1>4 DEF ToSet

LEMMA ToSetOfTail ==
  ASSUME NEW S, NEW s \in Seq(S), s # <<>>
  PROVE  /\ Tail(s) \in Seq(S)
         /\ Head(s) \in ToSet(s) /\ Head(s) \in S
         /\ ToSet(Tail(s)) \subseteq ToSet(s)
<1>1. /\ Tail(s) \in Seq(S) /\ DOMAIN Tail(s) = 1 .. Len(s) - 1
      /\ \A i \in 1 .. Len(s) - 1 : Tail(s)[i] = s[i + 1]
      /\ Head(s) = s[1] /\ 1 \in DOMAIN s /\ DOMAIN s = 1 .. Len(s)
      /\ Len(s) \in Nat
  OBVIOUS
<1>2. \A i \in 1 .. Len(s) - 1 : i + 1 \in 1 .. Len(s)
  BY <1>1
<1> QED
  BY <1>1, <1>2 DEF ToSet

LEMMA ToSetOfRemoveAt ==
  ASSUME NEW S, NEW s \in Seq(S), NEW i \in DOMAIN s
  PROVE  /\ RemoveAt(s, i) \in Seq(S)
         /\ s[i] \in ToSet(s) /\ s[i] \in S
         /\ ToSet(RemoveAt(s, i)) \subseteq ToSet(s)
<1> DEFINE a == SubSeq(s, 1, i - 1)
           b == SubSeq(s, i + 1, Len(s))
<1>1. Len(s) \in Nat /\ i \in 1 .. Len(s) /\ DOMAIN s = 1 .. Len(s)
  OBVIOUS
<1>2. /\ a \in Seq(S) /\ Len(a) = i - 1
      /\ \A j \in 1 .. i - 1 : a[j] = s[j]
  BY <1>1
<1>3. /\ b \in Seq(S) /\ Len(b) = Len(s) - i
      /\ \A j \in 1 .. Len(s) - i : b[j] = s[i + j]
  BY <1>1
<1> HIDE DEF a, b
<1>4. \A j \in 1 .. i - 1 : a[j] \in ToSet(s)
  BY <1>1, <1>2 DEF ToSet
<1>5. \A j \in 1 .. Len(s) - i : b[j] \in ToSet(s)
  BY <1>1, <1>3 DEF ToSet
<1>6. /\ a \o b \in Seq(S) /\ DOMAIN (a \o b) = 1 .. Len(a) + Len(b)
      /\ \A j \in 1 .. Len(a) : (a \o b)[j] = a[j]
      /\ \A j \in 1 .. Len(b) : (a \o b)[Len(a) + j] = b[j]
  <2>1. a \in Seq(S) /\ b \in Seq(S)
    BY <1>2, <1>3
  <2> QED
    BY <2>1
<1>7. \A j \in 1 .. Len(a) + Len(b) : (a \o b)[j] \in ToSet(s)
  <2> TAKE j \in 1 .. Len(a) + Len(b)
  <2>1. CASE j <= Len(a)
    BY <1>1, <1>2, <1>4, <1>6, <2>1
  <2>2. CASE j > Len(a)
    <3>1. j - Len(a) \in 1 .. Len(b) /\ Len(a) + (j - Len(a)) = j
      BY <1>1, <1>2, <1>3, <2>2
    <3> QED
      BY <1>3, <1>5, <1>6, <3>1
  <2> QED
    BY <1>1, <1>2, <2>1, <2>2
<1>8. ToSet(a \o b) \subseteq ToSet(s)
  BY <1>6, <1>7 DEF ToSet
<1>9. RemoveAt(s, i) = a \o b
  BY DEF RemoveAt, a, b
<1>10. s[i] \in ToSet(s) /\ s[i] \in S
  BY <1>1 DEF ToSet
<1> QED
  BY <1>6, <1>8, <1>9, <1>10

-----------------------------------------------------------------------------
\* Messages and packets.

\* The next sensor of a round.
LEMMA NextOfRound ==
  ASSUME NEW round \in SUBSET Sensors, round # {}
  PROVE  Min(round) \in round
<1>1. round \in SUBSET Nat
  BY NetworkAssumption
<1>2. \E x \in round : \A y \in round : x <= y
  BY <1>1, LeastFailure
<1> QED
  BY <1>2 DEF Min

\* Everything the nodes can ever send.
Beats == {HeartbeatAt(id, t) : id \in Sensors, t \in 1 .. MaxTime}

Sendable == {TelemetryAt(id, m, t) :
               id \in Sensors, m \in Measurements, t \in 1 .. MaxTime}

LEMMA BeatFacts ==
  ASSUME NEW h \in Beats
  PROVE  /\ h \in HeartbeatMessages
         /\ h.header.type = HEARTBEAT
         /\ h.header.sensorId \in Sensors
         /\ h.header.timestamp_ms \in 1 .. MaxTime
<1>1. PICK id \in Sensors, t \in 1 .. MaxTime : h = HeartbeatAt(id, t)
  BY DEF Beats
<1>2. h \in HeartbeatMessages
  BY <1>1, MessageAssumption
<1> QED
  BY <1>1, <1>2 DEF HeartbeatAt

LEMMA SendableFacts ==
  ASSUME NEW r \in Sendable
  PROVE  /\ r \in TelemetryMessages
         /\ r \in Readings
         /\ r.header.type = TELEMETRY
         /\ r.header.sensorId \in Sensors
         /\ r.header.timestamp_ms \in 1 .. MaxTime
<1>1. PICK id \in Sensors, m \in Measurements, t \in 1 .. MaxTime :
             r = TelemetryAt(id, m, t)
  BY DEF Sendable
<1>2. r \in TelemetryMessages \cap Readings
  BY <1>1, MessageAssumption
<1> QED
  BY <1>1, <1>2 DEF TelemetryAt

\* The packet of a heartbeat is decoded as that heartbeat.
LEMMA BeatPacket ==
  ASSUME NEW h \in Beats
  PROVE  /\ serializeHeartbeat(h) \in Seq(Byte)
         /\ ~HeaderThrows(serializeHeartbeat(h))
         /\ peekMessageType(serializeHeartbeat(h)) = HEARTBEAT
         /\ deserializeHeartbeat(serializeHeartbeat(h)) = h
         /\ readHeader(serializeHeartbeat(h)) = h.header
<1>1. h \in HeartbeatMessages /\ h.header.type = HEARTBEAT
  BY BeatFacts
<1>2. deserializeHeartbeat(serializeHeartbeat(h)) = h
  BY <1>1, HeartbeatRoundTrip
<1>3. readHeader(serializeHeartbeat(h)) = h.header
  BY <1>2 DEF deserializeHeartbeat
<1> QED
  BY <1>1, <1>2, <1>3, HeartbeatRoundTrip

\* The packet of a reading is decoded as that reading.
LEMMA ReadingPacket ==
  ASSUME NEW r \in Sendable
  PROVE  /\ serializeTelemetry(r) \in Seq(Byte)
         /\ ~HeaderThrows(serializeTelemetry(r))
         /\ ~TelemetryThrows(serializeTelemetry(r))
         /\ peekMessageType(serializeTelemetry(r)) = TELEMETRY
         /\ readHeader(serializeTelemetry(r)) = r.header
         /\ deserializeTelemetry(serializeTelemetry(r)) = r
<1>1. r \in TelemetryMessages /\ r.header.type = TELEMETRY
  BY SendableFacts
<1> QED
  BY <1>1, TelemetryRoundTrip

\* A heartbeat is no telemetry.
LEMMA TypesDiffer == TELEMETRY # HEARTBEAT
BY DEF TELEMETRY, HEARTBEAT

-----------------------------------------------------------------------------
\* The inductive invariant: every datagram on its way is a packet of a node, of
\* a reading that was sent, or a stray that the faults account for.

SentByNodes == sent \subseteq Sendable

NodePackets == {serializeHeartbeat(h) : h \in Beats}
                 \cup {serializeTelemetry(r) : r \in sent}

Known(packet) ==
  packet \in NodePackets \/ (packet \in Strays /\ faults.strays > 0)

TrafficKnown ==
  /\ \A packet \in ToSet(socket) : Known(packet)
  /\ \A packet \in ToSet(delayed) : Known(packet)

NetInv ==
  NetTypeOK /\ SentByNodes /\ TrafficKnown /\ StoredWasSent /\ NodesNeverAbort

\* What the UDP thread makes of a datagram of that kind.
LEMMA Received ==
  ASSUME SentByNodes, NEW packet, Known(packet)
  PROVE  /\ HeaderThrows(packet) => faults.strays > 0
         /\ peekMessageType(packet) = TELEMETRY /\ TelemetryThrows(packet)
              => faults.strays > 0
         /\ ~HeaderThrows(packet) /\ peekMessageType(packet) = HEARTBEAT =>
              deserializeHeartbeat(packet).header.sensorId \in Sensors
         /\ ~HeaderThrows(packet) /\ ~TelemetryThrows(packet)
              /\ peekMessageType(packet) = TELEMETRY
              => /\ deserializeTelemetry(packet) \in sent
                 /\ packet = serializeTelemetry(deserializeTelemetry(packet))
                 /\ deserializeTelemetry(packet).header = readHeader(packet)
<1>1. CASE packet \in Strays /\ faults.strays > 0
  <2>1. \/ HeaderThrows(packet)
        \/ peekMessageType(packet) = TELEMETRY /\ TelemetryThrows(packet)
        \/ /\ peekMessageType(packet) # TELEMETRY
           /\ peekMessageType(packet) # HEARTBEAT
    BY <1>1, StrayAssumption
  <2> QED
    BY <1>1, <2>1, TypesDiffer, Zenon
<1>2. ASSUME NEW h \in Beats, packet = serializeHeartbeat(h)
      PROVE  /\ ~HeaderThrows(packet) /\ peekMessageType(packet) = HEARTBEAT
             /\ deserializeHeartbeat(packet).header.sensorId \in Sensors
  BY <1>2, BeatPacket, BeatFacts
<1>3. ASSUME NEW r \in sent, packet = serializeTelemetry(r)
      PROVE  /\ ~HeaderThrows(packet) /\ ~TelemetryThrows(packet)
             /\ peekMessageType(packet) = TELEMETRY
             /\ deserializeTelemetry(packet) = r
             /\ readHeader(packet) = r.header
  <2>1. r \in Sendable
    BY <1>3 DEF SentByNodes
  <2> QED
    BY <1>3, <2>1, ReadingPacket
<1>4. CASE packet \in {serializeHeartbeat(h) : h \in Beats}
  <2>1. PICK h \in Beats : packet = serializeHeartbeat(h)
    BY <1>4
  <2>2. /\ ~HeaderThrows(packet) /\ peekMessageType(packet) = HEARTBEAT
        /\ deserializeHeartbeat(packet).header.sensorId \in Sensors
    BY <1>2, <2>1
  <2> QED
    BY <2>2, TypesDiffer, Zenon
<1>5. CASE packet \in {serializeTelemetry(r) : r \in sent}
  <2>1. PICK r \in sent : packet = serializeTelemetry(r)
    BY <1>5
  <2> QED
    BY <1>3, <2>1, TypesDiffer
<1> QED
  BY <1>1, <1>4, <1>5 DEF Known, NodePackets

\* The step of the gateway that each step of the network is.
LEMMA NetworkKeepsGateway ==
  ASSUME NetInv, [NetNext]_netVars
  PROVE  [Next]_vars
<1>1. CASE UNCHANGED vars
  BY <1>1
<1>2. CASE receivePacket
  <2> DEFINE packet == Head(socket)
  <2>1. Known(packet)
    <3>1. socket \in Seq(Seq(Byte)) /\ socket # <<>>
      BY <1>2 DEF receivePacket, NetInv, NetTypeOK
    <3>2. packet \in ToSet(socket)
      BY <3>1, ToSetOfTail
    <3> QED
      BY <3>2 DEF NetInv, TrafficKnown
  <2>2. SentByNodes
    BY DEF NetInv
  <2> HIDE DEF packet
  <2>3. CASE ~HeaderThrows(packet) /\ receiveTelemetry(packet) /\ ~TelemetryThrows(packet)
    <3> DEFINE message == deserializeTelemetry(packet)
    <3>1. message \in sent
      BY <2>1, <2>2, <2>3, Received DEF receiveTelemetry
    <3>2. message \in Readings /\ message.header.sensorId \in Sensors
      BY <2>2, <3>1, SendableFacts DEF SentByNodes
    <3>3. updateSensorInfo(message.header.sensorId, message)
      BY <2>3 DEF receiveTelemetry
    <3> QED
      BY <3>2, <3>3 DEF Next, handlePacket
  <2>4. CASE ~HeaderThrows(packet) /\ receiveHeartbeat(packet)
    <3> DEFINE id == deserializeHeartbeat(packet).header.sensorId
    <3>1. id \in Sensors
      BY <2>1, <2>2, <2>4, Received DEF receiveHeartbeat
    <3>2. handleHeartbeat(id)
      BY <2>4 DEF receiveHeartbeat
    <3> QED
      BY <3>1, <3>2 DEF Next, handlePacket
  <2>5. CASE receiveUnknown(packet)
    BY <2>5 DEF receiveUnknown, Next, handlePacket
  <2> QED
    BY <1>1, <1>2, <2>3, <2>4, <2>5
       DEF receivePacket, packet, throw, receiveTelemetry
<1>3. CASE watchdogStep
  BY <1>3 DEF watchdogStep, Next
<1>4. CASE passTime
  BY <1>4 DEF passTime, Next
<1> QED
  BY <1>1, <1>2, <1>3, <1>4
     DEF NetNext, heartbeatThread, wakeHeartbeats, sendHeartbeat, telemetryThread,
         wakeTelemetry, tick, recovery, recoverSensor, deliverDelayed, deliver,
         stray, netVars

-----------------------------------------------------------------------------
\* Preservation.

Faults == [lost : Nat, moved : Nat, strays : Nat, unsent : Nat]

\* Counting a fault of one kind leaves the others alone.
LEMMA FaultCounted ==
  ASSUME NEW f \in Faults
  PROVE  /\ f.strays \in Nat /\ f.unsent \in Nat
         /\ LET g == [f EXCEPT !.lost = @ + 1]
            IN  g \in Faults /\ g.strays = f.strays /\ g.unsent = f.unsent
         /\ LET g == [f EXCEPT !.moved = @ + 1]
            IN  g \in Faults /\ g.strays = f.strays /\ g.unsent = f.unsent
         /\ LET g == [f EXCEPT !.strays = @ + 1]
            IN  g \in Faults /\ g.strays = f.strays + 1 /\ g.unsent = f.unsent
         /\ LET g == [f EXCEPT !.unsent = @ + 1]
            IN  g \in Faults /\ g.strays = f.strays /\ g.unsent = f.unsent + 1
BY DEF Faults

\* What becomes of a packet of a node: it joins the traffic or not, and only a
\* sendto that is counted as failed ends the process.
LEMMA SendStep ==
  ASSUME NetTypeOK, NodesNeverAbort, NEW packet \in Seq(Byte),
         readHeader(packet).sensorId \in Sensors,
         send(packet)
  PROVE  /\ socket' \in Seq(Seq(Byte)) /\ delayed' \in Seq(Seq(Byte))
         /\ ToSet(socket') \subseteq ToSet(socket) \cup {packet}
         /\ ToSet(delayed') \subseteq ToSet(delayed) \cup {packet}
         /\ missed' \in [Sensors -> Nat]
         /\ faults' \in Faults
         /\ aborted' \in BOOLEAN
         /\ faults'.strays = faults.strays
         /\ NodesNeverAbort'
<1>1. socket \in Seq(Seq(Byte)) /\ delayed \in Seq(Seq(Byte))
  BY DEF NetTypeOK
<1>2. aborted \in BOOLEAN
  BY DEF NetTypeOK
<1>3. missed \in [Sensors -> Nat]
  BY DEF NetTypeOK
<1>4. faults \in Faults
  BY DEF NetTypeOK, Faults
<1>5. /\ Append(socket, packet) \in Seq(Seq(Byte))
      /\ Append(delayed, packet) \in Seq(Seq(Byte))
      /\ ToSet(Append(socket, packet)) = ToSet(socket) \cup {packet}
      /\ ToSet(Append(delayed, packet)) = ToSet(delayed) \cup {packet}
  BY <1>1, ToSetOfAppend
<1>6. CASE arrive(packet)
  BY <1>1, <1>2, <1>5, <1>6, <1>3, <1>4 DEF arrive, NodesNeverAbort
<1>7. CASE lose(packet)
  <2>1. missed' \in [Sensors -> Nat]
    <3>1. \/ missed' = missed
          \/ missed' = [missed EXCEPT ![readHeader(packet).sensorId] = @ + 1]
      BY <1>7 DEF lose
    <3> HIDE DEF readHeader
    <3>2. PICK id \in Sensors : id = readHeader(packet).sensorId
      OBVIOUS
    <3> QED
      BY <1>3, <3>1, <3>2
  <2>2. faults' = [faults EXCEPT !.lost = @ + 1]
    BY <1>7 DEF lose
  <2>3. /\ faults' \in Faults /\ faults'.strays = faults.strays
        /\ faults'.unsent = faults.unsent
    BY <1>4, <2>2, FaultCounted
  <2>4. aborted' = aborted /\ socket' = socket /\ delayed' = delayed
    BY <1>7 DEF lose
  <2>5. NodesNeverAbort'
    BY <2>3, <2>4 DEF NodesNeverAbort
  <2> QED
    BY <1>1, <1>2, <2>1, <2>3, <2>4, <2>5
<1>8. CASE duplicate(packet) \/ delay(packet)
  <2>1. faults' = [faults EXCEPT !.moved = @ + 1]
    BY <1>8 DEF duplicate, delay
  <2>2. /\ faults' \in Faults /\ faults'.strays = faults.strays
        /\ faults'.unsent = faults.unsent
    BY <1>4, <2>1, FaultCounted
  <2>3. /\ aborted' = aborted /\ missed' = missed
        /\ socket' = socket \/ socket' = Append(socket, packet)
        /\ delayed' = Append(delayed, packet)
    BY <1>8 DEF duplicate, delay
  <2>4. NodesNeverAbort'
    BY <2>2, <2>3 DEF NodesNeverAbort
  <2> QED
    BY <1>1, <1>2, <1>5, <1>3, <2>2, <2>3, <2>4
<1>9. CASE sendFails
  <2>1. faults' = [faults EXCEPT !.unsent = @ + 1]
    BY <1>9 DEF sendFails
  <2>2. /\ faults' \in Faults /\ faults'.strays = faults.strays
        /\ faults'.unsent = faults.unsent + 1
        /\ faults.strays \in Nat /\ faults.unsent \in Nat
    BY <1>4, <2>1, FaultCounted
  <2>3. NodesNeverAbort'
    BY <2>2 DEF NodesNeverAbort
  <2>4. aborted' = TRUE /\ missed' = missed /\ socket' = socket /\ delayed' = delayed
    BY <1>9 DEF sendFails
  <2> QED
    BY <1>1, <1>3, <2>2, <2>3, <2>4
<1> QED
  BY <1>6, <1>7, <1>8, <1>9 DEF send

\* Telemetry stores its reading in the entry of its sensor and nowhere else.
LEMMA ReadingStored ==
  ASSUME TypeOK, NEW id \in Sensors, NEW reading \in Readings,
         updateSensorInfo(id, reading), NEW i \in DOMAIN sensors'
  PROVE  \/ /\ i \in DOMAIN sensors
            /\ sensors'[i].lastTelemetry = sensors[i].lastTelemetry
         \/ i = id /\ sensors'[i].lastTelemetry = reading
<1>1. sensors' = Stored(id, AfterTelemetry(id, reading))
  BY DEF updateSensorInfo
<1>2. Entry(id) \in SensorInfo
  BY EntryType
<1>3. AfterTelemetry(id, reading).lastTelemetry = reading
  BY <1>2 DEF AfterTelemetry, SensorInfo
<1> QED
  BY <1>1, <1>3 DEF Stored

\* Nothing else of the gateway touches a reading.
LEMMA ReadingsKept ==
  ASSUME TypeOK, [Next]_vars, NEW i \in DOMAIN sensors',
         telemetryPacketsReceived' = telemetryPacketsReceived
  PROVE  \/ /\ i \in DOMAIN sensors
            /\ sensors'[i].lastTelemetry = sensors[i].lastTelemetry
         \/ i \notin DOMAIN sensors /\ sensors'[i].lastTelemetry = NoReading
<1>1. ASSUME NEW id \in Sensors, NEW reading \in Readings
      PROVE  ~updateSensorInfo(id, reading)
  BY DEF updateSensorInfo, TypeOK
<1>2. ASSUME NEW id \in Sensors, handleHeartbeat(id)
      PROVE  \/ /\ i \in DOMAIN sensors
                /\ sensors'[i].lastTelemetry = sensors[i].lastTelemetry
             \/ i \notin DOMAIN sensors /\ sensors'[i].lastTelemetry = NoReading
  <2>1. sensors' = Stored(id, AfterHeartbeat(id))
    BY <1>2 DEF handleHeartbeat
  <2>2. Entry(id) \in SensorInfo
    BY EntryType
  <2>3. AfterHeartbeat(id).lastTelemetry = Entry(id).lastTelemetry
    BY <2>2 DEF AfterHeartbeat, SensorInfo
  <2> QED
    BY <2>1, <2>3 DEF Stored, Entry, FreshInfo
<1>3. CASE detectOfflineSensors
  BY <1>3 DEF detectOfflineSensors, TypeOK, SensorInfo
<1>4. CASE UNCHANGED sensors
  BY <1>4
<1> QED
  BY <1>1, <1>2, <1>3, <1>4
     DEF Next, handlePacket, unknownMessageType, readCurrentTime, Tick,
         SetBack, vars

\* The variables of the sending threads keep their types.
LEMMA ThreadStep ==
  ASSUME NetTypeOK, [NetNext]_netVars
  PROVE  /\ enabled' \subseteq Sensors
         /\ beatTodo' \subseteq Sensors /\ tickTodo' \subseteq Sensors
         /\ beatWake' \in Nat /\ tickWake' \in Nat
         /\ initial' \in BOOLEAN
<1>1. clock \in Nat
  <2>1. TypeOK
    BY DEF NetTypeOK
  <2> QED
    BY <2>1 DEF TypeOK
<1>2. /\ enabled \subseteq Sensors
      /\ beatTodo \subseteq Sensors /\ tickTodo \subseteq Sensors
      /\ beatWake \in Nat /\ tickWake \in Nat
  BY DEF NetTypeOK
<1>3. initial \in BOOLEAN
  BY DEF NetTypeOK
<1>4. CASE UNCHANGED threads
  BY <1>2, <1>3, <1>4 DEF threads
<1>5. CASE wakeHeartbeats \/ wakeTelemetry
  BY <1>2, <1>3, <1>5 DEF wakeHeartbeats, wakeTelemetry
<1>6. CASE sendHeartbeat
  <2>1. /\ beatTodo' \subseteq Sensors /\ enabled' = enabled
        /\ tickTodo' = tickTodo /\ tickWake' = tickWake
    BY <1>2, <1>6 DEF sendHeartbeat
  <2>2. initial' \in BOOLEAN
    BY <1>3, <1>6 DEF sendHeartbeat
  <2>3. beatWake' \in {beatWake, clock, clock + HeartbeatInterval}
    BY <1>6 DEF sendHeartbeat
  <2> QED
    BY <1>1, <1>2, <2>1, <2>2, <2>3, NetworkAssumption
<1>7. ASSUME NEW m \in Measurements, tick(m)
      PROVE  /\ tickTodo' \subseteq Sensors /\ tickWake' \in Nat
             /\ UNCHANGED <<initial, enabled, beatTodo, beatWake>>
  <2>1. tickWake' \in {tickWake, clock + TelemetryInterval}
    BY <1>7 DEF tick
  <2>2. TelemetryInterval \in Nat
    BY NetworkAssumption
  <2>3. tickTodo' \subseteq Sensors
    BY <1>2, <1>7 DEF tick
  <2>4. UNCHANGED <<initial, enabled, beatTodo, beatWake>>
    BY <1>7 DEF tick
  <2> QED
    BY <1>1, <1>2, <2>1, <2>2, <2>3, <2>4
<1>8. ASSUME NEW id \in Recovering, recoverSensor(id)
      PROVE  /\ enabled' \subseteq Sensors
             /\ UNCHANGED <<initial, beatTodo, beatWake, tickTodo, tickWake>>
  BY <1>2, <1>8, NetworkAssumption DEF recoverSensor
<1> QED
  BY <1>2, <1>3, <1>4, <1>5, <1>6, <1>7, <1>8
     DEF NetNext, heartbeatThread, telemetryThread, recovery, deliverDelayed,
         deliver, receivePacket, watchdogStep, passTime, stray, netVars

\* A packet that was on its way stays known: sending adds, and strays are not
\* forgotten.
LEMMA KnownStays ==
  ASSUME sent \subseteq sent', faults.strays > 0 => faults'.strays > 0,
         NEW packet, Known(packet)
  PROVE  Known(packet)'
BY DEF Known, NodePackets

ChannelOK ==
  /\ socket \in Seq(Seq(Byte)) /\ delayed \in Seq(Seq(Byte))
  /\ missed \in [Sensors -> Nat]
  /\ faults \in Faults
  /\ aborted \in BOOLEAN

\* Sending a packet of a node.
LEMMA NodeSends ==
  ASSUME NetInv, NEW packet \in Seq(Byte), packet \in NodePackets',
         readHeader(packet).sensorId \in Sensors, send(packet),
         sent \subseteq sent'
  PROVE  ChannelOK' /\ TrafficKnown' /\ NodesNeverAbort'
<1>1. NetTypeOK /\ TrafficKnown /\ NodesNeverAbort
  BY DEF NetInv
<1>2. /\ socket' \in Seq(Seq(Byte)) /\ delayed' \in Seq(Seq(Byte))
      /\ ToSet(socket') \subseteq ToSet(socket) \cup {packet}
      /\ ToSet(delayed') \subseteq ToSet(delayed) \cup {packet}
      /\ missed' \in [Sensors -> Nat]
      /\ faults' \in Faults
      /\ aborted' \in BOOLEAN
      /\ faults'.strays = faults.strays
      /\ NodesNeverAbort'
  BY <1>1, SendStep
<1>3. Known(packet)'
  BY DEF Known
<1>4. \A p : Known(p) => Known(p)'
  BY <1>2, KnownStays
<1>5. TrafficKnown'
  BY <1>1, <1>2, <1>3, <1>4 DEF TrafficKnown
<1> QED
  BY <1>2, <1>5 DEF ChannelOK

\* Every step of threads and network keeps the traffic known.
LEMMA ChannelStep ==
  ASSUME NetInv, [NetNext]_netVars
  PROVE  ChannelOK' /\ SentByNodes' /\ TrafficKnown' /\ NodesNeverAbort'
<1>1. NetTypeOK /\ SentByNodes /\ TrafficKnown /\ NodesNeverAbort
  BY DEF NetInv
<1>2. ChannelOK
  BY <1>1 DEF NetTypeOK, ChannelOK, Faults
<1>3. clock \in 1 .. MaxTime
  BY <1>1 DEF NetTypeOK, TypeOK
<1>4. CASE UNCHANGED <<channel, sent, missed, faults, aborted>>
  BY <1>1, <1>2, <1>4 DEF channel, ChannelOK, SentByNodes, TrafficKnown, Known,
                          NodePackets, NodesNeverAbort
<1>5. CASE sendHeartbeat
  <2> DEFINE id == Min(beatTodo)
             h == Heartbeat(id)
  <2>1. id \in Sensors
    BY <1>1, <1>5, NextOfRound DEF sendHeartbeat, NetTypeOK
  <2>2. sent' = sent
    BY <1>5 DEF sendHeartbeat
  <2>3. CASE send(serializeHeartbeat(h))
    <3>1. h \in Beats
      BY <1>3, <2>1 DEF Heartbeat, Beats
    <3> HIDE DEF h
    <3>2. /\ serializeHeartbeat(h) \in Seq(Byte)
          /\ readHeader(serializeHeartbeat(h)).sensorId \in Sensors
      BY <3>1, BeatPacket, BeatFacts
    <3>3. serializeHeartbeat(h) \in NodePackets'
      BY <3>1 DEF NodePackets
    <3>4. ChannelOK' /\ TrafficKnown' /\ NodesNeverAbort'
      BY <2>2, <2>3, <3>2, <3>3, NodeSends
    <3> QED
      BY <1>1, <2>2, <3>4 DEF SentByNodes
  <2>4. CASE UNCHANGED <<channel, missed, faults, aborted>>
    BY <1>4, <2>2, <2>4
  <2> QED
    BY <1>5, <2>3, <2>4 DEF sendHeartbeat
<1>6. ASSUME NEW m \in Measurements, tick(m)
      PROVE  ChannelOK' /\ SentByNodes' /\ TrafficKnown' /\ NodesNeverAbort'
  <2> DEFINE id == Min(tickTodo)
             r == Telemetry(id, m)
  <2>1. id \in Sensors
    BY <1>1, <1>6, NextOfRound DEF tick, NetTypeOK
  <2>2. r \in Sendable
    BY <1>3, <2>1 DEF Telemetry, Sendable
  <2>3. send(serializeTelemetry(r)) /\ sent' = sent \cup {r}
    BY <1>6 DEF tick
  <2> HIDE DEF r
  <2>4. SentByNodes'
    BY <1>1, <2>2, <2>3 DEF SentByNodes
  <2>5. /\ serializeTelemetry(r) \in Seq(Byte)
        /\ readHeader(serializeTelemetry(r)).sensorId \in Sensors
    BY <2>2, ReadingPacket, SendableFacts
  <2>6. serializeTelemetry(r) \in NodePackets'
    BY <2>3 DEF NodePackets
  <2>7. ChannelOK' /\ TrafficKnown' /\ NodesNeverAbort'
    BY <2>3, <2>5, <2>6, NodeSends
  <2> QED
    BY <2>4, <2>7
<1>7. CASE receivePacket
  <2>1. socket # <<>> /\ socket' = Tail(socket) /\ delayed' = delayed
        /\ faults' = faults /\ sent' = sent
    BY <1>7 DEF receivePacket, threads
  <2>2. /\ socket' \in Seq(Seq(Byte)) /\ ToSet(socket') \subseteq ToSet(socket)
        /\ Head(socket) \in ToSet(socket)
    BY <1>2, <2>1, ToSetOfTail DEF ChannelOK
  <2>3. SentByNodes' /\ TrafficKnown'
    BY <1>1, <2>1, <2>2 DEF SentByNodes, TrafficKnown, Known, NodePackets
  <2> DEFINE packet == Head(socket)
  <2>4. Known(packet)
    BY <1>1, <2>2 DEF TrafficKnown
  <2> HIDE DEF packet
  <2>5. CASE /\ HeaderThrows(packet) \/ (receiveTelemetry(packet)
                                          /\ TelemetryThrows(packet))
             /\ throw
    <3>1. faults.strays > 0
      BY <1>1, <2>4, <2>5, Received DEF receiveTelemetry
    <3>2. aborted' = TRUE /\ missed' = missed
      BY <2>5 DEF throw
    <3>3. NodesNeverAbort'
      BY <1>2, <2>1, <3>1 DEF NodesNeverAbort, ChannelOK, Faults
    <3> QED
      BY <1>2, <2>1, <2>2, <2>3, <3>2, <3>3 DEF ChannelOK
  <2>6. CASE ~HeaderThrows(packet) /\ receiveHeartbeat(packet)
    <3> DEFINE id == deserializeHeartbeat(packet).header.sensorId
    <3>1. id \in Sensors
      BY <1>1, <2>4, <2>6, Received DEF receiveHeartbeat
    <3>2. missed' = [missed EXCEPT ![id] = 0] /\ aborted' = aborted
      BY <2>6 DEF receiveHeartbeat
    <3> HIDE DEF id
    <3>3. missed' \in [Sensors -> Nat]
      BY <1>2, <3>2 DEF ChannelOK
    <3>4. NodesNeverAbort'
      BY <1>1, <2>1, <3>2 DEF NodesNeverAbort
    <3> QED
      BY <1>2, <2>1, <2>2, <2>3, <3>2, <3>3, <3>4 DEF ChannelOK
  <2>7. CASE UNCHANGED <<missed, aborted>>
    <3>1. NodesNeverAbort'
      BY <1>1, <2>1, <2>7 DEF NodesNeverAbort
    <3> QED
      BY <1>2, <2>1, <2>2, <2>3, <2>7, <3>1 DEF ChannelOK
  <2> QED
    BY <1>7, <2>5, <2>6, <2>7
       DEF receivePacket, packet, receiveTelemetry, receiveUnknown
<1>8. ASSUME NEW i \in DOMAIN delayed, deliver(i)
      PROVE  ChannelOK' /\ SentByNodes' /\ TrafficKnown' /\ NodesNeverAbort'
  <2>1. /\ socket' = Append(socket, delayed[i])
        /\ delayed' = RemoveAt(delayed, i)
        /\ UNCHANGED <<sent, missed, faults, aborted>>
    BY <1>8 DEF deliver, threads
  <2>2. /\ delayed' \in Seq(Seq(Byte)) /\ ToSet(delayed') \subseteq ToSet(delayed)
        /\ delayed[i] \in ToSet(delayed) /\ delayed[i] \in Seq(Byte)
    BY <1>2, <2>1, ToSetOfRemoveAt DEF ChannelOK
  <2>3. /\ socket' \in Seq(Seq(Byte))
        /\ ToSet(socket') = ToSet(socket) \cup {delayed[i]}
    BY <1>2, <2>1, <2>2, ToSetOfAppend DEF ChannelOK
  <2>4. TrafficKnown'
    BY <1>1, <2>1, <2>2, <2>3 DEF TrafficKnown, Known, NodePackets
  <2>5. SentByNodes' /\ NodesNeverAbort'
    BY <1>1, <2>1 DEF SentByNodes, NodesNeverAbort
  <2> QED
    BY <1>2, <2>1, <2>2, <2>3, <2>4, <2>5 DEF ChannelOK
<1>9. ASSUME NEW packet \in Strays, stray(packet)
      PROVE  ChannelOK' /\ SentByNodes' /\ TrafficKnown' /\ NodesNeverAbort'
  <2>1. /\ socket = <<>> /\ socket' = <<packet>>
        /\ faults' = [faults EXCEPT !.strays = @ + 1]
        /\ UNCHANGED <<delayed, sent, missed, aborted>>
    BY <1>9 DEF stray, threads
  <2>2. /\ faults' \in Faults /\ faults'.strays = faults.strays + 1
        /\ faults.strays \in Nat /\ faults.unsent \in Nat
        /\ faults'.unsent = faults.unsent
    BY <1>2, <2>1, FaultCounted DEF ChannelOK
  <2>3. packet \in Seq(Byte)
    BY NetworkAssumption
  <2>4. socket' \in Seq(Seq(Byte)) /\ ToSet(socket') = {packet}
    BY <2>1, <2>3 DEF ToSet
  <2>5. Known(packet)'
    BY <2>2 DEF Known
  <2>6. \A p : Known(p) => Known(p)'
    BY <2>1, <2>2, KnownStays
  <2>7. TrafficKnown'
    BY <1>1, <2>1, <2>4, <2>5, <2>6 DEF TrafficKnown
  <2>8. SentByNodes' /\ NodesNeverAbort'
    BY <1>1, <2>1, <2>2 DEF SentByNodes, NodesNeverAbort
  <2> QED
    BY <1>2, <2>1, <2>2, <2>4, <2>7, <2>8 DEF ChannelOK
<1> QED
  BY <1>4, <1>5, <1>6, <1>7, <1>8, <1>9
     DEF NetNext, heartbeatThread, wakeHeartbeats, telemetryThread, wakeTelemetry,
         recovery, recoverSensor, deliverDelayed, watchdogStep, passTime, threads,
         netVars
-----------------------------------------------------------------------------
\* What the registry holds was sent.

\* The reading is the i-th datagram that waits in the socket.
Waiting(i, reading) ==
  i \in DOMAIN socket /\ socket[i] = serializeTelemetry(reading)

\* The UDP thread counts a telemetry packet: it took a reading that was sent from
\* the front of the socket.
LEMMA TelemetryReceived ==
  ASSUME NetInv, [NetNext]_netVars,
         telemetryPacketsReceived' # telemetryPacketsReceived
  PROVE  \E message \in sent :
           /\ receivePacket
           /\ Waiting(1, message)
           /\ updateSensorInfo(message.header.sensorId, message)
<1> DEFINE packet == Head(socket)
           message == deserializeTelemetry(packet)
<1>1. SentByNodes /\ TrafficKnown /\ socket \in Seq(Seq(Byte))
  BY DEF NetInv, NetTypeOK
<1>2. /\ receivePacket
      /\ ~HeaderThrows(packet) /\ ~TelemetryThrows(packet)
      /\ peekMessageType(packet) = TELEMETRY
      /\ updateSensorInfo(message.header.sensorId, message)
  BY DEF NetNext, netVars, vars, threads, heartbeatThread, wakeHeartbeats,
         sendHeartbeat, telemetryThread, wakeTelemetry, tick, recovery,
         recoverSensor, receivePacket, watchdogStep, passTime, deliverDelayed,
         deliver, stray, receiveTelemetry, receiveHeartbeat, receiveUnknown,
         throw, handleHeartbeat, unknownMessageType, Tick, readCurrentTime,
         detectOfflineSensors
<1>3. socket # <<>>
  BY <1>2 DEF receivePacket
<1>4. packet \in ToSet(socket) /\ packet = socket[1] /\ 1 \in DOMAIN socket
  BY <1>1, <1>3, ToSetOfTail
<1>5. Known(packet)
  BY <1>1, <1>4 DEF TrafficKnown
<1> HIDE DEF packet
<1>6. message \in sent /\ packet = serializeTelemetry(message)
  BY <1>1, <1>2, <1>5, Received
<1> HIDE DEF message
<1> QED
  BY <1>2, <1>4, <1>6 DEF Waiting

LEMMA StoredStep ==
  ASSUME NetInv, [NetNext]_netVars
  PROVE  StoredWasSent'
<1>1. NetTypeOK /\ SentByNodes /\ TrafficKnown /\ StoredWasSent
  BY DEF NetInv
<1>2. TypeOK /\ socket \in Seq(Seq(Byte))
  BY <1>1 DEF NetTypeOK
<1>3. sent \subseteq sent'
  BY DEF NetNext, netVars, threads, heartbeatThread, wakeHeartbeats,
         sendHeartbeat, telemetryThread, wakeTelemetry, tick, recovery,
         recoverSensor, receivePacket, watchdogStep, passTime, deliverDelayed,
         deliver, stray
<1>4. SUFFICES ASSUME NEW i \in DOMAIN sensors',
                      sensors'[i].lastTelemetry # NoReading
               PROVE  /\ sensors'[i].lastTelemetry \in sent'
                      /\ sensors'[i].lastTelemetry.header.sensorId = i
  BY DEF StoredWasSent
<1>5. ASSUME i \in DOMAIN sensors,
             sensors'[i].lastTelemetry = sensors[i].lastTelemetry
      PROVE  /\ sensors'[i].lastTelemetry \in sent'
             /\ sensors'[i].lastTelemetry.header.sensorId = i
  BY <1>1, <1>3, <1>4, <1>5 DEF StoredWasSent
<1>6. CASE telemetryPacketsReceived' = telemetryPacketsReceived
  <2>1. [Next]_vars
    BY NetworkKeepsGateway
  <2> QED
    BY <1>2, <1>4, <1>5, <1>6, <2>1, ReadingsKept
<1>7. CASE telemetryPacketsReceived' # telemetryPacketsReceived
  <2>1. PICK message \in sent :
          updateSensorInfo(message.header.sensorId, message)
    BY <1>7, TelemetryReceived
  <2>2. message \in Readings /\ message.header.sensorId \in Sensors
    BY <1>1, SendableFacts DEF SentByNodes
  <2>3. \/ /\ i \in DOMAIN sensors
           /\ sensors'[i].lastTelemetry = sensors[i].lastTelemetry
        \/ i = message.header.sensorId /\ sensors'[i].lastTelemetry = message
    BY <1>2, <2>1, <2>2, ReadingStored
  <2> QED
    BY <1>3, <1>5, <2>1, <2>3
<1> QED
  BY <1>6, <1>7

\* At the start nothing was sent.
LEMMA NetStart == NetInit => NetInv
<1> SUFFICES ASSUME NetInit PROVE NetInv
  OBVIOUS
<1>1. TypeOK /\ DOMAIN sensors = {}
  BY DEF NetInit, Init, TypeOK
<1>2. socket = <<>> /\ delayed = <<>> /\ sent = {}
  BY DEF NetInit
<1>3. initial \in BOOLEAN /\ aborted \in BOOLEAN
  BY DEF NetInit
<1>4. /\ enabled \subseteq Sensors /\ beatTodo \subseteq Sensors
      /\ tickTodo \subseteq Sensors
      /\ beatWake \in Nat /\ tickWake \in Nat
  BY DEF NetInit
<1>5. missed \in [Sensors -> Nat] /\ faults \in Faults
  BY DEF NetInit, Faults
<1>6. NetTypeOK
  BY <1>1, <1>2, <1>3, <1>4, <1>5 DEF NetTypeOK, Faults
<1>7. SentByNodes /\ TrafficKnown
  BY <1>2 DEF SentByNodes, TrafficKnown, ToSet
<1>8. StoredWasSent
  BY <1>1 DEF StoredWasSent
<1>9. NodesNeverAbort
  BY DEF NetInit, NodesNeverAbort
<1> QED
  BY <1>6, <1>7, <1>8, <1>9 DEF NetInv

LEMMA NetStep ==
  ASSUME NetInv, [NetNext]_netVars
  PROVE  NetInv'
<1>1. NetTypeOK
  BY DEF NetInv
<1>2. TypeOK'
  <2>1. TypeOK
    BY <1>1 DEF NetTypeOK
  <2> QED
    BY <2>1, NetworkKeepsGateway, TypeStep
<1>3. /\ enabled' \subseteq Sensors
      /\ beatTodo' \subseteq Sensors /\ tickTodo' \subseteq Sensors
      /\ beatWake' \in Nat /\ tickWake' \in Nat
  BY <1>1, ThreadStep
<1>4. initial' \in BOOLEAN
  BY <1>1, ThreadStep
<1>5. ChannelOK' /\ SentByNodes' /\ TrafficKnown' /\ NodesNeverAbort'
  BY ChannelStep
<1>6. sent' \subseteq Readings
  BY <1>5, SendableFacts DEF SentByNodes
<1>7. NetTypeOK'
  BY <1>2, <1>3, <1>4, <1>5, <1>6 DEF NetTypeOK, ChannelOK, Faults
<1> QED
  BY <1>5, <1>7, StoredStep DEF NetInv

LEMMA NetInvariant == NetSpec => []NetInv
<1>1. NetInit => NetInv
  BY NetStart
<1>2. NetInv /\ [NetNext]_netVars => NetInv'
  BY NetStep
<1> QED
  BY <1>1, <1>2, PTL DEF NetSpec

-----------------------------------------------------------------------------
\* The theorems.

\* Every variable of threads and network keeps its type.
THEOREM NetTypeCorrect == NetSpec => []NetTypeOK
<1>1. NetInv => NetTypeOK
  BY DEF NetInv
<1> QED
  BY <1>1, NetInvariant, PTL

\* Whatever the network loses, repeats, reorders or adds, every reading in the
\* registry of the gateway was sent by the node it is stored for, field by field.
THEOREM ReadingsWereSent == NetSpec => []StoredWasSent
<1>1. NetInv => StoredWasSent
  BY DEF NetInv
<1> QED
  BY <1>1, NetInvariant, PTL

\* The process is aborted only after a stray datagram or a failed sendto, never
\* by a packet of a node.
THEOREM AbortsHaveCause == NetSpec => []NodesNeverAbort
<1>1. NetInv => NodesNeverAbort
  BY DEF NetInv
<1> QED
  BY <1>1, NetInvariant, PTL

\* Threads, wire format and network together implement the gateway.
THEOREM NetworkImplementsGateway == NetSpec => GatewaySpec
<1>1. NetInit => Init
  BY DEF NetInit
<1>2. NetInv /\ [NetNext]_netVars => [Next]_vars
  BY NetworkKeepsGateway
<1>3. NetSpec => Spec
  BY <1>1, <1>2, NetInvariant, PTL DEF NetSpec, Spec
<1> QED
  BY <1>3 DEF GatewaySpec
-----------------------------------------------------------------------------
\* What is proved of the gateway holds of the network: the threads that feed it
\* and the network between them cannot break it.

\* No sensor whose heartbeats stopped for longer than the timeout is ONLINE
\* after a sweep, whatever the network did (detectOfflineSensors).
THEOREM NetworkOnlineFresh ==
  ASSUME ~ClockSteps
  PROVE  NetSpec => []OnlineMeansFresh
<1>1. NetSpec => Spec
  BY NetworkImplementsGateway DEF GatewaySpec
<1> QED
  BY <1>1, OnlineFresh, PTL

\* No age is shown that did not pass while the gateway was running.
THEOREM NetworkAgesAreReal ==
  ASSUME ~ClockSteps
  PROVE  NetSpec => []AgeIsReal
<1>1. NetSpec => Spec
  BY NetworkImplementsGateway DEF GatewaySpec
<1> QED
  BY <1>1, AgesAreReal, PTL

\* A sensor is given up only when it was silent, or its heartbeat overtook the
\* sweep between reading the clock and taking the lock.
THEOREM NetworkOfflineJustified ==
  ASSUME ~ClockSteps
  PROVE  NetSpec => OfflineSilentOrOvertaken
<1>1. NetSpec => Spec
  BY NetworkImplementsGateway DEF GatewaySpec
<1> QED
  BY <1>1, OfflineJustified, PTL

-----------------------------------------------------------------------------
\* The order of readings.  Nothing in the gateway compares timestamps, so it is
\* the order of the socket that keeps the registry from going back.

MadeAt(reading) == reading.header.timestamp_ms

InOrder ==
  faults.moved = 0 =>
    /\ delayed = <<>>
    /\ \A i \in DOMAIN socket, r \in Sendable :
         Waiting(i, r) => MadeAt(r) <= clock
    /\ \A i, j \in DOMAIN socket, r, q \in Sendable :
         i < j /\ Waiting(i, r) /\ Waiting(j, q) => MadeAt(r) <= MadeAt(q)
    /\ \A id \in DOMAIN sensors :
         sensors[id].lastTelemetry # NoReading =>
           /\ MadeAt(sensors[id].lastTelemetry) <= clock
           /\ \A i \in DOMAIN socket, r \in Sendable :
                Waiting(i, r) => MadeAt(sensors[id].lastTelemetry) <= MadeAt(r)

\* A packet of a reading is neither a heartbeat nor a stray, and of no other
\* reading.
LEMMA PacketsDiffer ==
  ASSUME NEW r \in Sendable
  PROVE  /\ \A h \in Beats : serializeHeartbeat(h) # serializeTelemetry(r)
         /\ \A packet \in Strays : packet # serializeTelemetry(r)
         /\ \A q \in Sendable : serializeTelemetry(q) = serializeTelemetry(r) => q = r
<1>1. ASSUME NEW h \in Beats PROVE serializeHeartbeat(h) # serializeTelemetry(r)
  BY BeatPacket, ReadingPacket, TypesDiffer
<1>2. ASSUME NEW packet \in Strays PROVE packet # serializeTelemetry(r)
  <2>1. \/ HeaderThrows(packet)
        \/ peekMessageType(packet) = TELEMETRY /\ TelemetryThrows(packet)
        \/ peekMessageType(packet) # TELEMETRY
    BY <1>2, StrayAssumption
  <2> QED
    BY <2>1, ReadingPacket
<1>3. ASSUME NEW q \in Sendable, serializeTelemetry(q) = serializeTelemetry(r)
      PROVE  q = r
  BY <1>3, ReadingPacket
<1> QED
  BY <1>1, <1>2, <1>3

\* The order is kept by a step that drops the first k datagrams, adds at most a
\* reading made now at the end, and stores at most the first one.
LEMMA OrderKept ==
  ASSUME InOrder, faults.moved = 0, clock \in Nat, clock' \in Nat,
         clock <= clock', delayed' = <<>>, NEW k \in {0, 1},
         NEW n \in Nat, DOMAIN socket' = 1 .. n,
         \A i \in DOMAIN socket', r \in Sendable :
           Waiting(i, r)' => \/ Waiting(i + k, r)
                             \/ i = n /\ MadeAt(r) = clock,
         \A id \in DOMAIN sensors' :
           \/ sensors'[id].lastTelemetry = NoReading
           \/ /\ id \in DOMAIN sensors
              /\ sensors[id].lastTelemetry # NoReading
              /\ sensors[id].lastTelemetry \in Sendable
              /\ sensors'[id].lastTelemetry = sensors[id].lastTelemetry
           \/ /\ k = 1 /\ sensors'[id].lastTelemetry \in Sendable
              /\ Waiting(1, sensors'[id].lastTelemetry)
  PROVE  InOrder'
<1>1. \A r \in Sendable : MadeAt(r) \in Nat
  BY SendableFacts DEF MadeAt
<1>2. ASSUME NEW i \in DOMAIN socket', NEW r \in Sendable, Waiting(i, r)'
      PROVE  MadeAt(r) <= clock /\ MadeAt(r) <= clock'
  <2>1. MadeAt(r) <= clock
    <3>1. CASE Waiting(i + k, r)
      BY <3>1 DEF InOrder, Waiting
    <3>2. CASE i = n /\ MadeAt(r) = clock
      BY <3>2
    <3> QED
      BY <1>2, <3>1, <3>2
  <2> QED
    BY <1>1, <2>1
<1>3. ASSUME NEW i \in DOMAIN socket', NEW j \in DOMAIN socket',
             NEW r \in Sendable, NEW q \in Sendable,
             i < j, Waiting(i, r)', Waiting(j, q)'
      PROVE  MadeAt(r) <= MadeAt(q)
  <2>1. i # n
    BY <1>3
  <2>2. Waiting(i + k, r)
    BY <1>3, <2>1
  <2>3. CASE Waiting(j + k, q)
    <3>1. i + k < j + k
      BY <1>3
    <3> QED
      BY <2>2, <2>3, <3>1 DEF InOrder, Waiting
  <2>4. CASE MadeAt(q) = clock
    BY <1>2, <1>3, <2>4
  <2> QED
    BY <1>3, <2>3, <2>4
<1>4. ASSUME NEW id \in DOMAIN sensors',
             sensors'[id].lastTelemetry # NoReading
      PROVE  /\ MadeAt(sensors'[id].lastTelemetry) <= clock'
             /\ \A i \in DOMAIN socket', r \in Sendable :
                  Waiting(i, r)' => MadeAt(sensors'[id].lastTelemetry) <= MadeAt(r)
  <2> DEFINE stored == sensors'[id].lastTelemetry
  <2>1. CASE /\ id \in DOMAIN sensors
             /\ sensors[id].lastTelemetry # NoReading
             /\ sensors[id].lastTelemetry \in Sendable
             /\ stored = sensors[id].lastTelemetry
    <3>1. MadeAt(stored) \in Nat /\ MadeAt(stored) <= clock
      BY <1>1, <2>1 DEF InOrder
    <3>2. ASSUME NEW i \in DOMAIN socket', NEW r \in Sendable, Waiting(i, r)'
          PROVE  MadeAt(stored) <= MadeAt(r)
      <4>1. CASE Waiting(i + k, r)
        BY <2>1, <4>1 DEF InOrder, Waiting
      <4>2. CASE MadeAt(r) = clock
        BY <3>1, <4>2
      <4> QED
        BY <3>2, <4>1, <4>2
    <3>3. MadeAt(stored) <= clock'
      BY <3>1
    <3> QED
      BY <3>2, <3>3
  <2>2. CASE k = 1 /\ stored \in Sendable /\ Waiting(1, stored)
    <3>1. MadeAt(stored) \in Nat /\ MadeAt(stored) <= clock
      BY <1>1, <2>2 DEF InOrder, Waiting
    <3>2. ASSUME NEW i \in DOMAIN socket', NEW r \in Sendable, Waiting(i, r)'
          PROVE  MadeAt(stored) <= MadeAt(r)
      <4>1. CASE Waiting(i + k, r)
        <5>1. 1 < i + k
          BY <2>2
        <5> QED
          BY <2>2, <4>1, <5>1 DEF InOrder, Waiting
      <4>2. CASE MadeAt(r) = clock
        BY <3>1, <4>2
      <4> QED
        BY <3>2, <4>1, <4>2
    <3>3. MadeAt(stored) <= clock'
      BY <3>1
    <3> QED
      BY <3>2, <3>3
  <2> QED
    BY <1>4, <2>1, <2>2
<1> QED
  BY <1>2, <1>3, <1>4 DEF InOrder
\* The entries of the registry: kept, or overwritten with the reading that was
\* first in the socket.
LEMMA RegistryStep ==
  ASSUME NetInv, [NetNext]_netVars, NEW id \in DOMAIN sensors'
  PROVE  LET new == sensors'[id].lastTelemetry
         IN  \/ /\ new = NoReading
                /\ id \in DOMAIN sensors => sensors[id].lastTelemetry = NoReading
             \/ /\ id \in DOMAIN sensors
                /\ sensors[id].lastTelemetry # NoReading
                /\ sensors[id].lastTelemetry \in Sendable
                /\ new = sensors[id].lastTelemetry
             \/ receivePacket /\ new \in Sendable /\ Waiting(1, new)
<1>1. NetTypeOK /\ SentByNodes /\ TrafficKnown /\ StoredWasSent
  BY DEF NetInv
<1>2. TypeOK /\ socket \in Seq(Seq(Byte))
  BY <1>1 DEF NetTypeOK
<1>3. ASSUME id \in DOMAIN sensors, sensors[id].lastTelemetry # NoReading
      PROVE  sensors[id].lastTelemetry \in Sendable
  BY <1>1, <1>3 DEF StoredWasSent, SentByNodes
<1>4. CASE telemetryPacketsReceived' = telemetryPacketsReceived
  <2>1. [Next]_vars
    BY NetworkKeepsGateway
  <2> QED
    BY <1>2, <1>3, <1>4, <2>1, ReadingsKept
<1>5. CASE telemetryPacketsReceived' # telemetryPacketsReceived
  <2>1. PICK message \in sent :
          /\ receivePacket
          /\ Waiting(1, message)
          /\ updateSensorInfo(message.header.sensorId, message)
    BY <1>5, TelemetryReceived
  <2>2. /\ message \in Sendable /\ message \in Readings
        /\ message.header.sensorId \in Sensors
    BY <1>1, SendableFacts DEF SentByNodes
  <2>3. \/ /\ id \in DOMAIN sensors
           /\ sensors'[id].lastTelemetry = sensors[id].lastTelemetry
        \/ sensors'[id].lastTelemetry = message
    BY <1>2, <2>1, <2>2, ReadingStored
  <2> QED
    BY <1>3, <2>1, <2>2, <2>3
<1> QED
  BY <1>4, <1>5

\* What a step that reorders nothing does to the socket.
LEMMA SocketStep ==
  ASSUME NetInv, [NetNext]_netVars, faults.moved = 0, faults'.moved = 0,
         delayed = <<>>
  PROVE  /\ delayed' = <<>>
         /\ \/ socket' = socket
            \/ receivePacket /\ socket # <<>> /\ socket' = Tail(socket)
            \/ \E packet \in Strays : socket' = <<packet>> /\ socket = <<>>
            \/ \E h \in Beats : socket' = Append(socket, serializeHeartbeat(h))
            \/ \E r \in Sendable : /\ MadeAt(r) = clock
                                   /\ socket' = Append(socket, serializeTelemetry(r))
<1>1. NetTypeOK
  BY DEF NetInv
<1>2. clock \in 1 .. MaxTime /\ beatTodo \subseteq Sensors /\ tickTodo \subseteq Sensors
  <2>1. TypeOK
    BY <1>1 DEF NetTypeOK
  <2> QED
    BY <1>1, <2>1 DEF NetTypeOK, TypeOK
<1>3. faults \in Faults
  BY <1>1 DEF NetTypeOK, Faults
<1>4. ASSUME NEW packet, send(packet)
      PROVE  delayed' = <<>> /\ socket' \in {socket, Append(socket, packet)}
  <2>1. ~duplicate(packet) /\ ~delay(packet)
    BY <1>3 DEF duplicate, delay, Faults
  <2> QED
    BY <1>4, <2>1 DEF send, arrive, lose, sendFails
<1>5. CASE sendHeartbeat
  <2> DEFINE id == Min(beatTodo)
             h == Heartbeat(id)
  <2>1. id \in Sensors
    BY <1>2, <1>5, NextOfRound DEF sendHeartbeat
  <2>2. h \in Beats
    BY <1>2, <2>1 DEF Heartbeat, Beats
  <2>3. send(serializeHeartbeat(h)) \/ (socket' = socket /\ delayed' = delayed)
    BY <1>5 DEF sendHeartbeat, channel
  <2> HIDE DEF h
  <2> QED
    BY <1>4, <2>2, <2>3
<1>6. ASSUME NEW m \in Measurements, tick(m)
      PROVE  /\ delayed' = <<>>
             /\ \/ socket' = socket
                \/ \E r \in Sendable :
                     /\ MadeAt(r) = clock
                     /\ socket' = Append(socket, serializeTelemetry(r))
  <2> DEFINE id == Min(tickTodo)
             r == Telemetry(id, m)
  <2>1. id \in Sensors
    BY <1>2, <1>6, NextOfRound DEF tick
  <2>2. r \in Sendable
    BY <1>2, <2>1 DEF Telemetry, Sendable
  <2>3. send(serializeTelemetry(r))
    BY <1>6 DEF tick
  <2>4. MadeAt(r) = clock
    BY DEF Telemetry, TelemetryAt, MadeAt
  <2> HIDE DEF r
  <2> QED
    BY <1>4, <2>2, <2>3, <2>4
<1>7. CASE receivePacket
  BY <1>7 DEF receivePacket
<1>8. ASSUME NEW packet \in Strays, stray(packet)
      PROVE  delayed' = <<>> /\ socket' = <<packet>> /\ socket = <<>>
  BY <1>8 DEF stray
<1>9. ~deliverDelayed
  BY DEF deliverDelayed
<1>10. CASE UNCHANGED channel
  BY <1>10 DEF channel
<1> QED
  BY <1>5, <1>6, <1>7, <1>8, <1>9, <1>10
     DEF NetNext, netVars, heartbeatThread, wakeHeartbeats, telemetryThread,
         wakeTelemetry, recovery, recoverSensor, watchdogStep, passTime

\* Faults are not forgotten, and time goes on.
LEMMA OnlyForward ==
  ASSUME NetTypeOK, [NetNext]_netVars
  PROVE  /\ faults'.moved = 0 => faults.moved = 0
         /\ clock \in Nat /\ clock' \in Nat /\ clock <= clock'
<1>1. TypeOK
  BY DEF NetTypeOK
<1>2. clock \in Nat
  BY <1>1 DEF TypeOK
<1>3. faults \in Faults
  BY DEF NetTypeOK, Faults
<1>4. clock' = clock \/ clock' = clock + 1
  BY DEF NetNext, netVars, vars, threads, heartbeatThread, wakeHeartbeats,
         sendHeartbeat, telemetryThread, wakeTelemetry, tick, recovery,
         recoverSensor, receivePacket, watchdogStep, passTime, deliverDelayed,
         deliver, stray, receiveTelemetry, receiveHeartbeat, receiveUnknown,
         throw, updateSensorInfo, handleHeartbeat, unknownMessageType, Tick,
         readCurrentTime, detectOfflineSensors
<1>5. ASSUME NEW packet, send(packet)
      PROVE  faults'.moved = 0 => faults.moved = 0
  BY <1>3, <1>5 DEF send, arrive, lose, duplicate, delay, sendFails, Faults
<1>6. ASSUME NEW packet, stray(packet)
      PROVE  faults'.moved = 0 => faults.moved = 0
  BY <1>3, <1>6 DEF stray, Faults
<1>7. CASE faults' = faults
  BY <1>2, <1>4, <1>7
<1> QED
  BY <1>2, <1>4, <1>5, <1>6, <1>7
     DEF NetNext, netVars, heartbeatThread, wakeHeartbeats,
         sendHeartbeat, telemetryThread, wakeTelemetry, tick, recovery,
         recoverSensor, receivePacket, watchdogStep, passTime, deliverDelayed,
         deliver

LEMMA OrderStep ==
  ASSUME NetInv, InOrder, [NetNext]_netVars
  PROVE  InOrder'
<1>1. SUFFICES ASSUME faults'.moved = 0 PROVE InOrder'
  BY DEF InOrder
<1>2. NetTypeOK /\ faults.moved = 0
  BY <1>1, OnlyForward DEF NetInv
<1>3. clock \in Nat /\ clock' \in Nat /\ clock <= clock'
  BY <1>2, OnlyForward
<1>4. delayed = <<>>
  BY <1>2 DEF InOrder
<1>5. delayed' = <<>>
  BY <1>1, <1>2, <1>4, SocketStep
<1>6. socket \in Seq(Seq(Byte)) /\ socket' \in Seq(Seq(Byte))
  BY <1>2, NetStep DEF NetInv, NetTypeOK
<1>7. PICK n \in Nat : DOMAIN socket' = 1 .. n
  BY <1>6
<1>8. ASSUME NEW k \in {0, 1}, receivePacket => k = 1,
             \A i \in DOMAIN socket', r \in Sendable :
               Waiting(i, r)' => \/ Waiting(i + k, r)
                                 \/ i = n /\ MadeAt(r) = clock
      PROVE  InOrder'
  <2>1. \A id \in DOMAIN sensors' :
           \/ sensors'[id].lastTelemetry = NoReading
           \/ /\ id \in DOMAIN sensors
              /\ sensors[id].lastTelemetry # NoReading
              /\ sensors[id].lastTelemetry \in Sendable
              /\ sensors'[id].lastTelemetry = sensors[id].lastTelemetry
           \/ /\ k = 1 /\ sensors'[id].lastTelemetry \in Sendable
              /\ Waiting(1, sensors'[id].lastTelemetry)
    BY <1>8, RegistryStep
  <2> QED
    BY <1>2, <1>3, <1>5, <1>7, <1>8, <2>1, OrderKept
<1>9. CASE receivePacket /\ socket # <<>> /\ socket' = Tail(socket)
  <2>1. ASSUME NEW i \in DOMAIN socket', NEW r \in Sendable, Waiting(i, r)'
        PROVE  Waiting(i + 1, r)
    <3>1. i + 1 \in DOMAIN socket /\ socket[i + 1] = socket'[i]
      BY <1>6, <1>9, <2>1
    <3> QED
      BY <2>1, <3>1 DEF Waiting
  <2> QED
    BY <1>8, <2>1
<1>10. CASE socket' = socket
  <2>1. ~receivePacket
    <3>1. ASSUME socket # <<>> PROVE Tail(socket) # socket
      BY <1>6, <3>1
    <3> QED
      BY <1>10, <3>1 DEF receivePacket
  <2>2. ASSUME NEW i \in DOMAIN socket', NEW r \in Sendable, Waiting(i, r)'
        PROVE  Waiting(i + 0, r)
    BY <1>6, <1>10, <2>2 DEF Waiting
  <2> QED
    BY <1>8, <2>1, <2>2
<1>11. ASSUME NEW packet \in Seq(Byte), socket' = Append(socket, packet),
              \A r \in Sendable :
                packet = serializeTelemetry(r) => MadeAt(r) = clock
       PROVE  InOrder'
  <2>1. /\ DOMAIN socket' = 1 .. Len(socket) + 1 /\ Len(socket) \in Nat
        /\ \A i \in 1 .. Len(socket) : i \in DOMAIN socket /\ socket'[i] = socket[i]
        /\ socket'[Len(socket) + 1] = packet
    BY <1>6, <1>11
  <2>2. n = Len(socket) + 1
    <3>1. n \in 1 .. n \/ n = 0
      OBVIOUS
    <3>2. Len(socket) + 1 \in 1 .. Len(socket) + 1
      BY <2>1
    <3> QED
      BY <1>7, <2>1, <3>1, <3>2
  <2>3. ~receivePacket
    <3>1. ASSUME socket # <<>>
          PROVE  Len(Tail(socket)) = Len(socket) - 1
      BY <1>6, <3>1
    <3>2. Len(socket') = Len(socket) + 1
      BY <1>6, <1>11
    <3> QED
      BY <2>1, <3>1, <3>2 DEF receivePacket
  <2>4. ASSUME NEW i \in DOMAIN socket', NEW r \in Sendable, Waiting(i, r)'
        PROVE  Waiting(i + 0, r) \/ (i = n /\ MadeAt(r) = clock)
    <3>1. CASE i = n
      BY <1>11, <2>1, <2>2, <2>4, <3>1 DEF Waiting
    <3>2. CASE i # n
      <4>1. i \in 1 .. Len(socket) /\ i + 0 = i
        BY <2>1, <2>2, <3>2
      <4> QED
        BY <2>1, <2>4, <4>1 DEF Waiting
    <3> QED
      BY <3>1, <3>2
  <2> QED
    BY <1>8, <2>3, <2>4
<1>12. ASSUME NEW packet \in Strays, socket' = <<packet>>, socket = <<>>
       PROVE  InOrder'
  <2>1. ~receivePacket
    BY <1>12 DEF receivePacket
  <2>2. ASSUME NEW i \in DOMAIN socket', NEW r \in Sendable
        PROVE  ~Waiting(i, r)'
    BY <1>12, PacketsDiffer DEF Waiting
  <2> QED
    BY <1>8, <2>1, <2>2
<1>13. ASSUME NEW h \in Beats, socket' = Append(socket, serializeHeartbeat(h))
       PROVE  InOrder'
  <2>1. /\ serializeHeartbeat(h) \in Seq(Byte)
        /\ \A r \in Sendable : serializeHeartbeat(h) # serializeTelemetry(r)
    BY BeatPacket, PacketsDiffer
  <2> QED
    BY <1>11, <1>13, <2>1
<1>14. ASSUME NEW q \in Sendable, MadeAt(q) = clock,
              socket' = Append(socket, serializeTelemetry(q))
       PROVE  InOrder'
  <2>1. /\ serializeTelemetry(q) \in Seq(Byte)
        /\ \A r \in Sendable : serializeTelemetry(q) = serializeTelemetry(r) => q = r
    BY ReadingPacket, PacketsDiffer
  <2> QED
    BY <1>11, <1>14, <2>1
<1> QED
  BY <1>1, <1>2, <1>4, <1>9, <1>10, <1>12, <1>13, <1>14, SocketStep

\* The registry goes back to an older reading only when the network delayed or
\* repeated a packet (updateSensorInfo overwrites without comparing).
THEOREM ReadingsAdvance == NetSpec => ReadingsOnlyAdvance
<1>1. NetInit => InOrder
  BY DEF NetInit, Init, InOrder
<1>2. NetInv /\ InOrder /\ [NetNext]_netVars => InOrder'
  BY OrderStep
<1>3. NetInv /\ InOrder /\ [NetNext]_netVars
        => [\A id \in DOMAIN sensors :
              LET old == sensors[id].lastTelemetry
                  new == sensors'[id].lastTelemetry
              IN  old # NoReading /\ new.header.timestamp_ms < old.header.timestamp_ms
                    => faults.moved > 0]_netVars
  <2> SUFFICES ASSUME NetInv, InOrder, [NetNext]_netVars,
                      NEW id \in DOMAIN sensors,
                      sensors[id].lastTelemetry # NoReading,
                      MadeAt(sensors'[id].lastTelemetry)
                        < MadeAt(sensors[id].lastTelemetry)
               PROVE  faults.moved > 0
    BY DEF MadeAt
  <2>1. faults.moved \in Nat
    BY DEF NetInv, NetTypeOK
  <2>2. id \in DOMAIN sensors' /\ sensors[id].lastTelemetry \in Sendable
    <3>1. TypeOK /\ [Next]_vars
      BY NetworkKeepsGateway DEF NetInv, NetTypeOK
    <3> QED
      BY <3>1, RegistryGrows DEF NetInv, StoredWasSent, SentByNodes
  <2>3. MadeAt(sensors[id].lastTelemetry) \in Nat
    BY <2>2, SendableFacts DEF MadeAt
  <2>4. CASE sensors'[id].lastTelemetry = sensors[id].lastTelemetry
    BY <2>3, <2>4
  <2>5. CASE /\ sensors'[id].lastTelemetry \in Sendable
             /\ Waiting(1, sensors'[id].lastTelemetry)
    <3>1. MadeAt(sensors'[id].lastTelemetry) \in Nat
      BY <2>5, SendableFacts DEF MadeAt
    <3>2. ASSUME faults.moved = 0
          PROVE  MadeAt(sensors[id].lastTelemetry)
                   <= MadeAt(sensors'[id].lastTelemetry)
      BY <2>5, <3>2 DEF InOrder, Waiting
    <3> QED
      BY <2>1, <2>3, <3>1, <3>2
  <2> QED
    BY <2>2, <2>4, <2>5, RegistryStep
<1> QED
  BY <1>1, <1>2, <1>3, NetInvariant, PTL DEF NetSpec, ReadingsOnlyAdvance
-----------------------------------------------------------------------------
\* Live nodes.  How old the last heartbeat of a node can be that never stops
\* sending: the next one is under way, or the heartbeat thread sends it in time.

Period == HeartbeatInterval + Oversleep

Beat(id, t) == serializeHeartbeat(HeartbeatAt(id, t))

UnderWay(id, t) == Beat(id, t) \in ToSet(socket) \cup ToSet(delayed)

\* The latest time at which the heartbeat thread sends for id again.
NextSend(id) ==
  IF id \in beatTodo THEN clock
  ELSE IF beatTodo # {} THEN clock + Period ELSE beatWake + Oversleep

\* When the next heartbeat of id leaves, at the latest: every one that was lost
\* since the last one was handled costs a period.
Latest(id) == LastBeat(id) + (missed[id] + 1) * Period

RoundsPunctual ==
  /\ Sensors \ Failing \subseteq enabled
  /\ beatWake <= clock + HeartbeatInterval
  /\ beatTodo = {} => clock <= beatWake + Oversleep
  /\ currentTime <= clock

PacketsPunctual ==
  \A id \in Sensors, t \in 1 .. MaxTime : UnderWay(id, t) => clock <= t + Delay

BeatExpected ==
  \A id \in DOMAIN sensors \ Failing : LastBeat(id) # 0 =>
    \/ \E t \in 1 .. MaxTime : UnderWay(id, t) /\ t <= Latest(id)
    \/ NextSend(id) <= Latest(id)

OnSchedule == ~aborted => RoundsPunctual /\ PacketsPunctual /\ BeatExpected

\* Nothing but the head leaves with Tail, nothing but the element with RemoveAt.
LEMMA OnlyHeadLeaves ==
  ASSUME NEW S, NEW s \in Seq(S), s # <<>>
  PROVE  ToSet(s) \subseteq ToSet(Tail(s)) \cup {Head(s)}
<1>1. /\ DOMAIN Tail(s) = 1 .. Len(s) - 1
      /\ \A i \in 1 .. Len(s) - 1 : Tail(s)[i] = s[i + 1]
      /\ Head(s) = s[1] /\ DOMAIN s = 1 .. Len(s) /\ Len(s) \in Nat
  OBVIOUS
<1>2. ASSUME NEW j \in 1 .. Len(s), j # 1 PROVE s[j] \in ToSet(Tail(s))
  <2>1. j - 1 \in 1 .. Len(s) - 1 /\ (j - 1) + 1 = j
    BY <1>1, <1>2
  <2>2. Tail(s)[j - 1] = s[j]
    BY <1>1, <2>1
  <2> QED
    BY <1>1, <2>1, <2>2 DEF ToSet
<1> QED
  BY <1>1, <1>2 DEF ToSet

LEMMA OnlyOneRemoved ==
  ASSUME NEW S, NEW s \in Seq(S), NEW i \in DOMAIN s
  PROVE  ToSet(s) \subseteq ToSet(RemoveAt(s, i)) \cup {s[i]}
<1> DEFINE a == SubSeq(s, 1, i - 1)
           b == SubSeq(s, i + 1, Len(s))
<1>1. Len(s) \in Nat /\ i \in 1 .. Len(s) /\ DOMAIN s = 1 .. Len(s)
  OBVIOUS
<1>2. /\ a \in Seq(S) /\ Len(a) = i - 1
      /\ \A j \in 1 .. i - 1 : a[j] = s[j]
  BY <1>1
<1>3. /\ b \in Seq(S) /\ Len(b) = Len(s) - i
      /\ \A j \in 1 .. Len(s) - i : b[j] = s[i + j]
  BY <1>1
<1>4. RemoveAt(s, i) = a \o b
  BY DEF RemoveAt
<1> HIDE DEF a, b
<1>5. /\ DOMAIN (a \o b) = 1 .. Len(a) + Len(b)
      /\ \A j \in 1 .. Len(a) : (a \o b)[j] = a[j]
      /\ \A j \in 1 .. Len(b) : (a \o b)[Len(a) + j] = b[j]
  <2>1. a \in Seq(S) /\ b \in Seq(S)
    BY <1>2, <1>3
  <2> QED
    BY <2>1
<1>6. ASSUME NEW j \in 1 .. Len(s), j < i PROVE s[j] \in ToSet(a \o b)
  <2>1. j \in 1 .. i - 1 /\ j \in 1 .. Len(a) /\ j \in 1 .. Len(a) + Len(b)
    BY <1>1, <1>2, <1>3, <1>6
  <2>2. (a \o b)[j] = s[j]
    BY <1>2, <1>5, <2>1
  <2> QED
    BY <1>5, <2>1, <2>2 DEF ToSet
<1>7. ASSUME NEW j \in 1 .. Len(s), i < j PROVE s[j] \in ToSet(a \o b)
  <2>1. /\ j - i \in 1 .. Len(s) - i /\ j - i \in 1 .. Len(b)
        /\ i + (j - i) = j
        /\ Len(a) + (j - i) \in 1 .. Len(a) + Len(b)
    <3>1. i \in Nat /\ j \in Nat /\ j <= Len(s) /\ 1 <= i
      BY <1>1
    <3>2. Len(a) + (j - i) = j - 1 /\ Len(a) + Len(b) = Len(s) - 1
      BY <1>1, <1>2, <1>3, <3>1
    <3> QED
      BY <1>1, <1>2, <1>3, <1>7, <3>1, <3>2
  <2>2. (a \o b)[Len(a) + (j - i)] = s[j]
    BY <1>3, <1>5, <2>1
  <2> DEFINE k == Len(a) + (j - i)
  <2>3. k \in DOMAIN (a \o b) /\ (a \o b)[k] = s[j]
    BY <1>5, <2>1, <2>2
  <2> HIDE DEF k
  <2> QED
    BY <2>3 DEF ToSet
<1>8. \A x \in ToSet(s) : \E j \in 1 .. Len(s) : x = s[j]
  BY <1>1 DEF ToSet
<1>9. ASSUME NEW j \in 1 .. Len(s), j # i PROVE s[j] \in ToSet(a \o b)
  <2>1. j < i \/ i < j
    BY <1>1, <1>9
  <2> QED
    BY <1>6, <1>7, <2>1
<1>10. \A x \in ToSet(s) : x # s[i] => x \in ToSet(a \o b)
  BY <1>8, <1>9
<1> QED
  BY <1>4, <1>10

\* A heartbeat is recognised by its packet.
LEMMA BeatsTold ==
  ASSUME NEW id \in Sensors, NEW t \in 1 .. MaxTime
  PROVE  /\ Beat(id, t) \in Seq(Byte)
         /\ ~HeaderThrows(Beat(id, t))
         /\ peekMessageType(Beat(id, t)) = HEARTBEAT
         /\ deserializeHeartbeat(Beat(id, t)).header.sensorId = id
         /\ readHeader(Beat(id, t)).type = HEARTBEAT
         /\ readHeader(Beat(id, t)).sensorId = id
         /\ readHeader(Beat(id, t)).timestamp_ms = t
<1>1. HeartbeatAt(id, t) \in Beats
  BY DEF Beats
<1>2. HeartbeatAt(id, t).header = [type |-> HEARTBEAT, sensorId |-> id,
                                   timestamp_ms |-> t]
  BY DEF HeartbeatAt
<1> QED
  BY <1>1, <1>2, BeatPacket DEF Beat

\* What a step does to the heartbeats under way: new ones are made now, and only
\* the UDP thread takes one away.
LEMMA BeatsTravel ==
  ASSUME NetInv, NetNext, NEW id \in Sensors, NEW t \in 1 .. MaxTime
  PROVE  /\ UnderWay(id, t)' => UnderWay(id, t) \/ t = clock
         /\ \/ UnderWay(id, t) => UnderWay(id, t)'
            \/ receivePacket /\ Head(socket) = Beat(id, t)
<1>1. NetTypeOK
  BY DEF NetInv
<1>2. /\ socket \in Seq(Seq(Byte)) /\ delayed \in Seq(Seq(Byte))
      /\ beatTodo \subseteq Sensors /\ tickTodo \subseteq Sensors
  BY <1>1 DEF NetTypeOK
<1>3. clock \in 1 .. MaxTime
  BY <1>1 DEF NetTypeOK, TypeOK
<1> DEFINE beat == Beat(id, t)
<1>4. beat \in Seq(Byte) /\ readHeader(beat).timestamp_ms = t
      /\ peekMessageType(beat) = HEARTBEAT /\ ~HeaderThrows(beat)
  BY BeatsTold
<1> HIDE DEF beat
<1>5. SUFFICES /\ /\ beat \in ToSet(socket') \cup ToSet(delayed')
                  /\ beat \notin ToSet(socket) \cup ToSet(delayed)
                  => t = clock
               /\ \/ ToSet(socket) \cup ToSet(delayed)
                       \subseteq ToSet(socket') \cup ToSet(delayed')
                  \/ receivePacket /\ Head(socket) = beat
                  \/ beat \notin ToSet(socket) \cup ToSet(delayed)
                  \/ beat \in ToSet(socket') \cup ToSet(delayed')
  BY DEF UnderWay, beat, Beat
<1>6. CASE UNCHANGED channel
  BY <1>6 DEF channel
<1>7. ASSUME NEW packet \in Seq(Byte), send(packet)
      PROVE  /\ ToSet(socket') \subseteq ToSet(socket) \cup {packet}
             /\ ToSet(delayed') \subseteq ToSet(delayed) \cup {packet}
             /\ ToSet(socket) \subseteq ToSet(socket')
             /\ ToSet(delayed) \subseteq ToSet(delayed')
  <2>1. /\ ToSet(Append(socket, packet)) = ToSet(socket) \cup {packet}
        /\ ToSet(Append(delayed, packet)) = ToSet(delayed) \cup {packet}
    BY <1>2, ToSetOfAppend
  <2>2. /\ socket' = socket \/ socket' = Append(socket, packet)
        /\ delayed' = delayed \/ delayed' = Append(delayed, packet)
    BY <1>7 DEF send, arrive, lose, duplicate, delay, sendFails
  <2> QED
    BY <2>1, <2>2
<1>8. CASE sendHeartbeat
  <2> DEFINE i == Min(beatTodo)
  <2>1. i \in Sensors
    BY <1>2, <1>8, NextOfRound DEF sendHeartbeat
  <2>2. send(Beat(i, clock)) \/ UNCHANGED channel
    BY <1>8 DEF sendHeartbeat, Heartbeat, Beat
  <2>3. Beat(i, clock) \in Seq(Byte)
        /\ readHeader(Beat(i, clock)).timestamp_ms = clock
    BY <1>3, <2>1, BeatsTold
  <2>4. beat = Beat(i, clock) => t = clock
    BY <1>4, <2>3
  <2> QED
    BY <1>6, <1>7, <2>2, <2>3, <2>4
<1>9. ASSUME NEW m \in Measurements, tick(m)
      PROVE  /\ ToSet(socket) \cup ToSet(delayed)
                  \subseteq ToSet(socket') \cup ToSet(delayed')
             /\ beat \in ToSet(socket') \cup ToSet(delayed')
                  => beat \in ToSet(socket) \cup ToSet(delayed)
  <2> DEFINE i == Min(tickTodo)
             r == Telemetry(i, m)
  <2>1. i \in Sensors
    BY <1>2, <1>9, NextOfRound DEF tick
  <2>2. r \in Sendable
    BY <1>3, <2>1 DEF Telemetry, Sendable
  <2>3. send(serializeTelemetry(r))
    BY <1>9 DEF tick
  <2> HIDE DEF r
  <2>4. /\ serializeTelemetry(r) \in Seq(Byte)
        /\ peekMessageType(serializeTelemetry(r)) = TELEMETRY
    BY <2>2, ReadingPacket
  <2>5. serializeTelemetry(r) # beat
    BY <1>4, <2>4, TypesDiffer
  <2> QED
    BY <1>7, <2>3, <2>4, <2>5
<1>10. CASE receivePacket
  <2>1. socket # <<>> /\ socket' = Tail(socket) /\ delayed' = delayed
    BY <1>10 DEF receivePacket
  <2>2. /\ ToSet(socket') \subseteq ToSet(socket)
        /\ ToSet(socket) \subseteq ToSet(socket') \cup {Head(socket)}
    BY <1>2, <2>1, ToSetOfTail, OnlyHeadLeaves
  <2> QED
    BY <1>10, <2>1, <2>2
<1>11. ASSUME NEW i \in DOMAIN delayed, deliver(i)
       PROVE  ToSet(socket) \cup ToSet(delayed) = ToSet(socket') \cup ToSet(delayed')
  <2>1. socket' = Append(socket, delayed[i]) /\ delayed' = RemoveAt(delayed, i)
    BY <1>11 DEF deliver
  <2>2. /\ delayed[i] \in ToSet(delayed) /\ delayed[i] \in Seq(Byte)
        /\ ToSet(delayed') \subseteq ToSet(delayed)
        /\ ToSet(delayed) \subseteq ToSet(delayed') \cup {delayed[i]}
    BY <1>2, <2>1, ToSetOfRemoveAt, OnlyOneRemoved
  <2>3. ToSet(socket') = ToSet(socket) \cup {delayed[i]}
    BY <1>2, <2>1, <2>2, ToSetOfAppend
  <2> QED
    BY <2>2, <2>3
<1>12. ASSUME NEW packet \in Strays, stray(packet)
       PROVE  /\ ToSet(socket) \cup ToSet(delayed)
                   \subseteq ToSet(socket') \cup ToSet(delayed')
              /\ beat \in ToSet(socket') \cup ToSet(delayed')
                   => beat \in ToSet(socket) \cup ToSet(delayed)
  <2>1. socket = <<>> /\ socket' = <<packet>> /\ delayed' = delayed
    BY <1>12 DEF stray
  <2>2. ToSet(socket) = {} /\ ToSet(socket') = {packet}
    BY <2>1 DEF ToSet
  <2>3. \/ HeaderThrows(packet)
        \/ peekMessageType(packet) # HEARTBEAT
    BY <1>12, StrayAssumption, TypesDiffer
  <2>4. packet # beat
    BY <1>4, <2>3
  <2> QED
    BY <2>1, <2>2, <2>4
<1> QED
  BY <1>6, <1>8, <1>9, <1>10, <1>11, <1>12
     DEF NetNext, heartbeatThread, wakeHeartbeats, telemetryThread, wakeTelemetry,
         recovery, recoverSensor, deliverDelayed, watchdogStep, passTime

\* What a step does to the heartbeat time of a sensor and its count of lost
\* heartbeats: a heartbeat is handled, or nothing is forgotten.
LEMMA BeatsCounted ==
  ASSUME NetInv, NetNext, ~aborted', NEW id \in DOMAIN sensors'
  PROVE  \/ /\ LastBeat(id)' = clock /\ missed'[id] = 0
            /\ UNCHANGED <<clock, beatTodo, beatWake>>
         \/ LastBeat(id)' = 0
         \/ /\ id \in DOMAIN sensors /\ LastBeat(id)' = LastBeat(id)
            /\ missed'[id] >= missed[id]
            /\ receivePacket => \A t \in 1 .. MaxTime : Head(socket) # Beat(id, t)
<1>1. NetTypeOK /\ SentByNodes /\ TrafficKnown
  BY DEF NetInv
<1>2. TypeOK /\ socket \in Seq(Seq(Byte)) /\ missed \in [Sensors -> Nat]
  BY <1>1 DEF NetTypeOK
<1>3. [Next]_vars /\ TypeOK'
  BY <1>2, NetworkKeepsGateway, TypeStep
<1>4. id \in Sensors /\ clock \in 1 .. MaxTime
  BY <1>2, <1>3 DEF TypeOK
<1>5. ASSUME heartbeatPacketsReceived' = heartbeatPacketsReceived
      PROVE  \/ LastBeat(id)' = 0
             \/ id \in DOMAIN sensors /\ LastBeat(id)' = LastBeat(id)
  <2>1. heartbeatPacketsReceived \in Nat
    BY <1>2 DEF TypeOK
  <2> QED
    BY <1>2, <1>3, <1>5, <2>1, HealthStep DEF NewlyOffline
<1>6. ASSUME NEW packet, send(packet)
      PROVE  missed'[id] >= missed[id]
  <2>1. \/ missed' = missed
        \/ \E i : missed' = [missed EXCEPT ![i] = @ + 1]
    BY <1>6 DEF send, arrive, lose, duplicate, delay, sendFails
  <2> QED
    BY <1>2, <1>4, <2>1
<1>7. CASE ~receivePacket
  <2>1. heartbeatPacketsReceived' = heartbeatPacketsReceived
    BY <1>7 DEF NetNext, vars, heartbeatThread, wakeHeartbeats,
           sendHeartbeat, telemetryThread, wakeTelemetry, tick, recovery,
           recoverSensor, watchdogStep, passTime, deliverDelayed,
           deliver, stray, Tick, readCurrentTime, detectOfflineSensors
  <2>2. missed' = missed \/ \E packet : send(packet)
    BY <1>7 DEF NetNext, heartbeatThread, wakeHeartbeats,
           sendHeartbeat, telemetryThread, wakeTelemetry, tick, recovery,
           recoverSensor, watchdogStep, passTime, deliverDelayed,
           deliver, stray
  <2>3. missed'[id] >= missed[id]
    BY <1>2, <1>4, <1>6, <2>2
  <2> QED
    BY <1>5, <1>7, <2>1, <2>3
<1>8. CASE receivePacket
  <2> DEFINE packet == Head(socket)
             i == deserializeHeartbeat(packet).header.sensorId
  <2>1. UNCHANGED <<clock, beatTodo, beatWake>>
    BY <1>8 DEF receivePacket, threads, receiveTelemetry, receiveHeartbeat,
                receiveUnknown, throw, vars, updateSensorInfo, handleHeartbeat,
                unknownMessageType
  <2>2. packet \in ToSet(socket)
    BY <1>2, <1>8, ToSetOfTail DEF receivePacket
  <2>3. Known(packet)
    BY <1>1, <2>2 DEF TrafficKnown
  <2>4. CASE ~HeaderThrows(packet) /\ receiveHeartbeat(packet)
    <3>1. /\ handleHeartbeat(i) /\ missed' = [missed EXCEPT ![i] = 0]
          /\ peekMessageType(packet) = HEARTBEAT
      BY <2>4 DEF receiveHeartbeat
    <3>2. i \in Sensors
      BY <1>1, <2>3, <2>4, <3>1, Received
    <3>3. sensors' = Stored(i, AfterHeartbeat(i))
      BY <3>1 DEF handleHeartbeat
    <3> HIDE DEF packet
    <3>4. CASE id = i
      <4>1. sensors'[id] = AfterHeartbeat(id)
        BY <3>3, <3>4 DEF Stored
      <4>2. LastBeat(id)' = clock
        BY <1>2, <4>1, AfterHeartbeatFacts DEF LastBeat
      <4>3. missed'[id] = 0
        BY <1>2, <1>4, <3>1, <3>4
      <4> QED
        BY <2>1, <4>2, <4>3
    <3>5. CASE id # i
      <4>1. id \in DOMAIN sensors /\ sensors'[id] = sensors[id]
        BY <3>3, <3>5 DEF Stored
      <4>2. LastBeat(id)' = LastBeat(id)
        BY <4>1 DEF LastBeat
      <4>3. missed'[id] = missed[id] /\ missed[id] \in Nat
        BY <1>2, <1>4, <3>1, <3>5
      <4>4. \A t \in 1 .. MaxTime : packet # Beat(id, t)
        BY <1>4, <3>5, BeatsTold
      <4> QED
        BY <4>1, <4>2, <4>3, <4>4 DEF packet
    <3> QED
      BY <3>4, <3>5
  <2>5. CASE ~(~HeaderThrows(packet) /\ receiveHeartbeat(packet))
    <3>1. /\ heartbeatPacketsReceived' = heartbeatPacketsReceived
          /\ missed' = missed
      BY <1>8, <2>5 DEF receivePacket, receiveTelemetry, receiveUnknown, throw, vars,
                        updateSensorInfo, unknownMessageType
    <3>2. \/ HeaderThrows(packet)
          \/ peekMessageType(packet) # HEARTBEAT
      BY <1>8, <2>5, TypesDiffer DEF receivePacket, receiveTelemetry, receiveUnknown
    <3> HIDE DEF packet
    <3>3. \A t \in 1 .. MaxTime : packet # Beat(id, t)
      BY <1>4, <3>2, BeatsTold
    <3>4. missed[id] \in Nat
      BY <1>2, <1>4
    <3> QED
      BY <1>5, <3>1, <3>3, <3>4 DEF packet
  <2> QED
    BY <2>4, <2>5
<1> QED
  BY <1>7, <1>8

\* The next heartbeat of a node is never put off, except by sending one.
LEMMA NotPutOff ==
  ASSUME NetInv, RoundsPunctual, NetNext, NEW id \in Sensors,
         ~(sendHeartbeat /\ id = Min(beatTodo))
  PROVE  NextSend(id)' <= NextSend(id)
<1>1. NetTypeOK
  BY DEF NetInv
<1>2. beatTodo \subseteq Sensors /\ beatWake \in Nat
  BY <1>1 DEF NetTypeOK
<1>3. clock \in Nat
  <2>1. TypeOK
    BY <1>1 DEF NetTypeOK
  <2> QED
    BY <2>1 DEF TypeOK
<1>4. Oversleep \in Nat /\ HeartbeatInterval \in Nat /\ Period \in Nat
  BY NetworkAssumption DEF Period
<1>5. CASE wakeHeartbeats
  <2>1. beatTodo = {} /\ beatTodo' = Sensors /\ clock' = clock
    BY <1>5 DEF wakeHeartbeats, vars
  <2> QED
    BY <1>2, <1>3, <1>4, <2>1 DEF NextSend, RoundsPunctual
<1>6. CASE sendHeartbeat
  <2> DEFINE i == Min(beatTodo)
  <2>1. /\ beatTodo # {} /\ beatTodo' = beatTodo \ {i} /\ clock' = clock
        /\ id # i
    BY <1>6 DEF sendHeartbeat, vars
  <2>2. /\ i \in Sensors /\ i \in beatTodo
        /\ beatTodo = {i} => beatWake' \in {clock, clock + HeartbeatInterval}
    BY <1>2, <1>6, <2>1, NextOfRound DEF sendHeartbeat
  <2> HIDE DEF i
  <2>3. CASE id \in beatTodo
    BY <1>3, <2>1, <2>3 DEF NextSend
  <2>4. CASE id \notin beatTodo /\ beatTodo' # {}
    BY <1>3, <1>4, <2>1, <2>4 DEF NextSend
  <2>5. CASE id \notin beatTodo /\ beatTodo' = {}
    <3>1. beatTodo = {i}
      BY <2>1, <2>2, <2>5
    <3>2. NextSend(id) = clock + Period /\ NextSend(id)' = beatWake' + Oversleep
      BY <2>1, <2>5 DEF NextSend
    <3> QED
      BY <1>3, <1>4, <2>2, <3>1, <3>2 DEF Period
  <2> QED
    BY <2>3, <2>4, <2>5
<1>7. CASE passTime
  <2>1. beatTodo = {} /\ beatTodo' = {} /\ beatWake' = beatWake
    BY <1>7 DEF passTime, threads
  <2> QED
    BY <1>2, <1>4, <2>1 DEF NextSend
<1>8. CASE UNCHANGED <<clock, beatTodo, beatWake>>
  BY <1>2, <1>3, <1>4, <1>8 DEF NextSend
<1> QED
  BY <1>5, <1>6, <1>7, <1>8
     DEF NetNext, vars, threads, heartbeatThread, telemetryThread, wakeTelemetry,
         tick, recovery, recoverSensor, receivePacket, watchdogStep, deliverDelayed,
         deliver, stray, receiveTelemetry, receiveHeartbeat, receiveUnknown,
         throw, updateSensorInfo, handleHeartbeat, unknownMessageType,
         readCurrentTime, detectOfflineSensors

\* The heartbeat of a live node is sent: it is under way, or lost and counted.
LEMMA OwnBeat ==
  ASSUME NetInv, RoundsPunctual, sendHeartbeat, ~aborted',
         NEW id \in Sensors \ Failing, id = Min(beatTodo)
  PROVE  /\ NextSend(id) = clock
         /\ \/ UnderWay(id, clock)'
            \/ missed'[id] = missed[id] + 1 /\ NextSend(id)' <= clock + Period
<1>1. NetTypeOK
  BY DEF NetInv
<1>2. /\ beatTodo \subseteq Sensors /\ beatWake \in Nat
      /\ socket \in Seq(Seq(Byte)) /\ delayed \in Seq(Seq(Byte))
      /\ missed \in [Sensors -> Nat]
  BY <1>1 DEF NetTypeOK
<1>3. clock \in 1 .. MaxTime
  BY <1>1 DEF NetTypeOK, TypeOK
<1>4. Oversleep \in Nat /\ HeartbeatInterval \in Nat /\ Period \in Nat
  BY NetworkAssumption DEF Period
<1>5. /\ id \in beatTodo /\ beatTodo' = beatTodo \ {id} /\ clock' = clock
      /\ beatTodo = {id} => beatWake' \in {clock, clock + HeartbeatInterval}
  BY <1>2, NextOfRound DEF sendHeartbeat, vars
<1>6. send(Beat(id, clock))
  BY DEF sendHeartbeat, RoundsPunctual, Heartbeat, Beat
<1>7. NextSend(id)' <= clock + Period
  <2>1. CASE beatTodo' # {}
    BY <1>3, <1>4, <1>5, <2>1 DEF NextSend
  <2>2. CASE beatTodo' = {}
    <3>1. beatTodo = {id} /\ NextSend(id)' = beatWake' + Oversleep
      BY <1>5, <2>2 DEF NextSend
    <3> QED
      BY <1>3, <1>4, <1>5, <3>1 DEF Period
  <2> QED
    BY <2>1, <2>2
<1>8. Beat(id, clock) \in Seq(Byte)
      /\ readHeader(Beat(id, clock)).type = HEARTBEAT
      /\ readHeader(Beat(id, clock)).sensorId = id
  BY <1>3, BeatsTold
<1>9. CASE lose(Beat(id, clock))
  <2>1. missed' = [missed EXCEPT ![id] = @ + 1]
    BY <1>8, <1>9 DEF lose
  <2> QED
    BY <1>2, <1>5, <1>7, <2>1 DEF NextSend
<1>10. CASE ~lose(Beat(id, clock))
  <2>1. \/ socket' = Append(socket, Beat(id, clock))
        \/ delayed' = Append(delayed, Beat(id, clock))
    BY <1>6, <1>10 DEF send, arrive, duplicate, delay, sendFails
  <2>2. \/ Beat(id, clock) \in ToSet(socket')
        \/ Beat(id, clock) \in ToSet(delayed')
    <3>1. /\ Beat(id, clock) \in ToSet(Append(socket, Beat(id, clock)))
          /\ Beat(id, clock) \in ToSet(Append(delayed, Beat(id, clock)))
      <4> DEFINE beat == Beat(id, clock)
      <4>1. beat \in Seq(Byte)
        BY <1>8
      <4> HIDE DEF beat
      <4>2. /\ ToSet(Append(socket, beat)) = ToSet(socket) \cup {beat}
            /\ ToSet(Append(delayed, beat)) = ToSet(delayed) \cup {beat}
        BY <1>2, <4>1, ToSetOfAppend
      <4>3. /\ beat \in ToSet(Append(socket, beat))
            /\ beat \in ToSet(Append(delayed, beat))
        BY <4>2
      <4> QED
        BY <4>3 DEF beat
    <3> QED
      BY <2>1, <3>1
  <2>3. Beat(id, clock)' = Beat(id, clock)
    BY <1>5 DEF Beat, HeartbeatAt
  <2> QED
    BY <1>5, <2>2, <2>3 DEF UnderWay, NextSend
<1> QED
  BY <1>9, <1>10

\* Rounds begin in time.
LEMMA RoundsStep ==
  ASSUME NetInv, RoundsPunctual, NetNext
  PROVE  RoundsPunctual'
<1>1. NetTypeOK
  BY DEF NetInv
<1>2. beatTodo \subseteq Sensors /\ beatWake \in Nat /\ enabled \subseteq Sensors
  BY <1>1 DEF NetTypeOK
<1>3. clock \in Nat /\ currentTime \in Nat
  <2>1. TypeOK
    BY <1>1 DEF NetTypeOK
  <2> QED
    BY <2>1 DEF TypeOK
<1>4. Oversleep \in Nat /\ HeartbeatInterval \in Nat
  BY NetworkAssumption
<1>5. enabled \subseteq enabled'
  BY DEF NetNext, threads, heartbeatThread, wakeHeartbeats, sendHeartbeat,
         telemetryThread, wakeTelemetry, tick, recovery, recoverSensor,
         receivePacket, watchdogStep, passTime, deliverDelayed, deliver, stray
<1>6. CASE wakeHeartbeats
  BY <1>5, <1>6 DEF wakeHeartbeats, vars, RoundsPunctual
<1>7. CASE sendHeartbeat
  <2>1. /\ beatWake' \in {beatWake, clock, clock + HeartbeatInterval}
        /\ beatTodo' = {} => beatWake' \in {clock, clock + HeartbeatInterval}
        /\ clock' = clock /\ currentTime' = currentTime
    BY <1>7 DEF sendHeartbeat, vars
  <2>2. beatWake <= clock + HeartbeatInterval /\ currentTime <= clock
    BY DEF RoundsPunctual
  <2>3. beatWake' <= clock' + HeartbeatInterval
    BY <1>2, <1>3, <1>4, <2>1, <2>2
  <2>4. beatTodo' = {} => clock' <= beatWake' + Oversleep
    BY <1>3, <1>4, <2>1
  <2>5. currentTime' <= clock'
    BY <2>1, <2>2
  <2> QED
    BY <1>5, <2>3, <2>4, <2>5 DEF RoundsPunctual
<1>8. CASE passTime
  <2>1. /\ beatWake' = beatWake /\ clock' = clock + 1 /\ currentTime' = currentTime
        /\ clock < beatWake + Oversleep
    BY <1>8 DEF passTime, threads, Tick
  <2> QED
    BY <1>2, <1>3, <1>4, <1>5, <2>1 DEF RoundsPunctual
<1>9. CASE watchdogStep
  BY <1>3, <1>5, <1>9 DEF watchdogStep, readCurrentTime, detectOfflineSensors,
                          threads, RoundsPunctual
<1>10. CASE UNCHANGED <<clock, currentTime, beatTodo, beatWake>>
  BY <1>5, <1>10 DEF RoundsPunctual
<1> QED
  BY <1>6, <1>7, <1>8, <1>9, <1>10
     DEF NetNext, vars, threads, heartbeatThread, telemetryThread, wakeTelemetry,
         tick, recovery, recoverSensor, receivePacket, deliverDelayed,
         deliver, stray, receiveTelemetry, receiveHeartbeat, receiveUnknown,
         throw, updateSensorInfo, handleHeartbeat, unknownMessageType

\* No heartbeat is under way for longer than the network delays it.
LEMMA PacketsStep ==
  ASSUME NetInv, PacketsPunctual, NetNext
  PROVE  PacketsPunctual'
<1>1. NetTypeOK
  BY DEF NetInv
<1>2. clock \in Nat
  <2>1. TypeOK
    BY <1>1 DEF NetTypeOK
  <2> QED
    BY <2>1 DEF TypeOK
<1>3. Delay \in Nat
  BY NetworkAssumption
<1>4. SUFFICES ASSUME NEW id \in Sensors, NEW t \in 1 .. MaxTime, UnderWay(id, t)'
               PROVE  clock' <= t + Delay
  BY DEF PacketsPunctual
<1>5. CASE passTime
  <2>1. /\ socket = <<>> /\ socket' = socket /\ delayed' = delayed
        /\ clock' = clock + 1
        /\ \A i \in DOMAIN delayed :
             clock < readHeader(delayed[i]).timestamp_ms + Delay
    BY <1>5 DEF passTime, channel, Tick
  <2>2. Beat(id, t) \in ToSet(delayed)
    BY <1>4, <2>1 DEF UnderWay, Beat, ToSet
  <2>3. PICK i \in DOMAIN delayed : delayed[i] = Beat(id, t)
    BY <2>2 DEF ToSet
  <2>4. clock < t + Delay
    BY <2>1, <2>3, BeatsTold
  <2> QED
    BY <1>2, <1>3, <2>1, <2>4
<1>6. CASE clock' = clock
  BY <1>2, <1>3, <1>4, <1>6, BeatsTravel DEF PacketsPunctual
<1> QED
  BY <1>5, <1>6
     DEF NetNext, vars, heartbeatThread, wakeHeartbeats, sendHeartbeat,
         telemetryThread, wakeTelemetry, tick, recovery, recoverSensor,
         receivePacket, watchdogStep, deliverDelayed, deliver, stray,
         receiveTelemetry, receiveHeartbeat, receiveUnknown, throw,
         updateSensorInfo, handleHeartbeat, unknownMessageType,
         readCurrentTime, detectOfflineSensors

\* More lost heartbeats, more time.
LEMMA PeriodsAdd ==
  ASSUME NEW m \in Nat, NEW n \in Nat, m <= n
  PROVE  /\ Period \in Nat \ {0}
         /\ (m + 1) * Period \in Nat
         /\ (m + 1) * Period <= (n + 1) * Period
         /\ m < n => (m + 1) * Period + Period <= (n + 1) * Period
         /\ (0 + 1) * Period = Period
<1>1. Period \in Nat \ {0}
  BY NetworkAssumption DEF Period
<1> QED
  BY <1>1

\* The next heartbeat of a live node stays expected in time.
LEMMA ExpectedStep ==
  ASSUME NetInv, RoundsPunctual, BeatExpected, NetNext, ~aborted'
  PROVE  BeatExpected'
<1>1. NetTypeOK /\ NetInv'
  BY NetStep DEF NetInv
<1>2. /\ TypeOK /\ TypeOK' /\ missed \in [Sensors -> Nat]
      /\ missed' \in [Sensors -> Nat] /\ beatWake \in Nat /\ beatWake' \in Nat
  BY <1>1 DEF NetTypeOK, NetInv
<1>3. SUFFICES ASSUME NEW id \in DOMAIN sensors' \ Failing, LastBeat(id)' # 0
               PROVE  \/ \E t \in 1 .. MaxTime : UnderWay(id, t)' /\ t <= Latest(id)'
                      \/ NextSend(id)' <= Latest(id)'
  BY DEF BeatExpected
<1>4. /\ id \in Sensors \ Failing /\ clock \in 1 .. MaxTime
      /\ LastBeat(id)' \in Nat
      /\ id \in DOMAIN sensors => LastBeat(id) \in Nat
      /\ clock' \in Nat
  BY <1>2 DEF TypeOK, SensorInfo, Time, LastBeat
<1>5. missed[id] \in Nat /\ missed'[id] \in Nat
  BY <1>2, <1>4
<1>6. /\ Oversleep \in Nat /\ HeartbeatInterval \in Nat /\ Period \in Nat
      /\ NextSend(id) \in Nat /\ NextSend(id)' \in Nat
  <2>1. /\ Oversleep \in Nat /\ HeartbeatInterval \in Nat /\ Period \in Nat
        /\ clock \in Nat
    BY <1>4, NetworkAssumption DEF Period
  <2>2. NextSend(id) \in {clock, clock + Period, beatWake + Oversleep}
    BY DEF NextSend
  <2>3. NextSend(id)' \in {clock', clock' + Period, beatWake' + Oversleep}
    BY DEF NextSend
  <2>4. NextSend(id) \in Nat
    BY <1>2, <2>1, <2>2
  <2>5. NextSend(id)' \in Nat
    BY <1>2, <1>4, <2>1, <2>3
  <2> QED
    BY <2>1, <2>4, <2>5
<1>7. Latest(id)' = LastBeat(id)' + (missed'[id] + 1) * Period
  BY DEF Latest
<1>8. CASE /\ LastBeat(id)' = clock /\ missed'[id] = 0
           /\ UNCHANGED <<clock, beatTodo, beatWake>>
  <2>1. Latest(id)' = clock + Period
    BY <1>4, <1>7, <1>8, PeriodsAdd
  <2>2. NextSend(id)' = NextSend(id)
    BY <1>8 DEF NextSend
  <2>3. NextSend(id) <= clock + Period
    <3>1. beatWake + Oversleep <= clock + Period
      BY <1>2, <1>4, <1>6 DEF RoundsPunctual, Period
    <3> QED
      BY <1>4, <1>6, <3>1 DEF NextSend
  <2> QED
    BY <2>1, <2>2, <2>3
<1>9. CASE /\ id \in DOMAIN sensors /\ LastBeat(id)' = LastBeat(id)
           /\ missed'[id] >= missed[id]
           /\ receivePacket => \A t \in 1 .. MaxTime : Head(socket) # Beat(id, t)
  <2> DEFINE a == (missed[id] + 1) * Period
             b == (missed'[id] + 1) * Period
  <2>1. /\ a \in Nat /\ b \in Nat /\ a <= b
        /\ missed'[id] = missed[id] + 1 => a + Period <= b
    BY <1>5, <1>9, PeriodsAdd
  <2>2. Latest(id) = LastBeat(id) + a /\ Latest(id)' = LastBeat(id) + b
    BY <1>7, <1>9 DEF Latest
  <2> HIDE DEF a, b
  <2>3. /\ Latest(id) \in Nat /\ Latest(id)' \in Nat /\ Latest(id) <= Latest(id)'
        /\ missed'[id] = missed[id] + 1 => Latest(id) + Period <= Latest(id)'
    BY <1>4, <1>6, <1>9, <2>1, <2>2
  <2>4. LastBeat(id) # 0 /\ id \in DOMAIN sensors \ Failing
    BY <1>3, <1>9
  <2>5. ASSUME NEW t \in 1 .. MaxTime, UnderWay(id, t), t <= Latest(id)
        PROVE  UnderWay(id, t)' /\ t <= Latest(id)'
    <3>1. UnderWay(id, t)'
      BY <1>4, <1>9, <2>5, BeatsTravel
    <3>2. t <= Latest(id)'
      BY <2>3, <2>5
    <3> QED
      BY <3>1, <3>2
  <2>6. CASE /\ NextSend(id) <= Latest(id)
             /\ sendHeartbeat /\ id = Min(beatTodo)
    <3>1. /\ NextSend(id) = clock
          /\ \/ UnderWay(id, clock)'
             \/ missed'[id] = missed[id] + 1 /\ NextSend(id)' <= clock + Period
      BY <1>4, <2>6, OwnBeat
    <3>2. clock <= Latest(id)'
      BY <1>4, <2>3, <2>6, <3>1
    <3>3. CASE UnderWay(id, clock)'
      <4>1. PICK t \in 1 .. MaxTime : t = clock
        BY <1>4
      <4>2. clock' = clock
        BY <2>6 DEF sendHeartbeat, vars
      <4>3. UnderWay(id, t)'
        BY <3>3, <4>1, <4>2 DEF UnderWay, Beat, HeartbeatAt
      <4> QED
        BY <3>2, <4>1, <4>3
    <3>4. CASE missed'[id] = missed[id] + 1 /\ NextSend(id)' <= clock + Period
      BY <1>4, <1>6, <2>3, <2>6, <3>1, <3>4
    <3> QED
      BY <3>1, <3>3, <3>4
  <2>7. CASE /\ NextSend(id) <= Latest(id)
             /\ ~(sendHeartbeat /\ id = Min(beatTodo))
    <3>1. NextSend(id)' <= NextSend(id)
      BY <1>4, <2>7, NotPutOff
    <3> QED
      BY <1>6, <2>3, <2>7, <3>1
  <2> QED
    BY <2>4, <2>5, <2>6, <2>7 DEF BeatExpected
<1> QED
  BY <1>3, <1>8, <1>9, BeatsCounted

LEMMA ScheduleKept == NetSpec => []OnSchedule
<1>1. NetInit => OnSchedule
  <2> SUFFICES ASSUME NetInit PROVE OnSchedule
    OBVIOUS
  <2>1. RoundsPunctual
    BY NetworkAssumption DEF NetInit, Init, RoundsPunctual
  <2>2. PacketsPunctual
    BY DEF NetInit, PacketsPunctual, UnderWay, ToSet
  <2>3. BeatExpected
    BY DEF NetInit, Init, BeatExpected
  <2> QED
    BY <2>1, <2>2, <2>3 DEF OnSchedule
<1>2. NetInv /\ OnSchedule /\ [NetNext]_netVars => OnSchedule'
  <2>1. ASSUME NetInv, OnSchedule, NetNext PROVE OnSchedule'
    <3>1. ~aborted
      BY <2>1 DEF NetNext
    <3> QED
      BY <2>1, <3>1, RoundsStep, PacketsStep, ExpectedStep DEF OnSchedule
  <2>2. ASSUME OnSchedule, UNCHANGED netVars PROVE OnSchedule'
    BY <2>2 DEF OnSchedule, netVars, vars, channel, threads, RoundsPunctual,
                PacketsPunctual, BeatExpected, UnderWay, Beat, NextSend, Latest,
                LastBeat
  <2> QED
    BY <2>1, <2>2
<1> QED
  BY <1>1, <1>2, NetInvariant, PTL DEF NetSpec

\* A silence longer than the timeout takes more lost heartbeats than tolerated.
LEMMA SilenceCosts ==
  ASSUME NEW m \in Nat, Timeout < (m + 1) * Period + Delay
  PROVE  m > Tolerated
<1>1. Period \in Nat \ {0} /\ Delay \in Nat
  BY NetworkAssumption DEF Period
<1>2. Timeout - Delay \in Int /\ Timeout - Delay < (m + 1) * Period
  BY <1>1, PeriodsAdd
<1>3. ASSUME NEW a \in Int, NEW p \in Nat \ {0}, a < (m + 1) * p
      PROVE  a \div p \in Int /\ a \div p <= m
  BY <1>3
<1>4. (Timeout - Delay) \div Period \in Int /\ (Timeout - Delay) \div Period <= m
  BY <1>1, <1>2, <1>3
<1> QED
  BY <1>4 DEF Tolerated, Period

\* A node that keeps sending is given up only after more of its heartbeats were
\* lost in a row than the timeout tolerates, or overtaken in the window between
\* reading the clock and locking: neither late rounds, delayed or repeated
\* packets nor a slow watchdog can do it (heartbeat thread of main,
\* detectOfflineSensors).
THEOREM LiveNodesStay == NetSpec => LiveNodeKept
<1>1. NetInv /\ OnSchedule /\ [NetNext]_netVars
        => [\A id \in DOMAIN sensors \ Failing :
              HealthOf(id) = "ONLINE" /\ sensors'[id].health = "OFFLINE"
                => missed[id] > Tolerated \/ LastBeat(id) > currentTime]_netVars
  <2> SUFFICES ASSUME NetInv, OnSchedule, [NetNext]_netVars,
                      NEW id \in DOMAIN sensors \ Failing,
                      HealthOf(id) = "ONLINE", sensors'[id].health = "OFFLINE"
               PROVE  missed[id] > Tolerated \/ LastBeat(id) > currentTime
    OBVIOUS
  <2>1. NetTypeOK /\ TypeOK /\ missed \in [Sensors -> Nat] /\ [Next]_vars
    BY NetworkKeepsGateway DEF NetInv, NetTypeOK
  <2>2. /\ id \in Sensors /\ LastBeat(id) \in 0 .. MaxTime
        /\ currentTime \in 1 .. MaxTime /\ clock \in Nat
    BY <2>1 DEF TypeOK, SensorInfo, Time, LastBeat
  <2>3. detectOfflineSensors /\ NewlyOffline(id)
    <3>1. id \in DOMAIN sensors'
      BY <2>1, RegistryGrows
    <3> QED
      BY <2>1, <3>1, HealthStep DEF HealthOf
  <2>4. NetNext
    BY <2>3 DEF detectOfflineSensors, netVars, vars
  <2>5. RoundsPunctual /\ PacketsPunctual /\ BeatExpected
    BY <2>4 DEF NetNext, OnSchedule
  <2>6. CASE LastBeat(id) <= currentTime
    <3>1. LastBeat(id) # 0 /\ currentTime - LastBeat(id) > Timeout
      BY <2>3, <2>6 DEF NewlyOffline, TimedOut, Minus64
    <3> DEFINE a == (missed[id] + 1) * Period
    <3>2. missed[id] \in Nat /\ a \in Nat /\ Latest(id) = LastBeat(id) + a
      BY <2>1, <2>2, PeriodsAdd DEF Latest
    <3> HIDE DEF a
    <3>3. /\ Delay \in Nat /\ Oversleep \in Nat /\ Period \in Nat
          /\ beatWake \in Nat
      BY <2>1, NetworkAssumption DEF NetTypeOK, Period
    <3>4. clock <= Latest(id) + Delay
      <4>1. CASE \E t \in 1 .. MaxTime : UnderWay(id, t) /\ t <= Latest(id)
        <5>1. PICK t \in 1 .. MaxTime : UnderWay(id, t) /\ t <= Latest(id)
          BY <4>1
        <5>2. clock <= t + Delay
          BY <2>2, <2>5, <5>1 DEF PacketsPunctual
        <5> QED
          BY <2>2, <3>2, <3>3, <5>1, <5>2
      <4>2. CASE NextSend(id) <= Latest(id)
        <5>1. clock <= NextSend(id) /\ NextSend(id) \in Nat
          BY <2>2, <2>5, <3>3 DEF RoundsPunctual, NextSend
        <5> QED
          BY <2>2, <3>2, <3>3, <4>2, <5>1
      <4> QED
        BY <2>5, <3>1, <4>1, <4>2 DEF BeatExpected
    <3>5. currentTime <= clock
      BY <2>5 DEF RoundsPunctual
    <3>6. Timeout < a + Delay
      BY <2>2, <3>1, <3>2, <3>3, <3>4, <3>5
    <3> QED
      BY <3>2, <3>6, SilenceCosts DEF a
  <2>7. CASE LastBeat(id) > currentTime
    BY <2>7
  <2> QED
    BY <2>2, <2>6, <2>7
<1> QED
  BY <1>1, ScheduleKept, NetInvariant, PTL DEF NetSpec, LiveNodeKept

=============================================================================
