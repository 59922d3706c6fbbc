---------------------------- MODULE SensorNetwork ----------------------------
(***************************************************************************)
(* The way of a packet: the telemetry and heartbeat threads of main make   *)
(* the sensor nodes send (SensorNode::tick, SensorNode::sendHeartbeat,     *)
(* UdpSender::send), the network loses, duplicates and reorders, the UDP   *)
(* thread receives (UdpReceiver::receivePacket) and the gateway decodes    *)
(* and handles (Gateway::handlePacket).  The handlers, the watchdog and    *)
(* the clock are those of Gateway; the clock is not set back here.         *)
(*                                                                         *)
(* The deserializer throws on an incomplete packet.  No function between   *)
(* it and the body of the UDP thread catches, so the process is aborted.   *)
(*                                                                         *)
(* Time: a thread wakes at most Oversleep late, a delayed packet arrives   *)
(* at most Delay late; a round of sends, an ordinary delivery and a pass   *)
(* of the UDP thread, which polls its socket, take less than a unit.       *)
(***************************************************************************)
EXTENDS Gateway, PacketSerializer, SequencesExt

CONSTANTS
  Measurements,       \* what a sensor can measure: type, state, value
  Failing,            \* sensors that send one heartbeat only (3 and 7)
  Recovering,         \* those of them that main switches on again (7)
  HeartbeatInterval,  \* between two rounds of heartbeats
  TelemetryInterval,  \* between two rounds of telemetry
  Oversleep,          \* bound: by how much a thread wakes late
  Delay,              \* bound: by how much the network delays a packet
  Strays,             \* datagrams of other programs
  LastRound,          \* bound: the last time at which a round of telemetry begins
  MaxFaults           \* bound: faults of the network in a behaviour

ASSUME NetworkAssumption ==
  /\ Sensors \subseteq Nat
  /\ Recovering \subseteq Failing /\ Failing \subseteq Sensors
  /\ HeartbeatInterval \in Nat \ {0} /\ TelemetryInterval \in Nat \ {0}
  /\ Oversleep \in Nat /\ Delay \in Nat
  /\ Strays \subseteq Seq(Byte)
  /\ LastRound \in Nat /\ MaxFaults \in Nat

\* What a node makes at time t.
HeartbeatAt(id, t) ==
  [header |-> [type |-> HEARTBEAT, sensorId |-> id, timestamp_ms |-> t]]

TelemetryAt(id, m, t) ==
  [header |-> [type |-> TELEMETRY, sensorId |-> id, timestamp_ms |-> t],
   type |-> m.type, state |-> m.state, value |-> m.value]

\* Ids, times and measurements have the widths of their types in the code, and
\* Readings are the telemetry messages made of them.
ASSUME MessageAssumption ==
  \A id \in Sensors, t \in 1 .. MaxTime :
    /\ HeartbeatAt(id, t) \in HeartbeatMessages
    /\ \A m \in Measurements :
         TelemetryAt(id, m, t) \in TelemetryMessages \cap Readings

\* Other programs do not speak the protocol of the sensors: what they send is cut
\* or of an unknown type.
ASSUME StrayAssumption ==
  \A packet \in Strays :
    \/ HeaderThrows(packet)
    \/ peekMessageType(packet) = TELEMETRY /\ TelemetryThrows(packet)
    \/ peekMessageType(packet) \notin {TELEMETRY, HEARTBEAT}

VARIABLES
  socket,       \* the datagrams that arrived, in the order of arrival
  delayed,      \* datagrams the network still holds back
  initial,      \* main is still sending the initial heartbeats
  enabled,      \* sensors whose heartbeats are not switched off
  beatTodo, beatWake,   \* heartbeats still to send in this round; next round
  tickTodo, tickWake,   \* the same of the telemetry thread
  sent,         \* telemetry messages the nodes have sent
  missed,       \* heartbeats of each sensor lost since one was handled
  faults,       \* what the network did
  aborted       \* std::terminate was called

threads == <<initial, enabled, beatTodo, beatWake, tickTodo, tickWake, sent>>
channel == <<socket, delayed>>
netVars == <<vars, channel, threads, missed, faults, aborted>>

NetInit ==
  /\ Init
  /\ socket = <<>> /\ delayed = <<>>
  /\ initial = TRUE
  /\ enabled = Sensors \ Failing
  /\ beatTodo = Sensors /\ beatWake = StartTime
  /\ tickTodo = {} /\ tickWake = StartTime
  /\ sent = {}
  /\ missed = [id \in Sensors |-> 0]
  /\ faults = [lost |-> 0, moved |-> 0, strays |-> 0, unsent |-> 0]
  /\ aborted = FALSE

-----------------------------------------------------------------------------
\* The network.  UDP promises nothing, and the port is open to other programs.

MayFail == faults.lost + faults.moved + faults.strays + faults.unsent < MaxFaults

arrive(packet) ==
  /\ socket' = Append(socket, packet)
  /\ UNCHANGED <<delayed, missed, faults, aborted>>

lose(packet) ==
  /\ LET header == readHeader(packet)
     IN  missed' = IF header.type = HEARTBEAT
                   THEN [missed EXCEPT ![header.sensorId] = @ + 1] ELSE missed
  /\ faults' = [faults EXCEPT !.lost = @ + 1]
  /\ UNCHANGED <<socket, delayed, aborted>>

duplicate(packet) ==
  /\ socket' = Append(socket, packet)
  /\ delayed' = Append(delayed, packet)
  /\ faults' = [faults EXCEPT !.moved = @ + 1]
  /\ UNCHANGED <<missed, aborted>>

delay(packet) ==
  /\ delayed' = Append(delayed, packet)
  /\ faults' = [faults EXCEPT !.moved = @ + 1]
  /\ UNCHANGED <<socket, missed, aborted>>

\* sendto fails: UdpSender::send throws, and no sending thread catches.
sendFails ==
  /\ aborted' = TRUE
  /\ faults' = [faults EXCEPT !.unsent = @ + 1]
  /\ UNCHANGED <<socket, delayed, missed>>

\* UdpSender::send, and what becomes of the packet.
send(packet) ==
  \/ arrive(packet)
  \/ MayFail /\ (lose(packet) \/ duplicate(packet) \/ delay(packet) \/ sendFails)

deliver(i) ==
  /\ socket' = Append(socket, delayed[i])
  /\ delayed' = RemoveAt(delayed, i)
  /\ UNCHANGED <<vars, threads, missed, faults, aborted>>

\* A stray datagram; behind others it would be handled when they are gone.
stray(packet) ==
  /\ MayFail /\ socket = <<>>
  /\ socket' = <<packet>>
  /\ faults' = [faults EXCEPT !.strays = @ + 1]
  /\ UNCHANGED <<vars, delayed, threads, missed, aborted>>

-----------------------------------------------------------------------------
\* The heartbeat thread, after main's initial round.

wakeHeartbeats ==
  /\ beatTodo = {} /\ clock >= beatWake
  /\ beatTodo' = Sensors
  /\ UNCHANGED <<vars, channel, initial, enabled, beatWake, tickTodo, tickWake,
                 sent, missed, faults, aborted>>

Heartbeat(id) == HeartbeatAt(id, clock)

sendHeartbeat_faulty ==      \* the flag of a failed sensor is not read again
  /\ beatTodo # {}
  /\ LET id == Min(beatTodo)
     IN  /\ IF initial \/ id \notin Failing
            THEN send(serializeHeartbeat(Heartbeat(id)))
            ELSE UNCHANGED <<channel, missed, faults, aborted>>
         /\ beatTodo' = beatTodo \ {id}
         /\ beatWake' = IF beatTodo # {id} THEN beatWake
                        ELSE IF initial THEN clock ELSE clock + HeartbeatInterval
         /\ initial' = (initial /\ beatTodo # {id})
  /\ UNCHANGED <<vars, enabled, tickTodo, tickWake, sent>>

\* One node of the round.  After the last one the thread sleeps; the initial
\* round is main's, and the thread starts right after it.
sendHeartbeat ==
  /\ beatTodo # {}
  /\ LET id == Min(beatTodo)
     IN  /\ IF initial \/ id \in enabled
            THEN send(serializeHeartbeat(Heartbeat(id)))
            ELSE UNCHANGED <<channel, missed, faults, aborted>>
         /\ beatTodo' = beatTodo \ {id}
         /\ beatWake' = IF beatTodo # {id} THEN beatWake
                        ELSE IF initial THEN clock ELSE clock + HeartbeatInterval
         /\ initial' = (initial /\ beatTodo # {id})
  /\ UNCHANGED <<vars, enabled, tickTodo, tickWake, sent>>

\* sensor7Enabled = true
recoverSensor(id) ==
  /\ ~initial
  /\ id \in Recovering \ enabled
  /\ enabled' = enabled \cup {id}
  /\ UNCHANGED <<vars, channel, initial, beatTodo, beatWake, tickTodo, tickWake,
                 sent, missed, faults, aborted>>

-----------------------------------------------------------------------------
\* The telemetry thread.

wakeTelemetry ==
  /\ tickTodo = {} /\ clock >= tickWake /\ clock <= LastRound
  /\ tickTodo' = Sensors
  /\ UNCHANGED <<vars, channel, initial, enabled, beatTodo, beatWake, tickWake,
                 sent, missed, faults, aborted>>

Telemetry_faulty(id, m) ==     \* the timestamp is narrowed and wraps
  TelemetryAt(id, m, clock % 2)

Telemetry(id, m) == TelemetryAt(id, m, clock)

\* SensorNode::tick of one node of the round.
tick(m) ==
  /\ tickTodo # {}
  /\ LET id == Min(tickTodo)
     IN  /\ send(serializeTelemetry(Telemetry(id, m)))
         /\ sent' = sent \cup {Telemetry(id, m)}
         /\ tickTodo' = tickTodo \ {id}
         /\ tickWake' = IF tickTodo = {id} THEN clock + TelemetryInterval
                                           ELSE tickWake
  /\ UNCHANGED <<vars, initial, enabled, beatTodo, beatWake>>

-----------------------------------------------------------------------------
\* The UDP thread: receivePacket, which hands the packet to handlePacket.

throw ==
  /\ aborted' = TRUE
  /\ UNCHANGED <<vars, missed>>

receiveTelemetry(packet) ==
  /\ peekMessageType(packet) = TELEMETRY
  /\ \/ /\ TelemetryThrows(packet)
        /\ throw
     \/ /\ ~TelemetryThrows(packet)
        /\ LET message == deserializeTelemetry(packet)
           IN  updateSensorInfo(message.header.sensorId, message)
        /\ UNCHANGED <<missed, aborted>>

receiveHeartbeat_faulty(packet) ==    \* no break: falls into the default branch
  /\ peekMessageType(packet) = HEARTBEAT
  /\ LET id == deserializeHeartbeat(packet).header.sensorId
     IN  /\ sensors' = Stored(id, AfterHeartbeat(id))
         /\ missed' = [missed EXCEPT ![id] = 0]
  /\ heartbeatPacketsReceived' = heartbeatPacketsReceived + 1
  /\ unknownTypes' = unknownTypes + 1
  /\ UNCHANGED <<clock, telemetryPacketsReceived, watchdog, currentTime, alarms,
                 aborted>>

receiveHeartbeat(packet) ==
  /\ peekMessageType(packet) = HEARTBEAT
  /\ LET id == deserializeHeartbeat(packet).header.sensorId
     IN  /\ handleHeartbeat(id)
         /\ missed' = [missed EXCEPT ![id] = 0]
  /\ UNCHANGED aborted

receiveUnknown(packet) ==
  /\ peekMessageType(packet) \notin {TELEMETRY, HEARTBEAT}
  /\ unknownMessageType
  /\ UNCHANGED <<missed, aborted>>

receivePacket ==
  /\ socket # <<>>
  /\ socket' = Tail(socket)
  /\ LET packet == Head(socket)
     IN  \/ HeaderThrows(packet) /\ throw
         \/ /\ ~HeaderThrows(packet)
            /\ \/ receiveTelemetry(packet)
               \/ receiveHeartbeat(packet)
               \/ receiveUnknown(packet)
  /\ UNCHANGED <<delayed, threads, faults>>

-----------------------------------------------------------------------------
\* Time passes only when nothing that is due is too late already.  A packet
\* carries the time at which it was sent.
passTime ==
  /\ beatTodo = {} /\ tickTodo = {} /\ socket = <<>>
  /\ clock < beatWake + Oversleep
  /\ clock < tickWake + Oversleep \/ clock > LastRound
  /\ \A i \in DOMAIN delayed :
       clock < readHeader(delayed[i]).timestamp_ms + Delay
  /\ Tick
  /\ UNCHANGED <<channel, threads, missed, faults, aborted>>

watchdogStep ==
  /\ readCurrentTime \/ detectOfflineSensors
  /\ UNCHANGED <<channel, threads, missed, faults, aborted>>

heartbeatThread == wakeHeartbeats \/ sendHeartbeat
telemetryThread == wakeTelemetry \/ \E m \in Measurements : tick(m)

recovery == \E id \in Recovering : recoverSensor(id)

deliverDelayed == \E i \in DOMAIN delayed : deliver(i)

NetNext ==
  /\ ~aborted
  /\ \/ heartbeatThread
     \/ telemetryThread
     \/ recovery
     \/ receivePacket
     \/ watchdogStep
     \/ passTime
     \/ deliverDelayed
     \/ \E packet \in Strays : stray(packet)

NetSpec == NetInit /\ [][NetNext]_netVars

\* While the process runs it does not stall: as long as something is due, some
\* of it is done and time goes on, and the watchdog goes on sweeping.
progress ==
  heartbeatThread \/ telemetryThread \/ receivePacket \/ deliverDelayed \/ passTime

NetFairSpec ==
  /\ NetSpec
  /\ WF_netVars(~aborted /\ progress)
  /\ WF_netVars(~aborted /\ watchdogStep)

-----------------------------------------------------------------------------
\* Properties.

\* Every variable keeps its type; what is on its way is a sequence of packets.
NetTypeOK ==
  /\ TypeOK
  /\ socket \in Seq(Seq(Byte)) /\ delayed \in Seq(Seq(Byte))
  /\ initial \in BOOLEAN /\ aborted \in BOOLEAN
  /\ enabled \subseteq Sensors
  /\ beatTodo \subseteq Sensors /\ tickTodo \subseteq Sensors
  /\ beatWake \in Nat /\ tickWake \in Nat
  /\ sent \subseteq Readings
  /\ missed \in [Sensors -> Nat]
  /\ faults \in [lost : Nat, moved : Nat, strays : Nat, unsent : Nat]

\* Serializing, the network and deserializing together invent nothing: what
\* the registry holds of a sensor is a reading which that sensor sent, every
\* field of it, whatever was lost, repeated, reordered or stray.
StoredWasSent ==
  \A id \in DOMAIN sensors :
    LET reading == sensors[id].lastTelemetry
    IN  reading # NoReading => reading \in sent /\ reading.header.sensorId = id

\* No packet of the nodes makes the deserializer throw: the process is aborted
\* only after a stray datagram or a failed sendto.
NodesNeverAbort == aborted => faults.strays + faults.unsent > 0

\* The registry goes back to an older reading only when the network reordered
\* or repeated packets (nothing compares timestamps).
ReadingsOnlyAdvance ==
  [][\A id \in DOMAIN sensors :
       LET old == sensors[id].lastTelemetry
           new == sensors'[id].lastTelemetry
       IN  old # NoReading /\ new.header.timestamp_ms < old.header.timestamp_ms
             => faults.moved > 0]_netVars

\* How many heartbeats in a row may be lost before the timeout can expire.
\* With 5 s and 10 s as in the code this is none, unless nothing is ever late.
Tolerated == (Timeout - Delay) \div (HeartbeatInterval + Oversleep) - 1

\* A node that keeps sending heartbeats is marked OFFLINE only when more of its
\* heartbeats were lost in a row than the timeout tolerates, or its heartbeat
\* overtook the watchdog between reading the clock and locking.
LiveNodeKept ==
  [][\A id \in DOMAIN sensors \ Failing :
       HealthOf(id) = "ONLINE" /\ sensors'[id].health = "OFFLINE"
         => missed[id] > Tolerated \/ LastBeat(id) > currentTime]_netVars

\* A sensor that fell silent after its first heartbeat is marked OFFLINE unless
\* it is switched on again; the clock's bound leaves room for the timeout.
Is(id, h) == id \in DOMAIN sensors /\ HealthOf(id) = h

SilenceDetected ==
  \A id \in Failing :
    Is(id, "ONLINE") /\ id \notin enabled
      ~> Is(id, "OFFLINE") \/ id \in enabled \/ aborted

\* A sensor that main switched on again, early enough for a round of heartbeats
\* before the clock's bound, comes back ONLINE, unless its heartbeat was lost.
RecoveredOnline ==
  \A id \in Recovering :
    id \in enabled /\ clock <= MaxTime - HeartbeatInterval - Oversleep
      ~> Is(id, "ONLINE") \/ missed[id] > 0 \/ aborted

\* Threads, wire format and network together implement the gateway as it is
\* specified for arbitrary packets, so what is proved of Gateway holds here.
GatewaySpec == Spec
=============================================================================
