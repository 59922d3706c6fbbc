------------------------------- MODULE Gateway -------------------------------
(***************************************************************************)
(* The gateway (src/gateway/Gateway.cpp): the registry of sensors, the two *)
(* packet handlers run by the UDP thread, and detectOfflineSensors run by  *)
(* the watchdog thread of main.                                            *)
(*                                                                         *)
(* Gateway::mtx is held for the whole of each handler and for the whole    *)
(* loop of detectOfflineSensors, and nothing reads the registry without    *)
(* it, so each critical section is one step.  detectOfflineSensors reads   *)
(* the clock BEFORE it takes the lock: it is two steps, and the UDP thread *)
(* may run in between.                                                     *)
(*                                                                         *)
(* Time is system_clock in milliseconds; times are uint64_t, so their      *)
(* difference wraps.  Packets are complete here: an incomplete one makes   *)
(* the deserializer throw before any of these handlers is reached.         *)
(***************************************************************************)
EXTENDS Integers, FiniteSets

CONSTANTS
  Sensors,     \* the sensor ids that occur in packet headers
  Readings,    \* the telemetry messages (timestamp, type, state, value)
  NoReading,   \* TelemetryMessage{}: no telemetry has been stored yet
  Timeout,     \* SENSOR_HEARTBEAT_TIMEOUT_MS
  Second,      \* milliseconds in a second
  Word,        \* 2^64: uint64_t arithmetic is modulo Word
  StartTime,   \* what now() returns when the gateway is constructed
  ClockSteps,  \* TRUE iff system_clock may be set back while it runs
  MaxTime,     \* bound: the last time the clock reaches
  MaxTelemetry, MaxHeartbeats, MaxUnknown   \* bounds: packets of each type

ASSUME GatewayAssumption ==
  /\ NoReading \notin Readings
  /\ Timeout \in Nat
  /\ Second \in Nat \ {0}
  /\ StartTime \in Nat \ {0}
  /\ MaxTime \in Nat /\ StartTime <= MaxTime
  /\ Word \in Nat /\ MaxTime + Timeout < Word
  /\ ClockSteps \in BOOLEAN
  /\ MaxTelemetry \in Nat /\ MaxHeartbeats \in Nat /\ MaxUnknown \in Nat

VARIABLES
  clock,                     \* system_clock
  sensors,                   \* the registry: id -> SensorInfo
  telemetryPacketsReceived,
  heartbeatPacketsReceived,
  watchdog,                  \* where the watchdog thread is
  currentTime,               \* its local: the clock as it last read it
  alarms,                    \* log lines "Sensor <id> is offline", per id
  unknownTypes               \* log lines "Unknown message type"

vars == <<clock, sensors, telemetryPacketsReceived, heartbeatPacketsReceived,
          watchdog, currentTime, alarms, unknownTypes>>

Time == 0 .. MaxTime

Health == {"UNKNOWN", "ONLINE", "OFFLINE"}

SensorInfo ==
  [lastTelemetry             : Readings \cup {NoReading},
   lastTelemetryReceivedTime : Time,
   lastHeartbeatReceivedTime : Time,
   health                    : Health]

\* Faulty variants: a definition named ..._faulty is what a plausible bug would
\* make of the definition that follows it.  No specification uses one; they
\* show that the properties below can tell such a bug.
FreshInfo_faulty ==      \* lastHeartbeatReceivedTime starts as -1, not 0
  [lastTelemetry             |-> NoReading,
   lastTelemetryReceivedTime |-> 0,
   lastHeartbeatReceivedTime |-> -1,
   health                    |-> "UNKNOWN"]

\* A SensorInfo as its default member initializers leave it.
FreshInfo ==
  [lastTelemetry             |-> NoReading,
   lastTelemetryReceivedTime |-> 0,
   lastHeartbeatReceivedTime |-> 0,
   health                    |-> "UNKNOWN"]

\* uint64_t subtraction.
Minus64(a, b) == IF b <= a THEN a - b ELSE a - b + Word

\* sensors[id]: operator[] of the map creates a fresh entry when there is none.
Entry(id) == IF id \in DOMAIN sensors THEN sensors[id] ELSE FreshInfo

\* The registry after info was assigned to sensors[id].
Stored(id, info) ==
  [i \in DOMAIN sensors \cup {id} |-> IF i = id THEN info ELSE sensors[i]]

HealthOf(id) == sensors[id].health

LastBeat(id) == sensors[id].lastHeartbeatReceivedTime

Init ==
  /\ clock = StartTime
  /\ sensors = [id \in {} |-> FreshInfo]
  /\ telemetryPacketsReceived = 0
  /\ heartbeatPacketsReceived = 0
  /\ watchdog = "idle"
  /\ currentTime = StartTime
  /\ alarms = [id \in Sensors |-> 0]
  /\ unknownTypes = 0

-----------------------------------------------------------------------------
\* The UDP thread.

AfterTelemetry_faulty(id, reading) ==   \* telemetry counts as a sign of life
  [Entry(id) EXCEPT !.lastTelemetry = reading,
                    !.lastTelemetryReceivedTime = clock,
                    !.health = "ONLINE"]

AfterTelemetry_reset_faulty(id, reading) ==   \* replaces the whole entry
  [FreshInfo EXCEPT !.lastTelemetry = reading,
                    !.lastTelemetryReceivedTime = clock]

AfterTelemetry(id, reading) ==
  [Entry(id) EXCEPT !.lastTelemetry = reading,
                    !.lastTelemetryReceivedTime = clock]

updateSensorInfo(id, reading) ==
  /\ telemetryPacketsReceived < MaxTelemetry
  /\ sensors' = Stored(id, AfterTelemetry(id, reading))
  /\ telemetryPacketsReceived' = telemetryPacketsReceived + 1
  /\ UNCHANGED <<clock, heartbeatPacketsReceived, watchdog, currentTime,
                 alarms, unknownTypes>>

AfterHeartbeat(id) ==
  [Entry(id) EXCEPT !.lastHeartbeatReceivedTime = clock,
                    !.health = "ONLINE"]

handleHeartbeat_faulty(id) ==   \* the first heartbeat of a sensor not counted
  /\ heartbeatPacketsReceived < MaxHeartbeats
  /\ sensors' = Stored(id, AfterHeartbeat(id))
  /\ heartbeatPacketsReceived' =
       heartbeatPacketsReceived + (IF id \in DOMAIN sensors THEN 1 ELSE 0)
  /\ UNCHANGED <<clock, telemetryPacketsReceived, watchdog, currentTime,
                 alarms, unknownTypes>>

handleHeartbeat(id) ==
  /\ heartbeatPacketsReceived < MaxHeartbeats
  /\ sensors' = Stored(id, AfterHeartbeat(id))
  /\ heartbeatPacketsReceived' = heartbeatPacketsReceived + 1
  /\ UNCHANGED <<clock, telemetryPacketsReceived, watchdog, currentTime,
                 alarms, unknownTypes>>

\* The default branch of handlePacket: a header with another type byte.
unknownMessageType ==
  /\ unknownTypes < MaxUnknown
  /\ unknownTypes' = unknownTypes + 1
  /\ UNCHANGED <<clock, sensors, telemetryPacketsReceived,
                 heartbeatPacketsReceived, watchdog, currentTime, alarms>>

handlePacket ==
  \/ \E id \in Sensors, reading \in Readings : updateSensorInfo(id, reading)
  \/ \E id \in Sensors : handleHeartbeat(id)
  \/ unknownMessageType

-----------------------------------------------------------------------------
\* The watchdog thread: detectOfflineSensors, then a sleep, for ever.

readCurrentTime ==
  /\ watchdog = "idle"
  /\ watchdog' = "scan"
  /\ currentTime' = clock
  /\ UNCHANGED <<clock, sensors, telemetryPacketsReceived,
                 heartbeatPacketsReceived, alarms, unknownTypes>>

TimedOut_faulty(id) ==          \* >= for >
  /\ HealthOf(id) # "UNKNOWN"
  /\ LastBeat(id) # 0
  /\ Minus64(currentTime, LastBeat(id)) >= Timeout

TimedOut_telemetry_faulty(id) ==   \* telemetry time for heartbeat time
  /\ HealthOf(id) # "UNKNOWN"
  /\ LastBeat(id) # 0
  /\ Minus64(currentTime, sensors[id].lastTelemetryReceivedTime) > Timeout

\* The tests of the loop body on the heartbeat time of one sensor.
TimedOut(id) ==
  /\ HealthOf(id) # "UNKNOWN"
  /\ LastBeat(id) # 0
  /\ Minus64(currentTime, LastBeat(id)) > Timeout

NewlyOffline_faulty(id) ==      \* reports a sensor that is OFFLINE already
  id \in DOMAIN sensors /\ TimedOut(id)

\* The sweep marks and reports this sensor.
NewlyOffline(id) ==
  id \in DOMAIN sensors /\ TimedOut(id) /\ HealthOf(id) # "OFFLINE"

detectOfflineSensors ==
  /\ watchdog = "scan"
  /\ watchdog' = "idle"
  /\ sensors' = [id \in DOMAIN sensors |->
                   IF NewlyOffline(id)
                   THEN [sensors[id] EXCEPT !.health = "OFFLINE"]
                   ELSE sensors[id]]
  /\ alarms' = [id \in Sensors |-> IF NewlyOffline(id) THEN alarms[id] + 1
                                                      ELSE alarms[id]]
  /\ UNCHANGED <<clock, telemetryPacketsReceived, heartbeatPacketsReceived,
                 currentTime, unknownTypes>>

-----------------------------------------------------------------------------
\* getSecondsSinceLastHeartbeat, called by the monitors.
getSecondsSinceLastHeartbeat_faulty(id) ==   \* no test for "never heard"
  IF id \notin DOMAIN sensors
  THEN 0
  ELSE Minus64(clock, LastBeat(id)) \div Second

getSecondsSinceLastHeartbeat_telemetry_faulty(id) ==   \* the wrong time
  IF id \notin DOMAIN sensors \/ LastBeat(id) = 0
  THEN 0
  ELSE Minus64(clock, sensors[id].lastTelemetryReceivedTime) \div Second

getSecondsSinceLastHeartbeat(id) ==
  IF id \notin DOMAIN sensors \/ LastBeat(id) = 0
  THEN 0
  ELSE Minus64(clock, LastBeat(id)) \div Second

\* The clock: time passes, and it may be set back (NTP, an operator).
Tick ==
  /\ clock < MaxTime
  /\ clock' = clock + 1
  /\ UNCHANGED <<sensors, telemetryPacketsReceived, heartbeatPacketsReceived,
                 watchdog, currentTime, alarms, unknownTypes>>

SetBack ==
  /\ ClockSteps
  /\ \E t \in 1 .. clock - 1 : clock' = t
  /\ UNCHANGED <<sensors, telemetryPacketsReceived, heartbeatPacketsReceived,
                 watchdog, currentTime, alarms, unknownTypes>>

Next ==
  \/ handlePacket
  \/ readCurrentTime
  \/ detectOfflineSensors
  \/ Tick
  \/ SetBack

Spec == Init /\ [][Next]_vars

-----------------------------------------------------------------------------
\* Properties.

\* Every variable keeps its type; the keys of the registry are sensor ids.
TypeOK ==
  /\ clock \in 1 .. MaxTime
  /\ DOMAIN sensors \subseteq Sensors
  /\ sensors \in [DOMAIN sensors -> SensorInfo]
  /\ telemetryPacketsReceived \in 0 .. MaxTelemetry
  /\ heartbeatPacketsReceived \in 0 .. MaxHeartbeats
  /\ watchdog \in {"idle", "scan"}
  /\ currentTime \in 1 .. MaxTime
  /\ alarms \in [Sensors -> Nat]
  /\ unknownTypes \in 0 .. MaxUnknown

\* The two ways the code tells that no heartbeat has come yet, health UNKNOWN
\* and a zero heartbeat time, agree in every entry, whatever mix of telemetry,
\* heartbeats, sweeps and clock changes made it (detectOfflineSensors tests
\* both, getSecondsSinceLastHeartbeat only the second).
HealthTracksHeartbeats ==
  \A id \in DOMAIN sensors : HealthOf(id) = "UNKNOWN" <=> LastBeat(id) = 0

\* A sensor is reported offline at most once per heartbeat: a watchdog that
\* sweeps a dead sensor every second logs it once, and the reports of a sensor
\* that is ONLINE now are fewer than the heartbeats received.
AlarmsNeedHeartbeats ==
  \A id \in Sensors :
    IF id \in DOMAIN sensors /\ HealthOf(id) = "ONLINE"
    THEN alarms[id] < heartbeatPacketsReceived
    ELSE alarms[id] <= heartbeatPacketsReceived

\* The packet counters account for the registry: no entry without a packet, no
\* health verdict without a heartbeat.
Registered == DOMAIN sensors
Heard      == {id \in DOMAIN sensors : HealthOf(id) # "UNKNOWN"}

CountersCoverRegistry ==
  /\ Cardinality(Heard) <= heartbeatPacketsReceived
  /\ Cardinality(Registered)
        <= telemetryPacketsReceived + heartbeatPacketsReceived

\* Between two sweeps no sensor is ONLINE that had already been silent for
\* longer than the timeout when the last sweep read the clock: a sweep misses
\* nobody, and nothing but a newer heartbeat makes a sensor ONLINE again.
OnlineMeansFresh ==
  watchdog = "idle" =>
    \A id \in DOMAIN sensors :
      HealthOf(id) = "ONLINE" => currentTime - LastBeat(id) <= Timeout

\* When a sweep marks a sensor OFFLINE, the sensor has been silent for longer
\* than the timeout, or its heartbeat was handled after the sweep had read the
\* clock and before it took the lock (the unsigned difference then wraps).
OfflineSilentOrOvertaken ==
  [][\A id \in DOMAIN sensors :
       HealthOf(id) = "ONLINE" /\ sensors'[id].health = "OFFLINE"
         => \/ clock - LastBeat(id) > Timeout
            \/ LastBeat(id) > currentTime]_vars

\* What ProtocolTypes.hpp says of OFFLINE: no heartbeat was received within the
\* allowed timeout period.
OfflineMeansSilent ==
  \A id \in DOMAIN sensors :
    HealthOf(id) = "OFFLINE" => clock - LastBeat(id) > Timeout

\* The age shown to users is time that really passed since the gateway
\* started (getSecondsSinceLastHeartbeat).
AgeIsReal ==
  \A id \in Sensors :
    getSecondsSinceLastHeartbeat(id) * Second <= clock - StartTime

\* The gateway implements the abstract health tracker: no telemetry packet
\* changes health, no sensor returns to UNKNOWN or leaves the registry, and
\* every change to OFFLINE is from ONLINE and logged once.
SH == INSTANCE SensorHealth WITH
        health <- [id \in Sensors |-> IF id \in DOMAIN sensors
                                      THEN HealthOf(id) ELSE "ABSENT"]

ImplementsSensorHealth == SH!Spec

=============================================================================
