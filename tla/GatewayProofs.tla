---------------------------- MODULE GatewayProofs ----------------------------
(***************************************************************************)
(* Proofs about Gateway, for every set of sensors, every timeout and every *)
(* bound.                                                                  *)
(***************************************************************************)
EXTENDS Gateway, FiniteSetTheorems, TLAPS

USE GatewayAssumption

-----------------------------------------------------------------------------
\* The operators the handlers are built from.

\* The entry a handler works on is a SensorInfo, found or fresh.
LEMMA EntryType ==
  ASSUME TypeOK, NEW id
  PROVE  Entry(id) \in SensorInfo
BY DEF TypeOK, Entry, SensorInfo, FreshInfo, Time, Health

\* Assigning an entry adds at most one key and keeps the others.
LEMMA StoredType ==
  ASSUME TypeOK, NEW id \in Sensors, NEW info \in SensorInfo
  PROVE  /\ DOMAIN Stored(id, info) = DOMAIN sensors \cup {id}
         /\ DOMAIN Stored(id, info) \subseteq Sensors
         /\ Stored(id, info) \in [DOMAIN Stored(id, info) -> SensorInfo]
         /\ Stored(id, info)[id] = info
         /\ \A i \in DOMAIN sensors \ {id} : Stored(id, info)[i] = sensors[i]
BY DEF TypeOK, Stored

\* Telemetry touches neither the health nor the heartbeat time of its entry.
LEMMA AfterTelemetryFacts ==
  ASSUME TypeOK, NEW id, NEW reading \in Readings
  PROVE  /\ AfterTelemetry(id, reading) \in SensorInfo
         /\ AfterTelemetry(id, reading).health = Entry(id).health
         /\ AfterTelemetry(id, reading).lastHeartbeatReceivedTime
              = Entry(id).lastHeartbeatReceivedTime
<1>1. Entry(id) \in SensorInfo
  BY EntryType
<1>2. clock \in Time
  BY DEF TypeOK, Time
<1> QED
  BY <1>1, <1>2 DEF AfterTelemetry, SensorInfo

\* A heartbeat makes its entry ONLINE as of the clock.
LEMMA AfterHeartbeatFacts ==
  ASSUME TypeOK, NEW id
  PROVE  /\ AfterHeartbeat(id) \in SensorInfo
         /\ AfterHeartbeat(id).health = "ONLINE"
         /\ AfterHeartbeat(id).lastHeartbeatReceivedTime = clock
<1>1. Entry(id) \in SensorInfo
  BY EntryType
<1>2. clock \in Time
  BY DEF TypeOK, Time
<1> QED
  BY <1>1, <1>2 DEF AfterHeartbeat, SensorInfo, Health

\* A sweep keeps the keys and all but the health of the sensors it gives up.
LEMMA SweepFacts ==
  ASSUME TypeOK, detectOfflineSensors
  PROVE  /\ DOMAIN sensors' = DOMAIN sensors
         /\ sensors' \in [DOMAIN sensors' -> SensorInfo]
         /\ \A id \in DOMAIN sensors :
              /\ sensors'[id].lastHeartbeatReceivedTime = LastBeat(id)
              /\ NewlyOffline(id) => sensors'[id].health = "OFFLINE"
              /\ ~NewlyOffline(id) => sensors'[id].health = HealthOf(id)
BY DEF detectOfflineSensors, TypeOK, SensorInfo, Health, LastBeat, HealthOf

-----------------------------------------------------------------------------
\* Type correctness.

\* No handler, sweep or clock change takes a variable out of its type.
LEMMA TypeStep ==
  ASSUME TypeOK, [Next]_vars
  PROVE  TypeOK'
<1>1. ASSUME NEW id \in Sensors, NEW reading \in Readings,
             updateSensorInfo(id, reading)
      PROVE  TypeOK'
  <2>1. AfterTelemetry(id, reading) \in SensorInfo
    BY AfterTelemetryFacts
  <2>2. sensors' = Stored(id, AfterTelemetry(id, reading))
    BY <1>1 DEF updateSensorInfo
  <2>3. /\ DOMAIN sensors' \subseteq Sensors
        /\ sensors' \in [DOMAIN sensors' -> SensorInfo]
    BY <2>1, <2>2, StoredType
  <2> QED
    BY <1>1, <2>3 DEF updateSensorInfo, TypeOK
<1>2. ASSUME NEW id \in Sensors, handleHeartbeat(id)
      PROVE  TypeOK'
  <2>1. AfterHeartbeat(id) \in SensorInfo
    BY AfterHeartbeatFacts
  <2>2. sensors' = Stored(id, AfterHeartbeat(id))
    BY <1>2 DEF handleHeartbeat
  <2>3. /\ DOMAIN sensors' \subseteq Sensors
        /\ sensors' \in [DOMAIN sensors' -> SensorInfo]
    BY <2>1, <2>2, StoredType
  <2> QED
    BY <1>2, <2>3 DEF handleHeartbeat, TypeOK
<1>3. CASE unknownMessageType
  BY <1>3 DEF unknownMessageType, TypeOK
<1>4. CASE readCurrentTime
  BY <1>4 DEF readCurrentTime, TypeOK
<1>5. CASE detectOfflineSensors
  <2>1. /\ DOMAIN sensors' \subseteq Sensors
        /\ sensors' \in [DOMAIN sensors' -> SensorInfo]
    BY <1>5, SweepFacts DEF TypeOK
  <2>2. alarms' \in [Sensors -> Nat]
    BY <1>5 DEF detectOfflineSensors, TypeOK
  <2> QED
    BY <1>5, <2>1, <2>2 DEF detectOfflineSensors, TypeOK
<1>6. CASE Tick
  BY <1>6 DEF Tick, TypeOK
<1>7. CASE SetBack
  BY <1>7 DEF SetBack, TypeOK
<1>8. CASE UNCHANGED vars
  BY <1>8 DEF vars, TypeOK
<1> QED
  BY <1>1, <1>2, <1>3, <1>4, <1>5, <1>6, <1>7, <1>8 DEF Next, handlePacket

\* Every handler, sweep and clock change keeps every variable in its type
\* (Gateway.cpp: updateSensorInfo, handleHeartbeat, detectOfflineSensors).
THEOREM TypeCorrect == Spec => []TypeOK
<1>1. Init => TypeOK
  BY DEF Init, TypeOK
<1>2. TypeOK /\ [Next]_vars => TypeOK'
  BY TypeStep
<1> QED
  BY <1>1, <1>2, PTL DEF Spec

-----------------------------------------------------------------------------
\* Health and heartbeats.

\* What a step does to the health and the heartbeat time of every entry: the
\* four ways they can come about, the one place where the actions are expanded.
LEMMA HealthStep ==
  ASSUME TypeOK, [Next]_vars, NEW i \in DOMAIN sensors'
  PROVE  \/ /\ i \in DOMAIN sensors                          \* untouched
            /\ HealthOf(i)' = HealthOf(i)
            /\ LastBeat(i)' = LastBeat(i)
         \/ /\ i \notin DOMAIN sensors                       \* first telemetry
            /\ HealthOf(i)' = "UNKNOWN"
            /\ LastBeat(i)' = 0
         \/ /\ HealthOf(i)' = "ONLINE"                       \* heartbeat
            /\ LastBeat(i)' = clock
            /\ heartbeatPacketsReceived' = heartbeatPacketsReceived + 1
            /\ UNCHANGED <<clock, watchdog, currentTime, alarms>>
         \/ /\ detectOfflineSensors                          \* given up
            /\ NewlyOffline(i)
            /\ HealthOf(i)' = "OFFLINE"
            /\ LastBeat(i)' = LastBeat(i)
<1>1. ASSUME NEW id \in Sensors, NEW reading \in Readings,
             updateSensorInfo(id, reading)
      PROVE  \/ /\ i \in DOMAIN sensors
                /\ HealthOf(i)' = HealthOf(i)
                /\ LastBeat(i)' = LastBeat(i)
             \/ /\ i \notin DOMAIN sensors
                /\ HealthOf(i)' = "UNKNOWN"
                /\ LastBeat(i)' = 0
  <2>1. sensors' = Stored(id, AfterTelemetry(id, reading))
    BY <1>1 DEF updateSensorInfo
  <2>2. CASE i = id
    <3>1. sensors'[i] = AfterTelemetry(i, reading)
      BY <2>1, <2>2 DEF Stored
    <3>2. /\ HealthOf(i)' = Entry(i).health
          /\ LastBeat(i)' = Entry(i).lastHeartbeatReceivedTime
      BY <3>1, AfterTelemetryFacts DEF HealthOf, LastBeat
    <3> QED
      BY <3>2 DEF HealthOf, LastBeat, Entry, FreshInfo
  <2>3. CASE i # id
    <3>1. i \in DOMAIN sensors /\ sensors'[i] = sensors[i]
      BY <2>1, <2>3 DEF Stored
    <3> QED
      BY <3>1 DEF HealthOf, LastBeat
  <2> QED
    BY <2>2, <2>3
<1>2. ASSUME NEW id \in Sensors, handleHeartbeat(id)
      PROVE  \/ /\ i \in DOMAIN sensors
                /\ HealthOf(i)' = HealthOf(i)
                /\ LastBeat(i)' = LastBeat(i)
             \/ /\ HealthOf(i)' = "ONLINE"
                /\ LastBeat(i)' = clock
                /\ heartbeatPacketsReceived' = heartbeatPacketsReceived + 1
                /\ UNCHANGED <<clock, watchdog, currentTime, alarms>>
  <2>1. sensors' = Stored(id, AfterHeartbeat(id))
    BY <1>2 DEF handleHeartbeat
  <2>2. CASE i = id
    <3>1. sensors'[i] = AfterHeartbeat(i)
      BY <2>1, <2>2 DEF Stored
    <3>2. HealthOf(i)' = "ONLINE" /\ LastBeat(i)' = clock
      BY <3>1, AfterHeartbeatFacts DEF HealthOf, LastBeat
    <3> QED
      BY <1>2, <3>2 DEF handleHeartbeat
  <2>3. CASE i # id
    <3>1. i \in DOMAIN sensors /\ sensors'[i] = sensors[i]
      BY <2>1, <2>3 DEF Stored
    <3> QED
      BY <3>1 DEF HealthOf, LastBeat
  <2> QED
    BY <2>2, <2>3
<1>3. CASE detectOfflineSensors
  BY <1>3, SweepFacts DEF HealthOf, LastBeat
<1>4. CASE UNCHANGED sensors
  BY <1>4 DEF HealthOf, LastBeat
<1> QED
  BY <1>1, <1>2, <1>3, <1>4
     DEF Next, handlePacket, unknownMessageType, readCurrentTime, Tick,
         SetBack, vars

\* No entry is ever removed.
LEMMA RegistryGrows ==
  ASSUME TypeOK, [Next]_vars
  PROVE  DOMAIN sensors \subseteq DOMAIN sensors'
<1>1. ASSUME NEW id \in Sensors, NEW reading \in Readings,
             updateSensorInfo(id, reading)
      PROVE  DOMAIN sensors \subseteq DOMAIN sensors'
  BY <1>1 DEF updateSensorInfo, Stored
<1>2. ASSUME NEW id \in Sensors, handleHeartbeat(id)
      PROVE  DOMAIN sensors \subseteq DOMAIN sensors'
  BY <1>2 DEF handleHeartbeat, Stored
<1>3. CASE detectOfflineSensors
  BY <1>3, SweepFacts
<1>4. CASE UNCHANGED sensors
  BY <1>4
<1> QED
  BY <1>1, <1>2, <1>3, <1>4
     DEF Next, handlePacket, unknownMessageType, readCurrentTime, Tick,
         SetBack, vars

\* Health UNKNOWN and a zero heartbeat time are the same thing, for every mix
\* of packets, sweeps and clock changes: the invariant is inductive with the
\* type invariant (now() is never 0, so a heartbeat leaves a non-zero time).
THEOREM HealthTracked == Spec => []HealthTracksHeartbeats
<1>1. Init => HealthTracksHeartbeats
  BY DEF Init, HealthTracksHeartbeats
<1>2. TypeOK /\ HealthTracksHeartbeats /\ [Next]_vars
        => HealthTracksHeartbeats'
  <2> SUFFICES ASSUME TypeOK, HealthTracksHeartbeats, [Next]_vars,
                      NEW i \in DOMAIN sensors'
               PROVE  HealthOf(i)' = "UNKNOWN" <=> LastBeat(i)' = 0
    BY DEF HealthTracksHeartbeats, HealthOf, LastBeat
  <2>1. clock # 0
    BY DEF TypeOK
  <2>2. NewlyOffline(i) => LastBeat(i) # 0
    BY DEF NewlyOffline, TimedOut
  <2> QED
    BY <2>1, <2>2, HealthStep DEF HealthTracksHeartbeats
<1> QED
  BY <1>1, <1>2, TypeCorrect, PTL DEF Spec

\* The reports of a sensor never outrun the heartbeats received: a watchdog that
\* sweeps for ever reports a dead sensor once (the test for OFFLINE in
\* detectOfflineSensors), and the log cannot flood.
THEOREM AlarmsBounded == Spec => []AlarmsNeedHeartbeats
<1>1. Init => AlarmsNeedHeartbeats
  BY DEF Init, AlarmsNeedHeartbeats
<1>2. TypeOK /\ HealthTracksHeartbeats /\ AlarmsNeedHeartbeats /\ [Next]_vars
        => AlarmsNeedHeartbeats'
  <2> SUFFICES ASSUME TypeOK, HealthTracksHeartbeats, AlarmsNeedHeartbeats,
                      [Next]_vars, NEW i \in Sensors
               PROVE  IF i \in DOMAIN sensors' /\ HealthOf(i)' = "ONLINE"
                      THEN alarms'[i] < heartbeatPacketsReceived'
                      ELSE alarms'[i] <= heartbeatPacketsReceived'
    BY DEF AlarmsNeedHeartbeats, HealthOf
  <2>1. alarms[i] \in Nat /\ heartbeatPacketsReceived \in Nat
    BY DEF TypeOK
  <2>2. \/ heartbeatPacketsReceived' = heartbeatPacketsReceived
        \/ heartbeatPacketsReceived' = heartbeatPacketsReceived + 1
    BY DEF Next, handlePacket, updateSensorInfo, handleHeartbeat,
           unknownMessageType, readCurrentTime, detectOfflineSensors, Tick,
           SetBack, vars
  <2>3. CASE detectOfflineSensors /\ NewlyOffline(i)
    <3>1. i \in DOMAIN sensors /\ HealthOf(i) = "ONLINE"
      BY <2>3 DEF NewlyOffline, TimedOut, TypeOK, SensorInfo, Health, HealthOf
    <3>2. alarms[i] < heartbeatPacketsReceived
      BY <3>1 DEF AlarmsNeedHeartbeats
    <3>3. alarms'[i] = alarms[i] + 1
      BY <2>3 DEF detectOfflineSensors
    <3>4. HealthOf(i)' = "OFFLINE"
      BY <2>3, <3>1, SweepFacts DEF HealthOf
    <3> QED
      BY <2>1, <2>2, <3>2, <3>3, <3>4
  <2>4. CASE ~(detectOfflineSensors /\ NewlyOffline(i))
    <3>1. alarms'[i] = alarms[i]
      BY <2>4 DEF Next, handlePacket, updateSensorInfo, handleHeartbeat,
             unknownMessageType, readCurrentTime, detectOfflineSensors, Tick,
             SetBack, vars
    <3>2. alarms[i] <= heartbeatPacketsReceived
      BY <2>1 DEF AlarmsNeedHeartbeats
    <3>3. CASE i \in DOMAIN sensors' /\ HealthOf(i)' = "ONLINE"
      <4>1. \/ i \in DOMAIN sensors /\ HealthOf(i) = "ONLINE"
            \/ heartbeatPacketsReceived' = heartbeatPacketsReceived + 1
        BY <2>4, <3>3, HealthStep
      <4> QED
        BY <2>1, <2>2, <3>1, <3>2, <3>3, <4>1 DEF AlarmsNeedHeartbeats
    <3> QED
      BY <2>1, <2>2, <3>1, <3>2, <3>3
  <2> QED
    BY <2>3, <2>4
<1> QED
  BY <1>1, <1>2, TypeCorrect, HealthTracked, PTL DEF Spec

-----------------------------------------------------------------------------
\* The verdicts of the watchdog, while the clock is not set back.

\* No heartbeat and no sweep is in the future of the clock.
NothingFromTheFuture ==
  /\ currentTime <= clock
  /\ \A id \in DOMAIN sensors : LastBeat(id) <= clock

\* A clock that is not set back is ahead of every time the gateway has read
\* from it (now() in handleHeartbeat and in detectOfflineSensors).
LEMMA ClockAhead ==
  ASSUME ~ClockSteps
  PROVE  Spec => []NothingFromTheFuture
<1>1. Init => NothingFromTheFuture
  BY DEF Init, NothingFromTheFuture
<1>2. TypeOK /\ NothingFromTheFuture /\ [Next]_vars => NothingFromTheFuture'
  <2> SUFFICES ASSUME TypeOK, NothingFromTheFuture, [Next]_vars
               PROVE  NothingFromTheFuture'
    OBVIOUS
  <2>1. clock \in Nat /\ clock' \in Nat /\ clock <= clock'
    BY DEF TypeOK, Next, handlePacket, updateSensorInfo, handleHeartbeat,
           unknownMessageType, readCurrentTime, detectOfflineSensors, Tick,
           SetBack, vars
  <2>2. currentTime \in Nat /\ (currentTime' = currentTime \/ currentTime' = clock)
    BY DEF TypeOK, Next, handlePacket, updateSensorInfo, handleHeartbeat,
           unknownMessageType, readCurrentTime, detectOfflineSensors, Tick,
           SetBack, vars
  <2>3. ASSUME NEW i \in DOMAIN sensors'
        PROVE  LastBeat(i)' <= clock'
    <3>1. i \in DOMAIN sensors => LastBeat(i) \in Nat /\ LastBeat(i) <= clock
      BY DEF TypeOK, SensorInfo, Time, LastBeat, NothingFromTheFuture
    <3>2. \/ LastBeat(i)' = 0
          \/ LastBeat(i)' = clock
          \/ i \in DOMAIN sensors /\ LastBeat(i)' = LastBeat(i)
      BY <2>3, HealthStep DEF NewlyOffline
    <3> QED
      BY <2>1, <3>1, <3>2
  <2>4. currentTime' <= clock'
    BY <2>1, <2>2 DEF NothingFromTheFuture
  <2> QED
    BY <2>3, <2>4 DEF NothingFromTheFuture, LastBeat
<1> QED
  BY <1>1, <1>2, TypeCorrect, PTL DEF Spec

\* After a sweep no sensor is ONLINE that had been silent for longer than the
\* timeout when the sweep read the clock, and only a newer heartbeat makes one
\* ONLINE before the next sweep (detectOfflineSensors, handleHeartbeat).
THEOREM OnlineFresh ==
  ASSUME ~ClockSteps
  PROVE  Spec => []OnlineMeansFresh
<1>1. Init => OnlineMeansFresh
  BY DEF Init, OnlineMeansFresh
<1>2. TypeOK /\ HealthTracksHeartbeats /\ NothingFromTheFuture
        /\ OnlineMeansFresh /\ [Next]_vars
        => OnlineMeansFresh'
  <2> SUFFICES ASSUME TypeOK, HealthTracksHeartbeats, NothingFromTheFuture,
                      OnlineMeansFresh, [Next]_vars, watchdog' = "idle",
                      NEW i \in DOMAIN sensors', HealthOf(i)' = "ONLINE"
               PROVE  currentTime' - LastBeat(i)' <= Timeout
    BY DEF OnlineMeansFresh, HealthOf, LastBeat
  <2>1. clock \in Nat /\ currentTime \in Nat /\ currentTime <= clock
    BY DEF TypeOK, NothingFromTheFuture
  <2>2. currentTime' = currentTime
    BY DEF Next, handlePacket, updateSensorInfo, handleHeartbeat,
           unknownMessageType, readCurrentTime, detectOfflineSensors, Tick,
           SetBack, vars
  <2>3. \/ LastBeat(i)' = clock
        \/ /\ i \in DOMAIN sensors
           /\ HealthOf(i) = "ONLINE"
           /\ LastBeat(i)' = LastBeat(i)
    BY HealthStep
  <2>4. CASE LastBeat(i)' = clock
    BY <2>1, <2>2, <2>4
  <2>5. CASE /\ i \in DOMAIN sensors
             /\ HealthOf(i) = "ONLINE"
             /\ LastBeat(i)' = LastBeat(i)
    <3>1. LastBeat(i) \in Nat /\ LastBeat(i) # 0
      BY <2>5 DEF TypeOK, SensorInfo, Time, HealthTracksHeartbeats, LastBeat
    <3>2. CASE detectOfflineSensors
      <4>1. ~NewlyOffline(i)
        BY <2>5, <3>2, SweepFacts DEF HealthOf
      <4>2. ~(Minus64(currentTime, LastBeat(i)) > Timeout)
        BY <2>5, <3>1, <4>1 DEF NewlyOffline, TimedOut
      <4> QED
        BY <2>1, <2>2, <2>5, <3>1, <4>2 DEF Minus64
    <3>3. CASE ~detectOfflineSensors
      <4>1. watchdog = "idle"
        BY <3>3 DEF Next, handlePacket, updateSensorInfo, handleHeartbeat,
               unknownMessageType, readCurrentTime, Tick, SetBack, vars
      <4> QED
        BY <2>2, <2>5, <4>1 DEF OnlineMeansFresh
    <3> QED
      BY <3>2, <3>3
  <2> QED
    BY <2>3, <2>4, <2>5
<1> QED
  BY <1>1, <1>2, TypeCorrect, HealthTracked, ClockAhead, PTL DEF Spec

\* A sensor is given up only if it has been silent for longer than the timeout,
\* or in the one window the code leaves open: its heartbeat was handled after
\* detectOfflineSensors read the clock and before it took the lock.
THEOREM OfflineJustified ==
  ASSUME ~ClockSteps
  PROVE  Spec => OfflineSilentOrOvertaken
<1>1. TypeOK /\ NothingFromTheFuture /\ [Next]_vars
        => [\A id \in DOMAIN sensors :
              HealthOf(id) = "ONLINE" /\ sensors'[id].health = "OFFLINE"
                => \/ clock - LastBeat(id) > Timeout
                   \/ LastBeat(id) > currentTime]_vars
  <2> SUFFICES ASSUME TypeOK, NothingFromTheFuture, [Next]_vars,
                      NEW i \in DOMAIN sensors, HealthOf(i) = "ONLINE",
                      sensors'[i].health = "OFFLINE"
               PROVE  \/ clock - LastBeat(i) > Timeout
                      \/ LastBeat(i) > currentTime
    OBVIOUS
  <2>1. i \in DOMAIN sensors'
    BY RegistryGrows
  <2>2. NewlyOffline(i)
    BY <2>1, HealthStep DEF HealthOf
  <2>3. Minus64(currentTime, LastBeat(i)) > Timeout
    BY <2>2 DEF NewlyOffline, TimedOut
  <2>4. /\ clock \in Nat /\ currentTime \in Nat /\ currentTime <= clock
        /\ LastBeat(i) \in Nat
    BY DEF TypeOK, NothingFromTheFuture, SensorInfo, Time, LastBeat
  <2> QED
    BY <2>3, <2>4 DEF Minus64
<1> QED
  BY <1>1, TypeCorrect, ClockAhead, PTL DEF Spec, OfflineSilentOrOvertaken

-----------------------------------------------------------------------------
\* The age that is shown.

\* Whole seconds never exceed the milliseconds they are made of.
LEMMA WholeSeconds ==
  ASSUME NEW ms \in Nat
  PROVE  /\ ms \div Second \in Nat
         /\ (ms \div Second) * Second <= ms
OBVIOUS

\* No heartbeat is older than the gateway.
HeardSinceStart ==
  /\ StartTime <= clock
  /\ \A id \in DOMAIN sensors : LastBeat(id) = 0 \/ StartTime <= LastBeat(id)

\* A clock that is not set back stays past the start of the gateway, and so do
\* the times that handleHeartbeat reads from it.
LEMMA SinceStart ==
  ASSUME ~ClockSteps
  PROVE  Spec => []HeardSinceStart
<1>1. Init => HeardSinceStart
  BY DEF Init, HeardSinceStart
<1>2. TypeOK /\ HeardSinceStart /\ [Next]_vars => HeardSinceStart'
  <2> SUFFICES ASSUME TypeOK, HeardSinceStart, [Next]_vars
               PROVE  HeardSinceStart'
    OBVIOUS
  <2>1. clock \in Nat /\ clock' \in Nat /\ clock <= clock'
    BY DEF TypeOK, Next, handlePacket, updateSensorInfo, handleHeartbeat,
           unknownMessageType, readCurrentTime, detectOfflineSensors, Tick,
           SetBack, vars
  <2>2. ASSUME NEW i \in DOMAIN sensors'
        PROVE  LastBeat(i)' = 0 \/ StartTime <= LastBeat(i)'
    <3>1. \/ LastBeat(i)' = 0
          \/ LastBeat(i)' = clock
          \/ i \in DOMAIN sensors /\ LastBeat(i)' = LastBeat(i)
      BY <2>2, HealthStep DEF NewlyOffline
    <3> QED
      BY <3>1 DEF HeardSinceStart
  <2> QED
    BY <2>1, <2>2 DEF HeardSinceStart, LastBeat
<1> QED
  BY <1>1, <1>2, TypeCorrect, PTL DEF Spec

\* No age is shown that did not really pass while the gateway was running, for
\* a clock that is not set back: neither the zero of a sensor never heard nor a
\* wrapped difference reaches the user (getSecondsSinceLastHeartbeat).
THEOREM AgesAreReal ==
  ASSUME ~ClockSteps
  PROVE  Spec => []AgeIsReal
<1>1. TypeOK /\ NothingFromTheFuture /\ HeardSinceStart => AgeIsReal
  <2> SUFFICES ASSUME TypeOK, NothingFromTheFuture, HeardSinceStart,
                      NEW id \in Sensors
               PROVE  getSecondsSinceLastHeartbeat(id) * Second
                        <= clock - StartTime
    BY DEF AgeIsReal
  <2>1. clock \in Nat /\ StartTime <= clock
    BY DEF TypeOK, HeardSinceStart
  <2>2. CASE id \notin DOMAIN sensors \/ LastBeat(id) = 0
    BY <2>1, <2>2 DEF getSecondsSinceLastHeartbeat
  <2>3. CASE id \in DOMAIN sensors /\ LastBeat(id) # 0
    <3>1. /\ LastBeat(id) \in Nat
          /\ StartTime <= LastBeat(id) /\ LastBeat(id) <= clock
      BY <2>3 DEF TypeOK, SensorInfo, Time, LastBeat, NothingFromTheFuture,
                  HeardSinceStart
    <3>2. Minus64(clock, LastBeat(id)) = clock - LastBeat(id)
      BY <2>1, <3>1 DEF Minus64
    <3>3. clock - LastBeat(id) \in Nat /\ clock - LastBeat(id) <= clock - StartTime
      BY <2>1, <3>1
    <3>4. getSecondsSinceLastHeartbeat(id) = (clock - LastBeat(id)) \div Second
      BY <2>3, <3>2 DEF getSecondsSinceLastHeartbeat
    <3>5. ((clock - LastBeat(id)) \div Second) * Second <= clock - LastBeat(id)
      BY <3>3, WholeSeconds
    <3>6. ((clock - LastBeat(id)) \div Second) \in Nat
      BY <3>3, WholeSeconds
    <3> QED
      BY <2>1, <3>1, <3>3, <3>4, <3>5, <3>6
  <2> QED
    BY <2>2, <2>3
<1> QED
  BY <1>1, TypeCorrect, ClockAhead, SinceStart, PTL DEF Spec

-----------------------------------------------------------------------------
\* The packet counters.

FiniteRegistry == IsFiniteSet(Registered) /\ IsFiniteSet(Heard)

\* One packet adds at most one sensor to a set.
LEMMA AddOne ==
  ASSUME NEW S, NEW x, IsFiniteSet(S)
  PROVE  /\ IsFiniteSet(S \cup {x})
         /\ Cardinality(S \cup {x}) <= Cardinality(S) + 1
<1>1. Cardinality(S) \in Nat
  BY FS_CardinalityType
<1>2. /\ IsFiniteSet(S \cup {x})
      /\ Cardinality(S \cup {x}) =
           IF x \in S THEN Cardinality(S) ELSE Cardinality(S) + 1
  BY FS_AddElement
<1> QED
  BY <1>1, <1>2

\* The registry is finite, as only one packet at a time adds to it, and each of
\* those is counted: the inductive form of CountersCover.
LEMMA RegistryCounted == Spec => [](FiniteRegistry /\ CountersCoverRegistry)
<1> DEFINE IInv == FiniteRegistry /\ CountersCoverRegistry
<1>1. Init => IInv
  <2> SUFFICES ASSUME Init PROVE IInv
    OBVIOUS
  <2>1. Registered = {} /\ Heard = {}
    BY DEF Init, Registered, Heard
  <2> QED
    BY <2>1, FS_EmptySet DEF Init, FiniteRegistry, CountersCoverRegistry
<1>2. TypeOK /\ IInv /\ [Next]_vars => IInv'
  <2> SUFFICES ASSUME TypeOK, IInv, [Next]_vars
               PROVE  IInv'
    OBVIOUS
  <2>1. /\ telemetryPacketsReceived \in Nat /\ heartbeatPacketsReceived \in Nat
        /\ Cardinality(Registered) \in Nat /\ Cardinality(Heard) \in Nat
    BY FS_CardinalityType DEF TypeOK, FiniteRegistry
  <2>2. ASSUME NEW id \in Sensors, NEW reading \in Readings,
               updateSensorInfo(id, reading)
        PROVE  IInv'
    <3>1. Registered' = Registered \cup {id}
      BY <2>2 DEF updateSensorInfo, Stored, Registered
    <3>2. Heard' = Heard
      <4>1. ASSUME NEW i \in DOMAIN sensors'
            PROVE  HealthOf(i)' = IF i \in DOMAIN sensors THEN HealthOf(i)
                                                        ELSE "UNKNOWN"
        <5>1. CASE i = id
          <6>1. sensors'[i] = AfterTelemetry(i, reading)
            BY <2>2, <5>1 DEF updateSensorInfo, Stored
          <6>2. HealthOf(i)' = Entry(i).health
            BY <6>1, AfterTelemetryFacts DEF HealthOf
          <6> QED
            BY <6>2 DEF Entry, FreshInfo, HealthOf
        <5>2. CASE i # id
          BY <2>2, <4>1, <5>2 DEF updateSensorInfo, Stored, HealthOf
        <5> QED
          BY <5>1, <5>2
      <4>2. \A i \in DOMAIN sensors' : i \in Heard' <=> i \in Heard
        BY <4>1 DEF Heard
      <4>3. DOMAIN sensors \subseteq DOMAIN sensors'
        BY RegistryGrows
      <4> QED
        BY <4>2, <4>3 DEF Heard
    <3>3. /\ IsFiniteSet(Registered')
          /\ Cardinality(Registered') <= Cardinality(Registered) + 1
      BY <3>1, AddOne DEF FiniteRegistry
    <3>4. /\ telemetryPacketsReceived' = telemetryPacketsReceived + 1
          /\ heartbeatPacketsReceived' = heartbeatPacketsReceived
      BY <2>2 DEF updateSensorInfo
    <3>5. Cardinality(Registered') \in Nat
      BY <3>3, FS_CardinalityType
    <3> QED
      BY <2>1, <3>2, <3>3, <3>4, <3>5 DEF FiniteRegistry, CountersCoverRegistry
  <2>3. ASSUME NEW id \in Sensors, handleHeartbeat(id)
        PROVE  IInv'
    <3>1. Registered' = Registered \cup {id}
      BY <2>3 DEF handleHeartbeat, Stored, Registered
    <3>2. Heard' = Heard \cup {id}
      <4>1. HealthOf(id)' = "ONLINE" /\ id \in DOMAIN sensors'
        <5>1. id \in DOMAIN sensors' /\ sensors'[id] = AfterHeartbeat(id)
          BY <2>3 DEF handleHeartbeat, Stored
        <5> QED
          BY <5>1, AfterHeartbeatFacts DEF HealthOf
      <4>2. \A i \in DOMAIN sensors' \ {id} :
               i \in DOMAIN sensors /\ HealthOf(i)' = HealthOf(i)
        BY <2>3 DEF handleHeartbeat, Stored, HealthOf
      <4>3. DOMAIN sensors \subseteq DOMAIN sensors'
        BY RegistryGrows
      <4> QED
        BY <4>1, <4>2, <4>3 DEF Heard
    <3>3. /\ IsFiniteSet(Registered')
          /\ Cardinality(Registered') <= Cardinality(Registered) + 1
      BY <3>1, AddOne DEF FiniteRegistry
    <3>4. /\ IsFiniteSet(Heard')
          /\ Cardinality(Heard') <= Cardinality(Heard) + 1
      BY <3>2, AddOne DEF FiniteRegistry
    <3>5. /\ telemetryPacketsReceived' = telemetryPacketsReceived
          /\ heartbeatPacketsReceived' = heartbeatPacketsReceived + 1
      BY <2>3 DEF handleHeartbeat
    <3>6. Cardinality(Registered') \in Nat /\ Cardinality(Heard') \in Nat
      BY <3>3, <3>4, FS_CardinalityType
    <3> QED
      BY <2>1, <3>3, <3>4, <3>5, <3>6 DEF FiniteRegistry, CountersCoverRegistry
  <2>4. CASE detectOfflineSensors
    <3>1. Registered' = Registered
      BY <2>4, SweepFacts DEF Registered
    <3>2. Heard' = Heard
      <4>1. \A i \in DOMAIN sensors : HealthOf(i)' = "UNKNOWN"
                                        <=> HealthOf(i) = "UNKNOWN"
        BY <2>4, SweepFacts DEF NewlyOffline, TimedOut, HealthOf
      <4> QED
        BY <2>4, <4>1, SweepFacts DEF Heard
    <3> QED
      BY <2>4, <3>1, <3>2
         DEF detectOfflineSensors, FiniteRegistry, CountersCoverRegistry
  <2>5. CASE UNCHANGED <<sensors, telemetryPacketsReceived,
                         heartbeatPacketsReceived>>
    BY <2>5 DEF FiniteRegistry, CountersCoverRegistry, Registered, Heard, HealthOf
  <2> QED
    BY <2>2, <2>3, <2>4, <2>5
       DEF Next, handlePacket, unknownMessageType, readCurrentTime, Tick,
           SetBack, vars
<1> QED
  BY <1>1, <1>2, TypeCorrect, PTL DEF Spec

\* The size of the registry and the number of sensors with a health verdict are
\* covered by the packets counted (the two handlers count under the same lock
\* that guards the registry).
THEOREM CountersCover == Spec => []CountersCoverRegistry
BY RegistryCounted, PTL

-----------------------------------------------------------------------------
\* Refinement.

\* The health of a sensor as the abstract specification sees it.
AbstractHealth == [id \in Sensors |-> IF id \in DOMAIN sensors
                                      THEN HealthOf(id) ELSE "ABSENT"]

\* The gateway implements the abstract health tracker: telemetry only makes a
\* sensor appear, a heartbeat makes it ONLINE, a sweep gives up on ONLINE
\* sensors and reports each once; every other step is a stutter.
THEOREM GatewayImplementsSensorHealth == Spec => ImplementsSensorHealth
<1>1. Init => SH!Init
  BY DEF Init, SH!Init
<1>2. TypeOK /\ [Next]_vars => [SH!Next]_SH!vars
  <2> SUFFICES ASSUME TypeOK, [Next]_vars
               PROVE  SH!Next \/ UNCHANGED SH!vars
    OBVIOUS
  <2> DEFINE H == AbstractHealth
  <2>1. ASSUME NEW id \in Sensors, NEW reading \in Readings,
               updateSensorInfo(id, reading)
        PROVE  SH!Appear(id) \/ UNCHANGED SH!vars
    <3>1. sensors' = Stored(id, AfterTelemetry(id, reading)) /\ alarms' = alarms
      BY <2>1 DEF updateSensorInfo
    <3>2. AfterTelemetry(id, reading).health
            = IF id \in DOMAIN sensors THEN HealthOf(id) ELSE "UNKNOWN"
      BY AfterTelemetryFacts DEF Entry, FreshInfo, HealthOf
    <3>3. H' = IF id \in DOMAIN sensors THEN H ELSE [H EXCEPT ![id] = "UNKNOWN"]
      BY <3>1, <3>2 DEF Stored, AbstractHealth, HealthOf
    <3>4. CASE id \in DOMAIN sensors
      BY <3>1, <3>3, <3>4 DEF SH!vars, AbstractHealth
    <3>5. CASE id \notin DOMAIN sensors
      BY <3>1, <3>3, <3>5 DEF SH!Appear, AbstractHealth
    <3> QED
      BY <3>4, <3>5
  <2>2. ASSUME NEW id \in Sensors, handleHeartbeat(id)
        PROVE  SH!Beat(id)
    <3>1. sensors' = Stored(id, AfterHeartbeat(id)) /\ alarms' = alarms
      BY <2>2 DEF handleHeartbeat
    <3>2. H' = [H EXCEPT ![id] = "ONLINE"]
      BY <3>1, AfterHeartbeatFacts DEF Stored, AbstractHealth, HealthOf
    <3> QED
      BY <3>1, <3>2 DEF SH!Beat, AbstractHealth
  <2>3. CASE detectOfflineSensors
    <3>0. PICK S \in SUBSET Sensors : \A id \in Sensors :
                                        id \in S <=> NewlyOffline(id)
      <4> WITNESS {id \in Sensors : NewlyOffline(id)} \in SUBSET Sensors
      <4> QED
        OBVIOUS
    <3>1. \A id \in S : H[id] = "ONLINE"
      BY <3>0 DEF NewlyOffline, TimedOut, TypeOK, SensorInfo, Health, HealthOf,
                  AbstractHealth
    <3>2. H' = [id \in Sensors |-> IF id \in S THEN "OFFLINE" ELSE H[id]]
      <4>1. \A id \in S : id \in DOMAIN sensors
        BY <3>0 DEF NewlyOffline
      <4> QED
        BY <2>3, <3>0, <4>1, SweepFacts DEF AbstractHealth, HealthOf
    <3>3. alarms' = [id \in Sensors |-> IF id \in S THEN alarms[id] + 1
                                                     ELSE alarms[id]]
      BY <2>3, <3>0 DEF detectOfflineSensors
    <3>4. SH!GiveUp(S)
      BY <3>1, <3>2, <3>3 DEF SH!GiveUp, AbstractHealth
    <3> QED
      BY <3>4 DEF SH!Next
  <2>4. CASE UNCHANGED <<sensors, alarms>>
    BY <2>4 DEF SH!vars, HealthOf
  <2> QED
    BY <2>1, <2>2, <2>3, <2>4
       DEF Next, handlePacket, unknownMessageType, readCurrentTime, Tick,
           SetBack, vars, SH!Next
<1> QED
  BY <1>1, <1>2, TypeCorrect, PTL DEF Spec, ImplementsSensorHealth, SH!Spec
=============================================================================
