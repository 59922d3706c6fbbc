---------------------------- MODULE MonitorProofs ----------------------------
(***************************************************************************)
(* Proofs about the reports of Monitor, for every set of sensors and every *)
(* bound, whatever the UDP and watchdog threads do between two calls of a  *)
(* report.                                                                 *)
(***************************************************************************)
EXTENDS Monitor, GatewayProofs, WellFoundedInduction

USE GatewayAssumption, MonitorAssumption

\* A step of the reading thread or of the others.  The details of any id may be
\* asked for, so the sessions of TcpSession, where the id is parsed from what a
\* client sends, are covered as well.
ReportStep ==
  \/ Next /\ UNCHANGED locals
  \/ getStats
  \/ healthSummary
  \/ sensorList
  \/ \E id : sensorDetails(id)
  \/ printRow
  \/ returnReport

ReportSpec == MonitorInit /\ [][ReportStep]_monitorVars

\* The monitor as specified makes such reports.
LEMMA MonitorReports == MonitorSpec => ReportSpec
<1>1. [MonitorNext]_monitorVars => [ReportStep]_monitorVars
  BY DEF MonitorNext, MonitorStep, ReportStep
<1> QED
  BY <1>1, PTL DEF MonitorSpec, ReportSpec

\* A report writes nothing of the gateway (the Monitor holds a const Gateway&).
LEMMA ReportsOnlyRead ==
  ASSUME [ReportStep]_monitorVars
  PROVE  \/ Next /\ UNCHANGED locals
         \/ UNCHANGED vars
BY DEF ReportStep, getStats, healthSummary, sensorList, sensorDetails, printRow,
       returnReport, countHealthSensors, monitorVars

\* So everything that is proved of the gateway holds while reports are made.
LEMMA ReportsKeepGateway == ReportSpec => Spec
<1>1. [ReportStep]_monitorVars => [Next]_vars
  BY ReportsOnlyRead
<1> QED
  BY <1>1, PTL DEF ReportSpec, MonitorInit, Spec

-----------------------------------------------------------------------------
\* The row that is printed next.

\* A set of numbers has a least one.
LEMMA LeastOfSome ==
  ASSUME NEW T \in SUBSET Nat, T # {}
  PROVE  \E x \in T : \A y \in T : x <= y
<1>1. PICK x \in T : \A y \in T : ~(<<y, x>> \in OpToRel(<, Nat))
  BY NatLessThanWellFounded, WFMin
<1>2. \A y \in T : <<y, x>> \in OpToRel(<, Nat) <=> y < x
  BY DEF OpToRel
<1>3. \A y \in T : ~(y < x)
  BY <1>1, <1>2, Zenon
<1> QED
  BY <1>3

LEMMA MinInSet ==
  ASSUME NEW T \in SUBSET Nat, T # {}
  PROVE  Min(T) \in T
BY LeastOfSome DEF Min

-----------------------------------------------------------------------------
\* Type correctness.

\* Between two lists of rows nothing is left of the last one.
NoRowsLeft == report # "rows" => todo = {} /\ DOMAIN ages = {}

\* Every step of a report keeps the reader's variables in their types; rows are
\* printed of the copy only, and each list starts with none (Monitor.cpp:
\* sensorList, sensorDetails, getStats, healthSummary).
LEMMA ReportTypes == ReportSpec => [](MonitorTypeOK /\ NoRowsLeft)
<1> DEFINE IInv == MonitorTypeOK /\ NoRowsLeft
<1>1. MonitorInit => IInv
  BY DEF MonitorInit, MonitorTypeOK, NoRowsLeft, NoSensors, NoCounts
<1>2. TypeOK /\ FiniteRegistry /\ IInv /\ [ReportStep]_monitorVars => IInv'
  <2> SUFFICES ASSUME TypeOK, FiniteRegistry, MonitorTypeOK, NoRowsLeft,
                      [ReportStep]_monitorVars
               PROVE  MonitorTypeOK' /\ NoRowsLeft'
    OBVIOUS
  <2>1. CASE UNCHANGED locals
    BY <2>1 DEF locals, MonitorTypeOK, NoRowsLeft
  <2>2. ASSUME NEW p \in {"stats_count", "summary_count"}, getSensors(p),
               UNCHANGED <<counts, telemetryPackets, heartbeatPackets, todo,
                           ages>>
        PROVE  MonitorTypeOK' /\ NoRowsLeft'
    BY <2>2 DEF getSensors, TypeOK, MonitorTypeOK, NoRowsLeft
  <2>3. ASSUME NEW p, NEW q \in Counted, countHealthSensors(p, q), p # "rows"
        PROVE  MonitorTypeOK' /\ NoRowsLeft'
    <3>1. \A h : IsFiniteSet(WithHealth(sensors, h))
      <4>1. \A h : WithHealth(sensors, h) \subseteq Registered
        BY DEF WithHealth, Registered
      <4> QED
        BY <4>1, FS_Subset DEF FiniteRegistry
    <3>2. CountsOf(sensors) \in [online : Nat, offline : Nat, unknown : Nat]
      BY <3>1, FS_CardinalityType DEF CountsOf
    <3> QED
      BY <2>3, <3>2 DEF countHealthSensors, MonitorTypeOK, NoRowsLeft, Counted
  <2>4. CASE getStats
    <3>1. CASE report = "stats_telemetry" /\ report' = "stats_heartbeat"
      BY <2>4, <3>1 DEF getStats, getSensors, countHealthSensors, TypeOK,
                        MonitorTypeOK, NoRowsLeft, Counted
    <3>2. CASE report = "stats_heartbeat" /\ report' = "stats_done"
      BY <2>4, <3>2 DEF getStats, getSensors, countHealthSensors, TypeOK,
                        MonitorTypeOK, NoRowsLeft, Counted
    <3> QED
      BY <2>2, <2>3, <2>4, <3>1, <3>2 DEF getStats, Counted
  <2>5. CASE healthSummary
    BY <2>2, <2>3, <2>5 DEF healthSummary, Counted
  <2>6. CASE sensorList
    BY <2>6 DEF sensorList, getSensors, TypeOK, MonitorTypeOK, NoRowsLeft
  <2>7. ASSUME NEW id, sensorDetails(id)
        PROVE  MonitorTypeOK' /\ NoRowsLeft'
    BY <2>7 DEF sensorDetails, getSensors, TypeOK, MonitorTypeOK, NoRowsLeft
  <2>8. CASE printRow
    <3>1. Min(todo) \in todo
      BY <2>8, MinInSet DEF printRow, MonitorTypeOK
    <3> QED
      BY <2>8, <3>1 DEF printRow, MonitorTypeOK, NoRowsLeft
  <2>9. CASE returnReport
    <3>1. todo' = {}
      BY <2>9 DEF returnReport, NoRowsLeft
    <3> QED
      BY <2>9, <3>1 DEF returnReport, MonitorTypeOK, NoRowsLeft, NoSensors,
                        NoCounts
  <2> QED
    BY <2>1, <2>4, <2>5, <2>6, <2>7, <2>8, <2>9
       DEF ReportStep, monitorVars
<1> QED
  BY <1>1, <1>2, ReportsKeepGateway, TypeCorrect, RegistryCounted, PTL
     DEF ReportSpec

\* Every variable of the reading thread keeps its type.
THEOREM MonitorTypeCorrect == MonitorSpec => []MonitorTypeOK
BY MonitorReports, ReportTypes, PTL

-----------------------------------------------------------------------------
\* The copy is behind the registry, never ahead of it.

\* What other threads do to the registry and its counters while a report waits:
\* nothing is forgotten.
LEMMA GatewayOnlyAdds ==
  ASSUME TypeOK, [Next]_vars
  PROVE  /\ Registered \subseteq Registered'
         /\ Heard \subseteq Heard'
         /\ telemetryPacketsReceived <= telemetryPacketsReceived'
         /\ heartbeatPacketsReceived <= heartbeatPacketsReceived'
<1>1. Registered \subseteq Registered'
  BY RegistryGrows DEF Registered
<1>2. ASSUME NEW i \in Heard
      PROVE  i \in Heard'
  <2>1. i \in DOMAIN sensors /\ i \in DOMAIN sensors' /\ HealthOf(i) # "UNKNOWN"
    BY <1>1 DEF Heard, Registered
  <2>2. HealthOf(i)' # "UNKNOWN"
    BY <2>1, HealthStep
  <2> QED
    BY <2>1, <2>2 DEF Heard
<1>3. telemetryPacketsReceived <= telemetryPacketsReceived'
  BY DEF TypeOK, Next, handlePacket, updateSensorInfo, handleHeartbeat,
         unknownMessageType, readCurrentTime, detectOfflineSensors, Tick,
         SetBack, vars
<1>4. heartbeatPacketsReceived <= heartbeatPacketsReceived'
  BY DEF TypeOK, Next, handlePacket, updateSensorInfo, handleHeartbeat,
         unknownMessageType, readCurrentTime, detectOfflineSensors, Tick,
         SetBack, vars
<1> QED
  BY <1>1, <1>2, <1>3, <1>4

\* The sensors of the copy that have been heard.
HeardInCopy == DOMAIN snapshot \ WithHealth(snapshot, "UNKNOWN")

\* The registry still holds what the copy holds.
CopyBehind ==
  /\ DOMAIN snapshot \subseteq Registered
  /\ HeardInCopy \subseteq Heard

\* Copying the registry and forgetting the copy leave it behind the registry,
\* and so does every step of the other threads (Gateway::getSensors returns by
\* value; no handler erases an entry or returns a sensor to UNKNOWN).
LEMMA CopyStaysBehind == ReportSpec => []CopyBehind
<1>1. MonitorInit => CopyBehind
  BY DEF MonitorInit, NoSensors, CopyBehind, HeardInCopy
<1>2. TypeOK /\ CopyBehind /\ [ReportStep]_monitorVars => CopyBehind'
  <2> SUFFICES ASSUME TypeOK, CopyBehind, [ReportStep]_monitorVars
               PROVE  CopyBehind'
    OBVIOUS
  <2>1. [Next]_vars
    BY ReportsOnlyRead
  <2>2. Registered \subseteq Registered' /\ Heard \subseteq Heard'
    BY <2>1, GatewayOnlyAdds
  <2>3. \/ snapshot' = snapshot
        \/ snapshot' = sensors /\ sensors' = sensors
        \/ snapshot' = NoSensors
    BY DEF ReportStep, getStats, healthSummary, sensorList, sensorDetails,
           printRow, returnReport, countHealthSensors, getSensors, monitorVars,
           locals, vars
  <2>4. CASE snapshot' = snapshot
    BY <2>2, <2>4 DEF CopyBehind, HeardInCopy, WithHealth
  <2>5. CASE snapshot' = sensors /\ sensors' = sensors
    BY <2>5 DEF CopyBehind, HeardInCopy, WithHealth, Registered, Heard, HealthOf
  <2>6. CASE snapshot' = NoSensors
    BY <2>6 DEF NoSensors, CopyBehind, HeardInCopy
  <2> QED
    BY <2>3, <2>4, <2>5, <2>6
<1> QED
  BY <1>1, <1>2, ReportsKeepGateway, TypeCorrect, PTL DEF ReportSpec

-----------------------------------------------------------------------------
\* The counts.

\* countHealthSensors puts every sensor into one of three classes: the counts of
\* ONLINE and OFFLINE are those with a verdict, all three the whole registry.
LEMMA CountsPartition ==
  ASSUME TypeOK, FiniteRegistry
  PROVE  /\ CountsOf(sensors) \in [online : Nat, offline : Nat, unknown : Nat]
         /\ CountsOf(sensors).online + CountsOf(sensors).offline
              = Cardinality(Heard)
         /\ CountsOf(sensors).online + CountsOf(sensors).offline
              + CountsOf(sensors).unknown = Cardinality(Registered)
<1> DEFINE On  == WithHealth(sensors, "ONLINE")
           Off == WithHealth(sensors, "OFFLINE")
           Unk == WithHealth(sensors, "UNKNOWN")
<1>1. IsFiniteSet(On) /\ IsFiniteSet(Off) /\ IsFiniteSet(Unk)
  <2>1. \A h : WithHealth(sensors, h) \subseteq Registered
    BY DEF WithHealth, Registered
  <2> QED
    BY <2>1, FS_Subset DEF FiniteRegistry
<1>2. Heard = On \cup Off /\ On \cap Off = {}
  BY DEF Heard, HealthOf, WithHealth, TypeOK, SensorInfo, Health
<1>3. Registered = Heard \cup Unk /\ Heard \cap Unk = {}
  BY DEF Registered, Heard, HealthOf, WithHealth
<1>4. /\ Cardinality(On) \in Nat /\ Cardinality(Off) \in Nat
      /\ Cardinality(Unk) \in Nat /\ Cardinality({}) = 0
  BY <1>1, FS_CardinalityType, FS_EmptySet
<1>5. Cardinality(Heard) = Cardinality(On) + Cardinality(Off) - Cardinality({})
  BY <1>1, <1>2, FS_Union
<1>6. Cardinality(Registered)
        = Cardinality(Heard) + Cardinality(Unk) - Cardinality({})
  BY <1>1, <1>3, FS_Union DEF FiniteRegistry
<1> HIDE DEF On, Off, Unk
<1>7. CountsOf(sensors) = [online  |-> Cardinality(On),
                           offline |-> Cardinality(Off),
                           unknown |-> Cardinality(Unk)]
  BY DEF CountsOf, On, Off, Unk
<1> QED
  BY <1>4, <1>5, <1>6, <1>7

\* The sizes of the copy are at most those of the registry.
LEMMA CopyIsSmaller ==
  ASSUME FiniteRegistry, CopyBehind
  PROVE  /\ Cardinality(DOMAIN snapshot) \in Nat
         /\ Cardinality(HeardInCopy) \in Nat
         /\ Cardinality(DOMAIN snapshot) <= Cardinality(Registered)
         /\ Cardinality(HeardInCopy) <= Cardinality(Heard)
<1>1. /\ IsFiniteSet(DOMAIN snapshot)
      /\ Cardinality(DOMAIN snapshot) <= Cardinality(Registered)
  BY FS_Subset DEF FiniteRegistry, CopyBehind
<1>2. /\ IsFiniteSet(HeardInCopy)
      /\ Cardinality(HeardInCopy) <= Cardinality(Heard)
  BY FS_Subset DEF FiniteRegistry, CopyBehind
<1> QED
  BY <1>1, <1>2, FS_CardinalityType

\* What the numbers of a report in the making promise of those still to come:
\* the heartbeats counted so far cover the verdicts already counted, and the
\* packets counted so far the sensors copied.
StatsPending ==
  /\ report \in {"stats_telemetry", "stats_heartbeat"} =>
       counts.online + counts.offline <= heartbeatPacketsReceived
  /\ report = "stats_heartbeat" =>
       Cardinality(DOMAIN snapshot) <= telemetryPackets + heartbeatPacketsReceived

\* The inductive form of ReportsCovered: one conjunct for each stage a report
\* can be in, since what is read later depends on what was read before.
LEMMA ReportsCount == ReportSpec => [](ReportsCovered /\ StatsPending)
<1> DEFINE IInv == CountsCoverSnapshot /\ StatsCovered /\ StatsPending
<1>1. MonitorInit => IInv
  BY DEF MonitorInit, CountsCoverSnapshot, StatsCovered, StatsPending, Counted
<1>2. TypeOK /\ FiniteRegistry /\ CountersCoverRegistry /\ MonitorTypeOK
        /\ CopyBehind /\ IInv /\ [ReportStep]_monitorVars
        => IInv'
  <2> SUFFICES ASSUME TypeOK, FiniteRegistry, CountersCoverRegistry,
                      MonitorTypeOK, CopyBehind, CountsCoverSnapshot,
                      StatsCovered, StatsPending, [ReportStep]_monitorVars
               PROVE  IInv'
    OBVIOUS
  <2>1. /\ telemetryPacketsReceived \in Nat /\ heartbeatPacketsReceived \in Nat
        /\ telemetryPackets \in Nat /\ heartbeatPackets \in Nat
        /\ counts \in [online : Nat, offline : Nat, unknown : Nat]
        /\ Cardinality(Registered) \in Nat /\ Cardinality(Heard) \in Nat
        /\ Cardinality(DOMAIN snapshot) \in Nat
        /\ Cardinality(HeardInCopy) \in Nat
    BY FS_CardinalityType, CopyIsSmaller DEF TypeOK, MonitorTypeOK, FiniteRegistry
  <2>2. CASE Next /\ UNCHANGED locals
    <3>1. /\ heartbeatPacketsReceived <= heartbeatPacketsReceived'
          /\ heartbeatPacketsReceived' \in Nat
      BY <2>1, <2>2, GatewayOnlyAdds
         DEF Next, handlePacket, updateSensorInfo, handleHeartbeat,
             unknownMessageType, readCurrentTime, detectOfflineSensors, Tick,
             SetBack
    <3>2. CountsCoverSnapshot' /\ StatsCovered'
      BY <2>2 DEF locals, CountsCoverSnapshot, StatsCovered, WithHealth
    <3>3. StatsPending'
      BY <2>1, <2>2, <3>1 DEF locals, StatsPending
    <3> QED
      BY <3>2, <3>3
  <2>3. CASE report' \notin Counted
    BY <2>3 DEF CountsCoverSnapshot, StatsCovered, StatsPending, Counted
  <2>4. ASSUME NEW p, NEW q \in {"stats_telemetry", "summary_done"},
               countHealthSensors(p, q)
        PROVE  IInv'
    <3>1. counts' = CountsOf(sensors) /\ snapshot' = snapshot /\ report' = q
          /\ heartbeatPacketsReceived' = heartbeatPacketsReceived
      BY <2>4 DEF countHealthSensors, vars
    <3>2. /\ counts'.online + counts'.offline = Cardinality(Heard)
          /\ counts'.online + counts'.offline + counts'.unknown
               = Cardinality(Registered)
      BY <3>1, CountsPartition
    <3>3. CountsCoverSnapshot'
      BY <3>1, <3>2, CopyIsSmaller DEF CountsCoverSnapshot, HeardInCopy
    <3>4. counts'.online + counts'.offline <= heartbeatPacketsReceived'
      BY <3>1, <3>2 DEF CountersCoverRegistry
    <3> QED
      BY <3>1, <3>3, <3>4 DEF StatsCovered, StatsPending
  <2>5. CASE getStats /\ report = "stats_telemetry"
    <3>1. /\ report' = "stats_heartbeat"
          /\ telemetryPackets' = telemetryPacketsReceived
          /\ heartbeatPacketsReceived' = heartbeatPacketsReceived
          /\ snapshot' = snapshot /\ counts' = counts
      BY <2>5 DEF getStats, getSensors, countHealthSensors, vars
    <3>2. Cardinality(DOMAIN snapshot)
            <= telemetryPacketsReceived + heartbeatPacketsReceived
      BY <2>1, CopyIsSmaller DEF CountersCoverRegistry
    <3>3. CountsCoverSnapshot'
      BY <2>5, <3>1 DEF CountsCoverSnapshot, Counted, WithHealth
    <3> QED
      BY <2>5, <3>1, <3>2, <3>3 DEF StatsCovered, StatsPending
  <2>6. CASE getStats /\ report = "stats_heartbeat"
    <3>1. /\ report' = "stats_done"
          /\ heartbeatPackets' = heartbeatPacketsReceived
          /\ telemetryPackets' = telemetryPackets
          /\ snapshot' = snapshot /\ counts' = counts
      BY <2>6 DEF getStats, getSensors, countHealthSensors, vars
    <3>2. CountsCoverSnapshot'
      BY <2>6, <3>1 DEF CountsCoverSnapshot, Counted, WithHealth
    <3> QED
      BY <2>6, <3>1, <3>2 DEF StatsCovered, StatsPending
  <2>7. CASE UNCHANGED monitorVars
    BY <2>7 DEF monitorVars, locals, vars, CountsCoverSnapshot, StatsCovered,
                StatsPending, WithHealth
  <2>8. CASE getStats
    BY <2>3, <2>4, <2>5, <2>6, <2>8 DEF getStats, getSensors, Counted
  <2>9. CASE healthSummary
    BY <2>3, <2>4, <2>9 DEF healthSummary, getSensors, Counted
  <2>10. CASE sensorList \/ (\E id : sensorDetails(id)) \/ printRow \/ returnReport
    BY <2>3, <2>10 DEF sensorList, sensorDetails, getSensors, printRow,
                       returnReport, Counted
  <2> QED
    BY <2>2, <2>7, <2>8, <2>9, <2>10 DEF ReportStep
<1> QED
  BY <1>1, <1>2, ReportsKeepGateway, TypeCorrect, RegistryCounted, ReportTypes,
     CopyStaysBehind, PTL DEF ReportSpec, ReportsCovered

\* Whatever the other threads do between the calls of a report, its later numbers
\* account for its earlier ones: the counts cover the copy they are printed with,
\* and the packet counters cover the counts (Monitor.cpp: getStats reads the
\* registry twice and the counters last; healthSummary reads it twice).
THEOREM ReportsAddUp == MonitorSpec => []ReportsCovered
BY MonitorReports, ReportsCount, PTL

-----------------------------------------------------------------------------
\* The ages of the rows, while the clock is not set back.

\* A heartbeat time never goes back.
LEMMA HeartbeatsAdvance ==
  ASSUME TypeOK, NothingFromTheFuture, [Next]_vars, NEW i \in DOMAIN sensors
  PROVE  /\ i \in DOMAIN sensors'
         /\ LastBeat(i) \in Nat /\ LastBeat(i)' \in Nat
         /\ LastBeat(i) <= LastBeat(i)'
<1>1. i \in DOMAIN sensors'
  BY RegistryGrows
<1>2. LastBeat(i) \in Nat /\ LastBeat(i) <= clock /\ clock \in Nat
  BY DEF TypeOK, SensorInfo, Time, LastBeat, NothingFromTheFuture
<1>3. LastBeat(i)' = LastBeat(i) \/ LastBeat(i)' = clock
  BY <1>1, HealthStep
<1> QED
  BY <1>1, <1>2, <1>3

\* The heartbeat the copy knows of is not newer than the registry's.
CopiedBeat(id) == snapshot[id].lastHeartbeatReceivedTime

BeatsBehind == \A id \in DOMAIN snapshot : CopiedBeat(id) <= LastBeat(id)

AgesAreNumbers == \A id \in DOMAIN ages : ages[id] \in Nat

LEMMA BeatsStayBehind ==
  ASSUME ~ClockSteps
  PROVE  ReportSpec => []BeatsBehind
<1>1. MonitorInit => BeatsBehind
  BY DEF MonitorInit, NoSensors, BeatsBehind
<1>2. TypeOK /\ NothingFromTheFuture /\ MonitorTypeOK /\ CopyBehind
        /\ BeatsBehind /\ [ReportStep]_monitorVars
        => BeatsBehind'
  <2> SUFFICES ASSUME TypeOK, NothingFromTheFuture, MonitorTypeOK, CopyBehind,
                      BeatsBehind, [ReportStep]_monitorVars,
                      NEW i \in DOMAIN snapshot'
               PROVE  CopiedBeat(i)' <= LastBeat(i)'
    BY DEF BeatsBehind, CopiedBeat, LastBeat
  <2>1. [Next]_vars
    BY ReportsOnlyRead
  <2>2. \/ snapshot' = snapshot
        \/ snapshot' = sensors /\ sensors' = sensors
    BY DEF ReportStep, getStats, healthSummary, sensorList, sensorDetails,
           printRow, returnReport, countHealthSensors, getSensors, monitorVars,
           locals, vars, NoSensors
  <2>3. CASE snapshot' = snapshot
    <3>1. i \in DOMAIN sensors /\ i \in DOMAIN snapshot
      BY <2>3 DEF CopyBehind, Registered
    <3>2. CopiedBeat(i) \in Nat /\ CopiedBeat(i) <= LastBeat(i)
      BY <3>1 DEF MonitorTypeOK, SensorInfo, Time, BeatsBehind, CopiedBeat
    <3> QED
      BY <2>1, <2>3, <3>1, <3>2, HeartbeatsAdvance DEF CopiedBeat
  <2>4. CASE snapshot' = sensors /\ sensors' = sensors
    <3>1. LastBeat(i) \in Nat
      BY <2>4 DEF TypeOK, SensorInfo, Time, LastBeat
    <3> QED
      BY <2>4, <3>1 DEF CopiedBeat, LastBeat
  <2> QED
    BY <2>2, <2>3, <2>4
<1> QED
  BY <1>1, <1>2, ReportsKeepGateway, TypeCorrect, ClockAhead, ReportTypes,
     CopyStaysBehind, PTL DEF ReportSpec

\* The age the gateway gives for a sensor of the copy is a number of seconds that
\* really passed since the heartbeat the copy knows of.
LEMMA AgeOfCopied ==
  ASSUME TypeOK, NothingFromTheFuture, MonitorTypeOK, CopyBehind, BeatsBehind,
         NEW id \in DOMAIN snapshot
  PROVE  /\ getSecondsSinceLastHeartbeat(id) \in Nat
         /\ CopiedBeat(id) # 0 =>
              getSecondsSinceLastHeartbeat(id) * Second <= clock - CopiedBeat(id)
<1>1. /\ id \in DOMAIN sensors
      /\ LastBeat(id) \in Nat /\ clock \in Nat /\ LastBeat(id) <= clock
      /\ CopiedBeat(id) \in Nat /\ CopiedBeat(id) <= LastBeat(id)
  BY DEF CopyBehind, Registered, TypeOK, MonitorTypeOK, SensorInfo, Time, LastBeat,
         NothingFromTheFuture, BeatsBehind, CopiedBeat
<1>2. CASE LastBeat(id) = 0
  BY <1>1, <1>2 DEF getSecondsSinceLastHeartbeat
<1>3. CASE LastBeat(id) # 0
  <2>1. Minus64(clock, LastBeat(id)) = clock - LastBeat(id)
    BY <1>1 DEF Minus64
  <2>2. clock - LastBeat(id) \in Nat
    BY <1>1
  <2>3. getSecondsSinceLastHeartbeat(id) = (clock - LastBeat(id)) \div Second
    BY <1>1, <1>3, <2>1 DEF getSecondsSinceLastHeartbeat
  <2>4. /\ getSecondsSinceLastHeartbeat(id) \in Nat
        /\ getSecondsSinceLastHeartbeat(id) * Second <= clock - LastBeat(id)
    BY <2>2, <2>3, WholeSeconds
  <2> QED
    BY <1>1, <2>4
<1> QED
  BY <1>2, <1>3

\* The inductive form of AgesNotOverstated.
LEMMA AgesBounded ==
  ASSUME ~ClockSteps
  PROVE  ReportSpec => [](AgesNotOverstated /\ AgesAreNumbers)
<1> DEFINE IInv == AgesNotOverstated /\ AgesAreNumbers
<1>1. MonitorInit => IInv
  BY DEF MonitorInit, AgesNotOverstated, AgesAreNumbers
<1>2. TypeOK /\ TypeOK' /\ NothingFromTheFuture /\ MonitorTypeOK /\ NoRowsLeft
        /\ CopyBehind /\ BeatsBehind /\ IInv /\ [ReportStep]_monitorVars
        => IInv'
  <2> SUFFICES ASSUME TypeOK, TypeOK', NothingFromTheFuture, MonitorTypeOK,
                      NoRowsLeft, CopyBehind, BeatsBehind, AgesNotOverstated,
                      AgesAreNumbers, [ReportStep]_monitorVars,
                      NEW i \in DOMAIN ages'
               PROVE  /\ ages'[i] \in Nat
                      /\ CopiedBeat(i)' # 0 =>
                           ages'[i] * Second <= clock' - CopiedBeat(i)'
    BY DEF AgesNotOverstated, AgesAreNumbers, CopiedBeat
  <2>1. clock \in Nat /\ clock' \in Nat /\ clock <= clock'
    <3>1. [Next]_vars
      BY ReportsOnlyRead
    <3> QED
      BY <3>1 DEF TypeOK, Next, handlePacket, updateSensorInfo, handleHeartbeat,
             unknownMessageType, readCurrentTime, detectOfflineSensors, Tick,
             SetBack, vars
  <2>2. \/ snapshot' = snapshot /\ ages' = ages
        \/ printRow
    BY DEF ReportStep, getStats, healthSummary, sensorList, sensorDetails,
           returnReport, countHealthSensors, getSensors, monitorVars, locals,
           vars, NoSensors, NoRowsLeft
  <2>3. ASSUME i \in DOMAIN ages, snapshot' = snapshot, ages'[i] = ages[i]
        PROVE  /\ ages'[i] \in Nat
               /\ CopiedBeat(i)' # 0 =>
                    ages'[i] * Second <= clock' - CopiedBeat(i)'
    <3>1. ages[i] \in Nat /\ CopiedBeat(i) \in Nat
      BY <2>3 DEF AgesAreNumbers, MonitorTypeOK, SensorInfo, Time, CopiedBeat
    <3>2. CopiedBeat(i) # 0 => ages[i] * Second <= clock - CopiedBeat(i)
      BY <2>3 DEF AgesNotOverstated, CopiedBeat
    <3>3. ages[i] * Second \in Nat
      BY <3>1
    <3> QED
      BY <2>1, <2>3, <3>1, <3>2, <3>3 DEF CopiedBeat
  <2>4. CASE printRow
    <3>1. Min(todo) \in DOMAIN snapshot
      BY <2>4, MinInSet DEF printRow, MonitorTypeOK
    <3>2. CASE i = Min(todo)
      <4>1. /\ ages'[i] = getSecondsSinceLastHeartbeat(i)
            /\ snapshot' = snapshot /\ clock' = clock
        BY <2>4, <3>2 DEF printRow, vars
      <4> QED
        BY <3>1, <3>2, <4>1, AgeOfCopied DEF CopiedBeat
    <3>3. CASE i # Min(todo)
      BY <2>3, <2>4, <3>3 DEF printRow
    <3> QED
      BY <3>2, <3>3
  <2> QED
    BY <2>2, <2>3, <2>4
<1> QED
  BY <1>1, <1>2, ReportsKeepGateway, TypeCorrect, ClockAhead, ReportTypes,
     CopyStaysBehind, BeatsStayBehind, PTL DEF ReportSpec

\* A row may mix an old health with a newer age, but the age never overstates
\* the silence: it is at most the time since the heartbeat known to the copy
\* (sensorList, sensorDetails: the age is asked for row by row, after the copy).
THEOREM AgesWithinSilence ==
  ASSUME ~ClockSteps
  PROVE  MonitorSpec => []AgesNotOverstated
BY MonitorReports, AgesBounded, PTL
=============================================================================
