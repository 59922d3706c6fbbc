------------------------------- MODULE Monitor -------------------------------
(***************************************************************************)
(* The reports of src/monitor/Monitor.cpp, as one thread produces them     *)
(* while the UDP and watchdog threads of Gateway keep running.             *)
(*                                                                         *)
(* A report is not atomic.  Each call into the gateway (getSensors,        *)
(* getSecondsSinceLastHeartbeat, the two counters) takes and releases      *)
(* Gateway::mtx on its own, so each call is one step and the registry may  *)
(* change between two of them.  Reports never write to the gateway and     *)
(* share nothing with each other: one reading thread shows every anomaly   *)
(* that the two of main (dashboard and TCP) can meet.                      *)
(***************************************************************************)
EXTENDS Gateway, FiniteSetsExt

\* sensorList sorts the ids it found.
ASSUME MonitorAssumption == Sensors \subseteq Nat

VARIABLES
  report,      \* where the reading thread is
  snapshot,    \* the copy of the registry that getSensors returned
  counts,      \* HealthCounts
  telemetryPackets, heartbeatPackets,    \* fields of SystemStats
  todo,        \* ids whose age is still to be asked for
  ages         \* id -> seconds since its last heartbeat, as reported

locals == <<report, snapshot, counts, telemetryPackets, heartbeatPackets,
            todo, ages>>

monitorVars == <<vars, locals>>

NoSensors == [id \in {} |-> FreshInfo]
NoCounts  == [online |-> 0, offline |-> 0, unknown |-> 0]

MonitorInit ==
  /\ Init
  /\ report = "idle"
  /\ snapshot = NoSensors
  /\ counts = NoCounts
  /\ telemetryPackets = 0
  /\ heartbeatPackets = 0
  /\ todo = {}
  /\ ages = [id \in {} |-> 0]

-----------------------------------------------------------------------------
\* Gateway::getSensors, then on to step p of the report.
getSensors(p) ==
  /\ report = "idle"
  /\ snapshot' = sensors
  /\ report' = p

WithHealth(registry, h) == {id \in DOMAIN registry : registry[id].health = h}

CountsOf_faulty(registry) ==      \* whatever is not OFFLINE counts as online
  LET down == Cardinality(WithHealth(registry, "OFFLINE"))
  IN  [online  |-> Cardinality(DOMAIN registry) - down,
       offline |-> down,
       unknown |-> 0]

CountsOf(registry) ==
  [online  |-> Cardinality(WithHealth(registry, "ONLINE")),
   offline |-> Cardinality(WithHealth(registry, "OFFLINE")),
   unknown |-> Cardinality(WithHealth(registry, "UNKNOWN"))]

\* countHealthSensors asks the gateway for the registry a second time.
countHealthSensors(from, to) ==
  /\ report = from
  /\ counts' = CountsOf(sensors)
  /\ report' = to
  /\ UNCHANGED <<vars, snapshot, telemetryPackets, heartbeatPackets, todo, ages>>

\* getStats, for the dashboard and the TCP command "stats".
getStats ==
  \/ /\ getSensors("stats_count")
     /\ UNCHANGED <<vars, counts, telemetryPackets, heartbeatPackets, todo, ages>>
  \/ countHealthSensors("stats_count", "stats_telemetry")
  \/ /\ report = "stats_telemetry"
     /\ telemetryPackets' = telemetryPacketsReceived
     /\ report' = "stats_heartbeat"
     /\ UNCHANGED <<vars, snapshot, counts, heartbeatPackets, todo, ages>>
  \/ /\ report = "stats_heartbeat"
     /\ heartbeatPackets' = heartbeatPacketsReceived
     /\ report' = "stats_done"
     /\ UNCHANGED <<vars, snapshot, counts, telemetryPackets, todo, ages>>

\* healthSummary: the counts, then the OFFLINE sensors of the first copy.
healthSummary ==
  \/ /\ getSensors("summary_count")
     /\ UNCHANGED <<vars, counts, telemetryPackets, heartbeatPackets, todo, ages>>
  \/ countHealthSensors("summary_count", "summary_done")

\* sensorList and sensorDetails print rows of the copy; the age of a row is
\* asked for when the row is printed, in increasing order of the ids.
sensorList ==
  /\ getSensors("rows")
  /\ todo' = DOMAIN sensors
  /\ UNCHANGED <<vars, counts, telemetryPackets, heartbeatPackets, ages>>

sensorDetails_faulty(id) ==       \* no test that the sensor was found
  /\ getSensors("rows")
  /\ todo' = {id}
  /\ UNCHANGED <<vars, counts, telemetryPackets, heartbeatPackets, ages>>

\* An id that is not in the copy is answered "sensor not found", with no row.
sensorDetails(id) ==
  /\ getSensors("rows")
  /\ todo' = {id} \cap DOMAIN sensors
  /\ UNCHANGED <<vars, counts, telemetryPackets, heartbeatPackets, ages>>

printRow ==
  /\ report = "rows"
  /\ todo # {}
  /\ LET id == Min(todo)
     IN  /\ ages' = [i \in DOMAIN ages \cup {id} |->
                       IF i = id THEN getSecondsSinceLastHeartbeat(id)
                                 ELSE ages[i]]
         /\ todo' = todo \ {id}
  /\ UNCHANGED <<vars, report, snapshot, counts, telemetryPackets,
                 heartbeatPackets>>

\* The report is returned; its locals are gone.
returnReport ==
  /\ \/ report \in {"stats_done", "summary_done"}
     \/ report = "rows" /\ todo = {}
  /\ report' = "idle"
  /\ snapshot' = NoSensors
  /\ counts' = NoCounts
  /\ telemetryPackets' = 0
  /\ heartbeatPackets' = 0
  /\ ages' = [id \in {} |-> 0]
  /\ UNCHANGED <<vars, todo>>

MonitorStep ==
  \/ getStats
  \/ healthSummary
  \/ sensorList
  \/ \E id \in Sensors : sensorDetails(id)
  \/ printRow
  \/ returnReport

MonitorNext ==
  \/ Next /\ UNCHANGED locals
  \/ MonitorStep

MonitorSpec == MonitorInit /\ [][MonitorNext]_monitorVars

-----------------------------------------------------------------------------
\* Properties.

Counted == {"stats_telemetry", "stats_heartbeat", "stats_done", "summary_done"}

\* Every variable of the reading thread keeps its type.
MonitorTypeOK ==
  /\ report \in {"idle", "stats_count", "summary_count", "rows"} \cup Counted
  /\ DOMAIN snapshot \subseteq Sensors
  /\ snapshot \in [DOMAIN snapshot -> SensorInfo]
  /\ counts \in [online : Nat, offline : Nat, unknown : Nat]
  /\ telemetryPackets \in 0 .. MaxTelemetry
  /\ heartbeatPackets \in 0 .. MaxHeartbeats
  /\ todo \subseteq DOMAIN snapshot
  /\ DOMAIN ages \subseteq DOMAIN snapshot

\* The counts are taken after the copy and the registry never forgets: they
\* cover every sensor of the copy, and every sensor of the copy that has been
\* heard still counts as ONLINE or OFFLINE.
CountsCoverSnapshot ==
  report \in Counted =>
    /\ Cardinality(DOMAIN snapshot)
         <= counts.online + counts.offline + counts.unknown
    /\ Cardinality(DOMAIN snapshot \ WithHealth(snapshot, "UNKNOWN"))
         <= counts.online + counts.offline

\* The packet counters of the statistics are read last, so they account for the
\* sensors reported with them: no sensor ONLINE or OFFLINE without a heartbeat
\* counted, no sensor without a packet counted.
StatsCovered ==
  report = "stats_done" =>
    /\ counts.online + counts.offline <= heartbeatPackets
    /\ Cardinality(DOMAIN snapshot) <= telemetryPackets + heartbeatPackets

\* A row of the list may mix an old health with a newer age, but the age never
\* overstates: it is at most the time since the heartbeat known to the copy.
AgesNotOverstated ==
  \A id \in DOMAIN ages :
    LET beat == snapshot[id].lastHeartbeatReceivedTime
    IN  beat # 0 => ages[id] * Second <= clock - beat

\* Both: whatever the other threads do between the calls of a report, its later
\* numbers account for its earlier ones (getStats, healthSummary).
ReportsCovered == CountsCoverSnapshot /\ StatsCovered

\* What Monitor.hpp calls getStats: a snapshot.  The sensors counted ONLINE or
\* OFFLINE are among the total.
StatsIsSnapshot ==
  report = "stats_done" =>
    counts.online + counts.offline <= Cardinality(DOMAIN snapshot)
=============================================================================
