----------------------------- MODULE SensorNode -----------------------------
(***************************************************************************)
(* A sensor with a loop of its own (src/sensor/SensorNode.cpp, run and     *)
(* stop): every pass reads the clock once, and sends telemetry and a       *)
(* heartbeat when their timers, which count from such readings, are due.   *)
(* main drives its nodes from two threads instead (SensorNetwork); run is  *)
(* the other way to use a node.                                            *)
(*                                                                         *)
(* steady_clock only matters by differences: the model keeps how long ago  *)
(* each remembered moment is.                                              *)
(***************************************************************************)
EXTENDS Sensor

CONSTANTS
  telemetryInterval,
  heartbeatInterval,
  MaxPass             \* bound: how long a pass takes, with its sleep

ASSUME NodeAssumption ==
  {telemetryInterval, heartbeatInterval, MaxPass} \subseteq Nat \ {0}

VARIABLES
  node,             \* where run is
  running,
  lastTelemetry,    \* how long ago this and the next two were
  lastHeartbeat,
  nowTime,
  silence           \* history: time since a heartbeat left, or run began

timers   == <<lastTelemetry, lastHeartbeat, nowTime, silence>>
nodeVars == <<vars, node, running, timers>>

NodeInit ==
  /\ Init
  /\ node = "created"
  /\ running = FALSE
  /\ lastTelemetry = 0 /\ lastHeartbeat = 0 /\ nowTime = 0 /\ silence = 0

enterRun ==
  /\ node = "created"
  /\ node' = "test"
  /\ running' = TRUE
  /\ UNCHANGED <<vars, timers>>

testRunning_faulty ==       \* while (true)
  /\ node = "test"
  /\ node' = "telemetry"
  /\ nowTime' = 0
  /\ UNCHANGED <<vars, running, lastTelemetry, lastHeartbeat, silence>>

\* while (running), and the pass reads the clock.
testRunning ==
  /\ node = "test"
  /\ \/ running  /\ node' = "telemetry" /\ nowTime' = 0
     \/ ~running /\ node' = "exited"    /\ UNCHANGED nowTime
  /\ UNCHANGED <<vars, running, lastTelemetry, lastHeartbeat, silence>>

Due(last, interval) == last - nowTime >= interval

telemetryTimer_faulty ==    \* one timer for both
  /\ node = "telemetry"
  /\ \/ /\ Due(lastTelemetry, telemetryInterval)
        /\ Next
        /\ lastTelemetry' = nowTime /\ lastHeartbeat' = nowTime
     \/ /\ ~Due(lastTelemetry, telemetryInterval)
        /\ UNCHANGED <<vars, lastTelemetry, lastHeartbeat>>
  /\ node' = "heartbeat"
  /\ UNCHANGED <<running, nowTime, silence>>

telemetryTimer ==
  /\ node = "telemetry"
  /\ \/ Due(lastTelemetry, telemetryInterval) /\ Next /\ lastTelemetry' = nowTime
     \/ ~Due(lastTelemetry, telemetryInterval) /\ UNCHANGED <<vars, lastTelemetry>>
  /\ node' = "heartbeat"
  /\ UNCHANGED <<running, lastHeartbeat, nowTime, silence>>

heartbeatTimer ==
  /\ node = "heartbeat"
  /\ \/ /\ Due(lastHeartbeat, heartbeatInterval)                 \* sendHeartbeat
        /\ lastHeartbeat' = nowTime /\ silence' = 0
     \/ /\ ~Due(lastHeartbeat, heartbeatInterval)
        /\ UNCHANGED <<lastHeartbeat, silence>>
  /\ node' = "test"
  /\ UNCHANGED <<vars, running, lastTelemetry, nowTime>>

\* stop, called by any other thread at any time.
stop ==
  /\ running' = FALSE
  /\ UNCHANGED <<vars, node, timers>>

\* The sleep, and all that takes time: a pass may last MaxPass.
passTime ==
  /\ node \notin {"created", "exited"}
  /\ nowTime < MaxPass
  /\ lastTelemetry' = lastTelemetry + 1
  /\ lastHeartbeat' = lastHeartbeat + 1
  /\ nowTime' = nowTime + 1
  /\ silence' = silence + 1
  /\ UNCHANGED <<vars, node, running>>

run == testRunning \/ telemetryTimer \/ heartbeatTimer

NodeNext == enterRun \/ run \/ stop \/ passTime

NodeSpec == NodeInit /\ [][NodeNext]_nodeVars

\* The thread in run goes on, and passes take time: run sleeps in each of them,
\* so time cannot stand still for ever.
NodeFairSpec ==
  NodeSpec /\ WF_nodeVars(run) /\ WF_nodeVars(passTime)

-----------------------------------------------------------------------------
\* Properties.

\* Every variable keeps its type; the remembered moments are in order.
NodeTypeOK ==
  /\ TypeOK
  /\ node \in {"created", "test", "telemetry", "heartbeat", "exited"}
  /\ running \in BOOLEAN
  /\ nowTime \in 0 .. MaxPass
  /\ nowTime <= lastTelemetry /\ nowTime <= lastHeartbeat

\* The timers count from the reading of the clock and not from the sending.  Still
\* lateness does not add up: the gateway never waits longer than the interval
\* and two passes for the next heartbeat, however long the node has been running.
\* Nor are heartbeats sent in bursts to catch up after a slow pass (run).
HeartbeatsOnTime ==
  [][/\ silence' < heartbeatInterval + 2 * MaxPass
     /\ node = "heartbeat" /\ node' = "test" /\ Due(lastHeartbeat, heartbeatInterval)
          => silence >= heartbeatInterval - MaxPass]_nodeVars

\* A node that is not stopped drains its battery to the end, whatever its
\* timers do, and reports ERROR from then on.
BatteryRunsOut ==
  type = "Battery" /\ running
    ~> ~running \/ (level = 0 /\ currentState = "ERROR")

\* A stop that comes after run has begun ends it.  (One that comes before is
\* overwritten by run, as in UdpReceiver and TcpServer.)
StopEndsRun == node # "created" /\ ~running ~> node = "exited"
=============================================================================
