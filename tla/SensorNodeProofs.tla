-------------------------- MODULE SensorNodeProofs --------------------------
(***************************************************************************)
(* Proofs about a sensor and its loop, for every pair of intervals, every  *)
(* length of a pass and every draw of the sensors.                         *)
(***************************************************************************)
EXTENDS SensorNode, TLAPS

USE SensorAssumption, NodeAssumption

-----------------------------------------------------------------------------
\* The sensor.

States == {"ACTIVE", "WARNING", "ERROR"}

\* The state that was reported is the one of the level, for a battery.
BatteryClassified == type = "Battery" => currentState = BatteryState(level)

SensorInv == TypeOK /\ BatteryClassified

\* Draining never fills, and never goes below empty.
LEMMA DrainedFacts ==
  ASSUME NEW l \in 0 .. FULL_BATTERY, NEW d \in BatteryDrains
  PROVE  Drained(l, d) \in 0 .. FULL_BATTERY /\ Drained(l, d) <= l
BY DEF Drained, FULL_BATTERY

\* A lower level is never classified as less severe.
LEMMA LowerIsWorse ==
  ASSUME NEW l \in Int, NEW k \in Int, k <= l
  PROVE  Severity(BatteryState(k)) >= Severity(BatteryState(l))
<1>1. /\ Severity("ACTIVE") = 0
      /\ Severity("WARNING") = 1
      /\ Severity("ERROR") = 2
  BY DEF Severity
<1>2. CASE l > 300
  <2>1. BatteryState(l) = "ACTIVE"
    BY <1>2 DEF BatteryState
  <2>2. BatteryState(k) \in States
    BY DEF BatteryState, States
  <2>3. Severity(BatteryState(k)) \in {0, 1, 2}
    BY <1>1, <2>2 DEF States
  <2> QED
    BY <1>1, <2>1, <2>3
<1>3. CASE l <= 300 /\ l > 100
  <2>1. BatteryState(l) = "WARNING"
    BY <1>3 DEF BatteryState
  <2>2. BatteryState(k) \in {"WARNING", "ERROR"}
    BY <1>3 DEF BatteryState
  <2>3. Severity(BatteryState(k)) \in {1, 2}
    BY <1>1, <2>2
  <2> QED
    BY <1>1, <2>1, <2>3
<1>4. CASE l <= 100
  <2>1. BatteryState(l) = "ERROR" /\ BatteryState(k) = "ERROR"
    BY <1>4 DEF BatteryState
  <2> QED
    BY <1>1, <2>1
<1> QED
  BY <1>2, <1>3, <1>4

LEMMA SensorStart == Init => SensorInv
<1> SUFFICES ASSUME Init PROVE SensorInv
  OBVIOUS
<1>1. level \in Int /\ (type = "Battery" => level = FULL_BATTERY)
  BY DEF Init, FULL_BATTERY
<1>2. TypeOK
  BY <1>1 DEF Init, TypeOK, FULL_BATTERY
<1>3. BatteryClassified
  BY <1>1 DEF Init, BatteryClassified, BatteryState, FULL_BATTERY
<1> QED
  BY <1>2, <1>3 DEF SensorInv

\* A tick reports a level of the sensor's type with the state of that level.
LEMMA SensorTick ==
  ASSUME SensorInv, Next
  PROVE  /\ type' = type
         /\ level' \in Int /\ currentState' \in States
         /\ currentReading' = [state |-> currentState', value |-> level',
                               sent |-> TRUE]
         /\ type = "Battery" => /\ level' \in 0 .. FULL_BATTERY
                                /\ level' <= level
                                /\ currentState' = BatteryState(level')
<1>1. type = "Battery" => level \in 0 .. FULL_BATTERY
  BY DEF SensorInv, TypeOK
<1>2. CASE type = "Battery"
  <2>1. PICK d \in BatteryDrains :
          tick(Drained(level, d), BatteryState(Drained(level, d)))
    BY <1>2 DEF Next
  <2>2. Drained(level, d) \in 0 .. FULL_BATTERY /\ Drained(level, d) <= level
    BY <1>1, <1>2, DrainedFacts
  <2> QED
    BY <2>1, <2>2 DEF tick, BatteryState, States
<1>3. CASE type # "Battery"
  BY <1>3 DEF Next, tick, MotionState, TemperatureState, PressureState, States
<1> QED
  BY <1>2, <1>3

LEMMA SensorStep ==
  ASSUME SensorInv, [Next]_vars
  PROVE  SensorInv'
<1>1. CASE Next
  <2>1. TypeOK'
    <3>1. type' \in Types /\ level' \in Int /\ currentState' \in States
      BY <1>1, SensorTick DEF SensorInv, TypeOK
    <3>2. type' = "Battery" => level' \in 0 .. FULL_BATTERY
      BY <1>1, SensorTick
    <3>3. currentReading' \in [state : States, value : Int, sent : BOOLEAN]
      <4>1. currentReading' = [state |-> currentState', value |-> level',
                               sent |-> TRUE]
        BY <1>1, SensorTick
      <4> HIDE DEF States
      <4> QED
        BY <3>1, <4>1
    <3> QED
      BY <3>1, <3>2, <3>3 DEF TypeOK, States
  <2>2. BatteryClassified'
    BY <1>1, SensorTick DEF BatteryClassified
  <2> QED
    BY <2>1, <2>2 DEF SensorInv
<1>2. CASE UNCHANGED vars
  BY <1>2 DEF vars, SensorInv, TypeOK, BatteryClassified
<1> QED
  BY <1>1, <1>2

LEMMA BatteryStep ==
  ASSUME SensorInv, [Next]_vars
  PROVE  [type = "Battery" =>
            /\ level' <= level
            /\ Severity(currentState') >= Severity(currentState)]_vars
<1> SUFFICES ASSUME Next, type = "Battery"
             PROVE  /\ level' <= level
                    /\ Severity(currentState') >= Severity(currentState)
  OBVIOUS
<1>1. /\ level \in Int /\ level' \in Int /\ level' <= level
      /\ currentState' = BatteryState(level')
  BY SensorTick DEF SensorInv, TypeOK
<1>2. currentState = BatteryState(level)
  BY DEF SensorInv, BatteryClassified
<1> QED
  BY <1>1, <1>2, LowerIsWorse

-----------------------------------------------------------------------------
\* The loop.

\* Every step of a node is a step of its sensor or leaves the sensor alone.
LEMMA NodeTicksSensor ==
  ASSUME [NodeNext]_nodeVars
  PROVE  [Next]_vars
BY DEF NodeNext, nodeVars, enterRun, run, testRunning, telemetryTimer,
       heartbeatTimer, stop, passTime

\* The heartbeat timer counts from the reading of the clock before the sending,
\* so it runs ahead of the silence by at most a pass; and the pass that finds
\* it not yet due starts with less than an interval on it.
TimersInStep ==
  /\ lastTelemetry \in Nat /\ lastHeartbeat \in Nat /\ silence \in Nat
  /\ silence <= lastHeartbeat /\ lastHeartbeat <= silence + MaxPass
  /\ lastHeartbeat - nowTime < heartbeatInterval
       + (IF node \in {"telemetry", "heartbeat"} THEN MaxPass ELSE 0)

NodeInv == NodeTypeOK /\ BatteryClassified /\ TimersInStep

LEMMA NodeStart == NodeInit => NodeInv
<1> SUFFICES ASSUME NodeInit PROVE NodeInv
  OBVIOUS
<1>1. TypeOK /\ BatteryClassified
  BY SensorStart DEF NodeInit, SensorInv
<1>2. NodeTypeOK
  <2>1. running \in BOOLEAN
    BY DEF NodeInit
  <2>2. /\ node \in {"created", "test", "telemetry", "heartbeat", "exited"}
        /\ nowTime \in 0 .. MaxPass
        /\ nowTime <= lastTelemetry /\ nowTime <= lastHeartbeat
    BY DEF NodeInit
  <2> QED
    BY <1>1, <2>1, <2>2 DEF NodeTypeOK
<1>3. TimersInStep
  BY DEF NodeInit, TimersInStep
<1> QED
  BY <1>1, <1>2, <1>3 DEF NodeInv

\* The timers, step by step of the loop.
LEMMA TimerStep ==
  ASSUME NodeInv, [NodeNext]_nodeVars
  PROVE  /\ TimersInStep'
         /\ nowTime' \in 0 .. MaxPass
         /\ nowTime' <= lastTelemetry' /\ nowTime' <= lastHeartbeat'
<1>1. /\ lastTelemetry \in Nat /\ lastHeartbeat \in Nat /\ silence \in Nat
      /\ silence <= lastHeartbeat /\ lastHeartbeat <= silence + MaxPass
      /\ nowTime \in 0 .. MaxPass
      /\ nowTime <= lastTelemetry /\ nowTime <= lastHeartbeat
  BY DEF NodeInv, NodeTypeOK, TimersInStep
<1>2. MaxPass \in Nat \ {0} /\ heartbeatInterval \in Nat \ {0}
  OBVIOUS
<1>3. ASSUME node \notin {"telemetry", "heartbeat"}
      PROVE  lastHeartbeat - nowTime < heartbeatInterval
  BY <1>1, <1>2, <1>3 DEF NodeInv, TimersInStep
<1>4. lastHeartbeat - nowTime < heartbeatInterval + MaxPass
  BY <1>1, <1>2 DEF NodeInv, TimersInStep
<1>5. CASE enterRun
  BY <1>1, <1>2, <1>3, <1>5 DEF enterRun, timers, TimersInStep
<1>6. CASE testRunning
  BY <1>1, <1>2, <1>3, <1>6 DEF testRunning, TimersInStep
<1>7. CASE telemetryTimer
  BY <1>1, <1>2, <1>4, <1>7 DEF telemetryTimer, TimersInStep
<1>8. CASE heartbeatTimer
  BY <1>1, <1>2, <1>8 DEF heartbeatTimer, Due, TimersInStep
<1>9. CASE passTime
  BY <1>1, <1>2, <1>3, <1>4, <1>9 DEF passTime, TimersInStep
<1>10. CASE UNCHANGED <<node, timers>>
  BY <1>1, <1>10 DEF NodeInv, timers, TimersInStep
<1> QED
  BY <1>5, <1>6, <1>7, <1>8, <1>9, <1>10
     DEF NodeNext, run, stop, nodeVars

LEMMA NodeStep ==
  ASSUME NodeInv, [NodeNext]_nodeVars
  PROVE  NodeInv'
<1>1. TypeOK' /\ BatteryClassified'
  <2>1. SensorInv
    BY DEF NodeInv, NodeTypeOK, SensorInv
  <2> QED
    BY <2>1, NodeTicksSensor, SensorStep DEF SensorInv
<1>2. node' \in {"created", "test", "telemetry", "heartbeat", "exited"}
  BY DEF NodeInv, NodeTypeOK, NodeNext, nodeVars, enterRun, run, testRunning,
         telemetryTimer, heartbeatTimer, stop, passTime
<1>3. running' \in BOOLEAN
  <2>1. running \in BOOLEAN
    BY DEF NodeInv, NodeTypeOK
  <2> QED
    BY <2>1 DEF NodeNext, nodeVars, enterRun, run, testRunning,
                telemetryTimer, heartbeatTimer, stop, passTime
<1> QED
  BY <1>1, <1>2, <1>3, TimerStep DEF NodeInv, NodeTypeOK

LEMMA NodeInvariant == NodeSpec => []NodeInv
<1>1. NodeInit => NodeInv
  BY NodeStart
<1>2. NodeInv /\ [NodeNext]_nodeVars => NodeInv'
  BY NodeStep
<1> QED
  BY <1>1, <1>2, PTL DEF NodeSpec

-----------------------------------------------------------------------------
\* The theorems.

\* Every variable of a node keeps its type, the battery stays between empty and
\* full, and no timer counts from a moment later than the last clock reading.
THEOREM NodeTypeCorrect == NodeSpec => []NodeTypeOK
<1>1. NodeInv => NodeTypeOK
  BY DEF NodeInv
<1> QED
  BY <1>1, NodeInvariant, PTL

\* The timers decide when a sensor measures, never what: a node is its sensor.
THEOREM NodeImplementsSensor == NodeSpec => Spec
<1>1. NodeInit => Init
  BY DEF NodeInit
<1>2. [NodeNext]_nodeVars => [Next]_vars
  BY NodeTicksSensor
<1> QED
  BY <1>1, <1>2, PTL DEF NodeSpec, Spec

\* A battery never recovers (BatterySensor::collectData), for every drain.
THEOREM BatteryWorsens == Spec => BatteryOnlyWorsens
<1>1. Init => SensorInv
  BY SensorStart
<1>2. SensorInv /\ [Next]_vars => SensorInv'
  BY SensorStep
<1>3. SensorInv /\ [Next]_vars
        => [type = "Battery" =>
              /\ level' <= level
              /\ Severity(currentState') >= Severity(currentState)]_vars
  BY BatteryStep
<1> QED
  BY <1>1, <1>2, <1>3, PTL DEF Spec, BatteryOnlyWorsens

\* Nor does that of a node with a loop of its own.
THEOREM NodeBatteryWorsens == NodeSpec => BatteryOnlyWorsens
BY NodeImplementsSensor, BatteryWorsens, PTL

\* Lateness of a node does not add up: the next heartbeat is sent within the
\* interval and two passes, however long the node has been running, and never
\* earlier than the interval less a pass (SensorNode::run).
THEOREM HeartbeatsRegular == NodeSpec => HeartbeatsOnTime
<1>1. NodeInv /\ [NodeNext]_nodeVars
        => [/\ silence' < heartbeatInterval + 2 * MaxPass
            /\ node = "heartbeat" /\ node' = "test"
                 /\ Due(lastHeartbeat, heartbeatInterval)
                 => silence >= heartbeatInterval - MaxPass]_nodeVars
  <2> SUFFICES ASSUME NodeInv, [NodeNext]_nodeVars
               PROVE  /\ silence' < heartbeatInterval + 2 * MaxPass
                      /\ Due(lastHeartbeat, heartbeatInterval)
                           => silence >= heartbeatInterval - MaxPass
    OBVIOUS
  <2>1. NodeInv'
    BY NodeStep
  <2>2. silence' < heartbeatInterval + 2 * MaxPass
    <3>1. /\ silence' \in Nat /\ lastHeartbeat' \in Nat
          /\ nowTime' \in 0 .. MaxPass /\ silence' <= lastHeartbeat'
      BY <2>1 DEF NodeInv, NodeTypeOK, TimersInStep
    <3>2. lastHeartbeat' - nowTime' < heartbeatInterval + MaxPass
      BY <2>1, <3>1 DEF NodeInv, TimersInStep
    <3> QED
      BY <3>1, <3>2
  <2>3. Due(lastHeartbeat, heartbeatInterval)
          => silence >= heartbeatInterval - MaxPass
    BY DEF NodeInv, NodeTypeOK, TimersInStep, Due
  <2> QED
    BY <2>2, <2>3
<1> QED
  BY <1>1, NodeInvariant, PTL DEF NodeSpec, HeartbeatsOnTime
=============================================================================
