------------------------------- MODULE Sensor -------------------------------
(***************************************************************************)
(* A sensor (src/sensor): collectData draws or drains a level, classifies  *)
(* it, and createTelemetry reports value and state together.  Sensors are  *)
(* only touched by the telemetry thread, one tick at a time.               *)
(*                                                                         *)
(* Levels are in tenths (kPa, degrees, percent; hundredths of the motion   *)
(* scale are not needed).  The random distributions are sets of levels on  *)
(* both sides of every threshold.                                          *)
(***************************************************************************)
EXTENDS Integers

CONSTANTS
  MotionLevels,        \* drawn by the motion sensor, in tenths of [0, 1)
  TemperatureLevels,   \* drawn by the temperature sensor
  PressureLevels,      \* drawn by the pressure sensor
  BatteryDrains        \* lost by the battery at each tick

ASSUME SensorAssumption ==
  /\ MotionLevels \subseteq Int
  /\ TemperatureLevels \subseteq Int
  /\ PressureLevels \subseteq Int
  /\ BatteryDrains \subseteq Nat \ {0}

Types == {"Motion", "Temperature", "Battery", "Pressure"}
FULL_BATTERY == 1000

VARIABLES
  type,           \* the sensor's type, fixed
  level,          \* motionLevel, temperatureLevel, batteryLevel, pressureLevel
  currentState,
  currentReading  \* state and value of the last telemetry, or of none yet

vars == <<type, level, currentState, currentReading>>

Init ==
  /\ type \in Types
  /\ level = IF type = "Battery" THEN FULL_BATTERY ELSE 0
  /\ currentState = "ACTIVE"
  /\ currentReading = [state |-> "ACTIVE", value |-> level, sent |-> FALSE]

-----------------------------------------------------------------------------
MotionState(l) == IF l > 5 THEN "ACTIVE" ELSE "WARNING"

TemperatureState(l) ==
  IF l < 300 THEN "ACTIVE" ELSE IF l < 400 THEN "WARNING" ELSE "ERROR"

BatteryState_faulty(l) ==       \* >= 0 for > ERROR_THRESHOLD
  IF l > 300 THEN "ACTIVE" ELSE IF l >= 0 THEN "WARNING" ELSE "ERROR"

BatteryState(l) ==
  IF l > 300 THEN "ACTIVE" ELSE IF l > 100 THEN "WARNING" ELSE "ERROR"

\* The first test is a disjunction in the code.
PressureState(l) ==
  IF l >= 980 \/ l <= 1040 THEN "ACTIVE"
  ELSE IF (l >= 950 /\ l < 980) \/ (l > 1040 /\ l <= 1070) THEN "WARNING"
  ELSE "ERROR"

Drained_faulty(l, d) == l - d                                  \* no clamp

Drained_reset_faulty(l, d) == IF l - d < 0 THEN FULL_BATTERY ELSE l - d

Drained(l, d) == IF l - d < 0 THEN 0 ELSE l - d

\* SensorNode::tick on a sensor: collectData, then createTelemetry.
tick(l, state) ==
  /\ level' = l
  /\ currentState' = state
  /\ currentReading' = [state |-> state, value |-> l, sent |-> TRUE]
  /\ UNCHANGED type

Next ==
  \/ type = "Motion"      /\ \E l \in MotionLevels : tick(l, MotionState(l))
  \/ type = "Temperature" /\ \E l \in TemperatureLevels :
                               tick(l, TemperatureState(l))
  \/ type = "Battery"     /\ \E d \in BatteryDrains :
                               tick(Drained(level, d), BatteryState(Drained(level, d)))
  \/ type = "Pressure"    /\ \E l \in PressureLevels : tick(l, PressureState(l))

Spec == Init /\ [][Next]_vars

-----------------------------------------------------------------------------
\* Properties.

\* Every variable keeps its type; the battery stays between empty and full.
TypeOK ==
  /\ type \in Types
  /\ level \in Int
  /\ type = "Battery" => level \in 0 .. FULL_BATTERY
  /\ currentState \in {"ACTIVE", "WARNING", "ERROR"}
  /\ currentReading \in [state : {"ACTIVE", "WARNING", "ERROR"},
                         value : Int, sent : BOOLEAN]

\* A battery never recovers: over any number of ticks the reported level does
\* not rise and the reported state goes from ACTIVE by WARNING to ERROR only.
Severity(state) == CASE state = "ACTIVE"  -> 0
                     [] state = "WARNING" -> 1
                     [] state = "ERROR"   -> 2

BatteryOnlyWorsens ==
  [][type = "Battery" =>
       /\ level' <= level
       /\ Severity(currentState') >= Severity(currentState)]_vars

\* What PressureSensorTests.cpp expects of a pressure reading.
PressureAsTested ==
  type = "Pressure" /\ currentReading.sent =>
    currentReading.state =
      IF currentReading.value \in 980 .. 1040 THEN "ACTIVE"
      ELSE IF currentReading.value \in 950 .. 1070 THEN "WARNING"
      ELSE "ERROR"
=============================================================================
