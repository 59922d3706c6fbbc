SPECIFICATION Spec
CONSTANTS
  Sensors = {s1, s2}
  Readings = {r1}
  NoReading = none
  Timeout = 2
  Second = 2
  Word = 64
  StartTime = 1
  ClockSteps = TRUE
  MaxTime = 4
  MaxTelemetry = 2
  MaxHeartbeats = 2
  MaxUnknown = 2
SYMMETRY SensorSymmetry
INVARIANTS
  TypeOK
  HealthTracksHeartbeats
  AlarmsNeedHeartbeats
  CountersCoverRegistry
PROPERTIES
  ImplementsSensorHealth
