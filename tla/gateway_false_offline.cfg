SPECIFICATION Spec
CONSTANTS
  Sensors = {s1, s2}
  Readings = {r1}
  NoReading = none
  Timeout = 2
  Second = 2
  Word = 64
  StartTime = 1
  ClockSteps = FALSE
  MaxTime = 5
  MaxTelemetry = 2
  MaxHeartbeats = 2
  MaxUnknown = 2
SYMMETRY SensorSymmetry
INVARIANTS
  OfflineMeansSilent
