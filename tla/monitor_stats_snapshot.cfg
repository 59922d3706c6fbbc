SPECIFICATION MonitorSpec
CONSTANTS
  Sensors = {1, 2}
  Readings = {r1}
  NoReading = none
  Timeout = 1
  Second = 1
  Word = 64
  StartTime = 1
  ClockSteps = FALSE
  MaxTime = 4
  MaxTelemetry = 2
  MaxHeartbeats = 2
  MaxUnknown = 2
INVARIANTS
  StatsIsSnapshot
