SPECIFICATION NetFairSpec
CONSTANTS
  Sensors = {1, 2}
  Readings <- MCReadings
  NoReading = none
  Timeout = 2
  Second = 1
  Word = 64
  StartTime = 1
  ClockSteps = FALSE
  MaxTime = 5
  MaxTelemetry = 30
  MaxHeartbeats = 30
  MaxUnknown = 30
  Base = 5
  Measurements <- MCMeasurements
  Failing = {2}
  Recovering = {2}
  HeartbeatInterval = 1
  TelemetryInterval = 1
  Oversleep = 0
  Delay = 1
  Strays <- MCStrays
  LastRound = 2
  MaxFaults = 1
CHECK_DEADLOCK FALSE
INVARIANTS
  NetTypeOK
  StoredWasSent
  NodesNeverAbort
  OnlineMeansFresh
  AgeIsReal
PROPERTIES
  SilenceDetected
  RecoveredOnline
  OfflineSilentOrOvertaken
  ReadingsOnlyAdvance
  LiveNodeKept
  GatewaySpec
