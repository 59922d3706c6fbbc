SPECIFICATION TcpSpec
CONSTANTS
  Sensors = {1, 2}
  Readings = {r1}
  NoReading = none
  Timeout = 0
  Second = 1
  Word = 64
  StartTime = 1
  ClockSteps = FALSE
  MaxTime = 2
  MaxTelemetry = 1
  MaxHeartbeats = 2
  MaxUnknown = 0
  Commands <- MCCommands
  IntMax = 11
  MaxAsked = 2
CHECK_DEADLOCK FALSE
INVARIANTS
  TcpTypeOK
  ReportsCovered
  AgesNotOverstated
  WholeCommandsAnswered
  NotFoundLogged
  PatientClientHarmless
