SPECIFICATION NodeFairSpec
CONSTANTS
  MotionLevels <- MCMotionLevels
  TemperatureLevels <- MCTemperatureLevels
  PressureLevels <- MCPressureLevels
  BatteryDrains <- MCBatteryDrains
  telemetryInterval = 1
  heartbeatInterval = 4
  MaxPass = 2
INVARIANTS
  NodeTypeOK
PROPERTIES
  BatteryOnlyWorsens
  HeartbeatsOnTime
  BatteryRunsOut
  StopEndsRun
