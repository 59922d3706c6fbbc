SPECIFICATION Spec
CONSTANTS
  MotionLevels <- MCMotionLevels
  TemperatureLevels <- MCTemperatureLevels
  PressureLevels <- MCPressureLevels
  BatteryDrains <- MCBatteryDrains
INVARIANTS
  PressureAsTested
