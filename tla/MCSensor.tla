------------------------------ MODULE MCSensor ------------------------------
(* An instance of Sensor for TLC: levels next to and beyond every threshold, *)
(* and the least and the greatest battery drain.                             *)
EXTENDS Sensor

MCMotionLevels      == {0, 5, 6, 9}
MCTemperatureLevels == {-50, 299, 300, 399, 400, 500}
MCPressureLevels    == {940, 949, 950, 979, 980, 1040, 1041, 1070, 1071}
MCBatteryDrains     == {2, 3, 5}
=============================================================================
