--------------------------- MODULE MCSensorNetwork ---------------------------
(* An instance of SensorNetwork for TLC: one live sensor, one that fails and *)
(* recovers; strays of an unknown type, cut in the header and cut after it.  *)
EXTENDS SensorNetwork

MCMeasurements == {[type |-> 3, state |-> 2, value |-> 7]}

MCReadings ==
  [header : [type : {TELEMETRY}, sensorId : Sensors, timestamp_ms : 1 .. MaxTime],
   type : {3}, state : {2}, value : {7}]

StrayHeader(t) == writeHeader([type |-> t, sensorId |-> 3, timestamp_ms |-> 0])

MCStrays == {StrayHeader(4), <<TELEMETRY, 0>>, StrayHeader(TELEMETRY)}
=============================================================================
