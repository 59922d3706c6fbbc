---------------------------- MODULE MCSensorNode ----------------------------
(* An instance of SensorNode for TLC, with the levels of MCSensor. *)
EXTENDS SensorNode, MCSensor
=============================================================================
