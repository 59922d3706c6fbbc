------------------------------ MODULE MCGateway ------------------------------
(* Instances of Gateway for TLC. *)
EXTENDS Gateway, TLC

\* Sensor ids are only compared for equality.
SensorSymmetry == Permutations(Sensors)
=============================================================================
