---------------------------- MODULE SensorHealth ----------------------------
(***************************************************************************)
(* What the gateway promises about the communication health of each        *)
(* sensor, with no registry, no clock and no lock in it:                   *)
(*  - a sensor appears when its first packet is handled;                   *)
(*  - it is UNKNOWN until its first heartbeat, and never again;            *)
(*  - only a heartbeat makes it ONLINE;                                    *)
(*  - only the watchdog makes it OFFLINE, only from ONLINE, and each such  *)
(*    change is reported in the log exactly once.                          *)
(* Gateway is shown to implement this specification.                       *)
(***************************************************************************)
EXTENDS Integers

CONSTANT Sensors

VARIABLES
  health,   \* what the gateway believes of each sensor
  alarms    \* how often each sensor was reported offline

vars == <<health, alarms>>

Init ==
  /\ health = [id \in Sensors |-> "ABSENT"]
  /\ alarms = [id \in Sensors |-> 0]

\* The first packet of a sensor is telemetry.
Appear(id) ==
  /\ health[id] = "ABSENT"
  /\ health' = [health EXCEPT ![id] = "UNKNOWN"]
  /\ UNCHANGED alarms

\* A heartbeat of the sensor is handled.
Beat(id) ==
  /\ health' = [health EXCEPT ![id] = "ONLINE"]
  /\ UNCHANGED alarms

\* The watchdog gives up on a set of sensors in one sweep.
GiveUp(S) ==
  /\ \A id \in S : health[id] = "ONLINE"
  /\ health' = [id \in Sensors |-> IF id \in S THEN "OFFLINE" ELSE health[id]]
  /\ alarms' = [id \in Sensors |-> IF id \in S THEN alarms[id] + 1
                                              ELSE alarms[id]]

Next ==
  \/ \E id \in Sensors : Appear(id) \/ Beat(id)
  \/ \E S \in SUBSET Sensors : GiveUp(S)

Spec == Init /\ [][Next]_vars
=============================================================================
