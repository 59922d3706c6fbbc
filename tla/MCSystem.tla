------------------------------ MODULE MCSystem ------------------------------
(* Instances of System for TLC. *)
EXTENDS System, TLC
=============================================================================
