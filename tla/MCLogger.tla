------------------------------- MODULE MCLogger -------------------------------
(* Instances of Logger for TLC. *)
EXTENDS Logger, TLC

\* Threads and messages are only compared for equality.
LoggerSymmetry == Permutations(Threads) \cup Permutations(Messages)
=============================================================================
