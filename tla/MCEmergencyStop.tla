--------------------------- MODULE MCEmergencyStop ---------------------------
(* Instances of EmergencyStop for TLC. *)
EXTENDS EmergencyStop, TLC

\* Sound for the safety runs: neither requests nor orders have names of their own.
Symmetry == Permutations(Requests) \cup Permutations(Orders)
=============================================================================
