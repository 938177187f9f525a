--------------------------- MODULE MCTrendOverlay ---------------------------
(* Instances of TrendOverlay for TLC. *)
EXTENDS TrendOverlay, TLC

OrderSymmetry == Permutations(Orders)
=============================================================================
