---------------------------- MODULE MCRiskLatch ----------------------------
(* Instances of RiskLatch for TLC; every value is given in the .cfg files. *)
EXTENDS RiskLatch
=============================================================================
