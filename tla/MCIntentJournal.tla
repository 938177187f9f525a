-------------------------- MODULE MCIntentJournal --------------------------
(* Instances of IntentJournal for TLC. *)
EXTENDS IntentJournal, TLC

CidSymmetry == Permutations(Cids)
=============================================================================
