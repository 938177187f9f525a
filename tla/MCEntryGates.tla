---------------------------- MODULE MCEntryGates ----------------------------
(* The instance of EntryGates for TLC: two symbols, a lock for each pair,   *)
(* and trades that do not earn their fee, or open.                        *)
EXTENDS EntryGates

MCListed == <<"a", "b">>
MCResults == {[pnl |-> 1, fee |-> 2], [pnl |-> 0, fee |-> 1]}
=============================================================================
