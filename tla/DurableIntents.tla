--------------------------- MODULE DurableIntents ---------------------------
(***************************************************************************)
(* What the intent journal promises to the rest of the trader: a durable   *)
(* set of in-flight client order ids.  The set changes only when one cid   *)
(* is claimed or settled.  A crash, a restart, a replay and a compaction   *)
(* leave it alone, except that a cid whose last write raised is in doubt:  *)
(* a compaction may decide it either way.                                  *)
(***************************************************************************)
CONSTANT Cids

VARIABLES
    intents,   \* the cids a replay of the file would report as in flight
    doubt      \* the cids whose last append raised, so memory and file may differ

vars == <<intents, doubt>>

TypeOK == intents \subseteq Cids /\ doubt \subseteq Cids

Init == intents = {} /\ doubt = {}

Claim(c) == intents' = intents \cup {c} /\ doubt' = doubt \ {c}

Settle(c) == intents' = intents \ {c} /\ doubt' = doubt \ {c}

\* The sets that agree with the current one outside S.
AgreeOutside(S) == {(intents \ S) \cup T : T \in SUBSET S}

\* The append raised: the line may or may not have reached the file.
Raise(c) == intents' \in AgreeOutside({c}) /\ doubt' = doubt \cup {c}

\* The process died, in an append, in a compaction or anywhere else; a new
\* process has no memory that could disagree with the file.
Crash ==
    /\ doubt' = {}
    /\ \/ intents' \in AgreeOutside(doubt)
       \/ \E c \in Cids : intents' \in AgreeOutside({c})

Compact == intents' \in AgreeOutside(doubt) /\ doubt' = doubt

Next ==
    \/ \E c \in Cids : Claim(c) \/ Settle(c) \/ Raise(c)
    \/ Crash
    \/ Compact

Spec == Init /\ [][Next]_vars
=============================================================================
