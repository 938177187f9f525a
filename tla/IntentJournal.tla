---------------------------- MODULE IntentJournal ----------------------------
(***************************************************************************)
(* The append-only, fsync-on-write journal of in-flight orders             *)
(* (src/combo_bot/intent_journal.py): submit, open and mark_terminal       *)
(* append one line and then update the in-memory mirror; compact rewrites  *)
(* the file through a temporary file and a rename; replay rebuilds the     *)
(* mirror after a restart.  A crash may fall inside any of them.           *)
(***************************************************************************)
EXTENDS Integers, Sequences, FiniteSets, Functions

CONSTANTS
    Cids,        \* client order ids
    Torn,        \* the file's last line, cut by a crash before its newline
    Glued,       \* a line that was appended right behind a torn one
    TornWrites,  \* whether a crash may cut a line short
    MaxLines,    \* bound on the length of the file
    MaxCrashes,  \* bound on the number of crashes
    MaxRaises    \* bound on the number of appends that raise

InFlightKinds == {"submit", "open"}
Terminal == {"filled", "rejected", "canceled", "resolved"}
Kinds == InFlightKinds \cup Terminal

\* A well-formed line.  "named" says that it carries the symbol, the side and
\* the source, as a submit line does and an open line alone does not.
Line == [cid : Cids, kind : Kinds, named : BOOLEAN]

Absent == [kind |-> "absent", named |-> FALSE]
Rec == [kind : Kinds \cup {"absent"}, named : BOOLEAN]

ASSUME CidsFinite == IsFiniteSet(Cids)
ASSUME GarbageIsNoLine == Torn \notin Line /\ Glued \notin Line /\ Torn # Glued
ASSUME TornWritesBoolean == TornWrites \in BOOLEAN
ASSUME BoundsNat == MaxLines \in Nat /\ MaxCrashes \in Nat /\ MaxRaises \in Nat

VARIABLES
    disk,     \* the lines of the file
    records,  \* self.records, with Absent for a cid that has no entry
    up,       \* whether the process runs (and has replayed the file)
    failed,   \* self.last_replay_failed
    acked,    \* history: the kind of each cid's last append, if it returned
    unsure,   \* history: cids whose last append of this process raised
    crashes, raises

vars == <<disk, records, up, failed, acked, unsure, crashes, raises>>

-----------------------------------------------------------------------------
(* The file *)

LinesOf(d, c) == {i \in DOMAIN d : d[i] \in Line /\ d[i].cid = c}

IsLastOf(d, c, i) == i \in LinesOf(d, c) /\ \A j \in LinesOf(d, c) : j <= i

HasLast(d, c) == \E i \in DOMAIN d : IsLastOf(d, c, i)
LastOf(d, c) == CHOOSE i \in DOMAIN d : IsLastOf(d, c, i)
NamedOn(d, c) == \E i \in LinesOf(d, c) : d[i].named

\* Mutant: the replay keeps the first kind it meets.
FirstKindWins(d, c) ==
    IF \E i \in DOMAIN d : i \in LinesOf(d, c)
    THEN [kind |-> d[CHOOSE i \in LinesOf(d, c) : \A j \in LinesOf(d, c) : i <= j].kind,
          named |-> NamedOn(d, c)]
    ELSE Absent

\* Last write wins for the kind; the metadata of earlier lines is kept.
ReplayedRec(d, c) ==
    IF HasLast(d, c)
    THEN [kind |-> d[LastOf(d, c)].kind, named |-> NamedOn(d, c)]
    ELSE Absent

Replayed(d) == [c \in Cids |-> ReplayedRec(d, c)]

\* A line that does not parse is tolerated only at the end and only without
\* its newline; a glued line ends in a newline wherever it stands.
Readable(d) == \A i \in DOMAIN d : d[i] = Torn => i = Len(d)
Corrupt(d) == ~Readable(d) \/ \E i \in DOMAIN d : d[i] = Glued

InFlightOn(d, c) == \E i \in DOMAIN d : IsLastOf(d, c, i) /\ d[i].kind \in InFlightKinds

EndsTorn(d) == d # <<>> /\ d[Len(d)] = Torn

\* O_APPEND writes behind whatever the file ends with: behind a torn line the
\* new line continues it, and the two together do not parse.
Written(d, l) ==
    IF EndsTorn(d) THEN [d EXCEPT ![Len(d)] = Glued] ELSE Append(d, l)

Cut(d) == IF EndsTorn(d) THEN d ELSE Append(d, Torn)

-----------------------------------------------------------------------------
(* The in-memory mirror *)

Alive == {c \in Cids : records[c].kind \in InFlightKinds}

SubmitLine(c) == [cid |-> c, kind |-> "submit", named |-> TRUE]
OpenLine(c) == [cid |-> c, kind |-> "open", named |-> FALSE]
TerminalLine(c, k) == [cid |-> c, kind |-> k, named |-> FALSE]

\* Mutant: the mirror files the cid where the kind belongs.
MergedUnderCid(c, l) == [kind |-> c, named |-> l.named]
\* Mutant: open replaces the entry instead of merging into it.
MergedAfresh(c, l) == [kind |-> l.kind, named |-> l.named]

\* submit and mark_terminal replace the entry, open merges into it.
Merged(c, l) ==
    [kind |-> l.kind,
     named |-> l.named \/ (l.kind = "open" /\ records[c].named)]

\* The appends the trader makes in its current state: an order is submitted,
\* an acknowledged order is opened, an entry still in flight is settled.
Appends(l) ==
    \/ l = SubmitLine(l.cid)
    \/ l = OpenLine(l.cid) /\ records[l.cid].kind = "submit"
    \/ /\ l.kind \in Terminal
       /\ l = TerminalLine(l.cid, l.kind)
       /\ records[l.cid].kind \in InFlightKinds

Init ==
    /\ disk = <<>>
    /\ records = [c \in Cids |-> Absent]
    /\ up = TRUE
    /\ failed = FALSE
    /\ acked = [c \in Cids |-> "absent"]
    /\ unsure = {}
    /\ crashes = 0
    /\ raises = 0

\* _append returns: the line is on the disk before the mirror changes.
Write(l) ==
    /\ up
    /\ Appends(l)
    /\ Len(disk) < MaxLines
    /\ disk' = Written(disk, l)
    /\ records' = [records EXCEPT ![l.cid] = Merged(l.cid, l)]
    /\ acked' = [acked EXCEPT ![l.cid] = l.kind]
    /\ unsure' = unsure \ {l.cid}
    /\ UNCHANGED <<up, failed, crashes, raises>>

\* _append raises: at os.open or os.write nothing reaches the file, at
\* os.fsync the line is already there.  The mirror is not touched.
WriteRaises(l) ==
    /\ up
    /\ raises < MaxRaises
    /\ Appends(l)
    /\ Len(disk) < MaxLines
    /\ disk' \in {disk, Written(disk, l)}
    /\ acked' = [acked EXCEPT ![l.cid] = "absent"]
    /\ unsure' = unsure \cup {l.cid}
    /\ raises' = raises + 1
    /\ UNCHANGED <<records, up, failed, crashes>>

\* Mutant: compaction forgets acknowledged orders.
CompactionsOfSubmitted ==
    LET kept == {c \in Alive : records[c].kind = "submit"}
        n == Cardinality(kept)
    IN  {[i \in 1 .. n |-> [cid |-> f[i], kind |-> "submit", named |-> TRUE]] :
            f \in Bijection(1 .. n, kept)}

\* The file after compact: one line for every cid still in flight, in any order.
CompactedLine(c) == [cid |-> c, kind |-> records[c].kind, named |-> records[c].named]

Compactions ==
    LET n == Cardinality(Alive) IN
    {[i \in 1 .. n |-> CompactedLine(f[i])] : f \in Bijection(1 .. n, Alive)}

Compact ==
    /\ up
    /\ disk' \in Compactions
    /\ records' = [c \in Cids |-> IF c \in Alive THEN records[c] ELSE Absent]
    /\ UNCHANGED <<up, failed, acked, unsure, crashes, raises>>

Die ==
    /\ up
    /\ crashes < MaxCrashes
    /\ crashes' = crashes + 1
    /\ up' = FALSE
    /\ records' = [c \in Cids |-> Absent]
    /\ failed' = FALSE
    /\ unsure' = {}
    /\ UNCHANGED raises

Crash == Die /\ UNCHANGED <<disk, acked>>

\* The process dies inside _append: the line is whole or, if crashes may cut
\* a write, torn.  No caller saw the append return.
CrashInWrite(l) ==
    /\ Die
    /\ Appends(l)
    /\ Len(disk) < MaxLines
    /\ acked' = [acked EXCEPT ![l.cid] = "absent"]
    /\ \/ disk' = Written(disk, l)
       \/ TornWrites /\ disk' = Cut(disk)

\* The process dies after the rename of compact.
CrashInCompact == Die /\ disk' \in Compactions /\ UNCHANGED acked

Replay ==
    /\ ~up
    /\ up' = TRUE
    /\ failed' = Corrupt(disk)
    /\ records' = IF Corrupt(disk) THEN [c \in Cids |-> Absent] ELSE Replayed(disk)
    /\ UNCHANGED <<disk, acked, unsure, crashes, raises>>

Next ==
    \/ \E l \in Line : Write(l) \/ WriteRaises(l) \/ CrashInWrite(l)
    \/ Compact
    \/ Crash
    \/ CrashInCompact
    \/ Replay

Spec == Init /\ [][Next]_vars

-----------------------------------------------------------------------------
(* Properties *)

\* Every variable has the type its code structure gives it.
TypeOK ==
    /\ disk \in Seq(Line \cup {Torn, Glued})
    /\ records \in [Cids -> Rec]
    /\ up \in BOOLEAN
    /\ failed \in BOOLEAN
    /\ acked \in [Cids -> Kinds \cup {"absent"}]
    /\ unsure \subseteq Cids
    /\ crashes \in 0 .. MaxCrashes
    /\ raises \in 0 .. MaxRaises

\* The mirror and an intact file agree on what is in flight, for every cid
\* whose last append did not raise: this is what compact relies on when it
\* rewrites the file from the mirror (intent_journal.py:252-268).
MirrorIsDurable ==
    (up /\ ~Corrupt(disk)) =>
        \A c \in Cids \ unsure : c \in Alive <=> InFlightOn(disk, c)

\* Whatever is in flight can be attributed: the mirror still knows symbol,
\* side and source after any mix of open, compaction and replay.  The trader
\* falls back to GRID for an entry without them (live.py:2478-2497).
InFlightIsNamed == \A c \in Alive : records[c].named

\* The journal implements the durable set of intents its callers rely on.
Abstract == INSTANCE DurableIntents
    WITH intents <- {c \in Cids : InFlightOn(disk, c)}, doubt <- unsure
ImplementsDurableIntents == Abstract!Spec

\* What the module's docstring says of a restart: every order whose intent was
\* written, by an append that returned, and not settled is resurrected
\* (intent_journal.py:10-13).
RestartResurrects ==
    up => \A c \in Cids : acked[c] \in InFlightKinds => c \in Alive
==============================================================================
