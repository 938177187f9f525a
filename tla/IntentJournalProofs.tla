------------------------- MODULE IntentJournalProofs -------------------------
(***************************************************************************)
(* Theorems about the intent journal, for any set of client order ids and  *)
(* any bounds: its types, that the mirror and the file agree, that what is *)
(* in flight can be attributed, and that without torn writes the journal   *)
(* implements the durable set of intents.                                  *)
(***************************************************************************)
EXTENDS IntentJournal, FiniteSetTheorems, SequenceTheorems, TLAPS

Cell == Line \cup {Torn, Glued}

-----------------------------------------------------------------------------
(* What an append does to the file *)

\* A line the trader appends is well formed.
LEMMA AppendsTyped ==
    ASSUME NEW l \in Line
    PROVE  l.cid \in Cids /\ l.kind \in Kinds /\ l.named \in BOOLEAN
BY DEF Line

\* Writing a cell keeps the file a sequence of cells.
LEMMA WrittenTyped ==
    ASSUME NEW d \in Seq(Cell), NEW x \in Cell
    PROVE  Written(d, x) \in Seq(Cell) /\ Cut(d) \in Seq(Cell)
<1>1. Append(d, x) \in Seq(Cell) /\ Append(d, Torn) \in Seq(Cell)
  BY DEF Cell
<1>2. ASSUME EndsTorn(d) PROVE [d EXCEPT ![Len(d)] = Glued] \in Seq(Cell)
  BY <1>2, ExceptSeq DEF EndsTorn, Cell
<1> QED BY <1>1, <1>2 DEF Written, Cut

\* Behind an intact end, an append adds one index and changes no other cell.
LEMMA WrittenCells ==
    ASSUME NEW d \in Seq(Cell), NEW l \in Line, ~EndsTorn(d)
    PROVE  /\ Written(d, l) = Append(d, l)
           /\ Len(Written(d, l)) = Len(d) + 1
           /\ DOMAIN Written(d, l) = 1 .. (Len(d) + 1)
           /\ DOMAIN d = 1 .. Len(d)
           /\ Len(d) \in Nat
           /\ Written(d, l)[Len(d) + 1] = l
           /\ \A i \in 1 .. Len(d) : Written(d, l)[i] = d[i]
BY DEF Written, Cell

\* An append decides whether its own cid is in flight and no other's.
LEMMA WrittenInFlight ==
    ASSUME NEW d \in Seq(Cell), NEW l \in Line, ~EndsTorn(d), NEW c \in Cids
    PROVE  /\ InFlightOn(Written(d, l), c) <=>
                  IF c = l.cid THEN l.kind \in InFlightKinds ELSE InFlightOn(d, c)
           /\ NamedOn(Written(d, l), c) <=>
                  (NamedOn(d, c) \/ (c = l.cid /\ l.named))
<1> DEFINE w == Written(d, l)
           n == Len(d)
<1>0. /\ DOMAIN w = 1 .. (n + 1) /\ DOMAIN d = 1 .. n /\ n \in Nat
      /\ w[n + 1] = l /\ \A i \in 1 .. n : w[i] = d[i]
  BY WrittenCells
<1> HIDE DEF w, n
<1>1. LinesOf(w, c) = IF c = l.cid THEN LinesOf(d, c) \cup {n + 1} ELSE LinesOf(d, c)
  BY <1>0 DEF LinesOf
<1>2. LinesOf(d, c) \subseteq 1 .. n
  BY <1>0 DEF LinesOf
<1>3. ASSUME c # l.cid
      PROVE  InFlightOn(w, c) <=> InFlightOn(d, c)
  <2>1. LinesOf(w, c) = LinesOf(d, c)
    BY <1>1, <1>3
  <2>2. \A i : IsLastOf(w, c, i) <=> IsLastOf(d, c, i)
    BY <2>1 DEF IsLastOf
  <2>3. \A i \in LinesOf(d, c) : i \in DOMAIN w /\ i \in DOMAIN d /\ w[i] = d[i]
    BY <1>0, <1>2
  <2> QED BY <2>2, <2>3 DEF InFlightOn, IsLastOf
<1>4. ASSUME c = l.cid
      PROVE  InFlightOn(w, c) <=> l.kind \in InFlightKinds
  <2>1. LinesOf(w, c) = LinesOf(d, c) \cup {n + 1}
    BY <1>1, <1>4
  <2>2. \A j \in LinesOf(w, c) : j \in Int /\ j <= n + 1
    BY <2>1, <1>2, <1>0
  <2>3. IsLastOf(w, c, n + 1)
    BY <2>1, <2>2 DEF IsLastOf
  <2>4. ASSUME NEW i, IsLastOf(w, c, i) PROVE i = n + 1
    <3>1. i \in LinesOf(w, c) /\ n + 1 <= i
      BY <2>1, <2>4 DEF IsLastOf
    <3> QED BY <3>1, <2>2, <1>0
  <2> QED BY <2>3, <2>4, <1>0 DEF InFlightOn
<1>5. NamedOn(w, c) <=> (NamedOn(d, c) \/ (c = l.cid /\ l.named))
  <2>1. \A i \in LinesOf(d, c) : w[i] = d[i]
    BY <1>0, <1>2
  <2> QED BY <2>1, <1>0, <1>1 DEF NamedOn
<1> QED BY <1>3, <1>4, <1>5 DEF w

\* An append never mends a corrupt file, and continues a torn one into one.
LEMMA WrittenStaysCorrupt ==
    ASSUME NEW d \in Seq(Cell), NEW l \in Line, Corrupt(d) \/ EndsTorn(d)
    PROVE  Corrupt(Written(d, l))
<1>1. CASE EndsTorn(d)
  <2>1. Len(d) \in 1 .. Len(d)
    BY <1>1 DEF EndsTorn
  <2>2. Written(d, l)[Len(d)] = Glued /\ Len(d) \in DOMAIN Written(d, l)
    BY <1>1, <2>1, ExceptSeq DEF Written, Cell
  <2> QED BY <2>2 DEF Corrupt
<1>2. CASE ~EndsTorn(d) /\ Corrupt(d)
  <2>1. /\ Len(Written(d, l)) = Len(d) + 1 /\ Len(d) \in Nat
        /\ DOMAIN Written(d, l) = 1 .. (Len(d) + 1)
        /\ DOMAIN d = 1 .. Len(d)
        /\ \A i \in 1 .. Len(d) : Written(d, l)[i] = d[i]
    BY <1>2, WrittenCells
  <2>2. CASE \E i \in DOMAIN d : d[i] = Glued
    BY <2>1, <2>2 DEF Corrupt
  <2>3. CASE \E i \in DOMAIN d : d[i] = Torn /\ i # Len(d)
    <3>1. PICK i \in DOMAIN d : d[i] = Torn /\ i # Len(d)
      BY <2>3
    <3>2. i \in DOMAIN Written(d, l) /\ Written(d, l)[i] = Torn /\ i # Len(d) + 1
      BY <2>1, <3>1
    <3> QED BY <3>2, <2>1 DEF Corrupt, Readable
  <2> QED BY <1>2, <2>2, <2>3 DEF Corrupt, Readable
<1> QED BY <1>1, <1>2

\* An append behind an intact end of an intact file leaves it intact.
LEMMA WrittenStaysIntact ==
    ASSUME NEW d \in Seq(Cell), NEW l \in Line, ~Corrupt(d), ~EndsTorn(d)
    PROVE  ~Corrupt(Written(d, l)) /\ ~EndsTorn(Written(d, l))
<1> DEFINE w == Written(d, l)
<1>1. /\ Len(w) = Len(d) + 1 /\ Len(d) \in Nat
      /\ DOMAIN w = 1 .. (Len(d) + 1) /\ DOMAIN d = 1 .. Len(d)
      /\ w[Len(d) + 1] = l
      /\ \A i \in 1 .. Len(d) : w[i] = d[i]
  BY WrittenCells
<1> HIDE DEF w
<1>2. l # Torn /\ l # Glued
  BY GarbageIsNoLine
<1>3. \A i \in 1 .. Len(d) : d[i] # Torn /\ d[i] # Glued
  <2>1. \A i \in 1 .. Len(d) : d[i] # Glued
    BY <1>1 DEF Corrupt
  <2>2. \A i \in 1 .. Len(d) : d[i] = Torn => i = Len(d)
    BY <1>1 DEF Corrupt, Readable
  <2>3. Len(d) \in 1 .. Len(d) => d[Len(d)] # Torn
    BY EmptySeq DEF EndsTorn
  <2> QED BY <2>1, <2>2, <2>3
<1>4. \A i \in DOMAIN w : w[i] # Torn /\ w[i] # Glued
  BY <1>1, <1>2, <1>3
<1> QED BY <1>1, <1>4 DEF Corrupt, Readable, EndsTorn, w

\* A cut line hides nothing that was on the file, and mends nothing.
LEMMA CutLines ==
    ASSUME NEW d \in Seq(Cell)
    PROVE  /\ Corrupt(d) => Corrupt(Cut(d))
           /\ \A c \in Cids : /\ InFlightOn(Cut(d), c) <=> InFlightOn(d, c)
                              /\ NamedOn(Cut(d), c) <=> NamedOn(d, c)
<1>1. CASE EndsTorn(d)
  BY <1>1 DEF Cut
<1>2. CASE ~EndsTorn(d)
  <2> DEFINE w == Cut(d)
             n == Len(d)
  <2>1. /\ Len(w) = n + 1 /\ n \in Nat
        /\ DOMAIN w = 1 .. (n + 1) /\ DOMAIN d = 1 .. n
        /\ w[n + 1] = Torn /\ \A i \in 1 .. n : w[i] = d[i]
    BY <1>2 DEF Cut, Cell
  <2> HIDE DEF w, n
  <2>2. \A c \in Cids : LinesOf(w, c) = LinesOf(d, c)
    BY <2>1, GarbageIsNoLine DEF LinesOf
  <2>3. \A c \in Cids : \A i \in LinesOf(d, c) : i \in DOMAIN w /\ w[i] = d[i]
    BY <2>1 DEF LinesOf
  <2>4. ASSUME NEW c \in Cids
        PROVE  /\ InFlightOn(w, c) <=> InFlightOn(d, c)
               /\ NamedOn(w, c) <=> NamedOn(d, c)
    <3>1. LinesOf(w, c) = LinesOf(d, c)
      BY <2>2
    <3>2. \A i : IsLastOf(w, c, i) <=> IsLastOf(d, c, i)
      BY <3>1 DEF IsLastOf
    <3>3. \A i \in LinesOf(d, c) : i \in DOMAIN w /\ i \in DOMAIN d /\ w[i] = d[i]
      BY <2>3 DEF LinesOf
    <3>4. InFlightOn(w, c) <=> InFlightOn(d, c)
      BY <3>2, <3>3 DEF InFlightOn, IsLastOf
    <3>5. NamedOn(w, c) <=> NamedOn(d, c)
      BY <3>1, <3>3 DEF NamedOn
    <3> QED BY <3>4, <3>5
  <2>5. ASSUME Corrupt(d) PROVE Corrupt(w)
    <3>1. CASE \E i \in DOMAIN d : d[i] = Glued
      BY <3>1, <2>1 DEF Corrupt
    <3>2. CASE \E i \in DOMAIN d : d[i] = Torn /\ i # n
      <4>1. PICK i \in DOMAIN d : d[i] = Torn /\ i # n
        BY <3>2
      <4>2. i \in DOMAIN w /\ w[i] = Torn /\ i # Len(w)
        BY <4>1, <2>1
      <4> QED BY <4>2 DEF Corrupt, Readable
    <3> QED BY <2>5, <3>1, <3>2 DEF Corrupt, Readable, n
  <2> QED BY <2>4, <2>5 DEF w
<1> QED BY <1>1, <1>2

-----------------------------------------------------------------------------
(* What a compaction leaves in the file *)

LEMMA CompactionLines ==
    ASSUME records \in [Cids -> Rec], NEW d \in Compactions
    PROVE  /\ d \in Seq(Cell) /\ ~Corrupt(d) /\ ~EndsTorn(d)
           /\ \A c \in Cids : InFlightOn(d, c) <=> c \in Alive
           /\ \A c \in Alive : NamedOn(d, c) <=> records[c].named
<1> DEFINE n == Cardinality(Alive)
<1>1. n \in Nat
  <2>1. Alive \in SUBSET Cids
    BY DEF Alive
  <2> QED BY <2>1, CidsFinite, FS_Subset, FS_CardinalityType
<1>2. PICK f \in Bijection(1 .. n, Alive) : d = [i \in 1 .. n |-> CompactedLine(f[i])]
  BY DEF Compactions
<1> HIDE DEF n
<1>3. /\ f \in [1 .. n -> Alive]
      /\ \A i, j \in 1 .. n : f[i] = f[j] => i = j
      /\ \A c \in Alive : \E i \in 1 .. n : f[i] = c
  BY <1>2 DEF Bijection, Injection, Surjection, IsInjective
<1>4. /\ DOMAIN d = 1 .. n
      /\ \A i \in 1 .. n : /\ f[i] \in Alive /\ f[i] \in Cids
                           /\ d[i] = CompactedLine(f[i]) /\ d[i] \in Line
                           /\ d[i].cid = f[i]
                           /\ d[i].kind = records[f[i]].kind
                           /\ d[i].named = records[f[i]].named
  <2>1. \A c \in Alive : /\ c \in Cids
                         /\ CompactedLine(c) \in Line
                         /\ CompactedLine(c).cid = c
                         /\ CompactedLine(c).kind = records[c].kind
                         /\ CompactedLine(c).named = records[c].named
    <3> SUFFICES ASSUME NEW c \in Alive
                 PROVE  /\ c \in Cids
                        /\ CompactedLine(c) \in Line
                        /\ CompactedLine(c).cid = c
                        /\ CompactedLine(c).kind = records[c].kind
                        /\ CompactedLine(c).named = records[c].named
      OBVIOUS
    <3>1. c \in Cids /\ records[c].kind \in Kinds /\ records[c].named \in BOOLEAN
      BY DEF Alive, Rec, Kinds
    <3> QED BY <3>1 DEF CompactedLine, Line
  <2> QED BY <1>2, <1>3, <2>1
<1>5. d \in Seq(Cell)
  <2>1. \A i \in 1 .. n : d[i] \in Cell
    BY <1>4 DEF Cell
  <2>2. d \in [1 .. n -> Cell]
    BY <1>2, <2>1
  <2> QED BY <2>2, <1>1
<1>6. ~Corrupt(d) /\ ~EndsTorn(d)
  <2>1. Len(d) = n
    BY <1>1, <1>4, <1>5, LenProperties
  <2>2. \A i \in 1 .. n : d[i] # Torn /\ d[i] # Glued
    BY <1>4, GarbageIsNoLine
  <2>3. d # << >> => n \in 1 .. n
    BY <1>1, <1>5, <2>1, EmptySeq
  <2> QED BY <1>4, <2>1, <2>2, <2>3 DEF Corrupt, Readable, EndsTorn
<1>7. ASSUME NEW c \in Cids PROVE LinesOf(d, c) = {i \in 1 .. n : f[i] = c}
  BY <1>4 DEF LinesOf
<1>8. ASSUME NEW c \in Alive
      PROVE  InFlightOn(d, c) /\ (NamedOn(d, c) <=> records[c].named)
  <2>1. PICK i \in 1 .. n : f[i] = c
    BY <1>3
  <2>2. c \in Cids /\ records[c].kind \in InFlightKinds
    BY DEF Alive
  <2>3. LinesOf(d, c) = {i}
    BY <2>1, <2>2, <1>3, <1>7
  <2>4. IsLastOf(d, c, i)
    BY <2>3 DEF IsLastOf
  <2> QED BY <2>1, <2>2, <2>3, <2>4, <1>4 DEF InFlightOn, NamedOn
<1>9. ASSUME NEW c \in Cids, c \notin Alive PROVE ~InFlightOn(d, c)
  <2>1. LinesOf(d, c) = {}
    BY <1>9, <1>7, <1>3
  <2> QED BY <2>1 DEF InFlightOn, IsLastOf
<1> QED BY <1>5, <1>6, <1>8, <1>9

-----------------------------------------------------------------------------
(* What a replay restores *)

LEMMA ReplayedRecords ==
    ASSUME NEW d \in Seq(Cell), NEW c \in Cids
    PROVE  /\ ReplayedRec(d, c) \in Rec
           /\ ReplayedRec(d, c).kind \in InFlightKinds <=> InFlightOn(d, c)
           /\ InFlightOn(d, c) => ReplayedRec(d, c).named = NamedOn(d, c)
<1>1. CASE HasLast(d, c)
  <2>1. LastOf(d, c) \in DOMAIN d /\ IsLastOf(d, c, LastOf(d, c))
    BY <1>1 DEF HasLast, LastOf
  <2>2. LastOf(d, c) \in Int /\ d[LastOf(d, c)] \in Line
    BY <2>1, LenProperties DEF IsLastOf, LinesOf
  <2>3. ASSUME NEW i \in DOMAIN d, IsLastOf(d, c, i) PROVE i = LastOf(d, c)
    <3>1. i \in Int
      BY <2>3, LenProperties
    <3>2. i <= LastOf(d, c) /\ LastOf(d, c) <= i
      BY <2>1, <2>3 DEF IsLastOf
    <3> QED BY <3>1, <3>2, <2>2
  <2>4. InFlightOn(d, c) <=> d[LastOf(d, c)].kind \in InFlightKinds
    BY <2>1, <2>3 DEF InFlightOn
  <2>5. d[LastOf(d, c)].kind \in Kinds /\ NamedOn(d, c) \in BOOLEAN
    BY <2>2 DEF Line, NamedOn
  <2> QED BY <1>1, <2>4, <2>5 DEF ReplayedRec, Rec
<1>2. CASE ~HasLast(d, c)
  <2>1. ReplayedRec(d, c) = Absent /\ ~InFlightOn(d, c)
    BY <1>2 DEF ReplayedRec, HasLast, InFlightOn
  <2>2. Absent \in Rec /\ Absent.kind \notin InFlightKinds
    BY DEF Absent, Rec, InFlightKinds
  <2> QED BY <2>1, <2>2
<1> QED BY <1>1, <1>2

-----------------------------------------------------------------------------
(* The inductive invariant *)

\* The file is as reliable as the mirror: as long as it reads, every cid in
\* flight in either of them has a line that names its symbol, side and source.
DiskIsNamed ==
    ~Corrupt(disk) =>
        \A c \in Cids : (InFlightOn(disk, c) \/ (up /\ c \in Alive)) => NamedOn(disk, c)

IInv == TypeOK /\ MirrorIsDurable /\ InFlightIsNamed /\ DiskIsNamed

LEMMA InitIInv == Init => IInv
<1> SUFFICES ASSUME Init PROVE IInv
  OBVIOUS
<1> USE DEF Init
<1>1. Alive = {} /\ Absent \in Rec
  BY DEF Alive, Absent, Rec, InFlightKinds
<1>2. \A c \in Cids : ~InFlightOn(disk, c)
  BY DEF InFlightOn
<1>3. TypeOK
  <2>1. disk \in Seq(Line \cup {Torn, Glued})
    BY EmptySeq
  <2>2. records \in [Cids -> Rec] /\ acked \in [Cids -> Kinds \cup {"absent"}]
    BY <1>1
  <2>3. crashes \in 0 .. MaxCrashes /\ raises \in 0 .. MaxRaises
    BY BoundsNat
  <2> QED BY <2>1, <2>2, <2>3 DEF TypeOK
<1> QED BY <1>1, <1>2, <1>3 DEF IInv, MirrorIsDurable, InFlightIsNamed, DiskIsNamed

\* Whether an append returns, raises or dies, what is in flight afterwards on
\* the file, or still in the mirror, is named on the file.
LEMMA WrittenNamed ==
    ASSUME IInv, up, NEW l \in Line, Appends(l), ~Corrupt(Written(disk, l)),
           NEW c \in Cids, InFlightOn(Written(disk, l), c) \/ c \in Alive
    PROVE  NamedOn(Written(disk, l), c)
<1>1. disk \in Seq(Cell) /\ ~Corrupt(disk) /\ ~EndsTorn(disk)
  BY WrittenStaysCorrupt DEF IInv, TypeOK, Cell
<1>2. /\ InFlightOn(Written(disk, l), c) <=>
             IF c = l.cid THEN l.kind \in InFlightKinds ELSE InFlightOn(disk, c)
      /\ NamedOn(Written(disk, l), c) <=> (NamedOn(disk, c) \/ (c = l.cid /\ l.named))
  BY <1>1, WrittenInFlight
<1>3. InFlightOn(disk, c) \/ c \in Alive => NamedOn(disk, c)
  BY <1>1 DEF IInv, DiskIsNamed
<1>4. CASE c # l.cid \/ c \in Alive
  BY <1>4, <1>2, <1>3
<1>5. CASE c = l.cid /\ c \notin Alive
  <2>1. l.kind \in InFlightKinds
    BY <1>5, <1>2
  <2>2. l = SubmitLine(l.cid)
    BY <1>5, <2>1 DEF Appends, Alive, InFlightKinds, Terminal
  <2> QED BY <1>5, <2>2, <1>2 DEF SubmitLine
<1> QED BY <1>4, <1>5

\* An append that returned.
LEMMA WriteIInv ==
    ASSUME IInv, NEW l \in Line, Write(l)
    PROVE  IInv'
<1> USE DEF IInv
<1>1. /\ up /\ up' = up /\ l.cid \in Cids /\ l.kind \in Kinds /\ l.named \in BOOLEAN
      /\ disk' = Written(disk, l)
      /\ records' = [records EXCEPT ![l.cid] = Merged(l.cid, l)]
  BY AppendsTyped DEF Write
<1>2. disk \in Seq(Cell) /\ records \in [Cids -> Rec]
  BY DEF TypeOK, Cell
<1>3. Merged(l.cid, l) \in Rec
  BY <1>1 DEF Merged, Rec
<1>4. TypeOK'
  <2>1. disk' \in Seq(Cell)
    BY <1>1, <1>2, WrittenTyped DEF Cell
  <2>2. records' \in [Cids -> Rec]
    BY <1>1, <1>2, <1>3
  <2> QED BY <2>1, <2>2, <1>1 DEF TypeOK, Write, Cell
<1>5. \A c \in Cids : c \in Alive' <=> IF c = l.cid THEN l.kind \in InFlightKinds ELSE c \in Alive
  BY <1>1, <1>2 DEF Alive, Merged
<1>6. \A c \in Cids : c # l.cid => records'[c] = records[c]
  BY <1>1, <1>2
<1>7. records'[l.cid].named \/ l.cid \notin Alive'
  <2>1. CASE l = SubmitLine(l.cid)
    BY <2>1, <1>1, <1>2 DEF SubmitLine, Merged
  <2>2. CASE l = OpenLine(l.cid) /\ records[l.cid].kind = "submit"
    <3>1. l.kind = "open"
      BY <2>2 DEF OpenLine
    <3>2. records[l.cid].named
      BY <2>2, <1>1 DEF InFlightIsNamed, Alive, InFlightKinds
    <3> QED BY <3>1, <3>2, <1>1, <1>2 DEF Merged
  <2>3. CASE l.kind \in Terminal
    BY <2>3, <1>1, <1>5 DEF Terminal, InFlightKinds
  <2> QED BY <2>1, <2>2, <2>3 DEF Write, Appends
<1>8. InFlightIsNamed'
  BY <1>5, <1>6, <1>7 DEF InFlightIsNamed, Alive
<1>9. MirrorIsDurable'
  <2>1. SUFFICES ASSUME ~Corrupt(disk'), NEW c \in Cids \ unsure'
                 PROVE  c \in Alive' <=> InFlightOn(disk', c)
    BY DEF MirrorIsDurable, Corrupt, Readable, InFlightOn, IsLastOf, LinesOf
  <2>2. ~Corrupt(disk) /\ ~EndsTorn(disk)
    BY <2>1, <1>1, <1>2, WrittenStaysCorrupt
  <2>3. InFlightOn(disk', c) <=>
            IF c = l.cid THEN l.kind \in InFlightKinds ELSE InFlightOn(disk, c)
    BY <2>2, <1>1, <1>2, WrittenInFlight
  <2> QED BY <2>2, <2>3, <1>1, <1>5 DEF MirrorIsDurable, Write
<1>10. DiskIsNamed'
  <2>1. SUFFICES ASSUME ~Corrupt(disk'), NEW c \in Cids,
                        InFlightOn(disk', c) \/ c \in Alive'
                 PROVE  NamedOn(disk', c)
    BY DEF DiskIsNamed, Corrupt, Readable, InFlightOn, IsLastOf, LinesOf, NamedOn
  <2>2. ~EndsTorn(disk)
    BY <2>1, <1>1, <1>2, WrittenStaysCorrupt
  <2>3. InFlightOn(disk', l.cid) <=> l.kind \in InFlightKinds
    BY <2>2, <1>1, <1>2, WrittenInFlight
  <2>4. InFlightOn(disk', c) \/ c \in Alive
    BY <2>1, <2>3, <1>5
  <2> QED BY <2>1, <2>4, <1>1, WrittenNamed DEF Write
<1> QED BY <1>4, <1>8, <1>9, <1>10

\* An append that raised: the mirror is as it was, the file may have the line.
LEMMA WriteRaisesIInv ==
    ASSUME IInv, NEW l \in Line, WriteRaises(l)
    PROVE  IInv'
<1> USE DEF IInv
<1>1. /\ up /\ up' = up /\ l.cid \in Cids /\ records' = records
      /\ disk' \in {disk, Written(disk, l)} /\ Appends(l)
      /\ unsure' = unsure \cup {l.cid}
  BY AppendsTyped DEF WriteRaises
<1>2. disk \in Seq(Cell) /\ Alive' = Alive
  BY <1>1 DEF TypeOK, Cell, Alive
<1>3. TypeOK'
  <2>1. disk' \in Seq(Cell)
    BY <1>1, <1>2, WrittenTyped DEF Cell
  <2>2. raises' \in 0 .. MaxRaises
    BY BoundsNat DEF WriteRaises, TypeOK
  <2> QED BY <2>1, <2>2, <1>1 DEF TypeOK, WriteRaises, Cell
<1>4. InFlightIsNamed'
  BY <1>1, <1>2 DEF InFlightIsNamed
<1>5. CASE disk' = disk
  <2>1. MirrorIsDurable' /\ DiskIsNamed'
    BY <1>5, <1>1, <1>2
       DEF MirrorIsDurable, DiskIsNamed, Corrupt, Readable, InFlightOn, IsLastOf, LinesOf, NamedOn
  <2> QED BY <2>1, <1>3, <1>4
<1>6. CASE disk' = Written(disk, l)
  <2>1. MirrorIsDurable'
    <3>1. SUFFICES ASSUME ~Corrupt(disk'), NEW c \in Cids \ unsure'
                   PROVE  c \in Alive <=> InFlightOn(disk', c)
      BY <1>2 DEF MirrorIsDurable, Corrupt, Readable, InFlightOn, IsLastOf, LinesOf
    <3>2. ~Corrupt(disk) /\ ~EndsTorn(disk)
      BY <3>1, <1>6, <1>2, WrittenStaysCorrupt
    <3>3. c # l.cid /\ c \in Cids \ unsure
      BY <3>1, <1>1
    <3>4. InFlightOn(disk', c) <=> InFlightOn(disk, c)
      BY <3>2, <3>3, <1>6, <1>2, WrittenInFlight
    <3> QED BY <3>2, <3>3, <3>4, <1>1 DEF MirrorIsDurable
  <2>2. DiskIsNamed'
    <3>1. SUFFICES ASSUME ~Corrupt(disk'), NEW c \in Cids,
                          InFlightOn(disk', c) \/ c \in Alive
                   PROVE  NamedOn(disk', c)
      BY <1>2 DEF DiskIsNamed, Corrupt, Readable, InFlightOn, IsLastOf, LinesOf, NamedOn
    <3> QED BY <3>1, <1>1, <1>6, WrittenNamed
  <2> QED BY <2>1, <2>2, <1>3, <1>4
<1> QED BY <1>1, <1>5, <1>6

\* A compaction, whether or not the process survives it.
LEMMA CompactIInv ==
    ASSUME IInv, Compact
    PROVE  IInv'
<1> USE DEF IInv
<1>1. records \in [Cids -> Rec] /\ disk' \in Compactions /\ up' = up
  BY DEF TypeOK, Compact
<1>2. /\ disk' \in Seq(Cell) /\ ~Corrupt(disk')
      /\ \A c \in Cids : InFlightOn(disk', c) <=> c \in Alive
      /\ \A c \in Alive : NamedOn(disk', c) <=> records[c].named
  BY <1>1, CompactionLines
<1>3. records' \in [Cids -> Rec] /\ \A c \in Cids : records'[c] = IF c \in Alive THEN records[c] ELSE Absent
  BY <1>1 DEF Compact, Absent, Rec
<1>4. Alive' = Alive
  BY <1>3 DEF Alive, Absent, InFlightKinds
<1>5. TypeOK'
  BY <1>2, <1>3 DEF TypeOK, Compact, Cell
<1>6. MirrorIsDurable'
  BY <1>2, <1>4 DEF MirrorIsDurable, Corrupt, Readable, InFlightOn, IsLastOf, LinesOf, TypeOK
<1>7. InFlightIsNamed'
  BY <1>3, <1>4 DEF InFlightIsNamed, Alive
<1>8. ASSUME NEW c \in Cids, InFlightOn(disk', c) \/ c \in Alive
      PROVE  NamedOn(disk', c)
  BY <1>8, <1>2 DEF InFlightIsNamed
<1>9. DiskIsNamed'
  BY <1>4, <1>8 DEF DiskIsNamed, Corrupt, Readable, InFlightOn, IsLastOf, LinesOf, NamedOn
<1> QED BY <1>5, <1>6, <1>7, <1>9

\* What every way to die has in common.
LEMMA DieFacts ==
    ASSUME TypeOK, Die
    PROVE  /\ up /\ up' = FALSE /\ Alive' = {}
           /\ records' \in [Cids -> Rec] /\ failed' \in BOOLEAN
           /\ unsure' \subseteq Cids /\ crashes' \in 0 .. MaxCrashes /\ raises' \in 0 .. MaxRaises
<1>1. crashes' \in 0 .. MaxCrashes
  BY BoundsNat DEF Die, TypeOK
<1>2. Absent \in Rec /\ Absent.kind \notin InFlightKinds
  BY DEF Absent, Rec, InFlightKinds
<1> QED BY <1>1, <1>2 DEF Die, TypeOK, Alive

LEMMA CrashIInv ==
    ASSUME IInv, Crash \/ CrashInCompact \/ \E l \in Line : CrashInWrite(l)
    PROVE  IInv'
<1> USE DEF IInv
<1>1. Die
  BY DEF Crash, CrashInCompact, CrashInWrite
<1>2. up /\ up' = FALSE /\ Alive' = {}
  BY <1>1, DieFacts
<1>3. disk \in Seq(Cell) /\ records \in [Cids -> Rec]
  BY DEF TypeOK, Cell
<1>4. /\ disk' \in Seq(Cell)
      /\ ~Corrupt(disk') => \A c \in Cids : InFlightOn(disk', c) => NamedOn(disk', c)
  <2>1. CASE disk' = disk
    BY <2>1, <1>3 DEF DiskIsNamed
  <2>2. CASE disk' \in Compactions
    BY <2>2, <1>3, CompactionLines DEF InFlightIsNamed
  <2>3. ASSUME NEW l \in Line, Appends(l), disk' = Written(disk, l)
        PROVE  /\ disk' \in Seq(Cell)
               /\ ~Corrupt(disk') => \A c \in Cids : InFlightOn(disk', c) => NamedOn(disk', c)
    <3>1. disk' \in Seq(Cell)
      BY <2>3, <1>3, WrittenTyped DEF Cell
    <3> QED BY <3>1, <2>3, <1>2, WrittenNamed
  <2>4. CASE disk' = Cut(disk)
    <3>1. disk' \in Seq(Cell)
      BY <2>4, <1>3, WrittenTyped DEF Cell
    <3>2. Corrupt(disk) => Corrupt(disk')
      BY <2>4, <1>3, CutLines
    <3>3. ~Corrupt(disk) => \A c \in Cids : InFlightOn(disk, c) => NamedOn(disk, c)
      BY DEF DiskIsNamed
    <3>4. ASSUME ~Corrupt(disk'), NEW c \in Cids, InFlightOn(disk', c)
          PROVE  NamedOn(disk', c)
      <4>1. ~Corrupt(disk)
        BY <3>2, <3>4
      <4>2. InFlightOn(Cut(disk), c) => InFlightOn(disk, c)
        BY <1>3, CutLines
      <4>3. NamedOn(disk, c) => NamedOn(Cut(disk), c)
        BY <1>3, CutLines
      <4> QED BY <4>1, <4>2, <4>3, <3>3, <3>4, <2>4
    <3> QED BY <3>1, <3>4
  <2> QED BY <2>1, <2>2, <2>3, <2>4 DEF Crash, CrashInCompact, CrashInWrite
<1>5. acked' \in [Cids -> Kinds \cup {"absent"}]
  BY DEF TypeOK, Crash, CrashInCompact, CrashInWrite
<1>6. TypeOK'
  BY <1>1, <1>2, <1>4, <1>5, DieFacts DEF TypeOK, Cell
<1>7. MirrorIsDurable' /\ InFlightIsNamed'
  BY <1>2 DEF MirrorIsDurable, InFlightIsNamed
<1>8. DiskIsNamed'
  BY <1>2, <1>4 DEF DiskIsNamed, Corrupt, Readable, InFlightOn, IsLastOf, LinesOf, NamedOn
<1> QED BY <1>6, <1>7, <1>8

LEMMA ReplayIInv ==
    ASSUME IInv, Replay
    PROVE  IInv'
<1> USE DEF IInv
<1>1. disk \in Seq(Cell) /\ disk' = disk /\ up'
  BY DEF TypeOK, Cell, Replay
<1>2. CASE Corrupt(disk)
  <2>1. Absent \in Rec /\ Absent.kind \notin InFlightKinds
    BY DEF Absent, Rec, InFlightKinds
  <2>2. records' = [c \in Cids |-> Absent] /\ Alive' = {}
    BY <1>2, <2>1 DEF Replay, Alive
  <2>3. TypeOK'
    BY <1>2, <2>1, <2>2 DEF TypeOK, Replay
  <2>4. Corrupt(disk)'
    BY <1>1, <1>2 DEF Corrupt, Readable
  <2> QED BY <2>2, <2>3, <2>4 DEF MirrorIsDurable, InFlightIsNamed, DiskIsNamed
<1>3. CASE ~Corrupt(disk)
  <2>1. \A c \in Cids :
           /\ records'[c] = ReplayedRec(disk, c) /\ records'[c] \in Rec
           /\ records'[c].kind \in InFlightKinds <=> InFlightOn(disk, c)
           /\ InFlightOn(disk, c) => records'[c].named = NamedOn(disk, c)
    BY <1>1, <1>3, ReplayedRecords DEF Replay, Replayed
  <2>2. \A c \in Cids : c \in Alive' <=> InFlightOn(disk, c)
    BY <2>1 DEF Alive
  <2>3. TypeOK'
    <3>1. records' \in [Cids -> Rec]
      BY <1>3, <2>1 DEF Replay, Replayed
    <3>2. failed' \in BOOLEAN
      BY <1>3 DEF Replay, Corrupt, Readable
    <3> QED BY <3>1, <3>2 DEF TypeOK, Replay
  <2>4. MirrorIsDurable'
    BY <1>1, <2>2 DEF MirrorIsDurable, InFlightOn, IsLastOf, LinesOf
  <2>5. \A c \in Cids : InFlightOn(disk, c) => NamedOn(disk, c)
    BY <1>3 DEF DiskIsNamed
  <2>6. InFlightIsNamed'
    BY <2>1, <2>2, <2>5 DEF InFlightIsNamed, Alive
  <2>7. DiskIsNamed'
    BY <1>1, <2>2, <2>5 DEF DiskIsNamed, InFlightOn, IsLastOf, LinesOf, NamedOn
  <2> QED BY <2>3, <2>4, <2>6, <2>7
<1> QED BY <1>2, <1>3

LEMMA NextIInv == IInv /\ [Next]_vars => IInv'
<1>1. ASSUME IInv, UNCHANGED vars PROVE IInv'
  BY <1>1 DEF vars, IInv, TypeOK, MirrorIsDurable, InFlightIsNamed, DiskIsNamed,
              Alive, Corrupt, Readable, InFlightOn, IsLastOf, LinesOf, NamedOn
<1> QED BY <1>1, WriteIInv, WriteRaisesIInv, CompactIInv, CrashIInv, ReplayIInv DEF Next

\* IInv is an inductive invariant of the journal.
LEMMA InductiveInvariant == Spec => []IInv
BY InitIInv, NextIInv, PTL DEF Spec

-----------------------------------------------------------------------------
(* The theorems *)

\* Every variable of the journal keeps the type of the structure it models
\* (intent_journal.py:63-76).
THEOREM JournalTypes == Spec => []TypeOK
<1>1. IInv => TypeOK
  BY DEF IInv
<1> QED BY InductiveInvariant, <1>1, PTL

\* For any number of orders, crashes and raising writes: the mirror from which
\* compact rewrites the file agrees with an intact file about what is in
\* flight (intent_journal.py:252-268).
THEOREM JournalMirrorIsDurable == Spec => []MirrorIsDurable
<1>1. IInv => MirrorIsDurable
  BY DEF IInv
<1> QED BY InductiveInvariant, <1>1, PTL

\* Whatever survives any mix of open, compaction, crash and replay can still be
\* attributed to its side and source (intent_journal.py:136-141, 228-234).
THEOREM JournalInFlightIsNamed == Spec => []InFlightIsNamed
<1>1. IInv => InFlightIsNamed
  BY DEF IInv
<1> QED BY InductiveInvariant, <1>1, PTL

-----------------------------------------------------------------------------
(* The journal implements the durable set of intents *)

\* Without torn writes no line of the file is garbage.
Clean == \A i \in DOMAIN disk : disk[i] # Torn /\ disk[i] # Glued

LEMMA CleanIsIntact ==
    ASSUME disk \in Seq(Cell), Clean
    PROVE  ~Corrupt(disk) /\ ~EndsTorn(disk)
<1>1. disk # << >> => Len(disk) \in DOMAIN disk
  BY EmptySeq, LenProperties
<1> QED BY <1>1 DEF Clean, Corrupt, Readable, EndsTorn

LEMMA CleanStep ==
    ASSUME TornWrites = FALSE, TypeOK, Clean, [Next]_vars
    PROVE  Clean'
<1>1. disk \in Seq(Cell) /\ records \in [Cids -> Rec]
  BY DEF TypeOK, Cell
<1>2. CASE disk' = disk
  BY <1>2 DEF Clean
<1>3. ASSUME NEW l \in Line, disk' = Written(disk, l) PROVE Clean'
  <2>1. /\ DOMAIN disk' = 1 .. (Len(disk) + 1) /\ DOMAIN disk = 1 .. Len(disk)
        /\ Len(disk) \in Nat
        /\ disk'[Len(disk) + 1] = l /\ \A i \in 1 .. Len(disk) : disk'[i] = disk[i]
    BY <1>1, <1>3, CleanIsIntact, WrittenCells
  <2> QED BY <2>1, GarbageIsNoLine DEF Clean
<1>4. CASE disk' \in Compactions
  <2>1. disk' \in Seq(Cell) /\ ~Corrupt(disk') /\ ~EndsTorn(disk')
    BY <1>1, <1>4, CompactionLines
  <2>2. ASSUME NEW i \in DOMAIN disk' PROVE disk'[i] # Torn /\ disk'[i] # Glued
    <3>1. disk' # << >> /\ (disk'[i] = Torn => i = Len(disk'))
      BY <2>1, <2>2 DEF Corrupt, Readable
    <3> QED BY <2>1, <2>2, <3>1 DEF Corrupt, EndsTorn
  <2> QED BY <2>2 DEF Clean
<1> QED BY <1>2, <1>3, <1>4
        DEF Next, vars, Write, WriteRaises, CrashInWrite, Compact, Crash, CrashInCompact, Replay, Die

\* One step of the journal is one step, or none, of the abstract set.
LEMMA StepRefines ==
    ASSUME IInv, Clean, IInv', Clean', TornWrites = FALSE, [Next]_vars
    PROVE  [Abstract!Next]_Abstract!vars
<1> DEFINE I == {c \in Cids : InFlightOn(disk, c)}
           J == {c \in Cids : InFlightOn(disk', c)}
<1>1. /\ disk \in Seq(Cell) /\ records \in [Cids -> Rec] /\ unsure \subseteq Cids
      /\ ~Corrupt(disk) /\ ~EndsTorn(disk)
  BY CleanIsIntact DEF IInv, TypeOK, Cell
<1>2. I' = J
  BY DEF InFlightOn, IsLastOf, LinesOf
<1>3. ASSUME NEW l \in Line, disk' = Written(disk, l)
      PROVE  J = IF l.kind \in InFlightKinds THEN I \cup {l.cid} ELSE I \ {l.cid}
  <2>1. l.cid \in Cids
    BY AppendsTyped
  <2>2. \A c \in Cids : InFlightOn(disk', c) <=>
            IF c = l.cid THEN l.kind \in InFlightKinds ELSE InFlightOn(disk, c)
    BY <1>1, <1>3, WrittenInFlight
  <2> QED BY <2>1, <2>2
<1>4. ASSUME disk' \in Compactions PROVE J = Alive
  <2>1. \A c \in Cids : InFlightOn(disk', c) <=> c \in Alive
    BY <1>1, <1>4, CompactionLines
  <2> QED BY <2>1 DEF Alive
<1>5. ASSUME up PROVE \E S \in SUBSET unsure : Alive = (I \ unsure) \cup S
  <2>1. \A c \in Cids \ unsure : c \in Alive <=> c \in I
    BY <1>1, <1>5 DEF IInv, MirrorIsDurable
  <2>2. Alive = (I \ unsure) \cup (Alive \cap unsure)
    BY <2>1 DEF Alive
  <2> QED BY <2>2
<1>6. ASSUME disk' = disk, NEW S PROVE J \in Abstract!AgreeOutside(S)
  <2>1. J = I
    BY <1>6 DEF I, J
  <2>2. I = (I \ S) \cup (I \cap S) /\ I \cap S \in SUBSET S
    OBVIOUS
  <2> QED BY <2>1, <2>2 DEF Abstract!AgreeOutside, I
<1>7. ASSUME up, disk' \in Compactions PROVE J \in Abstract!AgreeOutside(unsure)
  BY <1>4, <1>5, <1>7 DEF Abstract!AgreeOutside, I
<1>8. ASSUME NEW l \in Line, disk' = Written(disk, l)
      PROVE  l.cid \in Cids /\ J \in Abstract!AgreeOutside({l.cid})
  <2>1. l.cid \in Cids
    BY AppendsTyped
  <2>2. \E T \in SUBSET {l.cid} : J = (I \ {l.cid}) \cup T
    <3>1. J = I \cup {l.cid} \/ J = I \ {l.cid}
      BY <1>3, <1>8
    <3>2. I \cup {l.cid} = (I \ {l.cid}) \cup {l.cid} /\ I \ {l.cid} = (I \ {l.cid}) \cup {}
      OBVIOUS
    <3>3. {l.cid} \in SUBSET {l.cid} /\ {} \in SUBSET {l.cid}
      OBVIOUS
    <3> QED BY <3>1, <3>2, <3>3
  <2> QED BY <2>1, <2>2 DEF Abstract!AgreeOutside, I
<1>9. ASSUME NEW l \in Line, Write(l) PROVE Abstract!Next
  BY <1>9, <1>3, <1>2, AppendsTyped DEF Write, Abstract!Next, Abstract!Claim, Abstract!Settle
<1>10. ASSUME NEW l \in Line, WriteRaises(l) PROVE Abstract!Next
  <2>1. J \in Abstract!AgreeOutside({l.cid}) /\ unsure' = unsure \cup {l.cid} /\ l.cid \in Cids
    BY <1>10, <1>6, <1>8, AppendsTyped DEF WriteRaises
  <2>2. Abstract!Raise(l.cid)
    BY <2>1, <1>2 DEF Abstract!Raise
  <2> QED BY <2>1, <2>2 DEF Abstract!Next
<1>11. ASSUME Die, \/ J \in Abstract!AgreeOutside(unsure)
                  \/ \E c \in Cids : J \in Abstract!AgreeOutside({c})
       PROVE  Abstract!Next
  BY <1>11, <1>2 DEF Die, Abstract!Next, Abstract!Crash
<1>12. ASSUME NEW l \in Line, CrashInWrite(l) PROVE Abstract!Next
  BY <1>12, <1>8, <1>11 DEF CrashInWrite
<1>13. ASSUME Crash PROVE Abstract!Next
  BY <1>13, <1>6, <1>11 DEF Crash
<1>14. ASSUME CrashInCompact PROVE Abstract!Next
  BY <1>14, <1>7, <1>11 DEF CrashInCompact, Die
<1>15. ASSUME Compact PROVE Abstract!Next
  BY <1>15, <1>7, <1>2 DEF Compact, Abstract!Next, Abstract!Compact
<1>16. ASSUME Replay \/ UNCHANGED vars PROVE UNCHANGED Abstract!vars
  BY <1>16 DEF Replay, vars, Abstract!vars, InFlightOn, IsLastOf, LinesOf
<1> QED BY <1>9, <1>10, <1>12, <1>13, <1>14, <1>15, <1>16 DEF Next

\* For any number of orders, crashes and raising writes, if a crash never cuts
\* a line short: the journal is a durable set of intents that only the append
\* for a cid changes, and no restart or compaction loses one
\* (intent_journal.py:10-20).
THEOREM JournalImplementsDurableIntents ==
    ASSUME TornWrites = FALSE
    PROVE  Spec => ImplementsDurableIntents
<1>1. Init => Clean /\ Abstract!Init
  BY DEF Init, Clean, Abstract!Init, InFlightOn
<1>2. IInv /\ Clean /\ [Next]_vars => Clean'
  BY CleanStep DEF IInv
<1>3. IInv /\ Clean /\ [Next]_vars => [Abstract!Next]_Abstract!vars
  BY <1>2, NextIInv, StepRefines
<1> QED BY <1>1, <1>2, <1>3, InductiveInvariant, PTL
        DEF Spec, ImplementsDurableIntents, Abstract!Spec

-----------------------------------------------------------------------------
(* What was acknowledged survives *)

\* Where the last append of a cid returned and leaves it in flight, the file has
\* it in flight, and the mirror of a running process too.  RestartResurrects
\* alone says nothing of the time between a crash and the replay.
AckedKept ==
    \A c \in Cids : acked[c] \in InFlightKinds =>
        InFlightOn(disk, c) /\ (up => c \in Alive)

\* An append of another cid leaves what is known of this one.
LEMMA AckedWrite ==
    ASSUME IInv, Clean, AckedKept, NEW l \in Line, Write(l)
    PROVE  AckedKept'
<1>1. disk \in Seq(Cell) /\ ~EndsTorn(disk) /\ l.cid \in Cids
  BY CleanIsIntact, AppendsTyped DEF IInv, TypeOK, Cell
<1>2. SUFFICES ASSUME NEW c \in Cids, acked'[c] \in InFlightKinds
               PROVE  InFlightOn(disk', c) /\ c \in Alive'
  BY DEF AckedKept
<1>3. CASE c = l.cid
  <2>1. l.kind \in InFlightKinds
    BY <1>1, <1>2, <1>3 DEF Write, IInv, TypeOK
  <2>2. InFlightOn(disk', c)
    BY <1>1, <1>3, <2>1, WrittenInFlight DEF Write
  <2>3. c \in Alive'
    BY <1>1, <1>3, <2>1 DEF Write, Alive, Merged, IInv, TypeOK
  <2> QED BY <2>2, <2>3
<1>4. CASE c # l.cid
  <2>1. acked[c] \in InFlightKinds
    BY <1>1, <1>2, <1>4 DEF Write, IInv, TypeOK
  <2>2. InFlightOn(disk', c)
    BY <1>1, <1>4, <2>1, WrittenInFlight DEF Write, AckedKept
  <2>3. c \in Alive'
    BY <1>1, <1>4, <2>1 DEF Write, Alive, AckedKept, IInv, TypeOK
  <2> QED BY <2>2, <2>3
<1> QED BY <1>3, <1>4

\* An append that raised, or that a crash cut off, acknowledges nothing.
LEMMA AckedUnreturned ==
    ASSUME IInv, Clean, AckedKept, TornWrites = FALSE,
           NEW l \in Line, WriteRaises(l) \/ CrashInWrite(l)
    PROVE  AckedKept'
<1>1. /\ disk \in Seq(Cell) /\ ~EndsTorn(disk) /\ l.cid \in Cids
      /\ disk' \in {disk, Written(disk, l)}
      /\ acked' = [acked EXCEPT ![l.cid] = "absent"]
      /\ up' => records' = records /\ up
  BY CleanIsIntact, AppendsTyped DEF IInv, TypeOK, Cell, WriteRaises, CrashInWrite, Die
<1>2. SUFFICES ASSUME NEW c \in Cids, acked'[c] \in InFlightKinds
               PROVE  InFlightOn(disk', c) /\ (up' => c \in Alive')
  BY DEF AckedKept
<1>3. c # l.cid /\ acked[c] \in InFlightKinds
  BY <1>1, <1>2 DEF IInv, TypeOK, InFlightKinds
<1>4. InFlightOn(disk, c) /\ (up => c \in Alive)
  BY <1>3 DEF AckedKept
<1>5. InFlightOn(disk', c)
  BY <1>1, <1>3, <1>4, WrittenInFlight
<1> QED BY <1>1, <1>4, <1>5 DEF Alive

\* A compaction writes back what the mirror has in flight.
LEMMA AckedCompact ==
    ASSUME IInv, AckedKept, Compact \/ CrashInCompact
    PROVE  AckedKept'
<1>1. records \in [Cids -> Rec] /\ disk' \in Compactions /\ up /\ acked' = acked
  BY DEF IInv, TypeOK, Compact, CrashInCompact, Die
<1>2. \A c \in Cids : InFlightOn(disk', c) <=> c \in Alive
  BY <1>1, CompactionLines
<1>3. \A c \in Alive : up' => c \in Alive'
  BY <1>1 DEF Compact, CrashInCompact, Die, Alive
<1> QED BY <1>1, <1>2, <1>3 DEF AckedKept

LEMMA AckedStep ==
    ASSUME TornWrites = FALSE, IInv, Clean, AckedKept, [Next]_vars
    PROVE  AckedKept'
<1>1. CASE Crash
  BY <1>1 DEF Crash, Die, AckedKept
<1>2. CASE Replay
  <2>1. disk \in Seq(Cell) /\ ~Corrupt(disk)
    BY CleanIsIntact DEF IInv, TypeOK, Cell
  <2>2. disk' = disk /\ acked' = acked /\ records' = Replayed(disk)
    BY <1>2, <2>1 DEF Replay
  <2>3. \A c \in Cids : InFlightOn(disk, c) => c \in Alive'
    BY <2>1, <2>2, ReplayedRecords DEF Alive, Replayed
  <2> QED BY <2>2, <2>3 DEF AckedKept
<1>3. CASE UNCHANGED vars
  BY <1>3 DEF vars, AckedKept, Alive
<1> QED BY <1>1, <1>2, <1>3, AckedWrite, AckedUnreturned, AckedCompact DEF Next

\* Every order whose append returned and that was not settled is there after any
\* number of crashes, replays and compactions, if a crash never cuts a line short
\* (intent_journal.py:10-13).
THEOREM JournalRestartResurrects ==
    ASSUME TornWrites = FALSE
    PROVE  Spec => []RestartResurrects
<1>1. Init => Clean /\ AckedKept
  BY DEF Init, Clean, AckedKept, InFlightKinds
<1>2. IInv /\ Clean /\ AckedKept /\ [Next]_vars => Clean' /\ AckedKept'
  BY CleanStep, AckedStep DEF IInv
<1>3. AckedKept => RestartResurrects
  BY DEF AckedKept, RestartResurrects
<1> QED BY <1>1, <1>2, <1>3, InductiveInvariant, PTL DEF Spec
==============================================================================
