-------------------------- MODULE TrendOverlayProofs --------------------------
(***************************************************************************)
(* Theorems about the trend overlay, for any number of orders, any order   *)
(* and grid quantity, either kind of trade echo and any number of crashes, *)
(* failed saves, raising sinks, failing journal writes and failed replays: *)
(*   - its types, and that an unfilled order on its way to the exchange or *)
(*     on its book is named by the journal on the disk;                    *)
(*   - that the trend bucket never holds more than was filled;             *)
(*   - that the slot is never entered twice.                               *)
(* The faults are unbounded: what a theorem needs of them is a premise of  *)
(* its property.                                                           *)
(***************************************************************************)
EXTENDS TrendOverlay, FiniteSetTheorems, TLAPS

-----------------------------------------------------------------------------
(* The inductive invariant *)

\* The trade feed, the watermark and the batch never run ahead of the fills.
FeedOrdered ==
    \A o \in Orders :
        /\ shown[o] <= filled[o]
        /\ status[o] = "open" => filled[o] < Qty
        /\ status[o] \in {"none", "sent"} => filled[o] = 0
        /\ mem.seen[o] <= shown[o]
        /\ file.seen[o] <= shown[o]
        /\ batch[o] <= shown[o]

OnWire(o) == status[o] \in {"sent", "open"} /\ filled[o] = 0

\* A process that runs knows the intents that the disk must keep: compaction
\* rewrites the disk from its memory.
IntentKept ==
    /\ faults["replay"] = 0 => \A o \in Orders :
        OnWire(o) => jdisk[o] \in InFlight /\ (pc # "down" => jmem[o] \in InFlight)
    /\ pc = "submitted" =>
        \A o \in cur : status[o] = "none" /\ jdisk[o] \in InFlight /\ jmem[o] \in InFlight

IInv == TypeOK /\ FeedOrdered /\ IntentKept

\* What happened stays counted.
Grows == \A f \in Faults : faults[f] <= faults'[f]

-----------------------------------------------------------------------------
(* Lemmas about the operators *)

LEMMA PositionType ==
    ASSUME filled \in [Orders -> 0 .. Qty]
    PROVE  OverlayQty \in Nat /\ Position \in Nat
<1>1. IsFiniteSet(Orders \X (1 .. Qty))
  <2>1. 1 \in Int /\ Qty \in Int
    BY QuantitiesNat
  <2>2. IsFiniteSet(1 .. Qty)
    BY <2>1, FS_Interval
  <2> QED BY <2>2, OrdersFinite, FS_Product
<1>2. IsFiniteSet({u \in Orders \X (1 .. Qty) : u[2] <= filled[u[1]]})
  BY <1>1, FS_Subset
<1> QED BY <1>2, FS_CardinalityType, QuantitiesNat DEF OverlayQty, Position

LEMMA InitMemType == InitMem \in Memory /\ NoOrder \in [Orders -> 0 .. Qty]
BY QuantitiesNat DEF InitMem, Memory, NoOrder

\* An append to the journal changes the entry of one cid only, on the disk
\* and in the mirror, and keeps the types.
LEMMA JournalStep ==
    ASSUME TypeOK, NEW o \in Orders, NEW kind \in Kinds, Journal(o, kind)
    PROVE  /\ jdisk' \in [Orders -> Kinds] /\ jmem' \in [Orders -> Kinds]
           /\ doubt' \subseteq Orders /\ faults' \in [Faults -> Nat]
           /\ file' = file
           /\ jdisk'[o] \in {jdisk[o], kind} /\ jmem'[o] \in {jmem[o], kind}
           /\ \A p \in Orders : p # o => jdisk'[p] = jdisk[p] /\ jmem'[p] = jmem[p]
           /\ o \notin doubt' => jdisk'[o] = kind /\ jmem'[o] = kind
<1>1. CASE /\ jdisk' = [jdisk EXCEPT ![o] = kind]
           /\ jmem' = [jmem EXCEPT ![o] = kind]
           /\ doubt' = doubt \ {o}
           /\ UNCHANGED durable
  BY <1>1 DEF TypeOK, durable
<1>2. CASE /\ Fault("journal")
           /\ jdisk' \in {jdisk, [jdisk EXCEPT ![o] = kind]}
           /\ doubt' = doubt \cup {o}
           /\ UNCHANGED jmem
  <2>1. faults' \in [Faults -> Nat] /\ file' = file
    BY <1>2 DEF TypeOK, Fault, Fails, Faults
  <2> QED BY <1>2, <2>1 DEF TypeOK
<1> QED BY <1>1, <1>2 DEF Journal

\* A replay that failed is not forgotten.
LEMMA ReplayGrows ==
    ASSUME IInv, Grows
    PROVE  faults'["replay"] = 0 => faults["replay"] = 0
BY DEF IInv, TypeOK, Grows, Faults

\* An append that keeps an intent, or settles an order that is not on the wire,
\* keeps every intent that has to be kept.
LEMMA JournalKeepsIntents ==
    ASSUME IInv, Grows, NEW o \in Orders, NEW kind \in Kinds, Journal(o, kind),
           pc \notin {"down", "submitted"}, pc' # "submitted",
           status' = status, filled' = filled,
           kind \in InFlight \/ ~OnWire(o)
    PROVE  IntentKept'
<1>1. /\ jdisk'[o] \in {jdisk[o], kind} /\ jmem'[o] \in {jmem[o], kind}
      /\ \A p \in Orders : p # o => jdisk'[p] = jdisk[p] /\ jmem'[p] = jmem[p]
  BY JournalStep DEF IInv
<1>2. ASSUME faults["replay"] = 0, NEW p \in Orders, OnWire(p)
      PROVE  jdisk'[p] \in InFlight /\ jmem'[p] \in InFlight
  <2>1. jdisk[p] \in InFlight /\ jmem[p] \in InFlight
    BY <1>2 DEF IInv, IntentKept
  <2> QED BY <1>1, <1>2, <2>1
<1> QED BY <1>2, ReplayGrows DEF IntentKept, OnWire

-----------------------------------------------------------------------------
(* The steps *)

LEMMA InitIInv == Init => IInv
<1> SUFFICES ASSUME Init PROVE IInv
  OBVIOUS
<1>1. TypeOK
  BY InitMemType, QuantitiesNat DEF Init, TypeOK, Statuses, Kinds, NoOrder
<1>2. FeedOrdered
  BY QuantitiesNat DEF Init, FeedOrdered, InitMem, NoOrder
<1>3. IntentKept
  BY DEF Init, IntentKept, OnWire
<1> QED BY <1>1, <1>2, <1>3 DEF IInv

LEMMA ExchangeIInv ==
    ASSUME IInv, Grows, ExchangeStep
    PROVE  IInv'
<1> USE DEF IInv
<1>0. PICK o \in Orders : Arrive(o) \/ FillUnit(o) \/ Expire(o) \/ ShowTrade(o)
  BY DEF ExchangeStep
<1>1. /\ ExchangeMoves
      /\ \A p \in Orders : p # o => status'[p] = status[p] /\ filled'[p] = filled[p] /\ shown'[p] = shown[p]
      /\ status' \in [Orders -> Statuses]
      /\ filled' \in [Orders -> 0 .. Qty] /\ shown' \in [Orders -> 0 .. Qty]
      /\ filled[o] <= filled'[o] /\ shown[o] <= shown'[o] /\ shown'[o] <= filled'[o]
      /\ status'[o] = "open" => filled'[o] < Qty
      /\ status'[o] \in {"none", "sent"} => status'[o] = status[o] /\ filled'[o] = filled[o]
      /\ status'[o] \in {"sent", "open"} => status[o] \in {"sent", "open"}
  <2>0. status[o] \in Statuses /\ filled[o] \in 0 .. Qty /\ shown[o] \in 0 .. Qty
    BY DEF TypeOK
  <2>1. CASE Arrive(o)
    BY <2>0, <2>1, QuantitiesNat DEF Arrive, TypeOK, FeedOrdered, Statuses
  <2>2. CASE FillUnit(o)
    BY <2>0, <2>2, QuantitiesNat DEF FillUnit, TypeOK, FeedOrdered, Statuses
  <2>3. CASE Expire(o)
    BY <2>0, <2>3, QuantitiesNat DEF Expire, TypeOK, FeedOrdered, Statuses
  <2>4. CASE ShowTrade(o)
    BY <2>0, <2>4, QuantitiesNat DEF ShowTrade, TypeOK, FeedOrdered, Statuses
  <2> QED BY <1>0, <2>1, <2>2, <2>3, <2>4
<1>2. UNCHANGED <<journal, mem, flags, pc, locals, durable>>
  BY <1>1 DEF ExchangeMoves
<1>3. TypeOK'
  BY <1>1, <1>2 DEF TypeOK, journal, flags, locals, durable
<1>4. FeedOrdered'
  <2>1. \A p \in Orders : /\ filled[p] \in Int /\ shown[p] \in Int /\ batch[p] \in Int
                          /\ shown'[p] \in Int
                          /\ mem.seen[p] \in Int /\ file.seen[p] \in Int
    BY <1>1 DEF TypeOK, Memory
  <2> QED BY <1>1, <1>2, <2>1 DEF FeedOrdered, locals, durable
<1>5. IntentKept'
  <2>1. ASSUME NEW p \in Orders, OnWire(p)' PROVE OnWire(p)
    BY <1>1, <2>1 DEF OnWire, TypeOK
  <2>2. ASSUME pc = "submitted", NEW p \in cur PROVE status'[p] = status[p]
    <3>1. p \in Orders /\ status[p] = "none"
      BY <2>2 DEF IntentKept, TypeOK
    <3>2. status[o] = "none" => status' = status
      BY <1>0 DEF Arrive, FillUnit, Expire, ShowTrade
    <3> QED BY <1>1, <3>1, <3>2
  <2> QED BY <1>2, <2>1, <2>2, ReplayGrows DEF IntentKept, journal, locals
<1> QED BY <1>3, <1>4, <1>5

\* A step of a running trader that leaves the exchange and the journal alone.
LEMMA QuietIntents ==
    ASSUME IInv, Grows, UNCHANGED <<status, filled, jdisk, jmem>>, pc # "down", pc' # "submitted"
    PROVE  IntentKept'
BY ReplayGrows DEF IInv, IntentKept, OnWire

\* A step that leaves the feed and the committed trades alone.
LEMMA QuietFeed ==
    ASSUME IInv, UNCHANGED <<exchange, file>>, mem'.seen = mem.seen,
           \A o \in Orders : batch'[o] <= shown[o]
    PROVE  FeedOrdered'
BY DEF IInv, FeedOrdered, exchange

LEMMA PollIInv ==
    ASSUME IInv, Grows, PollOk \/ PollFails \/ SinkDone \/ SinkRaises
    PROVE  IInv'
<1> USE DEF IInv
<1>0. /\ \A o \in Orders : /\ shown[o] \in 0 .. Qty /\ mem.seen[o] \in 0 .. Qty
                            /\ mem.seen[o] <= shown[o] /\ batch[o] <= shown[o]
      /\ Qty \in Nat
  BY QuantitiesNat DEF TypeOK, Memory, FeedOrdered
<1>1. IntentKept'
  <2>1. UNCHANGED <<status, filled, jdisk, jmem>> /\ pc # "down" /\ pc' # "submitted"
    BY DEF PollOk, PollFails, SinkDone, SinkRaises, exchange, journal
  <2> QED BY <2>1, QuietIntents
<1>2. CASE PollOk
  <2>1. batch' \in [Orders -> 0 .. Qty] /\ \A o \in Orders : batch'[o] <= shown[o]
    BY <1>0, <1>2 DEF PollOk
  <2>2. FeedOrdered'
    BY <1>2, <2>1, QuietFeed DEF PollOk, durable
  <2>3. TypeOK'
    BY <1>2, <2>1 DEF PollOk, TypeOK, exchange, journal, durable
  <2> QED BY <1>1, <2>2, <2>3
<1>3. CASE PollFails
  <2>1. FeedOrdered'
    BY <1>0, <1>3, QuietFeed DEF PollFails, locals, durable
  <2>2. TypeOK'
    BY <1>3 DEF PollFails, TypeOK, exchange, journal, locals, durable
  <2> QED BY <1>1, <2>1, <2>2
<1>4. CASE SinkDone
  <2>1. mem' \in Memory /\ mem'.seen = shown
    BY <1>4 DEF SinkDone, TypeOK, Memory
  <2>2. FeedOrdered'
    BY <1>0, <1>4, <2>1 DEF SinkDone, FeedOrdered, exchange, locals, durable
  <2>3. TypeOK'
    BY <1>4, <2>1 DEF SinkDone, TypeOK, exchange, journal, flags, locals, durable
  <2> QED BY <1>1, <2>2, <2>3
<1>5. CASE SinkRaises
  <2>1. batch' \in [Orders -> 0 .. Qty] /\ \A o \in Orders : batch'[o] <= shown[o]
    BY <1>0, <1>5 DEF SinkRaises, NoOrder
  <2>2. FeedOrdered'
    BY <1>5, <2>1, QuietFeed DEF SinkRaises, Fault
  <2>3. faults' \in [Faults -> Nat]
    BY <1>5 DEF SinkRaises, Fault, Fails, TypeOK, Faults
  <2>4. TypeOK'
    BY <1>5, <2>1, <2>3 DEF SinkRaises, Fault, Fails, TypeOK, exchange, journal
  <2> QED BY <1>1, <2>2, <2>4
<1> QED BY <1>2, <1>3, <1>4, <1>5

LEMMA SinkTradeIInv ==
    ASSUME IInv, Grows, NEW o \in Orders, SinkTrade(o)
    PROVE  IInv'
<1> USE DEF IInv
<1>0. /\ \A p \in Orders : shown[p] \in 0 .. Qty /\ batch[p] \in 0 .. Qty /\ batch[p] <= shown[p]
      /\ filled[o] \in 0 .. Qty /\ batch[o] > 0 /\ shown[o] <= filled[o]
      /\ Qty \in Nat
  BY QuantitiesNat DEF TypeOK, FeedOrdered, SinkTrade
<1>1. batch' \in [Orders -> 0 .. Qty] /\ \A p \in Orders : batch'[p] <= shown[p]
  BY <1>0 DEF SinkTrade, TypeOK
<1>2. mem' \in Memory /\ mem'.seen = mem.seen
  <2>1. mem \in Memory /\ mem.owed \in [Orders -> 0 .. Qty] /\ mem.bucket \in Nat
    BY DEF TypeOK, Memory
  <2>2. CASE mem.owed[o] > 0
    <3>1. [mem.owed EXCEPT ![o] = @ - 1] \in [Orders -> 0 .. Qty]
      BY <1>0, <2>1, <2>2
    <3>2. mem' = [mem EXCEPT !.owed = [mem.owed EXCEPT ![o] = @ - 1]]
      BY <2>2 DEF SinkTrade
    <3> QED BY <2>1, <3>1, <3>2 DEF Memory
  <2>3. CASE ~(mem.owed[o] > 0)
    <3>1. CASE ~IsTrend(o)
      BY <2>1, <2>3, <3>1 DEF SinkTrade
    <3>2. CASE IsTrend(o)
      <4> DEFINE n == mem.bucket + 1
      <4>1. mem' = [mem EXCEPT !.bucket = n, !.pending = FALSE, !.unknown = FALSE]
        BY <2>3, <3>2 DEF SinkTrade
      <4>2. n \in Nat
        BY <2>1
      <4> HIDE DEF n
      <4> QED BY <2>1, <4>1, <4>2 DEF Memory
    <3> QED BY <3>1, <3>2
  <2> QED BY <2>2, <2>3
<1>3. ~OnWire(o)
  BY <1>0 DEF OnWire
<1>4. UNCHANGED <<exchange, flags, pc, cur, todo, left>> /\ pc = "sink"
  BY DEF SinkTrade
<1>5. CASE Journal(o, "filled")
  <2>1. "filled" \in Kinds
    BY DEF Kinds
  <2>2. IntentKept'
    BY <1>3, <1>4, <1>5, <2>1, JournalKeepsIntents DEF exchange
  <2>3. FeedOrdered'
    BY <1>1, <1>2, <1>4, <1>5, <2>1, JournalStep, QuietFeed
  <2>4. TypeOK'
    BY <1>1, <1>2, <1>4, <1>5, <2>1, JournalStep DEF TypeOK, exchange, flags
  <2> QED BY <2>2, <2>3, <2>4
<1>6. CASE UNCHANGED <<journal, durable>>
  <2>1. IntentKept'
    BY <1>4, <1>6, QuietIntents DEF exchange, journal
  <2>2. FeedOrdered'
    BY <1>1, <1>2, <1>4, <1>6, QuietFeed DEF durable
  <2>3. TypeOK'
    BY <1>1, <1>2, <1>4, <1>6 DEF TypeOK, exchange, flags, journal, durable
  <2> QED BY <2>1, <2>2, <2>3
<1> QED BY <1>5, <1>6 DEF SinkTrade

LEMMA AccountIInv ==
    ASSUME IInv, Grows, AccountOk \/ AccountFails \/ EmitNothing \/ Graduate
    PROVE  IInv'
<1> USE DEF IInv
<1>1. UNCHANGED <<exchange, journal, locals, durable>> /\ pc # "down"
  BY DEF AccountOk, AccountFails, EmitNothing, Graduate
<1>2. IntentKept'
  BY <1>1, QuietIntents DEF AccountOk, AccountFails, EmitNothing, Graduate, exchange, journal
<1>3. mem' \in Memory /\ mem'.seen = mem.seen /\ grid' \in Nat /\ quiesced' \in BOOLEAN
  <2>1. Position \in Nat /\ mem.bucket \in Nat
    BY PositionType DEF TypeOK, Memory
  <2>2. CASE AccountOk
    <3> DEFINE trend == IF mem.bucket > Position THEN Position ELSE mem.bucket
    <3>1. trend \in Nat /\ trend <= Position
      BY <2>1
    <3>2. mem' = [mem EXCEPT !.bucket = trend] /\ grid' = Position - trend
      BY <2>2 DEF AccountOk, GridShare
    <3>3. quiesced' \in BOOLEAN
      BY <2>2 DEF AccountOk, TypeOK
    <3> QED BY <2>1, <3>1, <3>2, <3>3 DEF TypeOK, Memory
  <2>3. CASE AccountFails \/ EmitNothing \/ Graduate
    BY <2>3 DEF AccountFails, EmitNothing, Graduate, TypeOK, Memory, flags
  <2> QED BY <2>2, <2>3
<1>4. FeedOrdered'
  BY <1>1, <1>3, QuietFeed DEF FeedOrdered, locals, durable
<1>5. TypeOK'
  BY <1>1, <1>3 DEF AccountOk, AccountFails, EmitNothing, Graduate, TypeOK,
                    exchange, journal, flags, locals, durable
<1> QED BY <1>2, <1>4, <1>5

LEMMA CreateIInv ==
    ASSUME IInv, Grows, NEW o \in Orders, Create(o)
    PROVE  IInv'
<1> USE DEF IInv
<1>0. /\ pc = "emit" /\ status[o] = "none" /\ Journal(o, "submit") /\ "submit" \in Kinds
      /\ pc' # "down" /\ UNCHANGED <<exchange, flags, batch, todo, left>>
  BY DEF Create, Kinds, InFlight
<1>1. mem' \in Memory /\ mem'.seen = mem.seen
  BY DEF Create, TypeOK, Memory
<1>2. TypeOK'
  BY <1>0, <1>1, JournalStep DEF Create, TypeOK, exchange, flags
<1>3. FeedOrdered'
  BY <1>0, <1>1, JournalStep, QuietFeed DEF FeedOrdered
<1>4. IntentKept'
  <2>1. ASSUME faults["replay"] = 0, NEW p \in Orders, OnWire(p)
        PROVE  jdisk'[p] \in InFlight /\ jmem'[p] \in InFlight
    <3>1. jdisk[p] \in InFlight /\ jmem[p] \in InFlight /\ p # o
      BY <1>0, <2>1 DEF IntentKept, OnWire
    <3> QED BY <1>0, <3>1, JournalStep
  <2>2. pc' = "submitted" => cur' = {o} /\ jdisk'[o] = "submit" /\ jmem'[o] = "submit"
    BY <1>0, JournalStep DEF Create
  <2> QED BY <1>0, <2>1, <2>2, ReplayGrows DEF IntentKept, OnWire, exchange, InFlight
<1> QED BY <1>2, <1>3, <1>4

LEMMA SendIInv ==
    ASSUME IInv, Grows, NEW o \in Orders, Send(o)
    PROVE  IInv'
<1> USE DEF IInv
<1>0. /\ o \in cur /\ pc = "submitted" /\ status[o] = "none" /\ pc' = "await"
      /\ status' = [status EXCEPT ![o] = "sent"]
      /\ UNCHANGED <<filled, shown, journal, mem, flags, locals, durable>>
  BY DEF Send, IntentKept
<1>1. TypeOK'
  BY <1>0 DEF TypeOK, Statuses, journal, flags, locals, durable
<1>2. FeedOrdered'
  BY <1>0 DEF TypeOK, FeedOrdered, locals, durable
<1>3. IntentKept'
  BY <1>0, ReplayGrows DEF TypeOK, IntentKept, OnWire, journal
<1> QED BY <1>1, <1>2, <1>3

LEMMA AckIInv ==
    ASSUME IInv, Grows, NEW o \in Orders, AckAccepted(o) \/ AckRefused(o)
    PROVE  IInv'
<1> USE DEF IInv
<1>0. /\ pc = "await" /\ pc' = "resolve" /\ cur' = {}
      /\ UNCHANGED <<exchange, flags, batch, todo, left>>
  BY DEF AckAccepted, AckRefused, Acked
<1>1. mem' \in Memory /\ mem'.seen = mem.seen
  <2>1. CASE AckAccepted(o)
    <3>1. [mem.known EXCEPT ![o] = {"cid", "id"}] \in [Orders -> SUBSET {"cid", "id"}]
      BY DEF TypeOK, Memory
    <3>2. mem' = [mem EXCEPT !.known = [mem.known EXCEPT ![o] = {"cid", "id"}], !.pending = TRUE]
      BY <2>1 DEF AckAccepted
    <3> QED BY <3>1, <3>2 DEF TypeOK, Memory
  <2>2. CASE AckRefused(o)
    BY <2>2 DEF AckRefused, TypeOK, Memory
  <2> QED BY <2>1, <2>2
<1>2. ASSUME NEW kind \in Kinds, Journal(o, kind), kind \in InFlight \/ ~OnWire(o)
      PROVE  IInv'
  <2>1. TypeOK'
    BY <1>0, <1>1, <1>2, JournalStep DEF TypeOK, exchange, flags
  <2>2. FeedOrdered'
    BY <1>0, <1>1, <1>2, JournalStep, QuietFeed DEF FeedOrdered
  <2>3. IntentKept'
    BY <1>0, <1>2, JournalKeepsIntents DEF exchange
  <2> QED BY <2>1, <2>2, <2>3
<1>3. CASE AckAccepted(o)
  <2>1. Journal(o, "open") /\ "open" \in InFlight /\ "open" \in Kinds
    BY <1>3 DEF AckAccepted, InFlight, Kinds
  <2> QED BY <1>2, <2>1
<1>4. CASE AckRefused(o)
  <2>1. ~OnWire(o)
    BY <1>4 DEF AckRefused, OnWire
  <2>2. PICK kind \in Kinds : Journal(o, kind)
    BY <1>4 DEF AckRefused, Kinds
  <2> QED BY <1>2, <2>1, <2>2
<1> QED BY <1>3, <1>4

LEMMA NoAckIInv ==
    ASSUME IInv, Grows, NoAck
    PROVE  IInv'
<1> USE DEF IInv
<1>0. /\ pc = "await" /\ pc' = "resolve" /\ cur' = {}
      /\ UNCHANGED <<exchange, journal, mem, flags, batch, todo, left, durable>>
  BY DEF NoAck, Acked
<1>1. TypeOK'
  BY <1>0 DEF TypeOK, exchange, journal, flags, durable
<1>2. FeedOrdered'
  BY <1>0, QuietFeed DEF FeedOrdered, durable
<1>3. IntentKept'
  BY <1>0, QuietIntents DEF exchange, journal
<1> QED BY <1>1, <1>2, <1>3

\* The steps of _resolve_unknowns that leave the journal alone.
LEMMA ResolveIInv ==
    ASSUME IInv, Grows, NothingUnknown \/ OpenOrdersFail \/ StillOpen \/ NotOpen \/ FetchEnds \/ Sweep
    PROVE  IInv'
<1> USE DEF IInv
<1>0. /\ pc # "down" /\ pc' \in {"fetch", "sweep", "save"}
      /\ UNCHANGED <<exchange, journal, flags, cur, batch, durable>>
  BY DEF NothingUnknown, OpenOrdersFail, StillOpen, NotOpen, FetchEnds, Sweep, Resolving, locals
<1>1. todo' \subseteq Orders /\ left' \subseteq Orders
  BY DEF NothingUnknown, OpenOrdersFail, StillOpen, NotOpen, FetchEnds, Sweep, TypeOK, Alive, locals
<1>2. mem' \in Memory /\ mem'.seen = mem.seen
  <2>1. CASE NothingUnknown \/ OpenOrdersFail \/ NotOpen
    BY <2>1 DEF NothingUnknown, OpenOrdersFail, NotOpen, TypeOK
  <2>2. CASE StillOpen
    BY <2>2 DEF StillOpen, TypeOK, Memory
  <2>3. CASE FetchEnds
    <3>1. mem' = [mem EXCEPT !.unknown = (left # {})] /\ (left # {}) \in BOOLEAN
      BY <2>3 DEF FetchEnds
    <3> QED BY <3>1 DEF TypeOK, Memory
  <2>4. CASE Sweep
    BY <2>4 DEF Sweep, TypeOK, Memory
  <2> QED BY <2>1, <2>2, <2>3, <2>4
<1>3. TypeOK'
  BY <1>0, <1>1, <1>2 DEF TypeOK, exchange, journal, flags, durable
<1>4. FeedOrdered'
  BY <1>0, <1>2, QuietFeed DEF FeedOrdered, durable
<1>5. IntentKept'
  BY <1>0, QuietIntents DEF exchange, journal
<1> QED BY <1>3, <1>4, <1>5

LEMMA FetchIInv ==
    ASSUME IInv, Grows, NEW o \in Orders, FetchNothing(o) \/ FetchCanceled(o) \/ FetchClosed(o)
    PROVE  IInv'
<1> USE DEF IInv
<1>0. /\ pc = "fetch" /\ pc' = pc
      /\ UNCHANGED <<exchange, flags, cur, batch>>
      /\ todo' \subseteq Orders /\ left' \subseteq Orders
  BY DEF FetchNothing, FetchCanceled, FetchClosed, Fetching, TypeOK
<1>1. mem' \in Memory /\ mem'.seen = mem.seen
  <2>1. CASE FetchNothing(o) \/ FetchCanceled(o)
    BY <2>1 DEF FetchNothing, FetchCanceled, TypeOK
  <2>2. CASE FetchClosed(o)
    <3> DEFINE n == mem.bucket + filled[o]
               w == [mem.owed EXCEPT ![o] = filled[o]]
    <3>1. mem' = [mem EXCEPT !.bucket = n, !.pending = FALSE, !.owed = w]
      BY <2>2 DEF FetchClosed
    <3>2. n \in Nat /\ w \in [Orders -> 0 .. Qty]
      BY QuantitiesNat DEF TypeOK, Memory
    <3> HIDE DEF n, w
    <3> QED BY <3>1, <3>2 DEF TypeOK, Memory
  <2> QED BY <2>1, <2>2
<1>2. CASE FetchNothing(o)
  <2>1. TypeOK'
    BY <1>0, <1>1, <1>2 DEF FetchNothing, TypeOK, exchange, journal, flags, durable
  <2>2. FeedOrdered'
    BY <1>0, <1>1, <1>2, QuietFeed DEF FetchNothing, FeedOrdered, durable
  <2>3. IntentKept'
    BY <1>0, <1>2, QuietIntents DEF FetchNothing, exchange, journal
  <2> QED BY <2>1, <2>2, <2>3
<1>3. CASE FetchCanceled(o) \/ FetchClosed(o)
  <2>1. ~OnWire(o)
    BY <1>3 DEF FetchCanceled, FetchClosed, OnWire
  <2>2. PICK kind \in Kinds : Journal(o, kind)
    BY <1>3 DEF FetchCanceled, FetchClosed, Kinds
  <2>3. TypeOK'
    BY <1>0, <1>1, <2>2, JournalStep DEF TypeOK, exchange, flags
  <2>4. FeedOrdered'
    BY <1>0, <1>1, <2>2, JournalStep, QuietFeed DEF FeedOrdered
  <2>5. IntentKept'
    BY <1>0, <2>1, <2>2, JournalKeepsIntents DEF exchange
  <2> QED BY <2>3, <2>4, <2>5
<1> QED BY <1>2, <1>3

LEMMA SaveIInv ==
    ASSUME IInv, Grows, SaveOk \/ SaveFails
    PROVE  IInv'
<1> USE DEF IInv
<1>0. /\ pc = "save" /\ pc' = "poll"
      /\ UNCHANGED <<exchange, doubt, mem, grid, pollFailed, quiesced, locals>>
      /\ persistFailed' \in BOOLEAN /\ faults' \in [Faults -> Nat] /\ file' \in {file, mem}
  <2>1. CASE SaveOk
    BY <2>1 DEF SaveOk, TypeOK
  <2>2. CASE SaveFails
    <3>1. faults' \in [Faults -> Nat] /\ UNCHANGED file
      BY <2>2 DEF SaveFails, Fault, Fails, TypeOK, Faults
    <3> QED BY <2>2, <3>1 DEF SaveFails, journal
  <2> QED BY <2>1, <2>2
<1>1. FeedOrdered'
  BY <1>0 DEF FeedOrdered, exchange, locals
<1>2. CASE SaveOk
  <2>1. jdisk' = Compacted(jmem) /\ jmem' = jdisk'
    BY <1>2 DEF SaveOk
  <2>2. jdisk' \in [Orders -> Kinds]
    BY <2>1 DEF Compacted, TypeOK, Kinds
  <2>3. TypeOK'
    BY <1>0, <2>1, <2>2 DEF TypeOK, exchange, locals
  <2>4. \A p \in Orders : jmem[p] \in InFlight => jdisk'[p] \in InFlight
    BY <2>1 DEF Compacted, Alive
  <2>5. IntentKept'
    BY <1>0, <2>1, <2>4, ReplayGrows DEF IntentKept, OnWire, exchange
  <2> QED BY <1>1, <2>3, <2>5
<1>3. CASE SaveFails
  <2>1. UNCHANGED journal
    BY <1>3 DEF SaveFails
  <2>2. TypeOK'
    BY <1>0, <2>1 DEF TypeOK, exchange, journal, locals
  <2>3. IntentKept'
    BY <1>0, <2>1, QuietIntents DEF exchange, journal
  <2> QED BY <1>1, <2>2, <2>3
<1> QED BY <1>2, <1>3

LEMMA CrashIInv ==
    ASSUME IInv, Grows, Crash
    PROVE  IInv'
<1> USE DEF IInv
<1>0. /\ pc' = "down" /\ mem' = InitMem /\ file' \in {file, mem}
      /\ jmem' = [o \in Orders |-> "absent"] /\ jdisk' = jdisk
      /\ batch' = NoOrder /\ faults' \in [Faults -> Nat]
      /\ UNCHANGED exchange
  BY DEF Crash, Fails, TypeOK, Faults
<1>1. TypeOK'
  BY <1>0, InitMemType DEF Crash, TypeOK, Kinds, exchange
<1>2. FeedOrdered'
  <2>1. \A o \in Orders : mem'.seen[o] = 0 /\ batch'[o] = 0 /\ 0 <= shown[o]
    BY <1>0 DEF InitMem, NoOrder, TypeOK
  <2> QED BY <1>0, <2>1 DEF FeedOrdered, exchange
<1>3. IntentKept'
  BY <1>0, ReplayGrows DEF IntentKept, OnWire, exchange
<1> QED BY <1>1, <1>2, <1>3

LEMMA RestartIInv ==
    ASSUME IInv, Grows, Restart
    PROVE  IInv'
<1> USE DEF IInv
<1>0. /\ pc = "down" /\ pc' = "poll" /\ jmem' = jdisk /\ jdisk' = jdisk
      /\ UNCHANGED <<exchange, doubt, flags, locals, durable>>
  BY DEF Restart
<1>1. mem' \in Memory /\ mem'.seen = file.seen
  <2> DEFINE k == [o \in Orders |->
                      file.known[o] \cup (IF jdisk[o] = "open" THEN {"cid", "id"}
                                          ELSE IF jdisk[o] = "submit" THEN {"cid"} ELSE {})]
             b == file.pending \/ Alive(jdisk) # {}
  <2>1. mem' = [file EXCEPT !.pending = b, !.known = k]
    BY DEF Restart
  <2>2. k \in [Orders -> SUBSET {"cid", "id"}]
    BY DEF TypeOK, Memory
  <2>3. b \in BOOLEAN
    BY DEF TypeOK, Memory
  <2> HIDE DEF k, b
  <2> QED BY <2>1, <2>2, <2>3 DEF TypeOK, Memory
<1>2. TypeOK'
  BY <1>0, <1>1 DEF TypeOK, exchange, flags, locals, durable
<1>3. FeedOrdered'
  BY <1>0, <1>1 DEF FeedOrdered, exchange, locals, durable
<1>4. IntentKept'
  BY <1>0, ReplayGrows DEF IntentKept, OnWire, exchange
<1> QED BY <1>2, <1>3, <1>4

\* The journal does not replay: its mirror stays empty, and the first compaction
\* wipes the disk.  No intent is promised any more.
LEMMA UnreadableIInv ==
    ASSUME IInv, Grows, RestartUnreadable
    PROVE  IInv'
<1> USE DEF IInv
<1>0. /\ faults["replay"] \in Nat /\ faults' = [faults EXCEPT !["replay"] = @ + 1]
      /\ pc' = "poll" /\ mem' = file /\ persistFailed' = TRUE
      /\ UNCHANGED <<exchange, journal, grid, pollFailed, quiesced, locals, file>>
  BY DEF RestartUnreadable, Fails, TypeOK, Faults
<1>1. faults' \in [Faults -> Nat] /\ faults'["replay"] > 0
  BY <1>0 DEF TypeOK, Faults
<1>2. TypeOK'
  BY <1>0, <1>1 DEF TypeOK, exchange, journal, locals
<1>3. FeedOrdered'
  BY <1>0 DEF FeedOrdered, exchange, locals
<1>4. IntentKept'
  BY <1>0, <1>1 DEF IntentKept
<1> QED BY <1>2, <1>3, <1>4

\* Every fault is counted by the step in which it happens, and no other step
\* touches the count.
LEMMA FaultsGrow ==
    ASSUME IInv, [Next]_vars
    PROVE  Grows
<1>1. ASSUME NEW f \in Faults, Fails(f)
      PROVE  Grows
  BY <1>1 DEF Fails, Grows, IInv, TypeOK
<1>2. CASE UNCHANGED faults
  BY <1>2 DEF Grows, IInv, TypeOK
<1>3. ASSUME NEW o \in Orders, NEW kind, Journal(o, kind)
      PROVE  Grows
  BY <1>1, <1>2, <1>3 DEF Journal, Fault, Faults, durable
<1>4. CASE ExchangeStep
  BY <1>2, <1>4 DEF ExchangeStep, Arrive, FillUnit, Expire, ShowTrade, ExchangeMoves, durable
<1>5. CASE PollOk \/ PollFails \/ SinkDone \/ SinkRaises
  BY <1>1, <1>2, <1>5 DEF PollOk, PollFails, SinkDone, SinkRaises, Fault, Faults, durable
<1>6. ASSUME NEW o \in Orders,
             SinkTrade(o) \/ Create(o) \/ Send(o) \/ AckAccepted(o) \/ AckRefused(o)
      PROVE  Grows
  BY <1>2, <1>3, <1>6 DEF SinkTrade, Create, Send, AckAccepted, AckRefused, durable
<1>7. CASE AccountOk \/ AccountFails \/ EmitNothing \/ Graduate \/ NoAck
  BY <1>2, <1>7 DEF AccountOk, AccountFails, EmitNothing, Graduate, NoAck, durable
<1>8. CASE NothingUnknown \/ OpenOrdersFail \/ StillOpen \/ NotOpen \/ FetchEnds \/ Sweep
  BY <1>2, <1>8 DEF NothingUnknown, OpenOrdersFail, StillOpen, NotOpen, FetchEnds, Sweep,
                    Resolving, durable
<1>9. CASE FetchStep
  BY <1>2, <1>3, <1>9 DEF FetchStep, FetchNothing, FetchCanceled, FetchClosed, durable
<1>10. CASE SaveOk \/ SaveFails
  BY <1>1, <1>2, <1>10 DEF SaveOk, SaveFails, Fault, Faults
<1>11. CASE Crash \/ Restart \/ RestartUnreadable
  BY <1>1, <1>2, <1>11 DEF Crash, Restart, RestartUnreadable, Faults, durable
<1>12. CASE UNCHANGED vars
  BY <1>2, <1>12 DEF vars, durable
<1> QED BY <1>4, <1>5, <1>6, <1>7, <1>8, <1>9, <1>10, <1>11, <1>12 DEF Next, TraderStep

LEMMA NextIInv ==
    ASSUME IInv, [Next]_vars
    PROVE  IInv'
<1>0. Grows
  BY FaultsGrow
<1>1. CASE ExchangeStep
  BY <1>0, <1>1, ExchangeIInv
<1>2. CASE PollOk \/ PollFails \/ SinkDone \/ SinkRaises
  BY <1>0, <1>2, PollIInv
<1>3. CASE AccountOk \/ AccountFails \/ EmitNothing \/ Graduate
  BY <1>0, <1>3, AccountIInv
<1>4. ASSUME NEW o \in Orders,
             SinkTrade(o) \/ Create(o) \/ Send(o) \/ AckAccepted(o) \/ AckRefused(o)
      PROVE  IInv'
  BY <1>0, <1>4, SinkTradeIInv, CreateIInv, SendIInv, AckIInv
<1>5. CASE NoAck
  BY <1>0, <1>5, NoAckIInv
<1>6. CASE NothingUnknown \/ OpenOrdersFail \/ StillOpen \/ NotOpen \/ FetchEnds \/ Sweep
  BY <1>0, <1>6, ResolveIInv
<1>7. CASE FetchStep
  BY <1>0, <1>7, FetchIInv DEF FetchStep
<1>8. CASE SaveOk \/ SaveFails
  BY <1>0, <1>8, SaveIInv
<1>9. CASE Crash
  BY <1>0, <1>9, CrashIInv
<1>10. CASE Restart
  BY <1>0, <1>10, RestartIInv
<1>11. CASE RestartUnreadable
  BY <1>0, <1>11, UnreadableIInv
<1>12. CASE UNCHANGED vars
  BY <1>12 DEF vars, exchange, journal, flags, locals, durable, IInv, TypeOK, FeedOrdered,
               IntentKept, OnWire, Alive
<1> QED BY <1>1, <1>2, <1>3, <1>4, <1>5, <1>6, <1>7, <1>8, <1>9, <1>10, <1>11, <1>12
        DEF Next, TraderStep

-----------------------------------------------------------------------------
(* The theorems *)

LEMMA OverlayInductive == Spec => []IInv
<1>1. Init => IInv
  BY InitIInv
<1>2. IInv /\ [Next]_vars => IInv'
  BY NextIInv
<1> QED BY <1>1, <1>2, PTL DEF Spec

\* Every variable keeps its type: in particular no bucket and no owed quantity of
\* _sink, _rebuild_bucket and _apply_resolved_fill_to_bucket ever falls below zero.
THEOREM OverlayTypes == Spec => []TypeOK
<1>1. IInv => TypeOK
  BY DEF IInv
<1> QED BY <1>1, OverlayInductive, PTL

\* However often the process crashes, saves fail, the sink raises or the
\* journal refuses a write, an unfilled entry on its way to the exchange or on
\* its book is in flight in the journal on the disk (live.py:2781-2783), as long
\* as the journal can be replayed after a crash.
THEOREM OverlayDurableIntent == Spec => []DurableIntent
<1>1. IInv => DurableIntent
  BY DEF IInv, IntentKept, OnWire, DurableIntent
<1> QED BY <1>1, OverlayInductive, PTL

-----------------------------------------------------------------------------
(* What the trader knows of its orders *)

\* Every append reached the journal, and every replay read it.
JournalTrue == faults["journal"] = 0 /\ faults["replay"] = 0

\* At most one replay failed, and the process was not down since.
JournalUsed ==
    faults["journal"] = 0 /\ (faults["replay"] = 0 \/ faults["crash"] <= 1)

\* A process that is down holds nothing, and every replay follows a crash.
DownForgets ==
    /\ faults["replay"] <= faults["crash"]
    /\ pc = "down" => /\ faults["replay"] < faults["crash"]
                      /\ mem = InitMem
                      /\ jmem = [o \in Orders |-> "absent"]

\* The mirror of a running process is the journal on the disk.
MirrorIsDisk == JournalTrue /\ pc # "down" => jmem = jdisk

\* The identifiers in order_source follow the journal: an order in flight is known
\* by its cid, an open one by both, and a submitted one not yet by its exchange id.
IdsKnown ==
    /\ \A o \in Orders : /\ status[o] = "none" => "id" \notin mem.known[o] \cup file.known[o]
                         /\ status[o] = "none" => jmem[o] # "open" /\ jdisk[o] # "open"
                         /\ jmem[o] \in InFlight => "cid" \in mem.known[o]
                         /\ jmem[o] = "open" => "id" \in mem.known[o]
    /\ JournalUsed =>
        \A o \in Orders : jmem[o] = "submit" => "id" \notin mem.known[o]
    /\ JournalTrue =>
        \A o \in Orders : jdisk[o] = "submit" => "id" \notin file.known[o]

Creating == pc \in {"submitted", "await"}

\* The order being created holds the pending mark and is in flight in the journal.
Reserved ==
    /\ Creating =>
        /\ mem.pending /\ ~mem.unknown
        /\ \E o \in Orders : cur = {o} /\ jdisk[o] \in InFlight /\ jmem[o] \in InFlight
    /\ ~Creating => cur = {}

\* What _resolve_unknowns still has to fetch is in flight.
FetchAlive == todo \subseteq Alive(jmem) /\ (pc # "fetch" => todo = {})

\* The batch holds trades beyond the watermark.
BatchIsNew ==
    /\ pc # "sink" => batch = NoOrder
    /\ \A o \in Orders : mem.seen[o] + batch[o] <= shown[o]

Facts == DownForgets /\ MirrorIsDisk /\ IdsKnown /\ Reserved /\ FetchAlive /\ BatchIsNew

-----------------------------------------------------------------------------

\* An append that did not raise is on the disk and in the mirror.
LEMMA JournalWrites ==
    ASSUME IInv, NEW o \in Orders, NEW kind, Journal(o, kind), faults'["journal"] = 0
    PROVE  jdisk' = [jdisk EXCEPT ![o] = kind] /\ jmem' = [jmem EXCEPT ![o] = kind]
<1>1. ~Fault("journal")
  BY DEF IInv, TypeOK, Fault, Fails, Faults
<1> QED BY <1>1 DEF Journal

\* Conditions on the faults so far held before a step when they hold after it.
LEMMA FaultsBefore ==
    ASSUME IInv, IInv', Grows
    PROVE  /\ faults'["journal"] = 0 => faults["journal"] = 0
           /\ faults'["sink"] = 0 => faults["sink"] = 0
           /\ faults'["crash"] = 0 => faults["crash"] = 0
           /\ faults'["save"] = 0 => faults["save"] = 0
           /\ faults'["crash"] <= 1 => faults["crash"] <= 1
           /\ JournalTrue' => JournalTrue
           /\ JournalUsed' => JournalUsed
           /\ OneLoss' => OneLoss
           /\ SlotKnown' => SlotKnown
<1>1. \A f \in Faults : faults[f] \in Nat /\ faults'[f] \in Nat /\ faults[f] <= faults'[f]
  BY DEF IInv, TypeOK, Grows
<1> QED BY <1>1 DEF Faults, JournalTrue, JournalUsed, OneLoss, SlotKnown

\* What the steps of the exchange leave alone, and how they move an order.
LEMMA ExchangeFrame ==
    ASSUME IInv, ExchangeStep
    PROVE  /\ UNCHANGED <<journal, mem, flags, pc, locals, durable>> /\ pc # "sink"
           /\ \A p \in Orders :
                /\ filled[p] <= filled'[p] /\ shown[p] <= shown'[p]
                /\ status'[p] = "none" <=> status[p] = "none"
                /\ AtRisk(p)' => AtRisk(p)
<1>0. PICK o \in Orders : Arrive(o) \/ FillUnit(o) \/ Expire(o) \/ ShowTrade(o)
  BY DEF ExchangeStep
<1>1. UNCHANGED <<journal, mem, flags, pc, locals, durable>> /\ pc # "sink"
  BY <1>0 DEF Arrive, FillUnit, Expire, ShowTrade, ExchangeMoves
<1>2. ASSUME NEW p \in Orders
      PROVE  /\ filled[p] <= filled'[p] /\ shown[p] <= shown'[p]
             /\ status'[p] = "none" <=> status[p] = "none"
             /\ AtRisk(p)' => AtRisk(p)
  <2>0. /\ filled[p] \in Nat /\ shown[p] \in Nat /\ Qty \in Nat
        /\ status \in [Orders -> Statuses] /\ filled \in [Orders -> 0 .. Qty]
        /\ shown \in [Orders -> 0 .. Qty]
    BY QuantitiesNat DEF IInv, TypeOK
  <2>1. CASE Arrive(o)
    BY <2>0, <2>1 DEF Arrive, AtRisk
  <2>2. CASE FillUnit(o)
    BY <2>0, <2>2 DEF FillUnit, AtRisk
  <2>3. CASE Expire(o)
    BY <2>0, <2>3 DEF Expire, AtRisk
  <2>4. CASE ShowTrade(o)
    BY <2>0, <2>4 DEF ShowTrade, AtRisk
  <2> QED BY <1>0, <2>1, <2>2, <2>3, <2>4
<1> QED BY <1>1, <1>2

\* A step of the trader is one of a process that runs, or starts one.
LEMMA TraderRuns ==
    ASSUME TraderStep
    PROVE  pc' # "down" /\ (pc # "down" \/ Restart \/ RestartUnreadable)
<1>1. CASE PollOk \/ PollFails \/ SinkDone \/ SinkRaises
  BY <1>1 DEF PollOk, PollFails, SinkDone, SinkRaises
<1>2. ASSUME NEW o \in Orders,
             SinkTrade(o) \/ Create(o) \/ Send(o) \/ AckAccepted(o) \/ AckRefused(o)
      PROVE  pc # "down" /\ pc' # "down"
  BY <1>2 DEF SinkTrade, Create, Send, AckAccepted, AckRefused, Acked
<1>3. CASE AccountOk \/ AccountFails \/ EmitNothing \/ Graduate \/ NoAck
  BY <1>3 DEF AccountOk, AccountFails, EmitNothing, Graduate, NoAck, Acked
<1>4. CASE NothingUnknown \/ OpenOrdersFail \/ StillOpen \/ NotOpen \/ FetchEnds \/ Sweep
  BY <1>4 DEF NothingUnknown, OpenOrdersFail, StillOpen, NotOpen, FetchEnds, Sweep, Resolving
<1>5. CASE FetchStep
  BY <1>5 DEF FetchStep, FetchNothing, FetchCanceled, FetchClosed, Fetching
<1>6. CASE SaveOk \/ SaveFails
  BY <1>6 DEF SaveOk, SaveFails
<1>7. CASE Restart \/ RestartUnreadable
  BY <1>7 DEF Restart, RestartUnreadable
<1> QED BY <1>1, <1>2, <1>3, <1>4, <1>5, <1>6, <1>7 DEF TraderStep

\* Crashes and failed replays are counted by their own steps.
SameLosses == faults'["replay"] = faults["replay"] /\ faults'["crash"] = faults["crash"]

LEMMA TraderFaults ==
    ASSUME IInv, TraderStep, ~RestartUnreadable
    PROVE  SameLosses
<1>1. ASSUME NEW f \in {"save", "sink", "journal"}, Fails(f)
      PROVE  SameLosses
  BY <1>1 DEF Fails, SameLosses, IInv, TypeOK, Faults
<1>2. CASE UNCHANGED faults
  BY <1>2 DEF SameLosses
<1>3. ASSUME NEW o \in Orders, NEW kind, Journal(o, kind)
      PROVE  SameLosses
  BY <1>1, <1>2, <1>3 DEF Journal, Fault, durable
<1>4. CASE PollOk \/ PollFails \/ SinkDone \/ SinkRaises
  BY <1>1, <1>2, <1>4 DEF PollOk, PollFails, SinkDone, SinkRaises, Fault, durable
<1>5. ASSUME NEW o \in Orders,
             SinkTrade(o) \/ Create(o) \/ Send(o) \/ AckAccepted(o) \/ AckRefused(o)
      PROVE  SameLosses
  BY <1>2, <1>3, <1>5 DEF SinkTrade, Create, Send, AckAccepted, AckRefused, durable
<1>6. CASE AccountOk \/ AccountFails \/ EmitNothing \/ Graduate \/ NoAck
  BY <1>2, <1>6 DEF AccountOk, AccountFails, EmitNothing, Graduate, NoAck, durable
<1>7. CASE NothingUnknown \/ OpenOrdersFail \/ StillOpen \/ NotOpen \/ FetchEnds \/ Sweep
  BY <1>2, <1>7 DEF NothingUnknown, OpenOrdersFail, StillOpen, NotOpen, FetchEnds, Sweep,
                    Resolving, durable
<1>8. CASE FetchStep
  BY <1>2, <1>3, <1>8 DEF FetchStep, FetchNothing, FetchCanceled, FetchClosed, durable
<1>9. CASE SaveOk \/ SaveFails
  BY <1>1, <1>2, <1>9 DEF SaveOk, SaveFails, Fault
<1>10. CASE Restart
  BY <1>2, <1>10 DEF Restart, durable
<1> QED BY <1>4, <1>5, <1>6, <1>7, <1>8, <1>9, <1>10 DEF TraderStep

LEMMA DownStep ==
    ASSUME IInv, IInv', Grows, DownForgets, [Next]_vars
    PROVE  DownForgets'
<1>0. faults["replay"] \in Nat /\ faults["crash"] \in Nat
  BY DEF IInv, TypeOK, Faults
<1>1. CASE ExchangeStep
  BY <1>1, ExchangeFrame DEF DownForgets, journal, durable
<1>2. ASSUME TraderStep, ~RestartUnreadable
      PROVE  DownForgets'
  <2>1. faults'["replay"] = faults["replay"] /\ faults'["crash"] = faults["crash"]
    BY <1>2, TraderFaults DEF SameLosses
  <2> QED BY <1>2, <2>1, TraderRuns DEF DownForgets
<1>3. CASE RestartUnreadable
  <2>1. /\ faults' = [faults EXCEPT !["replay"] = @ + 1] /\ pc = "down" /\ pc' = "poll"
    BY <1>3 DEF RestartUnreadable, Fails
  <2>2. faults'["replay"] = faults["replay"] + 1 /\ faults'["crash"] = faults["crash"]
    BY <2>1 DEF IInv, TypeOK, Faults
  <2> QED BY <1>0, <2>1, <2>2 DEF DownForgets
<1>4. CASE Crash
  <2>1. faults' = [faults EXCEPT !["crash"] = @ + 1]
    BY <1>4 DEF Crash, Fails
  <2>2. faults'["replay"] = faults["replay"] /\ faults'["crash"] = faults["crash"] + 1
    BY <2>1 DEF IInv, TypeOK, Faults
  <2> QED BY <1>0, <1>4, <2>2 DEF Crash, DownForgets
<1>5. CASE UNCHANGED vars
  BY <1>5 DEF vars, journal, durable, DownForgets
<1> QED BY <1>1, <1>2, <1>3, <1>4, <1>5 DEF Next, TraderStep

\* The steps that leave the journal alone, and those that append to it.
Mute ==
    \/ PollOk \/ PollFails \/ SinkDone \/ SinkRaises
    \/ AccountOk \/ AccountFails \/ EmitNothing \/ Graduate \/ NoAck
    \/ NothingUnknown \/ OpenOrdersFail \/ StillOpen \/ NotOpen \/ FetchEnds \/ Sweep
    \/ SaveFails
    \/ \E o \in Orders : Send(o) \/ FetchNothing(o)

LEMMA MuteFrame ==
    ASSUME Mute
    PROVE  UNCHANGED <<journal, file>> /\ pc # "down"
<1>1. CASE PollOk \/ PollFails \/ SinkDone \/ SinkRaises
  BY <1>1 DEF PollOk, PollFails, SinkDone, SinkRaises, Fault, durable
<1>2. CASE AccountOk \/ AccountFails \/ EmitNothing \/ Graduate \/ NoAck
  BY <1>2 DEF AccountOk, AccountFails, EmitNothing, Graduate, NoAck, Acked, durable
<1>3. CASE NothingUnknown \/ OpenOrdersFail \/ StillOpen \/ NotOpen \/ FetchEnds \/ Sweep
  BY <1>3 DEF NothingUnknown, OpenOrdersFail, StillOpen, NotOpen, FetchEnds, Sweep,
              Resolving, durable
<1>4. CASE SaveFails
  BY <1>4 DEF SaveFails, Fault
<1>5. ASSUME NEW o \in Orders, Send(o) \/ FetchNothing(o)
      PROVE  UNCHANGED <<journal, file>> /\ pc # "down"
  BY <1>5 DEF Send, FetchNothing, Fetching, durable
<1> QED BY <1>1, <1>2, <1>3, <1>4, <1>5 DEF Mute

\* A step of the trader that appends to the journal, and the only step that may
\* do so in each place of the tick.
Appends(o) ==
    \/ SinkTrade(o) /\ ~UNCHANGED journal
    \/ Create(o) \/ AckAccepted(o) \/ AckRefused(o) \/ FetchCanceled(o) \/ FetchClosed(o)

LEMMA AppendFrame ==
    ASSUME IInv, NEW o \in Orders, Appends(o)
    PROVE  /\ pc \notin {"down", "submitted", "save"} /\ file' = file
           /\ \E kind \in Kinds : Journal(o, kind)
<1>1. CASE SinkTrade(o) /\ ~UNCHANGED journal
  <2>1. Journal(o, "filled") /\ "filled" \in Kinds /\ pc = "sink"
    BY <1>1 DEF SinkTrade, Kinds
  <2>2. file' = file
    BY <2>1 DEF Journal, durable, Fault
  <2> QED BY <2>1, <2>2
<1>2. CASE Create(o) \/ AckAccepted(o)
  <2>1. PICK kind \in Kinds : Journal(o, kind) /\ pc \in {"emit", "await"}
    BY <1>2 DEF Create, AckAccepted, Acked, Kinds, InFlight
  <2>2. file' = file
    BY <2>1 DEF Journal, durable, Fault
  <2> QED BY <2>1, <2>2
<1>3. CASE AckRefused(o) \/ FetchCanceled(o) \/ FetchClosed(o)
  <2>1. PICK kind \in Kinds : Journal(o, kind) /\ pc \in {"await", "fetch"}
    BY <1>3 DEF AckRefused, FetchCanceled, FetchClosed, Fetching, Acked, Kinds
  <2>2. file' = file
    BY <2>1 DEF Journal, durable, Fault
  <2> QED BY <2>1, <2>2
<1> QED BY <1>1, <1>2, <1>3 DEF Appends

\* Every step is one of these.
LEMMA Steps ==
    ASSUME [Next]_vars
    PROVE  \/ ExchangeStep \/ UNCHANGED vars
           \/ Mute
           \/ \E o \in Orders : Appends(o) \/ (SinkTrade(o) /\ UNCHANGED journal)
           \/ SaveOk \/ Crash \/ Restart \/ RestartUnreadable
BY DEF Next, TraderStep, FetchStep, Mute, Appends

LEMMA MirrorStep ==
    ASSUME IInv, IInv', Grows, DownForgets, MirrorIsDisk, [Next]_vars
    PROVE  MirrorIsDisk'
<1> SUFFICES ASSUME JournalTrue', pc' # "down" PROVE jmem' = jdisk'
  BY DEF MirrorIsDisk
<1>0. JournalTrue /\ faults'["journal"] = 0 /\ faults'["replay"] = 0
  BY FaultsBefore DEF JournalTrue
<1>1. CASE ExchangeStep
  BY <1>0, <1>1, ExchangeFrame DEF MirrorIsDisk, journal
<1>2. CASE Mute
  BY <1>0, <1>2, MuteFrame DEF MirrorIsDisk, journal
<1>3. ASSUME NEW o \in Orders, Appends(o)
      PROVE  jmem' = jdisk'
  <2>1. PICK kind \in Kinds : Journal(o, kind)
    BY <1>3, AppendFrame
  <2> QED BY <1>0, <1>3, <2>1, AppendFrame, JournalWrites DEF MirrorIsDisk
<1>4. ASSUME NEW o \in Orders, SinkTrade(o), UNCHANGED journal
      PROVE  jmem' = jdisk'
  BY <1>0, <1>4 DEF SinkTrade, MirrorIsDisk, journal
<1>5. CASE SaveOk
  BY <1>5 DEF SaveOk
<1>6. CASE Crash
  BY <1>6 DEF Crash
<1>7. CASE Restart
  BY <1>7 DEF Restart
<1>8. ~RestartUnreadable
  BY <1>0 DEF RestartUnreadable, Fails, IInv, TypeOK, Faults
<1>9. CASE UNCHANGED vars
  BY <1>0, <1>9 DEF vars, journal, MirrorIsDisk
<1> QED BY <1>1, <1>2, <1>3, <1>4, <1>5, <1>6, <1>7, <1>8, <1>9, Steps

\* Only the creation of an order, its answer and a restart touch order_source.
LEMMA MuteKnown ==
    ASSUME IInv, Mute
    PROVE  /\ mem'.known = mem.known
           /\ \A p \in Orders : status'[p] = "none" => status[p] = "none"
<1> USE DEF IInv, TypeOK, Memory
<1>1. CASE PollOk \/ PollFails \/ SinkDone \/ SinkRaises
  BY <1>1 DEF PollOk, PollFails, SinkDone, SinkRaises, exchange
<1>2. CASE AccountOk \/ AccountFails \/ EmitNothing \/ Graduate \/ NoAck
  BY <1>2 DEF AccountOk, AccountFails, EmitNothing, Graduate, NoAck, Acked, exchange
<1>3. CASE NothingUnknown \/ OpenOrdersFail \/ StillOpen \/ NotOpen \/ FetchEnds \/ Sweep
  BY <1>3 DEF NothingUnknown, OpenOrdersFail, StillOpen, NotOpen, FetchEnds, Sweep,
              Resolving, exchange
<1>4. CASE SaveFails
  BY <1>4 DEF SaveFails, exchange
<1>5. ASSUME NEW o \in Orders, Send(o) \/ FetchNothing(o)
      PROVE  /\ mem'.known = mem.known
             /\ \A p \in Orders : status'[p] = "none" => status[p] = "none"
  BY <1>5 DEF Send, FetchNothing, Fetching, exchange
<1> QED BY <1>1, <1>2, <1>3, <1>4, <1>5 DEF Mute

LEMMA SettleKnown ==
    ASSUME IInv, NEW o \in Orders,
           SinkTrade(o) \/ AckRefused(o) \/ FetchCanceled(o) \/ FetchClosed(o)
    PROVE  UNCHANGED exchange /\ mem'.known = mem.known
<1> USE DEF IInv, TypeOK, Memory
<1>1. CASE SinkTrade(o)
  <2>1. CASE mem.owed[o] > 0
    BY <1>1, <2>1 DEF SinkTrade
  <2>2. CASE ~(mem.owed[o] > 0) /\ ~IsTrend(o)
    BY <1>1, <2>2 DEF SinkTrade
  <2>3. CASE ~(mem.owed[o] > 0) /\ IsTrend(o)
    BY <1>1, <2>3 DEF SinkTrade
  <2> QED BY <2>1, <2>2, <2>3
<1>2. CASE AckRefused(o)
  BY <1>2 DEF AckRefused, Acked
<1>3. CASE FetchCanceled(o)
  BY <1>3 DEF FetchCanceled, Fetching
<1>4. CASE FetchClosed(o)
  BY <1>4 DEF FetchClosed, Fetching
<1> QED BY <1>1, <1>2, <1>3, <1>4

\* An append that settles an order brings no cid in flight.
LEMMA Settles ==
    ASSUME IInv, NEW o \in Orders, Appends(o), ~Create(o), ~AckAccepted(o)
    PROVE  \E kind \in Kinds \ InFlight : Journal(o, kind)
<1> USE DEF Kinds, InFlight
<1>1. CASE SinkTrade(o) /\ ~UNCHANGED journal
  BY <1>1 DEF SinkTrade
<1>2. CASE AckRefused(o)
  BY <1>2 DEF AckRefused
<1>3. CASE FetchCanceled(o)
  BY <1>3 DEF FetchCanceled
<1>4. CASE FetchClosed(o)
  BY <1>4 DEF FetchClosed
<1> QED BY <1>1, <1>2, <1>3, <1>4 DEF Appends

LEMMA IdsStep ==
    ASSUME IInv, IInv', Grows, DownForgets, MirrorIsDisk, IdsKnown, Reserved, [Next]_vars
    PROVE  IdsKnown'
<1>0. (JournalUsed' => JournalUsed) /\ (JournalTrue' => JournalTrue)
  BY FaultsBefore
<1>1. CASE ExchangeStep
  <2>1. UNCHANGED <<journal, mem, file, faults>>
        /\ \A p \in Orders : status'[p] = "none" <=> status[p] = "none"
    BY <1>1, ExchangeFrame DEF durable
  <2> QED BY <1>0, <2>1 DEF IdsKnown, journal
<1>2. CASE Mute
  BY <1>0, <1>2, MuteFrame, MuteKnown DEF IdsKnown, journal
<1>3. ASSUME NEW o \in Orders, Appends(o), ~Create(o), ~AckAccepted(o)
      PROVE  IdsKnown'
  <2>1. PICK kind \in Kinds \ InFlight : Journal(o, kind)
    BY <1>3, Settles
  <2>2. UNCHANGED exchange /\ mem'.known = mem.known /\ file' = file
    BY <1>3, SettleKnown, AppendFrame DEF Appends
  <2>3. /\ jdisk'[o] \in {jdisk[o], kind} /\ jmem'[o] \in {jmem[o], kind}
        /\ \A p \in Orders : p # o => jdisk'[p] = jdisk[p] /\ jmem'[p] = jmem[p]
    BY <2>1, JournalStep DEF IInv
  <2>4. kind \notin {"submit", "open"}
    BY <2>1 DEF InFlight
  <2> QED BY <1>0, <2>2, <2>3, <2>4 DEF IdsKnown, exchange, InFlight
<1>4. ASSUME NEW o \in Orders, SinkTrade(o), UNCHANGED journal
      PROVE  IdsKnown'
  <2>1. file' = file
    BY <1>4 DEF SinkTrade, durable, Journal, Fault
  <2> QED BY <1>0, <1>4, <2>1, SettleKnown DEF IdsKnown, journal, exchange
<1>5. ASSUME NEW o \in Orders, Create(o)
      PROVE  IdsKnown'
  <2>0. mem.known \in [Orders -> SUBSET {"cid", "id"}]
    BY DEF IInv, TypeOK, Memory
  <2>1. /\ mem'.known = [mem.known EXCEPT ![o] = @ \cup {"cid"}]
        /\ status[o] = "none" /\ status' = status
    BY <1>5 DEF Create, IInv, TypeOK, Memory, exchange
  <2>2. Journal(o, "submit") /\ file' = file /\ "submit" \in Kinds
    BY <1>5, AppendFrame DEF Create, Appends, Kinds, InFlight
  <2>3. /\ jdisk'[o] \in {jdisk[o], "submit"} /\ jmem'[o] \in {jmem[o], "submit"}
        /\ \A p \in Orders : p # o => jdisk'[p] = jdisk[p] /\ jmem'[p] = jmem[p]
    BY <2>2, JournalStep DEF IInv
  <2>4. "id" \notin mem'.known[o] /\ "cid" \in mem'.known[o]
    BY <2>0, <2>1 DEF IdsKnown
  <2>5. \A p \in Orders : p # o => mem'.known[p] = mem.known[p]
    BY <2>0, <2>1
  <2> HIDE <2>0
  <2> QED BY <1>0, <2>1, <2>2, <2>3, <2>4, <2>5 DEF IdsKnown
<1>6. ASSUME NEW o \in Orders, AckAccepted(o)
      PROVE  IdsKnown'
  <2>0. mem.known \in [Orders -> SUBSET {"cid", "id"}]
    BY DEF IInv, TypeOK, Memory
  <2>1. /\ mem'.known = [mem.known EXCEPT ![o] = {"cid", "id"}]
        /\ status[o] # "none" /\ status' = status /\ pc = "await" /\ o \in cur
    BY <1>6 DEF AckAccepted, Acked, IInv, TypeOK, Memory, exchange
  <2>2. Journal(o, "open") /\ file' = file /\ "open" \in Kinds
    BY <1>6, AppendFrame DEF AckAccepted, Appends, Kinds, InFlight
  <2>3. /\ jdisk'[o] \in {jdisk[o], "open"} /\ jmem'[o] \in {jmem[o], "open"}
        /\ \A p \in Orders : p # o => jdisk'[p] = jdisk[p] /\ jmem'[p] = jmem[p]
    BY <2>2, JournalStep DEF IInv
  <2>4. faults'["journal"] = 0 => jmem'[o] = "open" /\ jdisk'[o] = "open"
    BY <2>2, JournalWrites DEF IInv, TypeOK
  <2>5. mem'.known[o] = {"cid", "id"} /\ \A p \in Orders : p # o => mem'.known[p] = mem.known[p]
    BY <2>0, <2>1
  <2> QED BY <1>0, <2>1, <2>2, <2>3, <2>4, <2>5 DEF IdsKnown, JournalTrue, JournalUsed
<1>7. CASE SaveOk
  <2>1. /\ file' = mem /\ mem' = mem /\ status' = status /\ faults' = faults /\ pc = "save"
        /\ jmem' = Compacted(jmem) /\ jdisk' = Compacted(jmem)
    BY <1>7 DEF SaveOk, exchange
  <2>2. \A o \in Orders : /\ Compacted(jmem)[o] \in InFlight => jmem[o] = Compacted(jmem)[o]
                          /\ Compacted(jmem)[o] = "open" => jmem[o] = "open"
                          /\ Compacted(jmem)[o] = "submit" => jmem[o] = "submit"
    BY DEF Compacted, Alive, InFlight
  <2>3. JournalTrue' => JournalUsed
    BY <1>0 DEF JournalTrue, JournalUsed
  <2> QED BY <1>0, <2>1, <2>2, <2>3 DEF IdsKnown
<1>8. CASE Crash
  <2>1. /\ mem' = InitMem /\ jmem' = [o \in Orders |-> "absent"] /\ jdisk' = jdisk
        /\ file' \in {file, mem} /\ (pc # "save" => file' = file) /\ status' = status
    BY <1>8 DEF Crash, exchange
  <2>2. JournalTrue /\ pc = "save" => jmem = jdisk
    BY DEF MirrorIsDisk
  <2>3. \A o \in Orders : mem'.known[o] = {} /\ jmem'[o] = "absent"
    BY <2>1 DEF InitMem
  <2>4. JournalTrue' => JournalUsed
    BY <1>0 DEF JournalTrue, JournalUsed
  <2> QED BY <1>0, <2>1, <2>2, <2>3, <2>4 DEF IdsKnown, InFlight
<1>9. CASE Restart
  <2>0. file.known \in [Orders -> SUBSET {"cid", "id"}] /\ file \in Memory
    BY DEF IInv, TypeOK, Memory
  <2>1. /\ jmem' = jdisk /\ jdisk' = jdisk /\ file' = file /\ status' = status
        /\ faults' = faults
    BY <1>9 DEF Restart, exchange, durable
  <2>2. mem'.known = [o \in Orders |->
                      file.known[o] \cup (IF jdisk[o] = "open" THEN {"cid", "id"}
                                          ELSE IF jdisk[o] = "submit" THEN {"cid"} ELSE {})]
    BY <1>9, <2>0 DEF Restart, Memory
  <2>3. JournalUsed' => JournalTrue
    <3>1. faults["replay"] < faults["crash"] /\ faults["replay"] \in Nat /\ faults["crash"] \in Nat
      BY <1>9 DEF Restart, DownForgets, IInv, TypeOK, Faults
    <3> QED BY <1>0, <2>1, <3>1 DEF JournalUsed, JournalTrue
  <2> QED BY <1>0, <2>1, <2>2, <2>3 DEF IdsKnown, InFlight
<1>10. CASE RestartUnreadable
  <2>1. /\ mem' = file /\ file' = file /\ status' = status /\ UNCHANGED journal /\ pc = "down"
    BY <1>10 DEF RestartUnreadable, exchange
  <2>2. \A o \in Orders : jmem'[o] = "absent"
    BY <2>1 DEF DownForgets, journal
  <2> QED BY <1>0, <2>1, <2>2 DEF IdsKnown, InFlight, journal
<1>11. CASE UNCHANGED vars
  BY <1>0, <1>11 DEF vars, exchange, journal, durable, IdsKnown
<1> QED BY <1>1, <1>2, <1>3, <1>4, <1>5, <1>6, <1>7, <1>8, <1>9, <1>10, <1>11, Steps

\* The steps of a tick that have nothing to do with the creation of an order.
LEMMA TickFrame ==
    ASSUME \/ PollOk \/ PollFails \/ SinkDone \/ SinkRaises \/ (\E o \in Orders : SinkTrade(o))
           \/ AccountOk \/ AccountFails \/ EmitNothing \/ Graduate
           \/ NothingUnknown \/ OpenOrdersFail \/ StillOpen \/ NotOpen \/ FetchEnds \/ Sweep
           \/ FetchStep \/ SaveOk \/ SaveFails \/ Restart \/ RestartUnreadable
    PROVE  ~Creating /\ ~Creating' /\ cur' = cur
<1> USE DEF Creating, locals
<1>1. CASE PollOk \/ PollFails \/ SinkDone \/ SinkRaises
  BY <1>1 DEF PollOk, PollFails, SinkDone, SinkRaises
<1>2. ASSUME NEW o \in Orders, SinkTrade(o)
      PROVE  ~Creating /\ ~Creating' /\ cur' = cur
  BY <1>2 DEF SinkTrade
<1>3. CASE AccountOk \/ AccountFails \/ EmitNothing \/ Graduate
  BY <1>3 DEF AccountOk, AccountFails, EmitNothing, Graduate
<1>4. CASE NothingUnknown \/ OpenOrdersFail \/ StillOpen \/ NotOpen \/ FetchEnds \/ Sweep
  BY <1>4 DEF NothingUnknown, OpenOrdersFail, StillOpen, NotOpen, FetchEnds, Sweep, Resolving
<1>5. CASE FetchStep
  BY <1>5 DEF FetchStep, FetchNothing, FetchCanceled, FetchClosed, Fetching
<1>6. CASE SaveOk \/ SaveFails
  BY <1>6 DEF SaveOk, SaveFails
<1>7. CASE Restart \/ RestartUnreadable
  BY <1>7 DEF Restart, RestartUnreadable
<1> QED BY <1>1, <1>2, <1>3, <1>4, <1>5, <1>6, <1>7

LEMMA ReservedStep ==
    ASSUME IInv, Reserved, [Next]_vars
    PROVE  Reserved'
<1>1. CASE ExchangeStep
  BY <1>1, ExchangeFrame DEF Reserved, Creating, journal, locals
<1>2. CASE \/ PollOk \/ PollFails \/ SinkDone \/ SinkRaises \/ (\E o \in Orders : SinkTrade(o))
           \/ AccountOk \/ AccountFails \/ EmitNothing \/ Graduate
           \/ NothingUnknown \/ OpenOrdersFail \/ StillOpen \/ NotOpen \/ FetchEnds \/ Sweep
           \/ FetchStep \/ SaveOk \/ SaveFails \/ Restart \/ RestartUnreadable
  BY <1>2, TickFrame DEF Reserved
<1>3. ASSUME NEW o \in Orders, Create(o)
      PROVE  Reserved'
  <2>1. /\ mem \in Memory /\ ~SlotTaken(mem)
        /\ mem' = [mem EXCEPT !.known[o] = @ \cup {"cid"}, !.pending = (o \notin doubt')]
    BY <1>3 DEF Create, IInv, TypeOK
  <2>2. mem'.unknown = FALSE /\ mem'.pending = (o \notin doubt')
    BY <2>1 DEF Memory, SlotTaken
  <2>3. Journal(o, "submit") /\ "submit" \in Kinds
    BY <1>3 DEF Create, Kinds, InFlight
  <2>4. o \notin doubt' => jdisk'[o] = "submit" /\ jmem'[o] = "submit"
    BY <2>3, JournalStep DEF IInv
  <2>5. IF o \in doubt' THEN pc' = "resolve" /\ cur' = {} ELSE pc' = "submitted" /\ cur' = {o}
    BY <1>3 DEF Create
  <2> QED BY <2>2, <2>4, <2>5 DEF Reserved, Creating, InFlight
<1>4. ASSUME NEW o \in Orders, Send(o)
      PROVE  Reserved'
  BY <1>4 DEF Send, Reserved, Creating, journal, locals
<1>5. ASSUME NEW o \in Orders, AckAccepted(o) \/ AckRefused(o)
      PROVE  Reserved'
  BY <1>5 DEF AckAccepted, AckRefused, Acked, Reserved, Creating
<1>6. CASE NoAck
  BY <1>6 DEF NoAck, Acked, Reserved, Creating
<1>7. CASE Crash
  BY <1>7 DEF Crash, Reserved, Creating
<1>8. CASE UNCHANGED vars
  BY <1>8 DEF vars, journal, locals, Reserved, Creating
<1> QED BY <1>1, <1>2, <1>3, <1>4, <1>5, <1>6, <1>7, <1>8 DEF Next, TraderStep

LEMMA FetchAliveStep ==
    ASSUME IInv, FetchAlive, [Next]_vars
    PROVE  FetchAlive'
<1> USE DEF FetchAlive, Alive
<1>1. CASE ExchangeStep
  BY <1>1, ExchangeFrame DEF journal, locals
<1>2. CASE \/ PollOk \/ PollFails \/ SinkDone \/ SinkRaises
           \/ AccountOk \/ AccountFails \/ EmitNothing \/ Graduate \/ NoAck
  BY <1>2 DEF PollOk, PollFails, SinkDone, SinkRaises, AccountOk, AccountFails, EmitNothing,
              Graduate, NoAck, Acked, journal, locals
<1>3. ASSUME NEW o \in Orders,
             SinkTrade(o) \/ Create(o) \/ Send(o) \/ AckAccepted(o) \/ AckRefused(o)
      PROVE  FetchAlive'
  BY <1>3 DEF SinkTrade, Create, Send, AckAccepted, AckRefused, Acked, locals
<1>4. CASE NothingUnknown \/ OpenOrdersFail \/ StillOpen \/ NotOpen \/ FetchEnds \/ Sweep
  BY <1>4 DEF NothingUnknown, OpenOrdersFail, StillOpen, NotOpen, FetchEnds, Sweep,
              Resolving, journal, locals
<1>5. ASSUME NEW o \in Orders, FetchNothing(o) \/ FetchCanceled(o) \/ FetchClosed(o)
      PROVE  FetchAlive'
  <2>1. todo' = todo \ {o} /\ pc' = pc
    BY <1>5 DEF FetchNothing, FetchCanceled, FetchClosed, Fetching
  <2>2. CASE FetchNothing(o)
    BY <2>1, <2>2 DEF FetchNothing, journal
  <2>3. CASE FetchCanceled(o) \/ FetchClosed(o)
    <3>1. PICK kind \in Kinds : Journal(o, kind)
      BY <2>3 DEF FetchCanceled, FetchClosed, Kinds
    <3>2. \A p \in Orders : p # o => jmem'[p] = jmem[p]
      BY <3>1, JournalStep DEF IInv
    <3> QED BY <2>1, <3>2
  <2> QED BY <1>5, <2>2, <2>3
<1>6. CASE SaveOk \/ SaveFails
  BY <1>6 DEF SaveOk, SaveFails, locals
<1>7. CASE Crash
  BY <1>7 DEF Crash
<1>8. CASE Restart \/ RestartUnreadable
  BY <1>8 DEF Restart, RestartUnreadable, locals
<1>9. CASE UNCHANGED vars
  BY <1>9 DEF vars, journal, locals
<1> QED BY <1>1, <1>2, <1>3, <1>4, <1>5, <1>6, <1>7, <1>8, <1>9 DEF Next, TraderStep, FetchStep

LEMMA BatchStep ==
    ASSUME IInv, IInv', BatchIsNew, [Next]_vars
    PROVE  BatchIsNew'
<1>0. /\ \A o \in Orders : /\ shown[o] \in Int /\ shown'[o] \in Int
                           /\ mem.seen[o] \in Int /\ mem'.seen[o] \in Int
                           /\ batch[o] \in Nat /\ batch'[o] \in Nat
                           /\ mem.seen[o] <= shown[o] /\ file.seen[o] <= shown[o]
                           /\ batch[o] <= shown[o]
      /\ batch \in [Orders -> 0 .. Qty]
  BY DEF IInv, TypeOK, Memory, FeedOrdered
<1>1. mem \in Memory
  BY DEF IInv, TypeOK
<1>2. CASE ExchangeStep
  <2>1. UNCHANGED <<mem, batch, pc>> /\ \A p \in Orders : shown[p] <= shown'[p]
    BY <1>2, ExchangeFrame DEF locals
  <2> QED BY <1>0, <2>1 DEF BatchIsNew
<1>3. CASE PollOk
  BY <1>0, <1>3 DEF PollOk, BatchIsNew, exchange
<1>4. CASE PollFails
  BY <1>4 DEF PollFails, BatchIsNew, exchange, locals
<1>5. CASE SinkDone
  <2>1. mem'.seen = shown /\ shown' = shown /\ batch' = batch /\ batch = NoOrder
    BY <1>5 DEF SinkDone, exchange, locals, IInv, TypeOK, Memory
  <2> QED BY <1>0, <2>1 DEF BatchIsNew, NoOrder
<1>6. CASE SinkRaises
  BY <1>0, <1>6 DEF SinkRaises, BatchIsNew, exchange, NoOrder
<1>7. ASSUME NEW o \in Orders, SinkTrade(o)
      PROVE  BatchIsNew'
  <2>1. mem'.seen = mem.seen
    <3>1. mem \in Memory
      BY DEF IInv, TypeOK
    <3>2. CASE mem.owed[o] > 0
      BY <1>7, <3>1, <3>2 DEF SinkTrade, Memory
    <3>3. CASE ~(mem.owed[o] > 0) /\ ~IsTrend(o)
      BY <1>7, <3>3 DEF SinkTrade
    <3>4. CASE ~(mem.owed[o] > 0) /\ IsTrend(o)
      BY <1>7, <3>1, <3>4 DEF SinkTrade, Memory
    <3> QED BY <3>2, <3>3, <3>4
  <2>2. pc' = "sink" /\ shown' = shown /\ batch' = [batch EXCEPT ![o] = @ - 1]
    BY <1>7 DEF SinkTrade, exchange
  <2> QED BY <1>0, <2>1, <2>2 DEF BatchIsNew
<1>8. ASSUME mem'.seen = mem.seen, UNCHANGED <<shown, batch>>, pc # "sink"
      PROVE  BatchIsNew'
  BY <1>8 DEF BatchIsNew
<1>9. CASE AccountOk \/ AccountFails \/ EmitNothing \/ Graduate \/ NoAck
  <2>1. mem'.seen = mem.seen
    BY <1>9, <1>1 DEF AccountOk, AccountFails, EmitNothing, Graduate, NoAck, Memory
  <2> QED BY <1>8, <1>9, <2>1 DEF AccountOk, AccountFails, EmitNothing, Graduate, NoAck, Acked,
                                  exchange, locals
<1>10. ASSUME NEW o \in Orders, Create(o) \/ Send(o) \/ AckAccepted(o) \/ AckRefused(o)
      PROVE  BatchIsNew'
  <2>1. mem'.seen = mem.seen
    BY <1>10, <1>1 DEF Create, Send, AckAccepted, AckRefused, Memory
  <2> QED BY <1>8, <1>10, <2>1 DEF Create, Send, AckAccepted, AckRefused, Acked, exchange, locals
<1>11. CASE NothingUnknown \/ OpenOrdersFail \/ StillOpen \/ NotOpen \/ FetchEnds \/ Sweep
  <2>1. mem'.seen = mem.seen
    BY <1>1, <1>11 DEF NothingUnknown, OpenOrdersFail, StillOpen, NotOpen, FetchEnds, Sweep,
                        Memory
  <2> QED BY <1>8, <1>11, <2>1 DEF NothingUnknown, OpenOrdersFail, StillOpen, NotOpen, FetchEnds,
                                   Sweep, Resolving, exchange, locals
<1>12. CASE FetchStep
  BY <1>12 DEF FetchStep, FetchNothing, FetchCanceled, FetchClosed, Fetching, BatchIsNew,
               exchange, IInv, TypeOK, Memory
<1>13. CASE SaveOk \/ SaveFails
  BY <1>13 DEF SaveOk, SaveFails, BatchIsNew, exchange, locals
<1>14. CASE Crash
  <2>1. mem' = InitMem /\ batch' = NoOrder /\ shown' = shown
    BY <1>14 DEF Crash, exchange
  <2>2. \A o \in Orders : mem'.seen[o] = 0 /\ batch'[o] = 0 /\ 0 <= shown[o]
    BY <2>1 DEF InitMem, NoOrder, IInv, TypeOK
  <2> QED BY <2>1, <2>2 DEF BatchIsNew
<1>15. CASE Restart \/ RestartUnreadable
  <2>1. mem'.seen = file.seen /\ UNCHANGED <<shown, batch>> /\ pc = "down" /\ pc' # "sink"
    BY <1>15 DEF Restart, RestartUnreadable, exchange, locals, IInv, TypeOK, Memory
  <2> QED BY <1>0, <2>1 DEF BatchIsNew, NoOrder
<1>16. CASE UNCHANGED vars
  BY <1>16 DEF vars, exchange, locals, BatchIsNew
<1> QED BY <1>2, <1>3, <1>4, <1>5, <1>6, <1>7, <1>8, <1>9, <1>10, <1>11, <1>12, <1>13, <1>14,
           <1>15, <1>16 DEF Next, TraderStep

-----------------------------------------------------------------------------
(* What the bucket holds *)

Units == Orders \X (1 .. Qty)

\* The trades of an order that were handed to the sink.
Handed(o) == IF pc = "sink" THEN shown[o] - batch[o] ELSE mem.seen[o]

\* The units of an order that may have been booked: none while the order is in
\* flight in the journal, then the trades the sink has had and those it will skip
\* because fetch_order told of them.
BookedUnits ==
    {u \in Units : /\ jmem[u[1]] \notin InFlight
                   /\ u[2] <= filled[u[1]]
                   /\ u[2] <= Handed(u[1]) + mem.owed[u[1]]}

FileUnits ==
    {u \in Units : /\ jdisk[u[1]] \notin InFlight
                   /\ u[2] <= filled[u[1]]
                   /\ u[2] <= file.seen[u[1]] + file.owed[u[1]]}

FilledUnits == {u \in Units : u[2] <= filled[u[1]]}

Backed ==
    faults["sink"] = 0 /\ JournalUsed =>
        /\ pc # "down" => mem.bucket <= Cardinality(BookedUnits)
        /\ file.bucket <= Cardinality(FilledUnits)
        /\ faults["replay"] = 0 => file.bucket <= Cardinality(FileUnits)

\* Counting units
LEMMA UnitsFinite == IsFiniteSet(Units)
<1>1. 1 \in Int /\ Qty \in Int
  BY QuantitiesNat
<1>2. IsFiniteSet(1 .. Qty)
  BY <1>1, FS_Interval
<1> QED BY <1>2, OrdersFinite, FS_Product DEF Units

LEMMA MoreUnits ==
    ASSUME NEW S, NEW T, S \subseteq T, T \subseteq Units
    PROVE  /\ Cardinality(S) \in Nat /\ Cardinality(T) \in Nat
           /\ Cardinality(S) <= Cardinality(T)
<1>1. IsFiniteSet(T)
  BY UnitsFinite, FS_Subset
<1>2. IsFiniteSet(S) /\ Cardinality(S) <= Cardinality(T)
  BY <1>1, FS_Subset
<1> QED BY <1>1, <1>2, FS_CardinalityType

LEMMA OneMoreUnit ==
    ASSUME NEW S, NEW T, S \subseteq T, T \subseteq Units, NEW u \in T, u \notin S
    PROVE  Cardinality(S) + 1 <= Cardinality(T)
<1>1. IsFiniteSet(S)
  BY UnitsFinite, FS_Subset
<1>2. Cardinality(S \cup {u}) = Cardinality(S) + 1
  BY <1>1, FS_AddElement
<1>3. Cardinality(S \cup {u}) <= Cardinality(T)
  <2>1. S \cup {u} \subseteq T
    OBVIOUS
  <2> QED BY <2>1, MoreUnits
<1> QED BY <1>2, <1>3

\* All the units of one order.
LEMMA OrderUnits ==
    ASSUME NEW S, NEW T, S \subseteq T, T \subseteq Units, NEW o \in Orders, NEW n \in Nat,
           \A u \in S : u[1] # o,
           \A k \in 1 .. n : <<o, k>> \in T
    PROVE  Cardinality(S) + n <= Cardinality(T)
<1> DEFINE N == {o} \X (1 .. n)
<1>1. IsFiniteSet(N) /\ Cardinality(N) = n
  <2>1. IsFiniteSet({o}) /\ Cardinality({o}) = 1
    BY FS_Singleton
  <2>2. IsFiniteSet(1 .. n) /\ Cardinality(1 .. n) = n
    BY FS_Interval
  <2>3. IsFiniteSet(N) /\ Cardinality(N) = Cardinality({o}) * Cardinality(1 .. n)
    BY <2>1, <2>2, FS_Product
  <2> QED BY <2>1, <2>2, <2>3
<1>2. IsFiniteSet(S) /\ Cardinality(S) \in Nat
  BY UnitsFinite, FS_Subset, FS_CardinalityType
<1>3. S \cap N = {}
  OBVIOUS
<1>4. S \cup N \subseteq T
  <2>1. ASSUME NEW u \in N PROVE u \in T
    <3>1. u[1] = o /\ u[2] \in 1 .. n /\ u = <<u[1], u[2]>>
      BY <2>1
    <3> QED BY <3>1
  <2> QED BY <2>1
<1> HIDE DEF N
<1>5. Cardinality(S \cup N) = Cardinality(S) + n
  <2>1. Cardinality(S \cup N) = Cardinality(S) + Cardinality(N) - Cardinality(S \cap N)
    BY <1>1, <1>2, FS_Union
  <2>2. Cardinality(S \cap N) = 0
    BY <1>3, FS_EmptySet
  <2> QED BY <1>1, <1>2, <2>1, <2>2
<1>6. Cardinality(S \cup N) <= Cardinality(T)
  BY <1>4, MoreUnits
<1> QED BY <1>5, <1>6

LEMMA FilledIsQty == OverlayQty = Cardinality(FilledUnits)
BY DEF OverlayQty, FilledUnits, Units

\* A step that books nothing, and takes no booked unit of an order back.
LEMMA NothingBooked ==
    ASSUME IInv, IInv', Grows, Backed, file' = file, mem'.bucket <= mem.bucket,
           pc # "down" \/ pc' = "down",
           \A p \in Orders :
               /\ filled[p] <= filled'[p]
               /\ filled'[p] > 0 /\ jmem[p] \notin InFlight => jmem'[p] \notin InFlight
               /\ filled'[p] > 0 /\ jdisk[p] \notin InFlight => jdisk'[p] \notin InFlight
               /\ Handed(p) + mem.owed[p] <= Handed(p)' + mem'.owed[p]
    PROVE  Backed'
<1>0. /\ \A p \in Orders : /\ filled[p] \in Int /\ filled'[p] \in Int
                           /\ mem.seen[p] \in Int /\ mem'.seen[p] \in Int
                           /\ shown[p] \in Int /\ shown'[p] \in Int
                           /\ batch[p] \in Int /\ batch'[p] \in Int
                           /\ mem.owed[p] \in Int /\ mem'.owed[p] \in Int
      /\ mem.bucket \in Nat /\ mem'.bucket \in Nat /\ file.bucket \in Nat
  BY DEF IInv, TypeOK, Memory
<1>1. /\ faults'["sink"] = 0 /\ JournalUsed' => faults["sink"] = 0 /\ JournalUsed
      /\ faults'["replay"] = 0 => faults["replay"] = 0
  BY FaultsBefore, ReplayGrows
<1>2. BookedUnits \subseteq BookedUnits' /\ BookedUnits' \subseteq Units
  <2>1. ASSUME NEW u \in BookedUnits PROVE u \in BookedUnits'
    <3>1. /\ u \in Units /\ u[1] \in Orders /\ u[2] \in Int /\ u[2] > 0
          /\ jmem[u[1]] \notin InFlight /\ u[2] <= filled[u[1]]
          /\ u[2] <= Handed(u[1]) + mem.owed[u[1]]
      BY QuantitiesNat DEF BookedUnits, Units
    <3>2. Handed(u[1]) \in Int /\ Handed(u[1])' \in Int
      BY <1>0, <3>1 DEF Handed
    <3>3. /\ u[2] <= filled'[u[1]] /\ jmem'[u[1]] \notin InFlight
          /\ u[2] <= Handed(u[1])' + mem'.owed[u[1]]
      BY <1>0, <3>1, <3>2
    <3> QED BY <3>1, <3>3 DEF BookedUnits
  <2> QED BY <2>1 DEF BookedUnits
<1>3. FilledUnits \subseteq FilledUnits' /\ FilledUnits' \subseteq Units
  <2>1. ASSUME NEW u \in FilledUnits PROVE u \in FilledUnits'
    BY <1>0, QuantitiesNat DEF FilledUnits, Units
  <2> QED BY <2>1 DEF FilledUnits
<1>4. FileUnits \subseteq FileUnits' /\ FileUnits' \subseteq Units
  <2>1. ASSUME NEW u \in FileUnits PROVE u \in FileUnits'
    <3>1. /\ u \in Units /\ u[1] \in Orders /\ u[2] \in Int /\ u[2] > 0
          /\ jdisk[u[1]] \notin InFlight /\ u[2] <= filled[u[1]]
          /\ u[2] <= file.seen[u[1]] + file.owed[u[1]]
      BY QuantitiesNat DEF FileUnits, Units
    <3>2. u[2] <= filled'[u[1]] /\ jdisk'[u[1]] \notin InFlight
      BY <1>0, <3>1
    <3> QED BY <3>1, <3>2 DEF FileUnits
  <2> QED BY <2>1 DEF FileUnits
<1>5. /\ Cardinality(BookedUnits) \in Nat /\ Cardinality(BookedUnits') \in Nat
      /\ Cardinality(BookedUnits) <= Cardinality(BookedUnits')
  BY <1>2, MoreUnits
<1>6. /\ Cardinality(FilledUnits) \in Nat /\ Cardinality(FilledUnits') \in Nat
      /\ Cardinality(FilledUnits) <= Cardinality(FilledUnits')
  BY <1>3, MoreUnits
<1>7. /\ Cardinality(FileUnits) \in Nat /\ Cardinality(FileUnits') \in Nat
      /\ Cardinality(FileUnits) <= Cardinality(FileUnits')
  BY <1>4, MoreUnits
<1>8. SUFFICES ASSUME faults'["sink"] = 0, JournalUsed'
               PROVE  /\ pc' # "down" => mem'.bucket <= Cardinality(BookedUnits')
                      /\ file'.bucket <= Cardinality(FilledUnits')
                      /\ faults'["replay"] = 0 => file'.bucket <= Cardinality(FileUnits')
  BY DEF Backed
<1>9. /\ pc # "down" => mem.bucket <= Cardinality(BookedUnits)
      /\ file.bucket <= Cardinality(FilledUnits)
      /\ faults'["replay"] = 0 => file.bucket <= Cardinality(FileUnits)
  BY <1>1, <1>8 DEF Backed
<1>10. pc' # "down" => mem'.bucket <= Cardinality(BookedUnits')
  BY <1>0, <1>5, <1>9
<1>11. file'.bucket <= Cardinality(FilledUnits')
  BY <1>0, <1>6, <1>9
<1>12. faults'["replay"] = 0 => file'.bucket <= Cardinality(FileUnits')
  BY <1>0, <1>7, <1>9
<1> QED BY <1>10, <1>11, <1>12

\* The file holds no more than the memory it was written from.
LEMMA BookedFilled ==
    ASSUME IInv
    PROVE  /\ BookedUnits \subseteq FilledUnits /\ FileUnits \subseteq FilledUnits
           /\ Cardinality(BookedUnits) <= Cardinality(FilledUnits)
           /\ Cardinality(BookedUnits) \in Nat /\ Cardinality(FilledUnits) \in Nat
<1>1. /\ BookedUnits \subseteq FilledUnits /\ FileUnits \subseteq FilledUnits
      /\ FilledUnits \subseteq Units
  BY DEF BookedUnits, FileUnits, FilledUnits
<1> QED BY <1>1, MoreUnits

\* A trade of the batch is booked once: its unit was not booked before it.
LEMMA SinkTradeBacked ==
    ASSUME IInv, IInv', Grows, IdsKnown, BatchIsNew, Backed, NEW o \in Orders, SinkTrade(o)
    PROVE  Backed'
<1>0. /\ \A p \in Orders : /\ filled[p] \in Nat /\ shown[p] \in Nat /\ batch[p] \in Nat
                           /\ mem.seen[p] \in Nat /\ mem.owed[p] \in Nat
                           /\ batch[p] <= shown[p] /\ shown[p] <= filled[p] /\ filled[p] <= Qty
      /\ mem.bucket \in Nat /\ batch \in [Orders -> 0 .. Qty]
      /\ mem.owed \in [Orders -> 0 .. Qty] /\ mem \in Memory /\ Qty \in Nat
  BY QuantitiesNat DEF IInv, TypeOK, Memory, FeedOrdered
<1>1. /\ pc = "sink" /\ pc' = "sink" /\ batch[o] > 0 /\ batch' = [batch EXCEPT ![o] = @ - 1]
      /\ UNCHANGED exchange
  BY DEF SinkTrade
<1>2. file' = file
  BY DEF SinkTrade, durable, Journal, Fault
<1>3. \A p \in Orders : /\ jmem[p] \notin InFlight => jmem'[p] \notin InFlight
                        /\ jdisk[p] \notin InFlight => jdisk'[p] \notin InFlight
  <2>1. CASE Journal(o, "filled")
    <3>1. "filled" \in Kinds /\ "filled" \notin InFlight
      BY DEF Kinds, InFlight
    <3> QED BY <2>1, <3>1, JournalStep DEF IInv
  <2>2. CASE UNCHANGED journal
    BY <2>2 DEF journal
  <2> QED BY <2>1, <2>2 DEF SinkTrade
<1>4. \A p \in Orders : /\ Handed(p) \in Int
                        /\ Handed(p)' = IF p = o THEN Handed(p) + 1 ELSE Handed(p)
  BY <1>0, <1>1 DEF Handed, exchange
<1>5. CASE mem.owed[o] > 0
  <2>1. mem' = [mem EXCEPT !.owed[o] = @ - 1]
    BY <1>5 DEF SinkTrade
  <2>2. mem'.bucket = mem.bucket /\ mem'.owed = [mem.owed EXCEPT ![o] = @ - 1]
    BY <1>0, <2>1 DEF Memory
  <2>3. \A p \in Orders : Handed(p) + mem.owed[p] <= Handed(p)' + mem'.owed[p]
    BY <1>0, <1>4, <2>2
  <2> QED BY <1>0, <1>1, <1>2, <1>3, <2>2, <2>3, NothingBooked DEF exchange
<1>6. CASE ~(mem.owed[o] > 0) /\ ~IsTrend(o)
  <2>1. mem' = mem
    BY <1>6 DEF SinkTrade
  <2>2. \A p \in Orders : Handed(p) + mem.owed[p] <= Handed(p)' + mem'.owed[p]
    BY <1>0, <1>4, <2>1
  <2> QED BY <1>0, <1>1, <1>2, <1>3, <2>1, <2>2, NothingBooked DEF exchange
<1>7. CASE ~(mem.owed[o] > 0) /\ IsTrend(o)
  <2>1. mem' = [mem EXCEPT !.bucket = @ + 1, !.pending = FALSE, !.unknown = FALSE]
    BY <1>7 DEF SinkTrade
  <2>2. mem'.bucket = mem.bucket + 1 /\ mem'.owed = mem.owed
    BY <1>0, <2>1 DEF Memory
  <2> SUFFICES ASSUME faults'["sink"] = 0, JournalUsed'
               PROVE  /\ mem'.bucket <= Cardinality(BookedUnits')
                      /\ file'.bucket <= Cardinality(FilledUnits')
                      /\ faults'["replay"] = 0 => file'.bucket <= Cardinality(FileUnits')
    BY DEF Backed
  <2>3. /\ faults["sink"] = 0 /\ JournalUsed /\ faults'["journal"] = 0
        /\ faults'["replay"] = 0 => faults["replay"] = 0
    BY FaultsBefore, ReplayGrows DEF JournalUsed
  <2>4. /\ mem.bucket <= Cardinality(BookedUnits)
        /\ file.bucket <= Cardinality(FilledUnits)
        /\ faults["replay"] = 0 => file.bucket <= Cardinality(FileUnits)
    BY <1>1, <2>3 DEF Backed
  <2>5. jmem'[o] \notin InFlight
    <3>1. CASE InJournal(o)
      <4>1. Journal(o, "filled")
        BY <3>1 DEF SinkTrade
      <4>2. jmem'[o] = "filled"
        BY <2>3, <4>1, JournalWrites DEF IInv, TypeOK
      <4> QED BY <4>2 DEF InFlight
    <3>2. CASE ~InJournal(o)
      <4>1. CASE jmem[o] \in InFlight
        <5>1. "cid" \notin Echo /\ jmem[o] = "submit"
          BY <3>2, <4>1 DEF InJournal, InFlight
        <5>2. "id" \in mem.known[o]
          BY <1>7, <5>1, EchoSome DEF IsTrend
        <5> QED BY <2>3, <5>1, <5>2 DEF IdsKnown
      <4> QED BY <1>3, <4>1
    <3> QED BY <3>1, <3>2
  <2> DEFINE k == Handed(o) + 1
             u == <<o, k>>
  <2>6. k \in 1 .. Qty /\ k <= filled[o] /\ k = Handed(o)' + mem'.owed[o]
    BY <1>0, <1>1, <1>4, <1>7, <2>2 DEF Handed
  <2>7. u \in BookedUnits'
    BY <1>1, <2>5, <2>6 DEF BookedUnits, Units, exchange
  <2>8. u \notin BookedUnits
    <3>1. mem.owed[o] = 0 /\ Handed(o) \in Int
      BY <1>0, <1>4, <1>7
    <3> QED BY <3>1 DEF BookedUnits
  <2>9. BookedUnits \subseteq BookedUnits'
    <3>1. ASSUME NEW v \in BookedUnits PROVE v \in BookedUnits'
      <4>1. v \in Units /\ v[1] \in Orders /\ v[2] \in Int /\ jmem[v[1]] \notin InFlight
            /\ v[2] <= filled[v[1]] /\ v[2] <= Handed(v[1]) + mem.owed[v[1]]
        BY QuantitiesNat DEF BookedUnits, Units
      <4>2. v[2] <= Handed(v[1])' + mem'.owed[v[1]]
        BY <1>0, <1>4, <2>2, <4>1
      <4> QED BY <1>1, <1>3, <4>1, <4>2 DEF BookedUnits, exchange
    <3> QED BY <3>1
  <2> HIDE DEF u, k
  <2>10. BookedUnits' \subseteq Units
    BY DEF BookedUnits
  <2>11. Cardinality(BookedUnits) + 1 <= Cardinality(BookedUnits')
    BY <2>7, <2>8, <2>9, <2>10, OneMoreUnit
  <2>12. Cardinality(BookedUnits) \in Nat /\ Cardinality(BookedUnits') \in Nat
    BY <2>9, <2>10, MoreUnits
  <2>13. mem'.bucket <= Cardinality(BookedUnits')
    BY <1>0, <2>2, <2>4, <2>11, <2>12
  <2>14. FilledUnits' = FilledUnits
    BY <1>1 DEF FilledUnits, exchange
  <2>15. FileUnits \subseteq FileUnits' /\ FileUnits' \subseteq Units
    BY <1>1, <1>2, <1>3 DEF FileUnits, exchange, Units
  <2>16. /\ Cardinality(FileUnits) \in Nat /\ Cardinality(FileUnits') \in Nat
         /\ Cardinality(FileUnits) <= Cardinality(FileUnits')
    BY <2>15, MoreUnits
  <2>17. file.bucket \in Nat
    BY DEF IInv, TypeOK, Memory
  <2> QED BY <1>2, <2>3, <2>4, <2>13, <2>14, <2>16, <2>17
<1> QED BY <1>5, <1>6, <1>7

\* What fetch_order tells is booked for an order of which nothing was booked.
LEMMA FetchClosedBacked ==
    ASSUME IInv, IInv', Grows, FetchAlive, BatchIsNew, Backed, NEW o \in Orders, FetchClosed(o)
    PROVE  Backed'
<1>0. /\ \A p \in Orders : /\ filled[p] \in Nat /\ mem.seen[p] \in Nat /\ mem.owed[p] \in Nat
                           /\ filled[p] <= Qty
      /\ mem.bucket \in Nat /\ mem \in Memory /\ Qty \in Nat /\ file.bucket \in Nat
  BY QuantitiesNat DEF IInv, TypeOK, Memory
<1>1. /\ pc = "fetch" /\ pc' = "fetch" /\ o \in todo /\ UNCHANGED exchange
      /\ mem' = [mem EXCEPT !.bucket = @ + filled[o], !.pending = FALSE, !.owed[o] = filled[o]]
      /\ Journal(o, "filled")
  BY DEF FetchClosed, Fetching
<1>2. mem'.bucket = mem.bucket + filled[o] /\ mem'.seen = mem.seen
      /\ mem'.owed = [mem.owed EXCEPT ![o] = filled[o]]
  BY <1>0, <1>1 DEF Memory
<1>3. file' = file
  BY <1>1 DEF Journal, durable, Fault
<1>4. jmem[o] \in InFlight
  BY <1>1 DEF FetchAlive, Alive
<1>5. \A p \in Orders : /\ jmem[p] \notin InFlight => jmem'[p] \notin InFlight
                        /\ jdisk[p] \notin InFlight => jdisk'[p] \notin InFlight
  <2>1. "filled" \in Kinds /\ "filled" \notin InFlight
    BY DEF Kinds, InFlight
  <2> QED BY <1>1, <2>1, JournalStep DEF IInv
<1> SUFFICES ASSUME faults'["sink"] = 0, JournalUsed'
             PROVE  /\ mem'.bucket <= Cardinality(BookedUnits')
                    /\ file'.bucket <= Cardinality(FilledUnits')
                    /\ faults'["replay"] = 0 => file'.bucket <= Cardinality(FileUnits')
  BY DEF Backed
<1>6. /\ faults["sink"] = 0 /\ JournalUsed /\ faults'["journal"] = 0
      /\ faults'["replay"] = 0 => faults["replay"] = 0
  BY FaultsBefore, ReplayGrows DEF JournalUsed
<1>7. /\ mem.bucket <= Cardinality(BookedUnits)
      /\ file.bucket <= Cardinality(FilledUnits)
      /\ faults["replay"] = 0 => file.bucket <= Cardinality(FileUnits)
  BY <1>1, <1>6 DEF Backed
<1>8. jmem'[o] = "filled" /\ "filled" \notin InFlight
  BY <1>1, <1>6, JournalWrites DEF IInv, TypeOK, InFlight
<1>9. \A p \in Orders : Handed(p) = mem.seen[p] /\ Handed(p)' = mem.seen[p]
  BY <1>1, <1>2 DEF Handed
<1>10. BookedUnits \subseteq BookedUnits' /\ BookedUnits' \subseteq Units
       /\ \A v \in BookedUnits : v[1] # o
  <2>1. ASSUME NEW v \in BookedUnits PROVE v[1] # o /\ v \in BookedUnits'
    <3>1. v \in Units /\ v[1] \in Orders /\ jmem[v[1]] \notin InFlight
          /\ v[2] <= filled[v[1]] /\ v[2] <= mem.seen[v[1]] + mem.owed[v[1]]
      BY <1>9 DEF BookedUnits, Units
    <3>2. v[1] # o
      BY <1>4, <3>1
    <3>3. mem'.owed[v[1]] = mem.owed[v[1]]
      BY <1>0, <1>2, <3>1, <3>2 DEF Memory
    <3> QED BY <1>1, <1>5, <1>9, <3>1, <3>2, <3>3 DEF BookedUnits, exchange
  <2> QED BY <2>1 DEF BookedUnits
<1>11. \A k \in 1 .. filled[o] : <<o, k>> \in BookedUnits'
  <2>1. TAKE k \in 1 .. filled[o]
  <2>2. k \in 1 .. Qty /\ k <= filled[o]
    BY <1>0
  <2>3. k <= Handed(o)' + mem'.owed[o]
    <3>1. mem'.owed[o] = filled[o]
      BY <1>0, <1>2 DEF Memory
    <3> QED BY <1>0, <1>9, <2>2, <3>1
  <2> QED BY <1>1, <1>8, <2>2, <2>3 DEF BookedUnits, Units, exchange
<1>12. Cardinality(BookedUnits) + filled[o] <= Cardinality(BookedUnits')
  BY <1>0, <1>10, <1>11, OrderUnits
<1>13. Cardinality(BookedUnits) \in Nat /\ Cardinality(BookedUnits') \in Nat
  BY <1>10, MoreUnits
<1>14. mem'.bucket <= Cardinality(BookedUnits')
  BY <1>0, <1>2, <1>7, <1>12, <1>13
<1>15. FilledUnits' = FilledUnits
  BY <1>1 DEF FilledUnits, exchange
<1>16. FileUnits \subseteq FileUnits' /\ FileUnits' \subseteq Units
  BY <1>1, <1>3, <1>5 DEF FileUnits, exchange, Units
<1>17. /\ Cardinality(FileUnits) \in Nat /\ Cardinality(FileUnits') \in Nat
       /\ Cardinality(FileUnits) <= Cardinality(FileUnits')
  BY <1>16, MoreUnits
<1> QED BY <1>0, <1>3, <1>6, <1>7, <1>14, <1>15, <1>17

\* The steps that leave the journal alone book nothing, unless the sink raises.
LEMMA MuteBooks ==
    ASSUME IInv, IInv', Mute, ~SinkRaises
    PROVE  /\ filled' = filled /\ mem'.bucket <= mem.bucket
           /\ \A p \in Orders : Handed(p) + mem.owed[p] <= Handed(p)' + mem'.owed[p]
<1> DEFINE Books == /\ filled' = filled /\ mem'.bucket <= mem.bucket
                    /\ \A p \in Orders : Handed(p) + mem.owed[p] <= Handed(p)' + mem'.owed[p]
<1>0. /\ \A p \in Orders : /\ mem.seen[p] \in Int /\ mem.owed[p] \in Int
                           /\ shown[p] \in Int /\ batch[p] \in Int
      /\ mem.bucket \in Int /\ mem \in Memory
  BY DEF IInv, TypeOK, Memory
<1>1. ASSUME pc # "sink", pc' # "sink", filled' = filled, mem'.bucket <= mem.bucket,
             mem'.seen = mem.seen, mem'.owed = mem.owed
      PROVE  Books
  BY <1>0, <1>1 DEF Handed
<1>2. CASE PollOk
  <2>1. /\ mem' = mem /\ UNCHANGED <<filled, shown>> /\ pc = "poll"
        /\ batch' = [o \in Orders |-> shown[o] - mem.seen[o]] /\ pc' \in {"account", "sink"}
    BY <1>2 DEF PollOk, exchange
  <2>2. \A p \in Orders : Handed(p) = mem.seen[p] /\ Handed(p)' = mem.seen[p]
    BY <1>0, <2>1 DEF Handed
  <2> QED BY <1>0, <2>1, <2>2
<1>3. CASE PollFails
  BY <1>0, <1>1, <1>3 DEF PollFails, exchange
<1>4. CASE SinkDone
  <2>1. /\ mem' = [mem EXCEPT !.seen = shown] /\ batch = NoOrder /\ pc = "sink"
        /\ pc' = "account" /\ UNCHANGED <<filled, shown>>
    BY <1>4 DEF SinkDone, exchange
  <2>2. mem'.seen = shown /\ mem'.owed = mem.owed /\ mem'.bucket = mem.bucket
    BY <1>0, <2>1 DEF Memory
  <2>3. \A p \in Orders : Handed(p) = shown[p] /\ Handed(p)' = shown[p]
    BY <1>0, <2>1, <2>2 DEF Handed, NoOrder
  <2> QED BY <1>0, <2>1, <2>2, <2>3
<1>5. CASE AccountOk
  <2> DEFINE trend == IF mem.bucket > Position THEN Position ELSE mem.bucket
  <2>1. Position \in Nat
    BY PositionType DEF IInv, TypeOK
  <2>2. trend <= mem.bucket
    BY <1>0, <2>1
  <2>3. mem' = [mem EXCEPT !.bucket = trend] /\ filled' = filled /\ pc = "account" /\ pc' = "emit"
    BY <1>5 DEF AccountOk, exchange
  <2> HIDE DEF trend
  <2>4. mem'.bucket = trend /\ mem'.seen = mem.seen /\ mem'.owed = mem.owed
    BY <1>0, <2>3 DEF Memory
  <2> QED BY <1>1, <2>2, <2>3, <2>4
<1>6. CASE AccountFails \/ EmitNothing \/ Graduate \/ NoAck
  <2>1. /\ filled' = filled /\ pc # "sink" /\ pc' # "sink" /\ mem'.bucket = mem.bucket
        /\ mem'.seen = mem.seen /\ mem'.owed = mem.owed
    BY <1>0, <1>6 DEF AccountFails, EmitNothing, Graduate, NoAck, Acked, exchange, Memory
  <2> QED BY <1>0, <1>1, <2>1
<1>7. CASE NothingUnknown \/ OpenOrdersFail \/ StillOpen \/ NotOpen \/ FetchEnds \/ Sweep
  <2>1. /\ filled' = filled /\ pc # "sink" /\ pc' # "sink" /\ mem'.bucket = mem.bucket
        /\ mem'.seen = mem.seen /\ mem'.owed = mem.owed
    BY <1>0, <1>7 DEF NothingUnknown, OpenOrdersFail, StillOpen, NotOpen, FetchEnds, Sweep,
                      Resolving, exchange, Memory
  <2> QED BY <1>0, <1>1, <2>1
<1>8. CASE SaveFails
  BY <1>0, <1>1, <1>8 DEF SaveFails, exchange
<1>9. ASSUME NEW o \in Orders, Send(o) \/ FetchNothing(o)
      PROVE  Books
  BY <1>0, <1>1, <1>9 DEF Send, FetchNothing, Fetching, exchange
<1> QED BY <1>2, <1>3, <1>4, <1>5, <1>6, <1>7, <1>8, <1>9 DEF Mute

LEMMA MuteBacked ==
    ASSUME IInv, IInv', Grows, Backed, Mute
    PROVE  Backed'
<1>1. CASE SinkRaises
  <2>1. faults'["sink"] > 0
    BY <1>1 DEF SinkRaises, Fault, Fails, IInv, TypeOK, Faults
  <2> QED BY <2>1 DEF Backed
<1>2. CASE ~SinkRaises
  <2>1. /\ filled' = filled /\ mem'.bucket <= mem.bucket /\ file' = file /\ pc # "down"
        /\ jmem' = jmem /\ jdisk' = jdisk
        /\ \A p \in Orders : Handed(p) + mem.owed[p] <= Handed(p)' + mem'.owed[p]
    BY <1>2, MuteBooks, MuteFrame DEF journal
  <2>2. \A p \in Orders : filled[p] <= filled'[p]
    BY <2>1 DEF IInv, TypeOK
  <2> QED BY <2>1, <2>2, NothingBooked
<1> QED BY <1>1, <1>2

\* An order is created, answered or found canceled: nothing is booked, and no order
\* of which something may have been booked comes back in flight.
LEMMA AppendBacked ==
    ASSUME IInv, IInv', Grows, Reserved, Backed, NEW o \in Orders,
           Create(o) \/ AckAccepted(o) \/ AckRefused(o) \/ FetchCanceled(o)
    PROVE  Backed'
<1>0. /\ \A p \in Orders : /\ mem.seen[p] \in Int /\ mem.owed[p] \in Int /\ filled[p] \in Int
      /\ mem.bucket \in Int /\ mem \in Memory
  BY DEF IInv, TypeOK, Memory
<1>1. /\ filled' = filled /\ pc # "sink" /\ pc' # "sink" /\ pc # "down"
      /\ mem'.bucket = mem.bucket /\ mem'.seen = mem.seen /\ mem'.owed = mem.owed
  <2>1. CASE Create(o)
    BY <1>0, <2>1 DEF Create, exchange, Memory
  <2>2. CASE AckAccepted(o) \/ AckRefused(o)
    BY <1>0, <2>2 DEF AckAccepted, AckRefused, Acked, exchange, Memory
  <2>3. CASE FetchCanceled(o)
    BY <2>3 DEF FetchCanceled, Fetching, exchange
  <2> QED BY <2>1, <2>2, <2>3
<1>2. PICK kind \in Kinds : /\ Journal(o, kind)
                            /\ kind \in InFlight => \/ filled[o] = 0
                                                    \/ jmem[o] \in InFlight /\ jdisk[o] \in InFlight
  <2>1. CASE Create(o)
    <3>1. Journal(o, "submit") /\ "submit" \in Kinds /\ filled[o] = 0
      BY <2>1 DEF Create, Kinds, InFlight, IInv, FeedOrdered
    <3> QED BY <3>1
  <2>2. CASE AckAccepted(o)
    <3>1. Journal(o, "open") /\ "open" \in Kinds /\ pc = "await" /\ o \in cur
      BY <2>2 DEF AckAccepted, Acked, Kinds, InFlight
    <3>2. jmem[o] \in InFlight /\ jdisk[o] \in InFlight
      BY <3>1 DEF Reserved, Creating
    <3> QED BY <3>1, <3>2
  <2>3. CASE AckRefused(o) \/ FetchCanceled(o)
    <3>1. PICK kind \in {"rejected", "canceled"} : Journal(o, kind)
      BY <2>3 DEF AckRefused, FetchCanceled
    <3>2. kind \in Kinds /\ kind \notin InFlight
      BY <3>1 DEF Kinds, InFlight
    <3> QED BY <3>1, <3>2
  <2> QED BY <2>1, <2>2, <2>3
<1>3. /\ file' = file
      /\ jdisk'[o] \in {jdisk[o], kind} /\ jmem'[o] \in {jmem[o], kind}
      /\ \A p \in Orders : p # o => jdisk'[p] = jdisk[p] /\ jmem'[p] = jmem[p]
  BY <1>2, JournalStep DEF IInv
<1>4. \A p \in Orders : /\ filled'[p] > 0 /\ jmem[p] \notin InFlight => jmem'[p] \notin InFlight
                        /\ filled'[p] > 0 /\ jdisk[p] \notin InFlight => jdisk'[p] \notin InFlight
  BY <1>1, <1>2, <1>3
<1>5. \A p \in Orders : Handed(p) + mem.owed[p] <= Handed(p)' + mem'.owed[p]
  BY <1>0, <1>1 DEF Handed
<1>6. mem'.bucket <= mem.bucket /\ \A p \in Orders : filled[p] <= filled'[p]
  BY <1>0, <1>1
<1> QED BY <1>1, <1>3, <1>4, <1>5, <1>6, NothingBooked

LEMMA SaveOkBacked ==
    ASSUME IInv, IInv', Backed, SaveOk
    PROVE  Backed'
<1>1. /\ pc = "save" /\ pc' = "poll" /\ file' = mem /\ mem' = mem /\ faults' = faults
      /\ filled' = filled /\ jdisk' = Compacted(jmem) /\ jmem' = Compacted(jmem)
  BY DEF SaveOk, exchange
<1>2. \A p \in Orders : Compacted(jmem)[p] \in InFlight <=> jmem[p] \in InFlight
  BY DEF Compacted, Alive, InFlight
<1>3. BookedUnits' = BookedUnits /\ FileUnits' = BookedUnits /\ FilledUnits' = FilledUnits
  BY <1>1, <1>2 DEF BookedUnits, FileUnits, FilledUnits, Units, Handed
<1>4. mem.bucket \in Nat
  BY DEF IInv, TypeOK, Memory
<1>5. SUFFICES ASSUME faults["sink"] = 0, JournalUsed
               PROVE  /\ mem.bucket <= Cardinality(BookedUnits)
                      /\ mem.bucket <= Cardinality(FilledUnits)
  BY <1>1, <1>3 DEF Backed, JournalUsed
<1>6. mem.bucket <= Cardinality(BookedUnits)
  BY <1>1, <1>5 DEF Backed
<1> QED BY <1>4, <1>6, BookedFilled

\* A crash in the save leaves the old file, or the new one with a journal that was
\* not compacted: the journal then says the same of every order.
LEMMA CrashBacked ==
    ASSUME IInv, IInv', Grows, MirrorIsDisk, Backed, Crash
    PROVE  Backed'
<1>1. /\ pc # "down" /\ pc' = "down" /\ file' \in {file, mem} /\ jdisk' = jdisk
      /\ pc # "save" => file' = file
      /\ filled' = filled
  BY DEF Crash, exchange
<1>2. /\ faults'["sink"] = 0 /\ JournalUsed' => faults["sink"] = 0 /\ JournalUsed
      /\ faults'["replay"] = 0 => faults["replay"] = 0
  BY FaultsBefore, ReplayGrows
<1>3. SUFFICES ASSUME faults["sink"] = 0, JournalUsed
               PROVE  /\ file'.bucket <= Cardinality(FilledUnits')
                      /\ faults["replay"] = 0 => file'.bucket <= Cardinality(FileUnits')
  BY <1>1, <1>2 DEF Backed
<1>4. /\ mem.bucket <= Cardinality(BookedUnits)
      /\ file.bucket <= Cardinality(FilledUnits)
      /\ faults["replay"] = 0 => file.bucket <= Cardinality(FileUnits)
  BY <1>1, <1>3 DEF Backed
<1>5. FilledUnits' = FilledUnits
  BY <1>1 DEF FilledUnits
<1>6. CASE file' = file
  <2>1. FileUnits' = FileUnits
    BY <1>1, <1>6 DEF FileUnits
  <2> QED BY <1>4, <1>5, <1>6, <2>1
<1>7. CASE file' = mem /\ pc = "save"
  <2>1. mem.bucket \in Nat
    BY DEF IInv, TypeOK, Memory
  <2>2. mem.bucket <= Cardinality(FilledUnits)
    BY <1>4, <2>1, BookedFilled
  <2>3. ASSUME faults["replay"] = 0
        PROVE  FileUnits' = BookedUnits
    <3>1. jmem = jdisk
      BY <1>1, <1>3, <2>3 DEF MirrorIsDisk, JournalTrue, JournalUsed
    <3> QED BY <1>1, <1>7, <3>1 DEF FileUnits, BookedUnits, Handed
  <2> QED BY <1>4, <1>5, <1>7, <2>2, <2>3
<1> QED BY <1>1, <1>6, <1>7

\* A restart starts from the file, and from the journal unless it does not replay.
LEMMA RestartBacked ==
    ASSUME IInv, IInv', Grows, DownForgets, Backed, Restart \/ RestartUnreadable
    PROVE  Backed'
<1>1. /\ pc = "down" /\ pc' = "poll" /\ file' = file /\ jdisk' = jdisk /\ filled' = filled
      /\ mem'.bucket = file.bucket /\ mem'.seen = file.seen /\ mem'.owed = file.owed
  <2>1. pc = "down" /\ pc' = "poll" /\ file' = file /\ jdisk' = jdisk /\ filled' = filled
    BY DEF Restart, RestartUnreadable, exchange, journal, durable
  <2>2. file \in Memory
    BY DEF IInv, TypeOK
  <2>3. CASE Restart
    BY <2>1, <2>2, <2>3 DEF Restart, Memory
  <2>4. CASE RestartUnreadable
    BY <2>1, <2>4 DEF RestartUnreadable
  <2> QED BY <2>3, <2>4
<1>2. /\ faults'["sink"] = 0 /\ JournalUsed' => faults["sink"] = 0 /\ JournalUsed
      /\ faults'["replay"] = 0 => faults["replay"] = 0
  BY FaultsBefore, ReplayGrows
<1>3. SUFFICES ASSUME faults'["sink"] = 0, JournalUsed'
               PROVE  mem'.bucket <= Cardinality(BookedUnits')
  <2>1. FilledUnits' = FilledUnits /\ FileUnits' = FileUnits
    BY <1>1 DEF FilledUnits, FileUnits
  <2> QED BY <1>1, <1>2, <2>1 DEF Backed
<1>4. faults["replay"] = 0
  <2>1. /\ faults["replay"] < faults["crash"] /\ faults["crash"] <= faults'["crash"]
        /\ faults["replay"] \in Nat /\ faults["crash"] \in Nat /\ faults'["crash"] \in Nat
    BY <1>1 DEF DownForgets, Grows, IInv, TypeOK, Faults
  <2>2. CASE faults'["replay"] = 0
    BY <1>2, <2>2
  <2>3. CASE faults'["crash"] <= 1
    BY <2>1, <2>3
  <2> QED BY <1>3, <2>2, <2>3 DEF JournalUsed
<1>5. file.bucket <= Cardinality(FileUnits) /\ file.bucket \in Nat
  BY <1>2, <1>3, <1>4 DEF Backed, IInv, TypeOK, Memory
<1>6. FileUnits \subseteq BookedUnits' /\ BookedUnits' \subseteq Units
  <2>1. \A p \in Orders : jdisk[p] \notin InFlight => jmem'[p] \notin InFlight
    <3>1. CASE Restart
      BY <3>1 DEF Restart
    <3>2. CASE RestartUnreadable
      BY <1>1, <3>2 DEF RestartUnreadable, DownForgets, journal, InFlight
    <3> QED BY <3>1, <3>2
  <2> QED BY <1>1, <2>1 DEF FileUnits, BookedUnits, Units, Handed
<1>7. /\ Cardinality(FileUnits) \in Nat /\ Cardinality(BookedUnits') \in Nat
      /\ Cardinality(FileUnits) <= Cardinality(BookedUnits')
  BY <1>6, MoreUnits
<1> QED BY <1>1, <1>5, <1>7

LEMMA ExchangeBacked ==
    ASSUME IInv, IInv', Grows, Backed, ExchangeStep
    PROVE  Backed'
<1>1. UNCHANGED <<journal, mem, pc, file, batch>> /\ pc # "sink"
      /\ \A p \in Orders : filled[p] <= filled'[p]
  BY ExchangeFrame DEF locals, durable
<1>2. \A p \in Orders : mem.seen[p] \in Int /\ mem.owed[p] \in Int
  BY DEF IInv, TypeOK, Memory
<1>3. \A p \in Orders : Handed(p) + mem.owed[p] <= Handed(p)' + mem'.owed[p]
  BY <1>1, <1>2 DEF Handed
<1>4. mem'.bucket <= mem.bucket
  BY <1>1 DEF IInv, TypeOK, Memory
<1> QED BY <1>1, <1>3, <1>4, NothingBooked DEF journal

LEMMA BackedStep ==
    ASSUME IInv, IInv', Grows, Facts, Backed, [Next]_vars
    PROVE  Backed'
<1> USE DEF Facts
<1>1. CASE ExchangeStep
  BY <1>1, ExchangeBacked
<1>2. CASE Mute
  BY <1>2, MuteBacked
<1>3. ASSUME NEW o \in Orders, Appends(o) \/ SinkTrade(o)
      PROVE  Backed'
  BY <1>3, SinkTradeBacked, FetchClosedBacked, AppendBacked DEF Appends
<1>4. CASE SaveOk
  BY <1>4, SaveOkBacked
<1>5. CASE Crash
  BY <1>5, CrashBacked
<1>6. CASE Restart \/ RestartUnreadable
  BY <1>6, RestartBacked
<1>7. CASE UNCHANGED vars
  BY <1>7 DEF vars, exchange, journal, locals, durable, Backed, JournalUsed, BookedUnits,
              FileUnits, FilledUnits, Handed
<1> QED BY <1>1, <1>2, <1>3, <1>4, <1>5, <1>6, <1>7, Steps

LEMMA InitFacts == Init => Facts /\ Backed
<1> SUFFICES ASSUME Init PROVE Facts /\ Backed
  OBVIOUS
<1>0. IInv
  BY InitIInv
<1>1. DownForgets /\ MirrorIsDisk /\ Reserved /\ FetchAlive
  BY DEF Init, DownForgets, MirrorIsDisk, Reserved, Creating, FetchAlive, Faults
<1>2. IdsKnown
  BY DEF Init, IdsKnown, InitMem, InFlight
<1>3. BatchIsNew
  BY DEF Init, BatchIsNew, InitMem, NoOrder
<1>4. Backed
  <2>1. mem.bucket = 0 /\ file.bucket = 0
    BY DEF Init, InitMem
  <2>2. FileUnits \subseteq FilledUnits /\ FilledUnits \subseteq Units
    BY DEF FileUnits, FilledUnits
  <2>3. Cardinality(FileUnits) \in Nat
    BY <2>2, MoreUnits
  <2> QED BY <1>0, <2>1, <2>3, BookedFilled DEF Backed
<1> QED BY <1>1, <1>2, <1>3, <1>4 DEF Facts

\* Everything above, together.
LEMMA OverlayFacts == Spec => [](IInv /\ Facts /\ Backed)
<1>1. Init => IInv /\ Facts /\ Backed
  BY InitIInv, InitFacts
<1>2. ASSUME IInv, Facts, Backed, [Next]_vars
      PROVE  IInv' /\ Facts' /\ Backed'
  <2>1. IInv' /\ Grows
    BY <1>2, NextIInv, FaultsGrow
  <2>2. /\ DownForgets' /\ MirrorIsDisk' /\ IdsKnown'
        /\ Reserved' /\ FetchAlive' /\ BatchIsNew'
    BY <1>2, <2>1, DownStep, MirrorStep, IdsStep, ReservedStep, FetchAliveStep, BatchStep DEF Facts
  <2> QED BY <1>2, <2>1, <2>2, BackedStep DEF Facts
<1> QED BY <1>1, <1>2, PTL DEF Spec

\* The trend bucket, in memory and in the state file, never exceeds what the exchange
\* filled of the overlay's orders (_sink, _apply_resolved_fill_to_bucket), whatever
\* crashes, saves fail and replays fail, while the sink does not raise, the journal
\* takes every line and no replay that failed is followed by a second crash.
THEOREM OverlayBucketBacked == Spec => []BucketBacked
<1>1. ASSUME IInv, Facts, Backed
      PROVE  BucketBacked
  <2>1. SUFFICES ASSUME faults["sink"] = 0, JournalUsed
                 PROVE  BookedOnce
    <3>1. faults["sink"] \in Nat /\ faults["journal"] \in Nat
      BY <1>1 DEF IInv, TypeOK, Faults
    <3> QED BY <3>1 DEF BucketBacked, JournalUsed
  <2>2. mem.bucket \in Nat /\ file.bucket \in Nat
    BY <1>1 DEF IInv, TypeOK, Memory
  <2>3. file.bucket <= Cardinality(FilledUnits)
    BY <1>1, <2>1 DEF Backed
  <2>4. mem.bucket <= Cardinality(FilledUnits)
    <3>1. CASE pc = "down"
      BY <1>1, <3>1, BookedFilled DEF Facts, DownForgets, InitMem
    <3>2. CASE pc # "down"
      BY <1>1, <2>1, <2>2, <3>2, BookedFilled DEF Backed
    <3> QED BY <3>1, <3>2
  <2> QED BY <2>3, <2>4, FilledIsQty DEF BookedOnce
<1> QED BY <1>1, OverlayFacts, PTL

-----------------------------------------------------------------------------
(* Why the slot is entered once *)

\* An order that is canceled before it is filled, or refused, is no position; one
\* that is closed is filled.
Emptied ==
    \A o \in Orders : /\ status[o] \in {"canceled", "rejected", "lost"} => filled[o] = 0
                      /\ status[o] = "closed" => filled[o] = Qty

\* An open bucket stands for a fill, and a marker for an open bucket.
BucketSound(m) ==
    /\ m.bucket > 0 => \E p \in Orders : filled[p] > 0
    /\ (\E p \in Orders : m.owed[p] > 0) => m.bucket > 0

BucketsSound == BucketSound(mem) /\ BucketSound(file)

Marked(m) == m.pending \/ m.unknown

\* What keeps the slot of an order at risk, in memory or after a restart from the
\* file: the open bucket, the journal, or a mark that no journal entry can clear
\* and that the sweep leaves alone while there is a position.
Guarded(o, m, j) ==
    \/ m.bucket > 0
    \/ j[o] \in InFlight
    \/ filled[o] > 0 /\ Alive(j) = {} /\ Marked(m)

OneAtRisk == \A p, q \in Orders : AtRisk(p) /\ AtRisk(q) => p = q

MemGuard(o) ==
    /\ pc # "submitted"
    /\ pc = "await" => o \in cur
    /\ pc # "down" => Guarded(o, mem, jmem) /\ SlotTaken(mem)
    /\ pc = "fetch" => mem.bucket > 0 \/ (o \in left /\ jmem[o] \in InFlight)

MemGuards ==
    SlotKnown => OneAtRisk /\ \A o \in Orders : AtRisk(o) => MemGuard(o)

\* Nothing went wrong yet, except perhaps in the sink.
Calm == \A f \in Faults \ {"sink"} : faults[f] = 0

\* Until then the journal holds nothing in flight but the order at risk, and the
\* slot is taken while it holds one.
AliveGuard ==
    /\ \A p \in Alive(jmem), o \in Orders : AtRisk(o) => p = o
    /\ Alive(jmem) # {} => SlotTaken(mem)
    /\ Creating => Alive(jmem) \subseteq cur
    /\ pc = "fetch" => Alive(jmem) \subseteq left

AliveGuards == Calm => AliveGuard

\* The first loss would be this one, or is the crash the process is down from.
FirstLoss ==
    /\ faults["replay"] = 0 /\ faults["journal"] = 0
    /\ faults["crash"] + faults["save"] = IF pc = "down" THEN 1 ELSE 0

\* Where the tick may settle an order that the file does not hold yet.
Settling == pc \in {"poll", "sink", "account", "emit", "fetch"} \/ (pc = "resolve" /\ mem.unknown)

\* What a first crash leaves behind guards the slot.
FileGuard(o) ==
    /\ Guarded(o, file, jdisk)
    /\ Settling => SlotTaken(file)

FileGuards == FirstLoss => \A o \in Orders : AtRisk(o) => FileGuard(o)

SlotInv == Emptied /\ BucketsSound /\ MemGuards /\ AliveGuards /\ FileGuards

\* A fill is a position.
LEMMA FilledPosition ==
    ASSUME IInv, NEW o \in Orders, filled[o] > 0
    PROVE  Position > 0
<1>1. 1 \in 1 .. Qty /\ 1 <= filled[o]
  BY QuantitiesNat DEF IInv, TypeOK
<1> DEFINE u == <<o, 1>>
<1>2. u \in FilledUnits
  BY <1>1 DEF FilledUnits, Units
<1> HIDE DEF u
<1>3. {} \subseteq FilledUnits /\ FilledUnits \subseteq Units /\ u \notin {}
  BY DEF FilledUnits
<1>4. Cardinality({}) + 1 <= Cardinality(FilledUnits)
  BY <1>2, <1>3, OneMoreUnit
<1>5. Cardinality({}) = 0
  BY FS_EmptySet
<1>6. Cardinality(FilledUnits) \in Nat
  BY <1>3, MoreUnits
<1> QED BY <1>4, <1>5, <1>6, FilledIsQty, QuantitiesNat DEF Position

LEMMA EmptiedStep ==
    ASSUME PartialExpiry = FALSE, IInv, Emptied, [Next]_vars
    PROVE  Emptied'
<1>1. CASE ExchangeStep
  <2>0. PICK o \in Orders : Arrive(o) \/ FillUnit(o) \/ Expire(o) \/ ShowTrade(o)
    BY <1>1 DEF ExchangeStep
  <2>1. /\ status \in [Orders -> Statuses] /\ filled \in [Orders -> 0 .. Qty] /\ Qty \in Nat
        /\ \A p \in Orders : status[p] = "sent" => filled[p] = 0
    BY QuantitiesNat DEF IInv, TypeOK, FeedOrdered
  <2>2. CASE Arrive(o)
    BY <2>1, <2>2 DEF Arrive, Emptied
  <2>3. CASE FillUnit(o)
    BY <2>1, <2>3 DEF FillUnit, Emptied
  <2>4. CASE Expire(o)
    <3>1. filled[o] \in Nat
      BY <2>1
    <3>2. filled[o] = 0 /\ filled' = filled /\ status' = [status EXCEPT ![o] = "canceled"]
      BY <2>4, <3>1 DEF Expire
    <3> QED BY <2>1, <3>2 DEF Emptied
  <2>5. CASE ShowTrade(o)
    BY <2>5 DEF ShowTrade, Emptied
  <2> QED BY <2>0, <2>2, <2>3, <2>4, <2>5
<1>2. ASSUME NEW o \in Orders, Send(o)
      PROVE  Emptied'
  BY <1>2 DEF Send, Emptied, IInv, TypeOK
<1>3. ASSUME UNCHANGED <<status, filled>>
      PROVE  Emptied'
  BY <1>3 DEF Emptied
<1>4. CASE Mute /\ ~(\E o \in Orders : Send(o))
  <2>1. UNCHANGED <<status, filled>>
    BY <1>4 DEF Mute, PollOk, PollFails, SinkDone, SinkRaises, AccountOk, AccountFails,
                EmitNothing, Graduate, NoAck, Acked, NothingUnknown, OpenOrdersFail, StillOpen,
                NotOpen, Resolving, FetchEnds, Sweep, SaveFails, FetchNothing, Fetching, exchange
  <2> QED BY <1>3, <2>1
<1>5. ASSUME NEW o \in Orders, Appends(o) \/ SinkTrade(o)
      PROVE  Emptied'
  <2>1. UNCHANGED <<status, filled>>
    BY <1>5 DEF Appends, SinkTrade, Create, AckAccepted, AckRefused, Acked, FetchCanceled,
                FetchClosed, Fetching, exchange
  <2> QED BY <1>3, <2>1
<1>6. CASE SaveOk \/ Crash \/ Restart \/ RestartUnreadable \/ UNCHANGED vars
  BY <1>3, <1>6 DEF SaveOk, Crash, Restart, RestartUnreadable, vars, exchange
<1> QED BY <1>1, <1>2, <1>4, <1>5, <1>6, Steps

\* The steps that leave the journal, the orders and the marks alone.
Quiet == Mute /\ ~FetchEnds /\ ~Sweep /\ ~(\E o \in Orders : Send(o))

\* Mute steps keep the bucket open, or closed: the position is not smaller.
LEMMA MuteBucket ==
    ASSUME IInv, BucketSound(mem), Mute
    PROVE  /\ mem'.bucket > 0 <=> mem.bucket > 0
           /\ mem'.owed = mem.owed /\ filled' = filled
<1> DEFINE Keeps == /\ mem'.bucket > 0 <=> mem.bucket > 0
                    /\ mem'.owed = mem.owed /\ filled' = filled
<1>0. mem \in Memory /\ mem.bucket \in Nat
  BY DEF IInv, TypeOK, Memory
<1>1. CASE PollOk \/ PollFails \/ SinkDone \/ SinkRaises
  BY <1>0, <1>1 DEF PollOk, PollFails, SinkDone, SinkRaises, exchange, Memory
<1>2. CASE AccountOk
  <2> DEFINE trend == IF mem.bucket > Position THEN Position ELSE mem.bucket
  <2>1. Position \in Nat
    BY PositionType DEF IInv, TypeOK
  <2>2. mem.bucket > 0 => Position > 0
    BY FilledPosition DEF BucketSound
  <2>3. trend > 0 <=> mem.bucket > 0
    BY <1>0, <2>1, <2>2
  <2>4. mem' = [mem EXCEPT !.bucket = trend] /\ filled' = filled
    BY <1>2 DEF AccountOk, exchange
  <2> HIDE DEF trend
  <2>5. mem'.bucket = trend /\ mem'.owed = mem.owed
    BY <1>0, <2>4 DEF Memory
  <2> QED BY <2>3, <2>4, <2>5
<1>3. CASE AccountFails \/ EmitNothing \/ Graduate \/ NoAck
  BY <1>0, <1>3 DEF AccountFails, EmitNothing, Graduate, NoAck, Acked, exchange, Memory
<1>4. CASE NothingUnknown \/ OpenOrdersFail \/ StillOpen \/ NotOpen \/ FetchEnds \/ Sweep
  BY <1>0, <1>4 DEF NothingUnknown, OpenOrdersFail, StillOpen, NotOpen, FetchEnds, Sweep,
                    Resolving, exchange, Memory
<1>5. CASE SaveFails
  BY <1>5 DEF SaveFails, exchange
<1>6. ASSUME NEW o \in Orders, Send(o) \/ FetchNothing(o)
      PROVE  Keeps
  BY <1>6 DEF Send, FetchNothing, Fetching, exchange
<1> QED BY <1>1, <1>2, <1>3, <1>4, <1>5, <1>6 DEF Mute

\* A fetched or fed fill opens the bucket; no other append touches it.
LEMMA AppendBucket ==
    ASSUME IInv, Emptied, BucketSound(mem), NEW o \in Orders, Appends(o) \/ SinkTrade(o)
    PROVE  /\ filled' = filled
           /\ mem.bucket > 0 => mem'.bucket > 0
           /\ mem'.bucket > 0 => mem.bucket > 0 \/ filled[o] > 0
           /\ (\E p \in Orders : mem'.owed[p] > 0) => mem'.bucket > 0
           /\ FetchClosed(o) => mem'.bucket > 0
           /\ SinkTrade(o) => mem'.bucket > 0 \/ (mem' = mem /\ ~IsTrend(o))
<1> DEFINE Opens == /\ filled' = filled
                    /\ mem.bucket > 0 => mem'.bucket > 0
                    /\ mem'.bucket > 0 => mem.bucket > 0 \/ filled[o] > 0
                    /\ (\E p \in Orders : mem'.owed[p] > 0) => mem'.bucket > 0
                    /\ FetchClosed(o) => mem'.bucket > 0
                    /\ SinkTrade(o) => mem'.bucket > 0 \/ (mem' = mem /\ ~IsTrend(o))
<1>0. /\ mem \in Memory /\ mem.bucket \in Nat /\ filled[o] \in Nat /\ Qty \in Nat /\ Qty > 0
      /\ mem.owed \in [Orders -> 0 .. Qty]
  BY QuantitiesNat DEF IInv, TypeOK, Memory
<1>1. CASE SinkTrade(o)
  <2>0. pc = "sink" /\ filled' = filled /\ ~FetchClosed(o)
    BY <1>1 DEF SinkTrade, FetchClosed, Fetching, exchange
  <2>1. filled[o] > 0
    BY <1>0, <1>1 DEF SinkTrade, IInv, TypeOK, FeedOrdered
  <2>2. CASE mem.owed[o] > 0
    <3>1. mem' = [mem EXCEPT !.owed[o] = @ - 1]
      BY <1>1, <2>2 DEF SinkTrade
    <3>2. mem'.bucket = mem.bucket
      BY <1>0, <3>1 DEF Memory
    <3>3. mem.bucket > 0
      BY <2>2 DEF BucketSound
    <3> QED BY <2>0, <2>1, <3>2, <3>3
  <2>3. CASE ~(mem.owed[o] > 0) /\ ~IsTrend(o)
    <3>1. mem' = mem
      BY <1>1, <2>3 DEF SinkTrade
    <3> QED BY <2>0, <2>1, <2>3, <3>1 DEF BucketSound
  <2>4. CASE ~(mem.owed[o] > 0) /\ IsTrend(o)
    <3>1. mem' = [mem EXCEPT !.bucket = @ + 1, !.pending = FALSE, !.unknown = FALSE]
      BY <1>1, <2>4 DEF SinkTrade
    <3>2. mem'.bucket = mem.bucket + 1
      BY <1>0, <3>1 DEF Memory
    <3>3. mem'.bucket > 0
      BY <1>0, <3>2
    <3> QED BY <2>0, <2>1, <3>3
  <2> QED BY <2>2, <2>3, <2>4
<1>2. CASE FetchClosed(o)
  <2>1. /\ mem' = [mem EXCEPT !.bucket = @ + filled[o], !.pending = FALSE, !.owed[o] = filled[o]]
        /\ status[o] = "closed" /\ filled' = filled /\ pc = "fetch"
    BY <1>2 DEF FetchClosed, Fetching, exchange
  <2>2. filled[o] = Qty
    BY <2>1 DEF Emptied
  <2>3. mem'.bucket = mem.bucket + filled[o]
    BY <1>0, <2>1 DEF Memory
  <2>4. mem'.bucket > 0 /\ filled[o] > 0
    BY <1>0, <2>2, <2>3
  <2> QED BY <2>1, <2>4 DEF SinkTrade
<1>3. CASE Create(o) \/ AckAccepted(o) \/ AckRefused(o) \/ FetchCanceled(o)
  <2>1. filled' = filled /\ mem'.bucket = mem.bucket /\ mem'.owed = mem.owed /\ pc # "sink"
    BY <1>0, <1>3 DEF Create, AckAccepted, AckRefused, Acked, FetchCanceled, Fetching, exchange,
                      Memory
  <2>2. ~SinkTrade(o)
    BY <2>1 DEF SinkTrade
  <2>3. CASE FetchClosed(o)
    BY <1>2, <2>3
  <2>4. CASE ~FetchClosed(o)
    BY <2>1, <2>2, <2>4 DEF BucketSound
  <2> QED BY <2>3, <2>4
<1> QED BY <1>1, <1>2, <1>3 DEF Appends

LEMMA BucketsSoundStep ==
    ASSUME IInv, IInv', Emptied, BucketsSound, [Next]_vars
    PROVE  BucketsSound'
<1> USE DEF BucketsSound
<1>0. /\ \A p \in Orders : filled[p] \in Int /\ filled'[p] \in Int
  BY DEF IInv, TypeOK
<1>1. CASE ExchangeStep
  <2>1. UNCHANGED <<mem, file>> /\ \A p \in Orders : filled[p] <= filled'[p]
    BY <1>1, ExchangeFrame DEF durable
  <2>2. \A p \in Orders : filled[p] > 0 => filled'[p] > 0
    BY <1>0, <2>1
  <2> QED BY <2>1, <2>2 DEF BucketSound
<1>2. CASE Mute
  BY <1>2, MuteBucket, MuteFrame DEF BucketSound
<1>3. ASSUME NEW o \in Orders, Appends(o) \/ SinkTrade(o)
      PROVE  BucketsSound'
  <2>1. file' = file
    BY <1>3, AppendFrame DEF SinkTrade, durable, Journal, Fault
  <2> QED BY <1>3, <2>1, AppendBucket DEF BucketSound
<1>4. CASE SaveOk
  BY <1>4 DEF SaveOk, BucketSound, exchange
<1>5. CASE Crash
  <2>1. mem' = InitMem /\ file' \in {file, mem} /\ filled' = filled
    BY <1>5 DEF Crash, exchange
  <2>2. mem'.bucket = 0 /\ \A p \in Orders : mem'.owed[p] = 0
    BY <2>1 DEF InitMem, NoOrder
  <2> QED BY <2>1, <2>2 DEF BucketSound
<1>6. CASE Restart \/ RestartUnreadable
  <2>1. mem'.bucket = file.bucket /\ mem'.owed = file.owed /\ file' = file /\ filled' = filled
    BY <1>6 DEF Restart, RestartUnreadable, exchange, durable, IInv, TypeOK, Memory
  <2> QED BY <2>1 DEF BucketSound
<1>7. CASE UNCHANGED vars
  BY <1>7 DEF vars, exchange, durable, BucketSound
<1> QED BY <1>1, <1>2, <1>3, <1>4, <1>5, <1>6, <1>7, Steps

LEMMA QuietFrame ==
    ASSUME IInv, Reserved, BucketSound(mem), Quiet
    PROVE  /\ UNCHANGED <<status, filled, jmem, jdisk, file>>
           /\ pc # "down" /\ ~Creating'
           /\ mem'.bucket > 0 <=> mem.bucket > 0
           /\ Marked(mem') <=> Marked(mem)
           /\ pc' = "fetch" => \/ pc = "fetch" /\ left' = left
                               \/ pc = "resolve" /\ Alive(jmem) # {} /\ left' = Alive(jmem)
           /\ Settling' => Settling \/ SaveFails
<1> DEFINE Kept == /\ UNCHANGED status /\ ~Creating'
                   /\ Marked(mem') <=> Marked(mem)
                   /\ pc' = "fetch" =>
                        \/ pc = "fetch" /\ left' = left
                        \/ pc = "resolve" /\ Alive(jmem) # {} /\ left' = Alive(jmem)
                   /\ Settling' => Settling \/ SaveFails
<1>0. Mute /\ mem \in Memory
  BY DEF Quiet, IInv, TypeOK
<1>1. UNCHANGED <<filled, jmem, jdisk, file>> /\ pc # "down"
  BY <1>0, MuteBucket, MuteFrame DEF journal
<1>2. ASSUME PollOk \/ PollFails
      PROVE  Kept
  BY <1>0, <1>2 DEF PollOk, PollFails, exchange, Marked, Creating, Settling
<1>3. ASSUME SinkDone \/ SinkRaises
      PROVE  Kept
  BY <1>0, <1>3 DEF SinkDone, SinkRaises, exchange, Marked, Creating, Settling, Memory
<1>4. ASSUME AccountOk \/ AccountFails
      PROVE  Kept
  BY <1>0, <1>4 DEF AccountOk, AccountFails, exchange, Marked, Creating, Settling, Memory
<1>5. ASSUME EmitNothing \/ Graduate
      PROVE  Kept
  BY <1>0, <1>5 DEF EmitNothing, Graduate, exchange, Marked, Creating, Settling, Memory
<1>6. ASSUME NoAck
      PROVE  Kept
  <2>1. ~mem.unknown
    BY <1>6 DEF NoAck, Acked, Reserved, Creating
  <2> QED BY <1>6, <2>1 DEF NoAck, Acked, exchange, Marked, Creating, Settling
<1>7. ASSUME NothingUnknown \/ OpenOrdersFail \/ StillOpen
      PROVE  Kept
  BY <1>0, <1>7 DEF NothingUnknown, OpenOrdersFail, StillOpen, Resolving, exchange, Marked,
                    Creating, Settling, Memory
<1>8. ASSUME NotOpen
      PROVE  Kept
  BY <1>8 DEF NotOpen, Resolving, exchange, Marked, Creating, Settling
<1>9. ASSUME SaveFails
      PROVE  Kept
  BY <1>9 DEF SaveFails, exchange, Marked, Creating, Settling
<1>10. ASSUME NEW o \in Orders, FetchNothing(o)
       PROVE  Kept
  BY <1>10 DEF FetchNothing, Fetching, exchange, Marked, Creating, Settling
<1>11. Kept
  BY <1>2, <1>3, <1>4, <1>5, <1>6, <1>7, <1>8, <1>9, <1>10 DEF Quiet, Mute
<1> QED BY <1>0, <1>1, <1>11, MuteBucket

\* Where no order comes at risk, each of those at risk has to stay guarded.
LEMMA GuardsKept ==
    ASSUME IInv, IInv', Grows, MemGuards,
           \A o \in Orders : AtRisk(o)' => AtRisk(o),
           \A o \in Orders : SlotKnown' /\ AtRisk(o)' /\ MemGuard(o) => MemGuard(o)'
    PROVE  MemGuards'
<1>1. SlotKnown' => SlotKnown
  BY FaultsBefore
<1> QED BY <1>1 DEF MemGuards, OneAtRisk

LEMMA ExchangeGuards ==
    ASSUME IInv, IInv', Grows, MemGuards, ExchangeStep
    PROVE  MemGuards'
<1>1. /\ UNCHANGED <<jmem, mem, pc, cur, left>>
      /\ \A p \in Orders : AtRisk(p)' => AtRisk(p)
  BY ExchangeFrame DEF journal, locals
<1>2. \A p \in Orders : filled[p] > 0 => filled'[p] > 0
  <2>1. \A p \in Orders : filled[p] <= filled'[p] /\ filled[p] \in Int /\ filled'[p] \in Int
    BY ExchangeFrame DEF IInv, TypeOK
  <2> QED BY <2>1
<1>3. \A o \in Orders : MemGuard(o) => MemGuard(o)'
  BY <1>1, <1>2 DEF MemGuard, Guarded, Alive, SlotTaken
<1> QED BY <1>1, <1>3, GuardsKept

LEMMA QuietGuards ==
    ASSUME IInv, IInv', Grows, Reserved, BucketSound(mem), MemGuards, Quiet
    PROVE  MemGuards'
<1>1. /\ UNCHANGED <<status, filled, jmem>>
      /\ pc # "down" /\ pc' \notin {"submitted", "await"}
      /\ mem'.bucket > 0 <=> mem.bucket > 0
      /\ Marked(mem') <=> Marked(mem)
      /\ pc' = "fetch" => \/ pc = "fetch" /\ left' = left
                          \/ pc = "resolve" /\ Alive(jmem) # {} /\ left' = Alive(jmem)
  BY QuietFrame DEF Creating
<1>2. \A o \in Orders : AtRisk(o)' <=> AtRisk(o)
  BY <1>1 DEF AtRisk
<1>3. \A o \in Orders : MemGuard(o) => MemGuard(o)'
  BY <1>1 DEF MemGuard, Guarded, Alive, SlotTaken, Marked
<1> QED BY <1>2, <1>3, GuardsKept

\* The sweep and the end of the resolution clear a mark only when something else
\* holds the slot, or nothing is at risk.
LEMMA ClearGuards ==
    ASSUME IInv, IInv', Grows, MemGuards, FetchEnds \/ Sweep
    PROVE  MemGuards'
<1>0. mem \in Memory
  BY DEF IInv, TypeOK
<1>1. CASE FetchEnds
  <2>1. /\ UNCHANGED <<status, filled, jmem, jdisk>> /\ pc = "fetch" /\ pc' = "sweep"
        /\ mem' = [mem EXCEPT !.unknown = (left # {})]
    BY <1>1 DEF FetchEnds, exchange, journal
  <2>2. mem'.bucket = mem.bucket /\ mem'.unknown = (left # {})
    BY <1>0, <2>1 DEF Memory
  <2>3. \A o \in Orders : AtRisk(o)' => AtRisk(o)
    BY <2>1 DEF AtRisk
  <2>4. \A o \in Orders : MemGuard(o) => MemGuard(o)'
    BY <2>1, <2>2 DEF MemGuard, Guarded, SlotTaken
  <2> QED BY <2>3, <2>4, GuardsKept
<1>2. CASE Sweep
  <2>1. UNCHANGED <<status, filled, jmem>> /\ pc = "sweep" /\ pc' = "save"
    BY <1>2 DEF Sweep, exchange, journal
  <2>2. \A o \in Orders : AtRisk(o)' => AtRisk(o)
    BY <2>1 DEF AtRisk
  <2>3. CASE mem' = mem
    <3>1. \A o \in Orders : MemGuard(o) => MemGuard(o)'
      BY <2>1, <2>3 DEF MemGuard, Guarded, Alive, SlotTaken
    <3> QED BY <2>2, <3>1, GuardsKept
  <2>4. CASE /\ Alive(jmem) = {} /\ mem' = [mem EXCEPT !.unknown = FALSE]
             /\ mem.bucket > 0 \/ (mem.bucket + grid = 0 /\ Position = 0)
    <3>1. mem'.bucket = mem.bucket
      BY <1>0, <2>4 DEF Memory
    <3>2. ASSUME NEW o \in Orders, AtRisk(o), MemGuard(o)
          PROVE  mem.bucket > 0
      <4>1. Guarded(o, mem, jmem)
        BY <2>1, <3>2 DEF MemGuard
      <4>2. CASE Position = 0
        <5>1. ~(filled[o] > 0)
          BY <4>2, FilledPosition
        <5>2. jmem[o] \notin InFlight
          BY <2>4 DEF Alive
        <5> QED BY <4>1, <5>1, <5>2 DEF Guarded
      <4> QED BY <2>4, <4>2
    <3>3. \A o \in Orders : AtRisk(o)' /\ MemGuard(o) => MemGuard(o)'
      BY <2>1, <2>2, <3>1, <3>2 DEF MemGuard, Guarded, SlotTaken
    <3> QED BY <2>2, <3>3, GuardsKept
  <2> QED BY <1>2, <2>3, <2>4 DEF Sweep
<1> QED BY <1>1, <1>2

\* The order that is sent is the only one at risk, and is reserved.
LEMMA SendGuards ==
    ASSUME IInv, IInv', Grows, Reserved, MemGuards, NEW o \in Orders, Send(o)
    PROVE  MemGuards'
<1>1. /\ pc = "submitted" /\ pc' = "await" /\ o \in cur /\ cur' = cur
      /\ status' = [status EXCEPT ![o] = "sent"] /\ UNCHANGED <<filled, jmem, mem, faults>>
  BY DEF Send, journal, locals, durable
<1>2. jmem[o] \in InFlight /\ mem.pending
  BY <1>1 DEF Reserved, Creating
<1>3. SUFFICES ASSUME SlotKnown
               PROVE  OneAtRisk' /\ \A p \in Orders : AtRisk(p)' => MemGuard(p)'
  BY <1>1 DEF MemGuards, SlotKnown, OneLoss
<1>4. \A p \in Orders : ~AtRisk(p)
  BY <1>1, <1>3 DEF MemGuards, MemGuard
<1>5. \A p \in Orders : AtRisk(p)' => p = o
  BY <1>1, <1>4 DEF AtRisk, IInv, TypeOK
<1>6. MemGuard(o)'
  BY <1>1, <1>2 DEF MemGuard, Guarded, SlotTaken
<1> QED BY <1>5, <1>6 DEF OneAtRisk

\* A slot with an order at risk is taken, and is not entered.
LEMMA CreateGuards ==
    ASSUME IInv, IInv', Grows, MemGuards, NEW o \in Orders, Create(o)
    PROVE  MemGuards'
<1>1. pc = "emit" /\ ~SlotTaken(mem) /\ UNCHANGED <<status, filled>>
  BY DEF Create, exchange
<1>2. \A p \in Orders : AtRisk(p)' => AtRisk(p)
  BY <1>1 DEF AtRisk
<1>3. \A p \in Orders : ~MemGuard(p)
  BY <1>1 DEF MemGuard
<1> QED BY <1>2, <1>3, GuardsKept

LEMMA AckGuards ==
    ASSUME IInv, IInv', Grows, Reserved, Emptied, MemGuards, NEW o \in Orders,
           AckAccepted(o) \/ AckRefused(o)
    PROVE  MemGuards'
<1>0. mem \in Memory
  BY DEF IInv, TypeOK
<1>1. /\ pc = "await" /\ pc' = "resolve" /\ cur = {o} /\ UNCHANGED <<status, filled>>
      /\ jmem[o] \in InFlight
  BY DEF AckAccepted, AckRefused, Acked, exchange, Reserved, Creating
<1>2. \A p \in Orders : AtRisk(p)' => AtRisk(p)
  BY <1>1 DEF AtRisk
<1>3. CASE AckAccepted(o)
  <2>1. Journal(o, "open") /\ "open" \in Kinds /\ "open" \in InFlight
    BY <1>3 DEF AckAccepted, Kinds, InFlight
  <2>2. jmem'[o] \in InFlight
    BY <1>1, <2>1, JournalStep DEF IInv
  <2>3. mem'.pending
    BY <1>0, <1>3 DEF AckAccepted, Memory
  <2>4. \A p \in Orders : MemGuard(p) => p = o
    BY <1>1 DEF MemGuard
  <2>5. MemGuard(o)'
    BY <1>1, <2>2, <2>3 DEF MemGuard, Guarded, SlotTaken
  <2> QED BY <1>2, <2>4, <2>5, GuardsKept
<1>4. CASE AckRefused(o)
  <2>1. ~AtRisk(o)
    BY <1>4 DEF AckRefused, Emptied, AtRisk
  <2>2. \A p \in Orders : AtRisk(p) => ~MemGuard(p)
    BY <1>1, <2>1 DEF MemGuard
  <2> QED BY <1>2, <2>2, GuardsKept
<1> QED BY <1>3, <1>4

\* A fill that is booked opens the bucket; an order that is found canceled is not
\* the one at risk.
LEMMA SettleGuards ==
    ASSUME IInv, IInv', Grows, IdsKnown, Emptied, BucketSound(mem), MemGuards, NEW o \in Orders,
           SinkTrade(o) \/ FetchCanceled(o) \/ FetchClosed(o)
    PROVE  MemGuards'
<1>1. UNCHANGED <<status, filled>> /\ pc' = pc /\ pc \in {"sink", "fetch"}
  BY DEF SinkTrade, FetchCanceled, FetchClosed, Fetching, exchange
<1>2. \A p \in Orders : AtRisk(p)' => AtRisk(p)
  BY <1>1 DEF AtRisk
<1>3. ASSUME mem'.bucket > 0
      PROVE  MemGuards'
  <2>1. \A p \in Orders : MemGuard(p)'
    BY <1>1, <1>3 DEF MemGuard, Guarded, SlotTaken
  <2> QED BY <1>2, <2>1, GuardsKept
<1>4. CASE SinkTrade(o) /\ ~(mem'.bucket > 0)
  <2>1. mem' = mem /\ ~IsTrend(o)
    BY <1>4, AppendBucket
  <2>2. ~InJournal(o)
    BY <2>1, EchoSome DEF InJournal, IsTrend, IdsKnown
  <2>3. UNCHANGED <<jmem, left>> /\ pc = "sink"
    BY <1>4, <2>2 DEF SinkTrade, journal
  <2>4. \A p \in Orders : MemGuard(p) => MemGuard(p)'
    BY <1>1, <2>1, <2>3 DEF MemGuard, Guarded, Alive, SlotTaken
  <2> QED BY <1>2, <2>4, GuardsKept
<1>5. CASE FetchClosed(o)
  BY <1>3, <1>5, AppendBucket DEF Appends
<1>6. CASE FetchCanceled(o)
  <2>1. Journal(o, "canceled") /\ "canceled" \in Kinds /\ mem' = mem /\ left' = left \ {o}
    BY <1>6 DEF FetchCanceled, Kinds
  <2>2. \A p \in Orders : p # o => jmem'[p] = jmem[p]
    BY <2>1, JournalStep DEF IInv
  <2>3. ~AtRisk(o)
    BY <1>6 DEF FetchCanceled, Emptied, AtRisk
  <2>4. pc = "fetch"
    BY <1>6 DEF FetchCanceled, Fetching
  <2>5. \A p \in Orders : AtRisk(p) /\ MemGuard(p) => MemGuard(p)'
    BY <1>1, <2>1, <2>2, <2>3, <2>4 DEF MemGuard, Guarded, SlotTaken
  <2> QED BY <1>2, <2>5, GuardsKept
<1> QED BY <1>3, <1>4, <1>5, <1>6

LEMMA SaveOkGuards ==
    ASSUME IInv, IInv', Grows, MemGuards, SaveOk
    PROVE  MemGuards'
<1>1. /\ pc = "save" /\ pc' = "poll" /\ mem' = mem /\ UNCHANGED <<status, filled>>
      /\ jmem' = Compacted(jmem)
  BY DEF SaveOk, exchange
<1>2. \A p \in Orders : Compacted(jmem)[p] \in InFlight <=> jmem[p] \in InFlight
  BY DEF Compacted, Alive, InFlight
<1>3. \A p \in Orders : AtRisk(p)' => AtRisk(p)
  BY <1>1 DEF AtRisk
<1>4. \A p \in Orders : MemGuard(p) => MemGuard(p)'
  BY <1>1, <1>2 DEF MemGuard, Guarded, Alive, SlotTaken
<1> QED BY <1>3, <1>4, GuardsKept

LEMMA CrashGuards ==
    ASSUME IInv, IInv', Grows, MemGuards, Crash
    PROVE  MemGuards'
<1>1. pc' = "down" /\ UNCHANGED <<status, filled>>
  BY DEF Crash, exchange
<1>2. \A p \in Orders : AtRisk(p)' => AtRisk(p)
  BY <1>1 DEF AtRisk
<1>3. \A p \in Orders : MemGuard(p)'
  BY <1>1 DEF MemGuard
<1> QED BY <1>2, <1>3, GuardsKept

\* The file and the journal that the first loss leaves give the slot back.
LEMMA RestartGuards ==
    ASSUME IInv, IInv', Grows, DownForgets, FileGuards, MemGuards, Restart \/ RestartUnreadable
    PROVE  MemGuards'
<1>0. file \in Memory /\ mem \in Memory /\ faults["replay"] \in Nat /\ faults["crash"] \in Nat
      /\ faults["save"] \in Nat
  BY DEF IInv, TypeOK, Faults
<1>1. /\ pc = "down" /\ pc' = "poll" /\ UNCHANGED <<status, filled>>
      /\ faults["replay"] < faults["crash"]
  BY DEF Restart, RestartUnreadable, DownForgets, exchange
<1>2. \A p \in Orders : AtRisk(p)' => AtRisk(p)
  BY <1>1 DEF AtRisk
<1>3. CASE Restart
  <2>1. /\ jmem' = jdisk /\ faults' = faults /\ mem'.bucket = file.bucket
        /\ mem'.pending = (file.pending \/ Alive(jdisk) # {}) /\ mem'.unknown = file.unknown
    BY <1>0, <1>3 DEF Restart, durable, Memory
  <2>2. SlotKnown' => FirstLoss
    BY <1>0, <1>1, <2>1 DEF SlotKnown, OneLoss, FirstLoss
  <2>3. ASSUME NEW o \in Orders, AtRisk(o), SlotKnown'
        PROVE  MemGuard(o)'
    <3>1. Guarded(o, file, jdisk)
      BY <2>2, <2>3 DEF FileGuards, FileGuard
    <3>2. jdisk[o] \in InFlight => Alive(jdisk) # {}
      BY DEF Alive
    <3>3. SlotTaken(mem')
      BY <2>1, <3>1, <3>2 DEF Guarded, SlotTaken, Marked
    <3>4. Guarded(o, mem, jmem)'
      BY <1>1, <2>1, <3>1 DEF Guarded, Marked, Alive
    <3> QED BY <1>1, <2>1, <3>3, <3>4 DEF MemGuard
  <2> QED BY <1>2, <2>3, GuardsKept
<1>4. CASE RestartUnreadable
  <2>1. faults' = [faults EXCEPT !["replay"] = @ + 1]
    BY <1>4 DEF RestartUnreadable, Fails
  <2>2. faults'["replay"] > 0 /\ faults'["crash"] > 0
    BY <1>0, <1>1, <2>1 DEF IInv, TypeOK, Faults
  <2>3. ~SlotKnown'
    BY <2>2 DEF SlotKnown, OneLoss
  <2> QED BY <2>3 DEF MemGuards
<1> QED BY <1>3, <1>4

LEMMA MemGuardsStep ==
    ASSUME IInv, IInv', Grows, Facts, Emptied, BucketsSound, MemGuards, FileGuards, [Next]_vars
    PROVE  MemGuards'
<1> USE DEF Facts, BucketsSound
<1>1. CASE ExchangeStep
  BY <1>1, ExchangeGuards
<1>2. CASE Mute
  BY <1>2, QuietGuards, ClearGuards, SendGuards DEF Quiet
<1>3. ASSUME NEW o \in Orders, Appends(o) \/ SinkTrade(o)
      PROVE  MemGuards'
  BY <1>3, CreateGuards, AckGuards, SettleGuards DEF Appends
<1>4. CASE SaveOk
  BY <1>4, SaveOkGuards
<1>5. CASE Crash
  BY <1>5, CrashGuards
<1>6. CASE Restart \/ RestartUnreadable
  BY <1>6, RestartGuards
<1>7. CASE UNCHANGED vars
  BY <1>7 DEF vars, exchange, journal, locals, durable, MemGuards, SlotKnown, OneLoss, OneAtRisk,
              AtRisk, MemGuard, Guarded, SlotTaken, Alive, Marked
<1> QED BY <1>1, <1>2, <1>3, <1>4, <1>5, <1>6, <1>7, Steps

\* As long as nothing went wrong the process runs, and its mirror is the disk.
LEMMA CalmFacts ==
    ASSUME IInv, IInv', Grows, DownForgets, MirrorIsDisk, Calm'
    PROVE  /\ Calm /\ SlotKnown /\ FirstLoss /\ pc # "down" /\ jmem = jdisk
           /\ faults'["journal"] = 0
           /\ ~Crash /\ ~SaveFails /\ ~Restart /\ ~RestartUnreadable
<1>1. \A f \in Faults : faults[f] \in Nat /\ faults'[f] \in Nat /\ faults[f] <= faults'[f]
  BY DEF IInv, TypeOK, Grows
<1>2. \A f \in Faults \ {"sink"} : faults'[f] = 0 /\ faults[f] = 0
  BY <1>1 DEF Calm
<1>3. /\ faults["crash"] = 0 /\ faults["save"] = 0 /\ faults["journal"] = 0
      /\ faults["replay"] = 0 /\ faults'["journal"] = 0 /\ faults'["crash"] = 0
      /\ faults'["save"] = 0
  BY <1>2 DEF Faults
<1>4. pc # "down"
  BY <1>3 DEF DownForgets
<1>5. ~Crash /\ ~SaveFails
  BY <1>3 DEF Crash, SaveFails, Fault, Fails, IInv, TypeOK, Faults
<1>6. ~Restart /\ ~RestartUnreadable
  BY <1>4 DEF Restart, RestartUnreadable
<1> QED BY <1>2, <1>3, <1>4, <1>5, <1>6
        DEF Calm, SlotKnown, FirstLoss, MirrorIsDisk, JournalTrue

-----------------------------------------------------------------------------
LEMMA QuietAlive ==
    ASSUME IInv, Reserved, BucketSound(mem), AliveGuard, Quiet
    PROVE  AliveGuard'
<1>1. /\ UNCHANGED <<status, filled, jmem>> /\ ~Creating'
      /\ mem'.bucket > 0 <=> mem.bucket > 0
      /\ Marked(mem') <=> Marked(mem)
      /\ pc' = "fetch" => \/ pc = "fetch" /\ left' = left
                          \/ pc = "resolve" /\ Alive(jmem) # {} /\ left' = Alive(jmem)
  BY QuietFrame
<1> QED BY <1>1 DEF AliveGuard, AtRisk, Alive, SlotTaken, Marked

LEMMA ClearAlive ==
    ASSUME IInv, AliveGuard, FetchEnds \/ Sweep
    PROVE  AliveGuard'
<1>0. mem \in Memory
  BY DEF IInv, TypeOK
<1>1. CASE FetchEnds
  <2>1. /\ UNCHANGED <<status, filled, jmem>> /\ pc = "fetch" /\ pc' = "sweep"
        /\ mem' = [mem EXCEPT !.unknown = (left # {})]
    BY <1>1 DEF FetchEnds, exchange, journal
  <2>2. mem'.unknown = (left # {})
    BY <1>0, <2>1 DEF Memory
  <2>3. Alive(jmem) # {} => left # {}
    BY <2>1 DEF AliveGuard
  <2> QED BY <2>1, <2>2, <2>3 DEF AliveGuard, AtRisk, Alive, SlotTaken, Creating
<1>2. CASE Sweep
  <2>1. /\ UNCHANGED <<status, filled, jmem>> /\ pc' = "save"
        /\ mem' = mem \/ Alive(jmem) = {}
    BY <1>2 DEF Sweep, exchange, journal
  <2> QED BY <2>1 DEF AliveGuard, AtRisk, Alive, SlotTaken, Creating
<1> QED BY <1>1, <1>2

LEMMA SendAlive ==
    ASSUME IInv, SlotKnown, Reserved, MemGuards, AliveGuard, NEW o \in Orders, Send(o)
    PROVE  AliveGuard'
<1>1. /\ pc = "submitted" /\ pc' = "await" /\ cur = {o} /\ cur' = cur
      /\ status' = [status EXCEPT ![o] = "sent"] /\ UNCHANGED <<filled, jmem, mem>>
  BY DEF Send, journal, locals, Reserved, Creating
<1>2. \A p \in Orders : AtRisk(p)' => p = o
  BY <1>1 DEF MemGuards, MemGuard, AtRisk, IInv, TypeOK
<1>3. Alive(jmem) \subseteq {o}
  BY <1>1 DEF AliveGuard, Creating
<1> QED BY <1>1, <1>2, <1>3 DEF AliveGuard, Alive, SlotTaken, Creating

LEMMA CreateAlive ==
    ASSUME IInv, SlotKnown, MemGuards, AliveGuard, NEW o \in Orders, Create(o),
           faults'["journal"] = 0
    PROVE  AliveGuard'
<1>0. mem \in Memory
  BY DEF IInv, TypeOK
<1>1. pc = "emit" /\ ~SlotTaken(mem) /\ UNCHANGED <<status, filled>> /\ Journal(o, "submit")
  BY DEF Create, exchange
<1>2. \A p \in Orders : ~AtRisk(p)'
  BY <1>1 DEF AtRisk, MemGuards, MemGuard
<1>3. Alive(jmem) = {}
  BY <1>1 DEF AliveGuard
<1>4. jmem' = [jmem EXCEPT ![o] = "submit"]
  BY <1>1, JournalWrites
<1>5. Alive(jmem') \subseteq {o}
  BY <1>3, <1>4 DEF Alive, IInv, TypeOK
<1>6. o \notin doubt'
  <2>1. ~Fault("journal")
    BY DEF IInv, TypeOK, Fault, Fails, Faults
  <2> QED BY <1>1, <2>1 DEF Journal
<1>7. pc' = "submitted" /\ cur' = {o} /\ mem'.pending = TRUE
  BY <1>0, <1>6 DEF Create, Memory
<1> QED BY <1>2, <1>5, <1>7 DEF AliveGuard, SlotTaken, Alive

LEMMA AckAlive ==
    ASSUME IInv, SlotKnown, Reserved, Emptied, MemGuards, AliveGuard, NEW o \in Orders,
           AckAccepted(o) \/ AckRefused(o), faults'["journal"] = 0
    PROVE  AliveGuard'
<1>0. mem \in Memory
  BY DEF IInv, TypeOK
<1>1. pc = "await" /\ pc' = "resolve" /\ cur = {o} /\ UNCHANGED <<status, filled>>
  BY DEF AckAccepted, AckRefused, Acked, exchange, Reserved, Creating
<1>2. Alive(jmem) \subseteq {o}
  BY <1>1 DEF AliveGuard, Creating
<1>3. \A p \in Orders : AtRisk(p)' => p = o
  BY <1>1 DEF MemGuards, MemGuard, AtRisk
<1>4. CASE AckAccepted(o)
  <2>1. Journal(o, "open") /\ mem'.pending = TRUE
    BY <1>0, <1>4 DEF AckAccepted, Memory
  <2>2. jmem' = [jmem EXCEPT ![o] = "open"]
    BY <2>1, JournalWrites
  <2>3. Alive(jmem') \subseteq {o}
    BY <1>2, <2>2 DEF Alive, IInv, TypeOK
  <2> QED BY <1>1, <1>3, <2>1, <2>3 DEF AliveGuard, SlotTaken, Creating, Alive
<1>5. CASE AckRefused(o)
  <2>1. PICK kind \in Kinds \ InFlight : Journal(o, kind)
    BY <1>5 DEF AckRefused, Kinds, InFlight
  <2>2. jmem' = [jmem EXCEPT ![o] = kind]
    BY <2>1, JournalWrites
  <2>3. Alive(jmem') = {}
    BY <1>2, <2>1, <2>2 DEF Alive, IInv, TypeOK
  <2> QED BY <1>1, <2>3 DEF AliveGuard, Creating, Alive
<1> QED BY <1>4, <1>5

LEMMA SettleAlive ==
    ASSUME IInv, Emptied, BucketSound(mem), AliveGuard, NEW o \in Orders,
           SinkTrade(o) \/ FetchCanceled(o) \/ FetchClosed(o), faults'["journal"] = 0
    PROVE  AliveGuard'
<1>1. UNCHANGED <<status, filled>> /\ pc' = pc /\ pc \in {"sink", "fetch"}
  BY DEF SinkTrade, FetchCanceled, FetchClosed, Fetching, exchange
<1>2. CASE SinkTrade(o)
  <2>1. mem'.bucket > 0 \/ mem' = mem
    BY <1>2, AppendBucket
  <2>2. pc = "sink" /\ (Journal(o, "filled") \/ UNCHANGED journal)
    BY <1>2 DEF SinkTrade
  <2>3. jmem' = [jmem EXCEPT ![o] = "filled"] \/ jmem' = jmem
    BY <2>2, JournalWrites DEF journal
  <2>4. Alive(jmem') \subseteq Alive(jmem)
    BY <2>3 DEF Alive, InFlight, IInv, TypeOK
  <2> QED BY <1>1, <2>1, <2>2, <2>4 DEF AliveGuard, AtRisk, SlotTaken, Creating, Alive
<1>3. CASE FetchCanceled(o) \/ FetchClosed(o)
  <2>1. PICK kind \in Kinds \ InFlight : Journal(o, kind)
    BY <1>3 DEF FetchCanceled, FetchClosed, Kinds, InFlight
  <2>2. jmem' = [jmem EXCEPT ![o] = kind]
    BY <2>1, JournalWrites
  <2>3. Alive(jmem') = Alive(jmem) \ {o}
    BY <2>1, <2>2 DEF Alive, IInv, TypeOK
  <2>4. left' = left \ {o} /\ pc = "fetch"
    BY <1>3 DEF FetchCanceled, FetchClosed, Fetching
  <2>5. mem'.bucket > 0 \/ mem' = mem
    BY <1>3, AppendBucket DEF Appends, FetchCanceled
  <2> QED BY <1>1, <2>3, <2>4, <2>5 DEF AliveGuard, AtRisk, SlotTaken, Creating, Alive
<1> QED BY <1>2, <1>3

LEMMA AliveGuardsStep ==
    ASSUME IInv, IInv', Grows, Facts, Emptied, BucketsSound, MemGuards, AliveGuards, [Next]_vars
    PROVE  AliveGuards'
<1> USE DEF Facts, BucketsSound
<1> SUFFICES ASSUME Calm' PROVE AliveGuard'
  BY DEF AliveGuards, AliveGuard
<1>0. /\ AliveGuard /\ SlotKnown /\ faults'["journal"] = 0
      /\ ~Crash /\ ~Restart /\ ~RestartUnreadable
  BY CalmFacts DEF AliveGuards, AliveGuard
<1>1. CASE ExchangeStep
  <2>1. UNCHANGED <<jmem, mem, pc, cur, left>> /\ \A p \in Orders : AtRisk(p)' => AtRisk(p)
    BY <1>1, ExchangeFrame DEF journal, locals
  <2> QED BY <1>0, <2>1 DEF AliveGuard, Alive, SlotTaken, Creating
<1>2. CASE Mute
  BY <1>0, <1>2, QuietAlive, ClearAlive, SendAlive DEF Quiet
<1>3. ASSUME NEW o \in Orders, Appends(o) \/ SinkTrade(o)
      PROVE  AliveGuard'
  BY <1>0, <1>3, CreateAlive, AckAlive, SettleAlive DEF Appends
<1>4. CASE SaveOk
  <2>1. /\ jmem' = Compacted(jmem) /\ pc' = "poll" /\ mem' = mem /\ UNCHANGED <<status, filled>>
    BY <1>4 DEF SaveOk, exchange
  <2>2. Alive(Compacted(jmem)) = Alive(jmem)
    BY DEF Compacted, Alive, InFlight
  <2> QED BY <1>0, <2>1, <2>2 DEF AliveGuard, AtRisk, SlotTaken, Creating, Alive
<1>5. CASE UNCHANGED vars
  BY <1>0, <1>5 DEF vars, exchange, journal, locals, AliveGuard, AtRisk, SlotTaken, Creating,
                    Alive
<1> QED BY <1>0, <1>1, <1>2, <1>3, <1>4, <1>5, Steps

-----------------------------------------------------------------------------
\* Before a crash, a step keeps the file's guards when it keeps those of each
\* order at risk.
LEMMA FileKept ==
    ASSUME IInv, IInv', Grows, DownForgets, MirrorIsDisk, FileGuards, pc' # "down",
           \A o \in Orders : AtRisk(o)' => AtRisk(o),
           \A o \in Orders : Calm' /\ AtRisk(o)' /\ FileGuard(o) => FileGuard(o)'
    PROVE  FileGuards'
<1>1. FirstLoss' => Calm'
  <2>1. \A f \in Faults : faults'[f] \in Nat
    BY DEF IInv, TypeOK
  <2>2. Faults \ {"sink"} = {"crash", "save", "journal", "replay"}
    BY DEF Faults
  <2> QED BY <2>1, <2>2 DEF FirstLoss, Calm, Faults
<1>2. Calm' => FirstLoss
  BY CalmFacts
<1> QED BY <1>1, <1>2 DEF FileGuards

LEMMA ExchangeFile ==
    ASSUME IInv, IInv', FileGuards, ExchangeStep
    PROVE  FileGuards'
<1>1. /\ UNCHANGED <<jdisk, file, mem, pc, faults>>
      /\ \A p \in Orders : AtRisk(p)' => AtRisk(p)
  BY ExchangeFrame DEF journal, durable
<1>2. \A p \in Orders : filled[p] > 0 => filled'[p] > 0
  <2>1. \A p \in Orders : filled[p] <= filled'[p] /\ filled[p] \in Int /\ filled'[p] \in Int
    BY ExchangeFrame DEF IInv, TypeOK
  <2> QED BY <2>1
<1>3. \A o \in Orders : FileGuard(o) => FileGuard(o)'
  BY <1>1, <1>2 DEF FileGuard, Guarded, Alive, SlotTaken, Settling
<1> QED BY <1>1, <1>3 DEF FileGuards, FirstLoss

LEMMA MuteFile ==
    ASSUME IInv, IInv', Grows, DownForgets, MirrorIsDisk, Reserved, BucketSound(mem), FileGuards,
           Mute, pc' # "down", ~(\E o \in Orders : Send(o))
    PROVE  FileGuards'
<1>1. UNCHANGED <<jdisk, file, status, filled>>
  <2>1. CASE Quiet
    BY <2>1, QuietFrame
  <2>2. CASE FetchEnds \/ Sweep
    BY <2>2 DEF FetchEnds, Sweep, exchange, journal, durable
  <2> QED BY <2>1, <2>2 DEF Quiet
<1>2. Settling' => Settling \/ SaveFails
  <2>1. CASE Quiet
    BY <2>1, QuietFrame
  <2>2. CASE FetchEnds \/ Sweep
    BY <2>2 DEF FetchEnds, Sweep, Settling
  <2> QED BY <2>1, <2>2 DEF Quiet
<1>3. Calm' => ~SaveFails
  BY CalmFacts
<1>4. \A o \in Orders : AtRisk(o)' => AtRisk(o)
  BY <1>1 DEF AtRisk
<1>5. \A o \in Orders : Calm' /\ FileGuard(o) => FileGuard(o)'
  BY <1>1, <1>2, <1>3 DEF FileGuard, Guarded, Alive, SlotTaken
<1> QED BY <1>4, <1>5, FileKept

LEMMA SendFile ==
    ASSUME IInv, IInv', Grows, DownForgets, MirrorIsDisk, Reserved, MemGuards,
           NEW o \in Orders, Send(o)
    PROVE  FileGuards'
<1>1. /\ pc = "submitted" /\ pc' = "await" /\ o \in cur /\ jdisk[o] \in InFlight
      /\ status' = [status EXCEPT ![o] = "sent"]
      /\ UNCHANGED <<filled, jdisk, file, faults>>
  BY DEF Send, journal, durable, Reserved, Creating
<1>2. SUFFICES ASSUME FirstLoss', NEW p \in Orders, AtRisk(p)'
               PROVE  FileGuard(p)'
  BY DEF FileGuards
<1>3. SlotKnown
  <2>1. faults["crash"] \in Nat /\ faults["save"] \in Nat
    BY DEF IInv, TypeOK, Faults
  <2> QED BY <1>1, <1>2, <2>1 DEF FirstLoss, SlotKnown
<1>4. p = o
  BY <1>1, <1>2, <1>3 DEF MemGuards, MemGuard, AtRisk, IInv, TypeOK
<1> QED BY <1>1, <1>4 DEF FileGuard, Guarded, Settling

LEMMA AppendFile ==
    ASSUME IInv, IInv', Grows, DownForgets, MirrorIsDisk, Reserved, Emptied, MemGuards,
           AliveGuards, FileGuards, NEW o \in Orders, Appends(o) \/ SinkTrade(o)
    PROVE  FileGuards'
<1>1. /\ UNCHANGED <<status, filled, file>> /\ pc' # "down"
  <2>1. file' = file
    BY AppendFrame DEF SinkTrade, durable, Journal, Fault
  <2> QED BY <2>1 DEF Appends, SinkTrade, Create, AckAccepted, AckRefused, Acked, FetchCanceled,
                FetchClosed, Fetching, exchange
<1>2. \A p \in Orders : AtRisk(p)' => AtRisk(p)
  BY <1>1 DEF AtRisk
<1>3. SUFFICES ASSUME Calm', NEW p \in Orders, AtRisk(p), FileGuard(p)
               PROVE  FileGuard(p)'
  BY <1>1, <1>2, FileKept
<1>4. MemGuard(p) /\ AliveGuard /\ jmem = jdisk /\ faults'["journal"] = 0
  BY <1>3, CalmFacts DEF MemGuards, AliveGuards, AliveGuard
<1>5. CASE Create(o)
  BY <1>4, <1>5 DEF Create, MemGuard
<1>6. CASE AckAccepted(o)
  <2>1. /\ pc = "await" /\ pc' = "resolve" /\ cur = {o} /\ ~mem.unknown /\ Journal(o, "open")
    BY <1>6 DEF AckAccepted, Acked, Reserved, Creating
  <2>2. p = o
    BY <1>4, <2>1 DEF MemGuard
  <2>3. jdisk'[o] = "open"
    BY <1>4, <2>1, JournalWrites DEF IInv, TypeOK
  <2>4. ~mem'.unknown
    BY <1>6, <2>1 DEF AckAccepted, IInv, TypeOK, Memory
  <2> QED BY <2>1, <2>2, <2>3, <2>4 DEF FileGuard, Guarded, Settling, InFlight
<1>7. CASE AckRefused(o)
  BY <1>3, <1>4, <1>7 DEF AckRefused, Acked, Reserved, Creating, MemGuard, Emptied, AtRisk
<1>8. CASE FetchCanceled(o)
  <2>1. /\ pc = "fetch" /\ pc' = "fetch" /\ Journal(o, "canceled")
        /\ status[o] \in {"canceled", "rejected"}
    BY <1>8 DEF FetchCanceled, Fetching
  <2>2. p # o
    BY <1>3, <2>1 DEF Emptied, AtRisk
  <2>3. jdisk' = [jdisk EXCEPT ![o] = "canceled"]
    BY <1>4, <2>1, JournalWrites
  <2>4. jdisk'[p] = jdisk[p] /\ Alive(jdisk') \subseteq Alive(jdisk)
    BY <2>2, <2>3 DEF Alive, InFlight, IInv, TypeOK
  <2> QED BY <1>1, <1>3, <2>1, <2>4 DEF FileGuard, Guarded, Settling, SlotTaken, Alive
<1>9. CASE SinkTrade(o) \/ FetchClosed(o)
  <2>1. /\ pc \in {"sink", "fetch"} /\ pc' = pc /\ (Journal(o, "filled") \/ UNCHANGED journal)
        /\ filled[o] > 0
    <3>1. filled[o] \in Nat /\ shown[o] \in Nat /\ batch[o] \in Nat /\ Qty > 0
          /\ batch[o] <= shown[o] /\ shown[o] <= filled[o]
      BY QuantitiesNat DEF IInv, TypeOK, FeedOrdered
    <3> QED BY <1>9, <3>1 DEF SinkTrade, FetchClosed, Fetching, Emptied
  <2>2. jdisk' = [jdisk EXCEPT ![o] = "filled"] \/ jdisk' = jdisk
    BY <1>4, <2>1, JournalWrites DEF journal
  <2>3. SlotTaken(file) /\ Settling'
    BY <1>3, <2>1 DEF FileGuard, Settling
  <2>4. CASE p = o
    <3>1. Alive(jdisk) \subseteq {o}
      BY <1>3, <1>4, <2>4 DEF AliveGuard
    <3>2. jdisk' = jdisk \/ Alive(jdisk') = {}
      BY <2>2, <3>1 DEF Alive, InFlight, IInv, TypeOK
    <3> QED BY <1>1, <1>3, <2>1, <2>3, <2>4, <3>2 DEF FileGuard, Guarded, SlotTaken, Marked, Alive
  <2>5. CASE p # o
    <3>1. jdisk'[p] = jdisk[p] /\ Alive(jdisk') \subseteq Alive(jdisk)
      BY <2>2, <2>5 DEF Alive, InFlight, IInv, TypeOK
    <3> QED BY <1>1, <1>3, <2>3, <3>1 DEF FileGuard, Guarded, SlotTaken, Alive
  <2> QED BY <2>4, <2>5
<1> QED BY <1>5, <1>6, <1>7, <1>8, <1>9 DEF Appends

\* A save writes the guards of the memory to the disk.
LEMMA SaveOkFile ==
    ASSUME IInv, IInv', Grows, DownForgets, MirrorIsDisk, MemGuards, SaveOk
    PROVE  FileGuards'
<1>1. /\ pc = "save" /\ pc' = "poll" /\ file' = mem /\ jdisk' = Compacted(jmem)
      /\ UNCHANGED <<status, filled, faults>>
  BY DEF SaveOk, exchange
<1>2. SUFFICES ASSUME FirstLoss', NEW p \in Orders, AtRisk(p)'
               PROVE  FileGuard(p)'
  BY DEF FileGuards
<1>3. SlotKnown
  <2>1. faults["crash"] \in Nat /\ faults["save"] \in Nat
    BY DEF IInv, TypeOK, Faults
  <2> QED BY <1>1, <1>2, <2>1 DEF FirstLoss, SlotKnown
<1>4. Guarded(p, mem, jmem) /\ SlotTaken(mem)
  BY <1>1, <1>2, <1>3 DEF MemGuards, MemGuard, AtRisk
<1>5. \A q \in Orders : Compacted(jmem)[q] \in InFlight <=> jmem[q] \in InFlight
  BY DEF Compacted, Alive, InFlight
<1> QED BY <1>1, <1>4, <1>5 DEF FileGuard, Guarded, SlotTaken, Alive

\* The first crash leaves the file of the last save, or one written just before it.
LEMMA CrashFile ==
    ASSUME IInv, IInv', Grows, DownForgets, MirrorIsDisk, MemGuards, FileGuards, Crash
    PROVE  FileGuards'
<1>1. /\ pc # "down" /\ pc' = "down" /\ file' \in {file, mem}
      /\ pc # "save" => file' = file
      /\ UNCHANGED <<status, filled, jdisk>>
      /\ faults' = [faults EXCEPT !["crash"] = @ + 1]
  BY DEF Crash, Fails, exchange
<1>2. SUFFICES ASSUME FirstLoss', NEW p \in Orders, AtRisk(p)
               PROVE  FileGuard(p)'
  BY <1>1 DEF FileGuards, AtRisk
<1>3. FirstLoss /\ SlotKnown /\ JournalTrue
  <2>1. /\ faults["crash"] \in Nat /\ faults["save"] \in Nat
        /\ faults'["crash"] = faults["crash"] + 1 /\ faults'["save"] = faults["save"]
        /\ faults'["journal"] = faults["journal"] /\ faults'["replay"] = faults["replay"]
    BY <1>1 DEF IInv, TypeOK, Faults
  <2> QED BY <1>1, <1>2, <2>1 DEF FirstLoss, SlotKnown, JournalTrue
<1>4. Guarded(p, file, jdisk) /\ Guarded(p, mem, jmem) /\ jmem = jdisk
  BY <1>1, <1>2, <1>3 DEF FileGuards, FileGuard, MemGuards, MemGuard, MirrorIsDisk
<1> QED BY <1>1, <1>4 DEF FileGuard, Guarded, Marked, Alive, Settling

LEMMA FileGuardsStep ==
    ASSUME IInv, IInv', Grows, Facts, Emptied, BucketsSound, MemGuards, AliveGuards, FileGuards,
           [Next]_vars
    PROVE  FileGuards'
<1> USE DEF Facts, BucketsSound
<1>1. CASE ExchangeStep
  BY <1>1, ExchangeFile
<1>2. CASE Mute
  <2>1. CASE \E o \in Orders : Send(o)
    BY <2>1, SendFile
  <2>2. CASE ~(\E o \in Orders : Send(o))
    <3>1. pc' # "down"
      BY <1>2 DEF Mute, PollOk, PollFails, SinkDone, SinkRaises, AccountOk, AccountFails,
                EmitNothing, Graduate, NoAck, Acked, NothingUnknown, OpenOrdersFail, StillOpen,
                NotOpen, Resolving, FetchEnds, Sweep, SaveFails, Send, FetchNothing, Fetching
    <3> QED BY <1>2, <2>2, <3>1, MuteFile
  <2> QED BY <2>1, <2>2
<1>3. ASSUME NEW o \in Orders, Appends(o) \/ SinkTrade(o)
      PROVE  FileGuards'
  BY <1>3, AppendFile
<1>4. CASE SaveOk
  BY <1>4, SaveOkFile
<1>5. CASE Crash
  BY <1>5, CrashFile
<1>6. CASE Restart \/ RestartUnreadable
  <2>1. pc' # "down" /\ faults["crash"] > 0 /\ faults["crash"] <= faults'["crash"]
    BY <1>6 DEF Restart, RestartUnreadable, DownForgets, IInv, TypeOK, Faults, Grows
  <2>2. faults'["crash"] \in Nat /\ faults'["save"] \in Nat /\ faults["crash"] \in Nat
    BY DEF IInv, TypeOK, Faults
  <2> QED BY <2>1, <2>2 DEF FileGuards, FirstLoss
<1>7. CASE UNCHANGED vars
  BY <1>7 DEF vars, exchange, journal, locals, durable, FileGuards, FileGuard, FirstLoss, AtRisk,
              Guarded, SlotTaken, Settling, Alive, Marked
<1> QED BY <1>1, <1>2, <1>3, <1>4, <1>5, <1>6, <1>7, Steps

-----------------------------------------------------------------------------
LEMMA InitSlot == Init => SlotInv
<1> SUFFICES ASSUME Init PROVE SlotInv
  OBVIOUS
<1>1. \A o \in Orders : ~AtRisk(o) /\ filled[o] = 0 /\ status[o] = "none"
  BY DEF Init, AtRisk, NoOrder
<1>2. Emptied
  BY <1>1 DEF Emptied
<1>3. BucketsSound
  BY DEF Init, BucketsSound, BucketSound, InitMem, NoOrder
<1>4. MemGuards /\ FileGuards
  BY <1>1 DEF MemGuards, FileGuards, OneAtRisk
<1>5. AliveGuards
  <2>1. Alive(jmem) = {}
    BY DEF Init, Alive, InFlight
  <2> QED BY <2>1 DEF AliveGuards, AliveGuard
<1> QED BY <1>2, <1>3, <1>4, <1>5 DEF SlotInv

\* What is at risk is at most one order.
LEMMA AtMostOne ==
    ASSUME OneAtRisk
    PROVE  SlotEnteredOnce
<1> DEFINE S == {o \in Orders : AtRisk(o)}
<1>1. CASE S = {}
  BY <1>1, FS_EmptySet DEF SlotEnteredOnce
<1>2. ASSUME NEW o \in S PROVE SlotEnteredOnce
  <2>1. S = {o}
    BY <1>2 DEF OneAtRisk
  <2>2. Cardinality(S) = 1
    BY <2>1, FS_Singleton
  <2> QED BY <2>2 DEF SlotEnteredOnce
<1> QED BY <1>1, <1>2

\* The slot is never entered twice, and a running trader knows that it is taken
\* while an order is at risk (_create_order, _resolve_unknowns and the replay in
\* start): with any faults before the first crash, and through one loss of memory
\* when the journal took every line.  An exchange that cancels an order it has
\* partly filled breaks it, as the run overlay_partial shows.
THEOREM OverlaySlotSafe ==
    ASSUME PartialExpiry = FALSE
    PROVE  Spec => []SlotSafe
<1> DEFINE Inv == IInv /\ Facts /\ SlotInv
<1>1. Init => Inv
  BY InitIInv, InitFacts, InitSlot
<1>2. ASSUME Inv, [Next]_vars
      PROVE  Inv'
  <2>1. IInv' /\ Grows
    BY <1>2, NextIInv, FaultsGrow
  <2>2. Facts'
    BY <1>2, <2>1, DownStep, MirrorStep, IdsStep, ReservedStep, FetchAliveStep, BatchStep DEF Facts
  <2>3. Emptied'
    BY <1>2, EmptiedStep DEF SlotInv
  <2>4. BucketsSound'
    BY <1>2, <2>1, BucketsSoundStep DEF SlotInv
  <2>5. MemGuards' /\ AliveGuards' /\ FileGuards'
    BY <1>2, <2>1, MemGuardsStep, AliveGuardsStep, FileGuardsStep DEF SlotInv
  <2> QED BY <2>1, <2>2, <2>3, <2>4, <2>5 DEF SlotInv
<1>3. Inv => SlotSafe
  <2> SUFFICES ASSUME Inv PROVE SlotSafe
    OBVIOUS
  <2>1. NoDoubleOverlay
    BY AtMostOne DEF SlotInv, MemGuards, NoDoubleOverlay
  <2>2. SlotGuarded
    BY DEF SlotInv, MemGuards, MemGuard, SlotGuarded
  <2> QED BY <2>1, <2>2 DEF SlotSafe
<1> HIDE DEF Inv
<1> QED BY <1>1, <1>2, <1>3, PTL DEF Spec
===============================================================================
