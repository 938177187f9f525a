---------------------------- MODULE TrendOverlay ----------------------------
(***************************************************************************)
(* One trend-overlay slot (symbol, side) of the live trader                *)
(* (src/combo_bot/live.py): the tick that polls fills, refreshes the       *)
(* account, emits at most one market entry, resolves orders whose fate is  *)
(* unknown and saves its state, against an exchange that accepts, fills    *)
(* and reports orders in its own time, and against crashes.                *)
(*                                                                         *)
(* What keeps the slot from being entered twice is spread over four        *)
(* places: the pending and unknown marks, the trend bucket, the state file *)
(* and the intent journal.                                                 *)
(***************************************************************************)
EXTENDS Integers, FiniteSets

CONSTANTS
    Orders,     \* the entries the trader may create, each with its own cid
    Qty,        \* what one order asks for, in trades of one unit
    GridQty,    \* what the exchange holds on this side for the grid
    Echo,       \* the identifiers a trade row carries: "cid", "id" or both
    PartialExpiry,  \* whether a partly filled order may be canceled
    Lossy,      \* whether a request may leave no trace on the exchange
    MayFail,    \* the kinds of fault that may happen, ...
    MaxFaults   \* ... and how many of them in all

Faults == {"crash", "save", "sink", "journal", "replay"}

ASSUME OrdersFinite == IsFiniteSet(Orders)
ASSUME QuantitiesNat == Qty \in Nat \ {0} /\ GridQty \in Nat
ASSUME EchoSome == Echo \subseteq {"cid", "id"} /\ Echo # {}
ASSUME ExchangeBooleans == PartialExpiry \in BOOLEAN /\ Lossy \in BOOLEAN
ASSUME FaultBounds == MayFail \subseteq Faults /\ MaxFaults \in Nat

VARIABLES
    (* the exchange *)
    status,     \* of each order: see Statuses
    filled,     \* units filled
    shown,      \* units the trade feed shows
    (* the intent journal: the kind of each cid's last line, and its mirror *)
    jdisk, jmem,
    doubt,      \* history: cids whose last append raised
    (* the trader's memory *)
    mem,        \* what the state file persists: see Memory
    grid,       \* size of the local grid bucket
    persistFailed, pollFailed,
    quiesced,   \* _state_change_keys holds the slot
    pc,         \* where the tick stands
    cur,        \* the order being created
    batch,      \* units of each order the sink still has to apply
    todo, left, \* cids to fetch, and cids not resolved, by _resolve_unknowns
    (* the disk, and the faults so far *)
    file,       \* the state file
    faults

exchange == <<status, filled, shown>>
journal == <<jdisk, jmem, doubt>>
flags == <<grid, persistFailed, pollFailed, quiesced>>
locals == <<cur, batch, todo, left>>
durable == <<file, faults>>
vars == <<exchange, journal, mem, flags, pc, locals, durable>>

Statuses == {"none", "sent", "lost", "open", "closed", "canceled", "rejected"}
InFlight == {"submit", "open"}
Kinds == InFlight \cup {"absent", "filled", "rejected", "canceled"}

Memory ==
    [pending : BOOLEAN,          \* _pending_overlay holds the slot
     unknown : BOOLEAN,          \* _unknown_overlay holds the slot
     bucket : Nat,               \* size of the trend bucket
     known : [Orders -> SUBSET {"cid", "id"}],  \* keys in order_source
     seen : [Orders -> 0 .. Qty],  \* trades behind the watermark or dedup ids
     owed : [Orders -> 0 .. Qty]]  \* qty - seen of a resolved-via-fetch marker

NoOrder == [o \in Orders |-> 0]
InitMem == [pending |-> FALSE, unknown |-> FALSE, bucket |-> 0,
            known |-> [o \in Orders |-> {}], seen |-> NoOrder, owed |-> NoOrder]

Alive(j) == {o \in Orders : j[o] \in InFlight}

\* What the exchange reports as the position on this side, and what is left of
\* it for the grid bucket.
OverlayQty == Cardinality({u \in Orders \X (1 .. Qty) : u[2] <= filled[u[1]]})
Position == GridQty + OverlayQty

\* Mutant: the operands of the subtraction are swapped.
GridShareSwapped(trend) == trend - Position
GridShare(trend) == Position - trend

\* What compact keeps.
Compacted(j) == [o \in Orders |-> IF o \in Alive(j) THEN j[o] ELSE "absent"]

Init ==
    /\ status = [o \in Orders |-> "none"] /\ filled = NoOrder /\ shown = NoOrder
    /\ jdisk = [o \in Orders |-> "absent"] /\ jmem = jdisk /\ doubt = {}
    /\ mem = InitMem /\ file = InitMem
    /\ grid = 0 /\ persistFailed = FALSE /\ pollFailed = FALSE /\ quiesced = FALSE
    /\ pc = "poll" /\ cur = {} /\ batch = NoOrder /\ todo = {} /\ left = {}
    /\ faults = [f \in Faults |-> 0]

Happened ==
    faults["crash"] + faults["save"] + faults["sink"] + faults["journal"] + faults["replay"]

Fails(f) ==
    /\ f \in MayFail
    /\ Happened < MaxFaults
    /\ faults' = [faults EXCEPT ![f] = @ + 1]

Fault(f) == Fails(f) /\ UNCHANGED file

\* One append to the journal: it returns, or it raises with or without the
\* line on the disk, and the caller goes on without it.
Journal(o, kind) ==
    \/ /\ jdisk' = [jdisk EXCEPT ![o] = kind]
       /\ jmem' = [jmem EXCEPT ![o] = kind]
       /\ doubt' = doubt \ {o}
       /\ UNCHANGED durable
    \/ /\ Fault("journal")
       /\ jdisk' \in {jdisk, [jdisk EXCEPT ![o] = kind]}
       /\ doubt' = doubt \cup {o}
       /\ UNCHANGED jmem

-----------------------------------------------------------------------------
(* The exchange.  The sink runs without an await: nothing interleaves with it. *)

ExchangeMoves == pc # "sink" /\ UNCHANGED <<journal, mem, flags, pc, locals, durable>>

\* The request arrives and is accepted or refused, or it leaves no trace: it
\* was lost, or refused without an order that fetch_order could find.
Arrive(o) ==
    /\ ExchangeMoves
    /\ status[o] = "sent"
    /\ \E s \in {"open", "rejected"} \cup (IF Lossy THEN {"lost"} ELSE {}) :
           status' = [status EXCEPT ![o] = s]
    /\ UNCHANGED <<filled, shown>>

FillUnit(o) ==
    /\ ExchangeMoves
    /\ status[o] = "open"
    /\ filled' = [filled EXCEPT ![o] = @ + 1]
    /\ status' = [status EXCEPT ![o] = IF filled[o] + 1 = Qty THEN "closed" ELSE "open"]
    /\ UNCHANGED shown

\* The exchange expires the rest of an order, or reconcile cancels it.
Expire(o) ==
    /\ ExchangeMoves
    /\ status[o] = "open"
    /\ filled[o] > 0 => PartialExpiry
    /\ status' = [status EXCEPT ![o] = "canceled"]
    /\ UNCHANGED <<filled, shown>>

\* The trade feed lags behind the fills.
ShowTrade(o) ==
    /\ ExchangeMoves
    /\ shown[o] < filled[o]
    /\ shown' = [shown EXCEPT ![o] = @ + 1]
    /\ UNCHANGED <<status, filled>>

-----------------------------------------------------------------------------
(* Fills *)

\* fetch_my_trades answers; without new trades the sink is not called.
PollOk ==
    /\ pc = "poll"
    /\ pollFailed' = FALSE
    /\ batch' = [o \in Orders |-> shown[o] - mem.seen[o]]
    /\ pc' = IF batch' = NoOrder THEN "account" ELSE "sink"
    /\ UNCHANGED <<exchange, journal, mem, grid, persistFailed, quiesced, cur, todo, left, durable>>

PollFails ==
    /\ pc = "poll"
    /\ pollFailed' = TRUE
    /\ pc' = "account"
    /\ UNCHANGED <<exchange, journal, mem, grid, persistFailed, quiesced, locals, durable>>

\* A trade is trend's when one of the identifiers it carries is registered.
IsTrend(o) == mem.known[o] \cap Echo # {}

\* The journal entry a trade belongs to is found by its cid, or by the
\* exchange id that an open line recorded.
InJournal(o) == jmem[o] \in InFlight /\ ("cid" \in Echo \/ jmem[o] = "open")

\* Mutant: the sink forgets what fetch_order already booked.
SinkTradeIgnoringMarker(o) ==
    /\ pc = "sink"
    /\ batch[o] > 0
    /\ batch' = [batch EXCEPT ![o] = @ - 1]
    /\ IF InJournal(o) THEN Journal(o, "filled") ELSE UNCHANGED <<journal, durable>>
    /\ mem' = IF ~IsTrend(o) THEN mem
              ELSE [mem EXCEPT !.bucket = @ + 1, !.pending = FALSE, !.unknown = FALSE]
    /\ UNCHANGED <<exchange, flags, pc, cur, todo, left>>

\* _sink, one trade: settle the journal entry, then book the trade unless
\* its order was booked from fetch_order.
SinkTrade(o) ==
    /\ pc = "sink"
    /\ batch[o] > 0
    /\ batch' = [batch EXCEPT ![o] = @ - 1]
    /\ IF InJournal(o) THEN Journal(o, "filled") ELSE UNCHANGED <<journal, durable>>
    /\ mem' = IF mem.owed[o] > 0 THEN [mem EXCEPT !.owed[o] = @ - 1]
              ELSE IF ~IsTrend(o) THEN mem
              ELSE [mem EXCEPT !.bucket = @ + 1, !.pending = FALSE, !.unknown = FALSE]
    /\ UNCHANGED <<exchange, flags, pc, cur, todo, left>>

\* The sink returns: the watermark and the dedup ids are committed.
SinkDone ==
    /\ pc = "sink"
    /\ batch = NoOrder
    /\ mem' = [mem EXCEPT !.seen = shown]
    /\ pc' = "account"
    /\ UNCHANGED <<exchange, journal, flags, locals, durable>>

\* Something in the sink raises: poll drops the staged watermark and dedup ids.
SinkRaises ==
    /\ pc = "sink"
    /\ Fault("sink")
    /\ pollFailed' = TRUE
    /\ batch' = NoOrder
    /\ pc' = "account"
    /\ UNCHANGED <<exchange, journal, mem, grid, persistFailed, quiesced, cur, todo, left>>

-----------------------------------------------------------------------------
(* The account, and the overlay decision *)

\* _refresh_account and _rebuild_bucket: the trend bucket is clamped to the
\* position and the grid bucket takes the rest.
AccountOk ==
    /\ pc = "account"
    /\ LET trend == IF mem.bucket > Position THEN Position ELSE mem.bucket
       IN  /\ mem' = [mem EXCEPT !.bucket = trend]
           /\ grid' = GridShare(trend)
           /\ quiesced' = (quiesced \/ trend # mem.bucket \/ grid' # grid)
    /\ pc' = "emit"
    /\ UNCHANGED <<exchange, journal, persistFailed, pollFailed, locals, durable>>

AccountFails ==
    /\ pc = "account"
    /\ pc' = "save"
    /\ UNCHANGED <<exchange, journal, mem, flags, locals, durable>>

\* No regime, a veto of the strategy, of the protections or of the risk
\* filter, or a slot that is taken: nothing is created.
EmitNothing ==
    /\ pc = "emit"
    /\ quiesced' = FALSE
    /\ pc' = "resolve"
    /\ UNCHANGED <<exchange, journal, mem, grid, persistFailed, pollFailed, locals, durable>>

\* The regime wants the overlay and the pending mark is past its TTL.
Graduate ==
    /\ pc = "emit"
    /\ mem.pending
    /\ mem' = [mem EXCEPT !.pending = FALSE, !.unknown = TRUE]
    /\ quiesced' = FALSE
    /\ pc' = "resolve"
    /\ UNCHANGED <<exchange, journal, grid, persistFailed, pollFailed, locals, durable>>

SlotTaken(m) == m.bucket > 0 \/ m.pending \/ m.unknown
RiskIncreasingBlocked == persistFailed \/ pollFailed

\* Mutant: an intent that could not be written does not stop the entry.
CreateWithoutIntent(o) ==
    /\ pc = "emit"
    /\ ~SlotTaken(mem)
    /\ ~quiesced
    /\ ~RiskIncreasingBlocked
    /\ status[o] = "none"
    /\ Journal(o, "submit")
    /\ mem' = [mem EXCEPT !.known[o] = @ \cup {"cid"}, !.pending = TRUE]
    /\ pc' = "submitted" /\ cur' = {o}
    /\ UNCHANGED <<exchange, flags, batch, todo, left>>

\* _create_order up to the intent journal: the slot is reserved and the
\* intent is durable, or the write raised and the reservation is rolled back.
Create(o) ==
    /\ pc = "emit"
    /\ ~SlotTaken(mem)
    /\ ~quiesced
    /\ ~RiskIncreasingBlocked
    /\ status[o] = "none"
    /\ Journal(o, "submit")
    /\ mem' = [mem EXCEPT !.known[o] = @ \cup {"cid"}, !.pending = (o \notin doubt')]
    /\ IF o \in doubt' THEN pc' = "resolve" /\ cur' = {} ELSE pc' = "submitted" /\ cur' = {o}
    /\ UNCHANGED <<exchange, flags, batch, todo, left>>

Send(o) ==
    /\ pc = "submitted"
    /\ o \in cur
    /\ status' = [status EXCEPT ![o] = "sent"]
    /\ pc' = "await"
    /\ UNCHANGED <<filled, shown, journal, mem, flags, locals, durable>>

Acked ==
    /\ pc = "await"
    /\ pc' = "resolve"
    /\ cur' = {}
    /\ UNCHANGED <<exchange, flags, batch, todo, left>>

\* The response says the order stands; it may have moved on since.
AckAccepted(o) ==
    /\ Acked
    /\ o \in cur
    /\ status[o] \in {"open", "closed", "canceled"}
    /\ Journal(o, "open")
    /\ mem' = [mem EXCEPT !.known[o] = {"cid", "id"}, !.pending = TRUE]

\* The response says rejected, expired or canceled: the slot is freed.
AckRefused(o) ==
    /\ Acked
    /\ o \in cur
    /\ status[o] \in {"rejected", "canceled"}
    /\ Journal(o, IF status[o] = "rejected" THEN "rejected" ELSE "canceled")
    /\ mem' = [mem EXCEPT !.pending = FALSE]

\* create_order raises: nothing is known, every reservation stays.
NoAck == Acked /\ UNCHANGED <<journal, mem, durable>>

-----------------------------------------------------------------------------
(* _resolve_unknowns *)

Resolving == pc = "resolve" /\ UNCHANGED <<exchange, journal, flags, cur, batch, durable>>

NothingUnknown ==
    /\ Resolving
    /\ ~mem.unknown
    /\ pc' = "save"
    /\ UNCHANGED <<mem, todo, left>>

OpenOrdersFail ==
    /\ Resolving
    /\ mem.unknown
    /\ pc' = "sweep"
    /\ UNCHANGED <<mem, todo, left>>

\* One of our orders still stands on the book: back to pending.
StillOpen ==
    /\ Resolving
    /\ mem.unknown
    /\ \E o \in Alive(jmem) : status[o] = "open"
    /\ mem' = [mem EXCEPT !.pending = TRUE, !.unknown = FALSE]
    /\ pc' = "save"
    /\ UNCHANGED <<todo, left>>

NotOpen ==
    /\ Resolving
    /\ mem.unknown
    /\ \A o \in Alive(jmem) : status[o] # "open"
    /\ todo' = Alive(jmem)
    /\ left' = Alive(jmem)
    /\ pc' = IF Alive(jmem) = {} THEN "sweep" ELSE "fetch"
    /\ UNCHANGED mem

Fetching(o) ==
    /\ pc = "fetch"
    /\ o \in todo
    /\ todo' = todo \ {o}
    /\ UNCHANGED <<exchange, flags, pc, cur, batch>>

\* fetch_order fails, finds nothing, or shows an order that still stands or
\* whose quantity is missing.
FetchNothing(o) == Fetching(o) /\ UNCHANGED <<journal, mem, left, durable>>

\* Mutant: a canceled order is left for the next tick.
FetchCanceledIgnored(o) ==
    /\ Fetching(o)
    /\ status[o] \in {"canceled", "rejected"}
    /\ UNCHANGED <<journal, mem, left, durable>>

FetchCanceled(o) ==
    /\ Fetching(o)
    /\ status[o] \in {"canceled", "rejected"}
    /\ left' = left \ {o}
    /\ Journal(o, "canceled")
    /\ UNCHANGED mem

\* The fill is booked here, and a marker keeps its trades from being booked
\* again when the feed shows them.
FetchClosed(o) ==
    /\ Fetching(o)
    /\ status[o] = "closed"
    /\ left' = left \ {o}
    /\ mem' = [mem EXCEPT !.bucket = @ + filled[o], !.pending = FALSE, !.owed[o] = filled[o]]
    /\ Journal(o, "filled")

FetchEnds ==
    /\ pc = "fetch"
    /\ todo = {}
    /\ mem' = [mem EXCEPT !.unknown = (left # {})]
    /\ left' = {}
    /\ pc' = "sweep"
    /\ UNCHANGED <<exchange, journal, flags, cur, batch, todo, durable>>

\* The sweep of a mark with no journal entry left: cleared when the bucket is
\* open, or when nothing is held locally and the exchange confirms it is flat.
Sweep ==
    /\ pc = "sweep"
    /\ \/ mem.unknown /\ Alive(jmem) = {} /\ mem.bucket > 0
          /\ mem' = [mem EXCEPT !.unknown = FALSE]
       \/ mem.unknown /\ Alive(jmem) = {} /\ mem.bucket + grid = 0 /\ Position = 0
          /\ mem' = [mem EXCEPT !.unknown = FALSE]
       \/ ~(mem.unknown /\ Alive(jmem) = {} /\ mem.bucket > 0) /\ UNCHANGED mem
    /\ pc' = "save"
    /\ UNCHANGED <<exchange, journal, flags, locals, durable>>

-----------------------------------------------------------------------------
(* The state file, crashes and restarts *)

\* The state is replaced atomically; compaction then drops settled cids.
SaveOk ==
    /\ pc = "save"
    /\ file' = mem
    /\ persistFailed' = FALSE
    /\ jdisk' = Compacted(jmem)
    /\ jmem' = jdisk'
    /\ pc' = "poll"
    /\ UNCHANGED <<exchange, doubt, mem, grid, pollFailed, quiesced, locals, faults>>

SaveFails ==
    /\ pc = "save"
    /\ Fault("save")
    /\ persistFailed' = TRUE
    /\ pc' = "poll"
    /\ UNCHANGED <<exchange, journal, mem, grid, pollFailed, quiesced, locals>>

\* The process dies, in a save possibly between the file and the compaction.
Crash ==
    /\ pc # "down"
    /\ Fails("crash")
    /\ file' \in IF pc = "save" THEN {file, mem} ELSE {file}
    /\ pc' = "down"
    /\ mem' = InitMem
    /\ jmem' = [o \in Orders |-> "absent"]
    /\ doubt' = {}
    /\ grid' = 0 /\ persistFailed' = FALSE /\ pollFailed' = FALSE /\ quiesced' = FALSE
    /\ cur' = {} /\ batch' = NoOrder /\ todo' = {} /\ left' = {}
    /\ UNCHANGED <<exchange, jdisk>>

\* Mutant: the replay restores the attribution but not the pending mark.
RestartWithoutPending ==
    /\ pc = "down"
    /\ jmem' = jdisk
    /\ mem' = [file EXCEPT
                  !.known = [o \in Orders |->
                      file.known[o] \cup (IF jdisk[o] = "open" THEN {"cid", "id"}
                                          ELSE IF jdisk[o] = "submit" THEN {"cid"} ELSE {})]]
    /\ pc' = "poll"
    /\ UNCHANGED <<exchange, jdisk, doubt, flags, locals, durable>>

\* Mutant: the replay restores the pending mark but not the attribution.
RestartWithoutAttribution ==
    /\ pc = "down"
    /\ jmem' = jdisk
    /\ mem' = [file EXCEPT !.pending = @ \/ Alive(jdisk) # {}]
    /\ pc' = "poll"
    /\ UNCHANGED <<exchange, jdisk, doubt, flags, locals, durable>>

\* start: load the state file, then replay the journal over it.
Restart ==
    /\ pc = "down"
    /\ jmem' = jdisk
    /\ mem' = [file EXCEPT
                  !.pending = @ \/ Alive(jdisk) # {},
                  !.known = [o \in Orders |->
                      file.known[o] \cup (IF jdisk[o] = "open" THEN {"cid", "id"}
                                          ELSE IF jdisk[o] = "submit" THEN {"cid"} ELSE {})]]
    /\ pc' = "poll"
    /\ UNCHANGED <<exchange, jdisk, doubt, flags, locals, durable>>

\* The journal does not replay: no entry is restored, entries are blocked.
RestartUnreadable ==
    /\ pc = "down"
    /\ Fails("replay")
    /\ mem' = file
    /\ persistFailed' = TRUE
    /\ pc' = "poll"
    /\ UNCHANGED <<exchange, journal, grid, pollFailed, quiesced, locals, file>>

-----------------------------------------------------------------------------
ExchangeStep == \E o \in Orders : Arrive(o) \/ FillUnit(o) \/ Expire(o) \/ ShowTrade(o)

FetchStep == \E o \in Orders : FetchNothing(o) \/ FetchCanceled(o) \/ FetchClosed(o)

TraderStep ==
    \/ PollOk \/ PollFails \/ SinkDone \/ SinkRaises
    \/ AccountOk \/ AccountFails
    \/ EmitNothing \/ Graduate
    \/ \E o \in Orders : SinkTrade(o) \/ Create(o) \/ Send(o) \/ AckAccepted(o) \/ AckRefused(o)
    \/ NoAck
    \/ NothingUnknown \/ OpenOrdersFail \/ StillOpen \/ NotOpen
    \/ FetchStep \/ FetchEnds \/ Sweep
    \/ SaveOk \/ SaveFails
    \/ Restart \/ RestartUnreadable

Next == ExchangeStep \/ TraderStep \/ Crash

Spec == Init /\ [][Next]_vars

\* The loop never stops ticking, the exchange deals with every order and shows
\* every trade, requests that are repeated for ever succeed for ever again, and
\* the regime keeps asking for the overlay.
Fairness ==
    /\ WF_vars(TraderStep)
    /\ \A o \in Orders :
        /\ WF_vars(Arrive(o))
        /\ WF_vars(FillUnit(o) \/ Expire(o))
        /\ WF_vars(ShowTrade(o))
        /\ SF_vars(FetchCanceled(o) \/ FetchClosed(o))
    /\ SF_vars(PollOk)
    /\ SF_vars(AccountOk)
    /\ SF_vars(Graduate)
    /\ SF_vars(StillOpen \/ NotOpen)
    /\ SF_vars(SaveOk)

FairSpec == Spec /\ Fairness

-----------------------------------------------------------------------------
(* Properties *)

\* Every variable has the type its code structure gives it.
TypeOK ==
    /\ status \in [Orders -> Statuses]
    /\ filled \in [Orders -> 0 .. Qty] /\ shown \in [Orders -> 0 .. Qty]
    /\ jdisk \in [Orders -> Kinds] /\ jmem \in [Orders -> Kinds] /\ doubt \subseteq Orders
    /\ mem \in Memory /\ file \in Memory
    /\ grid \in Nat
    /\ persistFailed \in BOOLEAN /\ pollFailed \in BOOLEAN /\ quiesced \in BOOLEAN
    /\ pc \in {"down", "poll", "sink", "account", "emit", "submitted", "await",
              "resolve", "fetch", "sweep", "save"}
    /\ cur \subseteq Orders /\ todo \subseteq Orders /\ left \subseteq Orders
    /\ batch \in [Orders -> 0 .. Qty]
    /\ faults \in [Faults -> Nat]

\* The order is, or may still become, a position.
AtRisk(o) == status[o] \in {"sent", "open"} \/ filled[o] > 0

\* The process lost what it knew at most once: it crashed, or failed to save.
OneLoss == faults["crash"] + faults["save"] <= 1 /\ faults["replay"] = 0

\* The trader still knows its slot: it never crashed, or lost what it knew once
\* and then read a journal that every append had reached.
SlotKnown == faults["crash"] = 0 \/ (OneLoss /\ faults["journal"] = 0)

SlotEnteredOnce == Cardinality({o \in Orders : AtRisk(o)}) <= 1

\* The slot is never entered twice: "silently continuing would allow duplicate
\* overlay entries" (live.py:2447-2449) is what all the marks are for.
NoDoubleOverlay == SlotKnown => SlotEnteredOnce

\* An order on its way to the exchange or unfilled on the book is in flight in
\* the journal on the disk, whatever the process has forgotten: "written and
\* fsync'd BEFORE the network call" (live.py:2781-2783).  Only a journal that
\* did not replay loses it.
DurableIntent ==
    faults["replay"] = 0 =>
        \A o \in Orders :
            status[o] \in {"sent", "open"} /\ filled[o] = 0 => jdisk[o] \in InFlight

\* While an order is at risk the running trader knows it: the slot is taken.
SlotGuarded ==
    /\ SlotKnown
    /\ pc # "down"
    /\ \E o \in Orders : AtRisk(o)
    => SlotTaken(mem)

\* The slot is safe: it is not entered twice, and a running trader knows that it
\* is taken, so that its next tick will not enter it either.
SlotSafe == NoDoubleOverlay /\ SlotGuarded

\* What the resolution of an unknown slot clears is safe to clear: CANCELED,
\* REJECTED or EXPIRED means "no exposure was added" (live.py:2075-2076), so an
\* order at risk still holds the slot in some other way.
ClearedIsSafe ==
    pc = "sweep" /\ ~mem.unknown /\ (\E o \in Orders : AtRisk(o)) => SlotTaken(mem)

\* No trade is booked twice: the trend bucket, in memory and in the state
\* file, never exceeds what the exchange filled of the overlay's orders.  "Dedup
\* by trade.id" (fill_events_manager.py:20-21) promises it without reservation.
BookedOnce == mem.bucket <= OverlayQty /\ file.bucket <= OverlayQty

\* It holds as long as the sink does not raise half way and the journal can
\* settle what was booked, through any failed save and any crash; a journal that
\* did not replay still holds what is booked in the meantime, and a second crash
\* before it is compacted books it again.
BucketBacked ==
    /\ faults["sink"] + faults["journal"] = 0
    /\ faults["replay"] = 0 \/ faults["crash"] <= 1
    => BookedOnce

\* Everything the exchange fills is booked in the trend bucket in the end,
\* from the trade feed or from fetch_order, whatever calls fail on the way.
FillsAreBooked ==
    \A o \in Orders : status[o] = "closed" ~> mem.bucket = OverlayQty

\* A slot without an order at risk is not blocked for ever, unless the process
\* crashed or a request of it left no trace: one that is in flight in the journal
\* and that neither the open orders nor fetch_order know is kept (live.py:2094-2098,
\* 2171-2181).
SlotReleased ==
    (\A o \in Orders : ~AtRisk(o)) ~>
        \/ ~SlotTaken(mem)
        \/ \E o \in Orders : AtRisk(o)
        \/ \E o \in Alive(jmem) : status[o] = "lost"
        \/ faults["crash"] > 0

\* What the code says of any request without an answer: "the system self-corrects
\* when the next fetch_my_trades / fetch_open_orders poll shows the order's real
\* state" (live.py:2895-2897).
SelfCorrects ==
    (\A o \in Orders : ~AtRisk(o)) ~>
        (~SlotTaken(mem) \/ (\E o \in Orders : AtRisk(o)) \/ faults["crash"] > 0)
=============================================================================
