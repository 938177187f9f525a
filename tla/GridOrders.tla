----------------------------- MODULE GridOrders -----------------------------
(***************************************************************************)
(* The resting orders of the grid on one (symbol, side): each tick of      *)
(* src/combo_bot/live.py reads the account, computes the orders it wants,  *)
(* reads the open orders and cancels and creates the difference, a batch   *)
(* at a time.  The exchange fills, loses and delays orders at any of the   *)
(* awaits in between, and the process may be killed at any of them.        *)
(*                                                                         *)
(* What the tick knows is never current.  Client order ids that survive a  *)
(* restart, the recent-creates window and the one-tick pause after the     *)
(* position changed are what keeps it from hanging an order twice.         *)
(***************************************************************************)
EXTENDS Integers, FiniteSets, FiniteSetsExt

CONSTANTS
    Limit,      \* units the exposure limits allow on this side
    Prices,     \* where the ladder may stand: each place gives other orders
    Batch,      \* max_orders_per_batch
    Window,     \* ticks a create is remembered: _recent_order_window_ms
    MaxFills,   \* bound on the entries that fill
    MaxTrouble  \* bound on price moves, RED, failed calls and kills, together

ASSUME LimitsPositive == {Limit, Batch, Window} \subseteq Nat \ {0}
ASSUME PricesFinite == Prices \subseteq Nat \ {0} /\ Prices # {} /\ IsFiniteSet(Prices)
ASSUME BoundsNat == {MaxFills, MaxTrouble} \subseteq Nat

VARIABLES
    (* the exchange *)
    price, pos,
    book,       \* open orders: see OpenOrder
    sent,       \* requests that raised and have not arrived yet
    red,        \* whether the drawdown supervisor wants to be flat
    (* the trader's memory *)
    size,       \* the grid bucket as of the last account refresh
    quiet,      \* _state_change_keys holds the side
    cids,       \* _cid_by_desired: the era an identity's cid was made in, 0 if none
    created,    \* _recent_creates: identities with their age in ticks
    wanted,     \* the desired orders of this tick
    toCancel, toCreate,
    pc,
    (* the disk and the environment *)
    file,       \* what the state file holds of size and cids
    fills, trouble,
    crashes,    \* names the era of new cids
    unforeseen, \* history: fills that the last tick's plan did not know of
    renamed,    \* history: the process was killed before it saved new cids
    orphaned    \* history: ... or while a request of its own was on its way

exchange == <<price, pos, book, sent, red>>
memory == <<size, quiet, cids, created>>
plan == <<wanted, toCancel, toCreate>>
bounds == <<fills, trouble, crashes>>
history == <<unforeseen, renamed, orphaned>>
vars == <<exchange, memory, plan, pc, file, bounds, history>>

\* _desired_identity: kind and price bucket and quantity bucket.  A close and a
\* panic close are for the whole position.
Entry(p, k) == [kind |-> "entry", at |-> p, units |-> k]
Close(n) == [kind |-> "close", at |-> 0, units |-> n]
Panic(p, n) == [kind |-> "panic", at |-> p, units |-> n]

MaxSize == Limit + MaxFills
Entries == {Entry(p, k) : p \in Prices, k \in 1 .. Limit}
Closes == {Close(n) : n \in 1 .. MaxSize}
Panics == {Panic(p, n) : p \in Prices, n \in 1 .. MaxSize}
Idents == Entries \cup Closes \cup Panics
Eras == 1 .. (MaxTrouble + 1)

\* An open order carries the cid it was sent with: the identity it was made for
\* and the era of the cid.
OpenOrder == [ident : Idents, era : Eras]
Hung(i, era) == [ident |-> i, era |-> era]

\* What the grid engine and the risk filter leave of the ladder: levels from
\* the first one on as far as the limit goes, and a close for what is held.
Desired(p, n, panic) ==
    LET held == n > 0
    IN  IF panic THEN (IF held THEN {Panic(p, n)} ELSE {})
        ELSE {Entry(p, k) : k \in 1 .. (Limit - n)} \cup (IF held THEN {Close(n)} ELSE {})

Unnamed == [i \in Idents |-> 0]

Init ==
    /\ price = (CHOOSE p \in Prices : TRUE) /\ pos = 0 /\ red = FALSE
    /\ book = {} /\ sent = {}
    /\ size = 0 /\ quiet = FALSE /\ cids = Unnamed /\ created = {}
    /\ wanted = {} /\ toCancel = {} /\ toCreate = {}
    /\ pc = "account"
    /\ file = [size |-> 0, cids |-> Unnamed]
    /\ fills = 0 /\ trouble = 0 /\ crashes = 0
    /\ unforeseen = 0 /\ renamed = FALSE /\ orphaned = FALSE

Trouble == trouble < MaxTrouble /\ trouble' = trouble + 1
Fault == Trouble /\ UNCHANGED <<fills, crashes>>

-----------------------------------------------------------------------------
(* The exchange *)

Outside == UNCHANGED <<memory, plan, pc, file, renamed, orphaned>>

Move ==
    /\ Fault
    /\ price' \in Prices \ {price}
    /\ UNCHANGED <<pos, book, sent, red, unforeseen>> /\ Outside

TurnRed ==
    /\ ~red
    /\ red' = TRUE
    /\ Fault
    /\ UNCHANGED <<price, pos, book, sent, unforeseen>> /\ Outside

Left(n) == IF pos > n THEN pos - n ELSE 0

\* A fill of an order the plan counts on, after the tick, is foreseen.
Fill(o) ==
    /\ o \in book
    /\ \/ o.ident \in Entries /\ fills < MaxFills
          /\ pos' = pos + 1 /\ fills' = fills + 1
          /\ unforeseen' = unforeseen +
                 (IF pc = "account" /\ o.ident \in wanted /\ cids[o.ident] = o.era THEN 0 ELSE 1)
       \/ o.ident \in Closes /\ pos > 0
          /\ pos' = Left(o.ident.units)
          /\ UNCHANGED <<fills, unforeseen>>
    /\ book' = book \ {o}
    /\ UNCHANGED <<price, sent, red, trouble, crashes>> /\ Outside

\* A request that raised arrives after all, or it was lost.
Settle(o) ==
    /\ o \in sent
    /\ sent' = sent \ {o}
    /\ \/ UNCHANGED <<book, pos>>
       \/ o.ident \in Panics /\ pos' = Left(o.ident.units) /\ UNCHANGED book
       \/ o.ident \notin Panics /\ book' = book \cup {o} /\ UNCHANGED pos
    /\ UNCHANGED <<price, red, bounds, unforeseen>> /\ Outside

-----------------------------------------------------------------------------
(* The tick up to the plan *)

\* One loop interval later.  A request that raised settles while its create is
\* still remembered; after a crash nothing is.
\* Mutant: what was created once is remembered for good.
OlderForever(memo) == memo
Older(memo) == {[m EXCEPT !.age = @ + 1] : m \in {n \in memo : n.age + 1 < Window}}
TickBegins ==
    /\ pc = "account"
    /\ \A o \in sent : \A m \in created : m.of = o.ident => m.age + 1 < Window
    /\ created' = Older(created)

AccountFails ==
    /\ TickBegins
    /\ Fault
    /\ UNCHANGED <<exchange, size, quiet, cids, plan, pc, file, history>>

AccountOk ==
    /\ TickBegins
    /\ size' = pos
    /\ quiet' = (quiet \/ pos # size)
    /\ wanted' = Desired(price, pos, red)
    /\ unforeseen' = 0
    /\ pc' = "plan"
    /\ UNCHANGED <<exchange, cids, toCancel, toCreate, file, bounds, renamed, orphaned>>

\* _assign_cid: an identity that is wanted again keeps its cid.
Named == [i \in Idents |-> IF i \in wanted /\ cids[i] = 0 THEN crashes + 1 ELSE cids[i]]

\* _orders_match: an open order with a cid is matched by its cid alone.
Matches(i, o) == o.ident = i /\ Named[i] = o.era

Forced(i) == i \in Panics
Rank(i) == IF i.kind = "entry" THEN i.units ELSE 0   \* closes come first
\* Mutant: the batch limit is forgotten.
FirstOfAll(S) == S
FirstOf(S) ==
    {i \in S : Cardinality({j \in S : Rank(j) < Rank(i)}) < Batch}
SomeOf(S) == {T \in SUBSET S : Cardinality(T) = Min({Batch, Cardinality(S)})}

\* Mutant: what already hangs is created again.
MissingForgetful(existing) == wanted
\* The desired orders that hang nowhere.
Missing(existing) == {i \in wanted : \A o \in existing : ~Matches(i, o)}

\* Mutant: creates are not remembered.
UnrememberedNothing(S) == S
Unremembered(S) == {i \in S : \A m \in created : m.of # i}

\* What may be created: no entry on a side whose position just changed or while
\* entries are blocked, and without the open orders nothing but forced exits.
Allowed(S, blocked, unseen) ==
    {i \in S : /\ i \in Entries => ~quiet /\ ~blocked
               /\ unseen => Forced(i)}

\* _reconcile_orders up to the cancels.  Orders past their timeout are canceled
\* too, although they are wanted.
Plan(existing, overdue, blocked, unseen) ==
    LET unmatched == {o \in existing : \A i \in wanted : ~Matches(i, o)}
    IN  /\ pc = "plan"
        /\ cids' = Named
        /\ toCancel' \in SomeOf(unmatched \cup overdue)
        /\ toCreate' = FirstOf(Unremembered(Allowed(Missing(existing), blocked, unseen)))
        /\ quiet' = FALSE
        /\ pc' = "send"
        /\ UNCHANGED <<exchange, size, created, wanted, file, history>>

PlanOk == Plan(book, {}, FALSE, FALSE) /\ UNCHANGED bounds
\* An order times out, or _risk_increasing_blocked holds entries back.
PlanOverdue == \E o \in book : Plan(book, {o}, FALSE, FALSE) /\ Fault
PlanBlocked == Plan(book, {}, TRUE, FALSE) /\ Fault
PlanUnseen == Plan({}, {}, FALSE, TRUE) /\ Fault   \* fetch_open_orders failed

-----------------------------------------------------------------------------
(* Cancels, then creates *)

Canceling(o) ==
    /\ pc = "send"
    /\ o \in toCancel
    /\ toCancel' = toCancel \ {o}
    /\ UNCHANGED <<price, pos, sent, red, size, quiet, cids, created, wanted, toCreate, pc,
                   file, history>>

CancelOk(o) ==
    /\ Canceling(o)
    /\ o \in book
    /\ book' = book \ {o}
    /\ UNCHANGED bounds

\* It raised: the order had filled, or the call failed, with or without effect.
CancelRaises(o) ==
    /\ Canceling(o)
    /\ IF o \in book THEN Fault ELSE UNCHANGED bounds
    /\ book' \in {book, book \ {o}}

Creating(i) ==
    /\ pc = "send"
    /\ toCancel = {}
    /\ i \in toCreate
    /\ \A j \in toCreate : Rank(i) <= Rank(j)
    /\ toCreate' = toCreate \ {i}
    /\ UNCHANGED <<price, red, size, quiet, cids, wanted, toCancel, pc, file, history>>

Remembered(i) == {m \in created : m.of # i} \cup {[of |-> i, age |-> 0]}

\* The exchange takes the order, unless an open one carries its cid; a market
\* order that only reduces is filled at once.
CreateOk(i) ==
    /\ Creating(i)
    /\ created' = Remembered(i)
    /\ \/ Forced(i) /\ pos' = Left(i.units) /\ UNCHANGED book
       \/ ~Forced(i) /\ UNCHANGED pos
          /\ book' = IF \E o \in book : o.ident = i /\ o.era = cids[i] THEN book
                     ELSE book \cup {Hung(i, cids[i])}
    /\ UNCHANGED <<sent, bounds>>

\* Refused with an answer: the next tick may try again.
CreateRefused(i) ==
    /\ Creating(i)
    /\ Fault
    /\ created' = {m \in created : m.of # i}
    /\ UNCHANGED <<pos, book, sent>>

\* create_order raised, or nothing was sent for want of an intent or a
\* leverage: the identity is remembered as created.
CreateRaises(i) ==
    /\ Creating(i)
    /\ Fault
    /\ created' = Remembered(i)
    /\ sent' \in {sent, sent \cup {Hung(i, cids[i])}}
    /\ UNCHANGED <<pos, book>>

Save ==
    /\ pc = "send" /\ toCancel = {} /\ toCreate = {}
    /\ file' = [size |-> size, cids |-> cids]
    /\ pc' = "account"
    /\ UNCHANGED <<exchange, memory, plan, bounds, history>>

\* Mutant: the cids are not restored.
LoadedCidsNone(f) == Unnamed
LoadedCids(f) == f.cids

\* The process is killed and starts again from the state file.
Restart ==
    /\ Trouble
    /\ crashes' = crashes + 1
    /\ size' = file.size /\ cids' = LoadedCids(file)
    /\ quiet' = FALSE /\ created' = {}
    /\ wanted' = {} /\ toCancel' = {} /\ toCreate' = {}
    /\ pc' = "account"
    /\ renamed' = (renamed \/ cids # file.cids)
    /\ orphaned' = (orphaned \/ sent # {})
    /\ UNCHANGED <<exchange, file, fills, unforeseen>>

Market == Move \/ TurnRed \/ \E o \in book : Fill(o)
Answers == \E o \in sent : Settle(o)
Decide == PlanOk \/ PlanOverdue \/ PlanBlocked \/ PlanUnseen
Cancel == \E o \in toCancel : CancelOk(o) \/ CancelRaises(o)
Create == \E i \in toCreate : CreateOk(i) \/ CreateRefused(i) \/ CreateRaises(i)
Tick == AccountOk \/ AccountFails \/ Decide \/ Cancel \/ Create \/ Save

Next == Market \/ Answers \/ Tick \/ Restart

Spec == Init /\ [][Next]_vars

\* The loop ticks and the exchange answers.  The bounds end moves, fills, faults
\* and crashes.
Fairness == WF_vars(Answers) /\ WF_vars(Tick)

FairSpec == Spec /\ Fairness

-----------------------------------------------------------------------------
(* Properties *)

Memo(S) == [of : S, age : 0 .. (Window - 1)]

\* Every variable has the type its code structure gives it; the trader never
\* hands more than a batch of either kind to the exchange.
TypeOK ==
    /\ price \in Prices /\ pos \in 0 .. MaxSize /\ red \in BOOLEAN
    /\ book \subseteq OpenOrder /\ sent \subseteq OpenOrder
    /\ size \in 0 .. MaxSize /\ quiet \in BOOLEAN
    /\ cids \in [Idents -> Eras \cup {0}]
    /\ created \subseteq Memo(Idents)
    /\ wanted \subseteq Idents
    /\ toCancel \subseteq OpenOrder /\ Cardinality(toCancel) <= Batch
    /\ toCreate \subseteq wanted /\ Cardinality(toCreate) <= Batch
    /\ pc \in {"account", "plan", "send"}
    /\ file \in [size : 0 .. MaxSize, cids : [Idents -> Eras \cup {0}]]
    /\ unforeseen \in Nat /\ renamed \in BOOLEAN /\ orphaned \in BOOLEAN

\* The order is one the last plan counts on.
Planned(o) == o.ident \in wanted /\ o.era = cids[o.ident]

\* Between ticks, the position and the entries the trader counts on stay within
\* the limit, but for the fills that fell between the account refresh and the
\* end of the tick or hit an order the trader had given up: those it cannot
\* have known of.  Neither a late arrival nor a lost answer adds to them, unless the
\* process was killed in between: the recent-creates window is not saved.  A process
\* that just started counts on nothing before it has read the account.
ExposureBounded ==
    LET entries == {o \in book \cup sent : o.ident \in Entries /\ Planned(o)}
    IN  pc = "account" /\ ~orphaned /\ wanted # {} =>
            pos + Cardinality(entries) <= Max({Limit, size}) + unforeseen

\* No order hangs twice, under two cids, unless the process was killed before
\* it saved the first one.
NoTwin ==
    ~renamed =>
        \A o, q \in book \cup sent : o.ident = q.ident => o.era = q.era

\* The book is bounded: by the limit in units, and by one order for each level.
BookBounded == ExposureBounded /\ NoTwin

\* An order that is still wanted is canceled only for its timeout, also by the
\* first tick after a restart: "open orders left on the exchange can still be
\* matched by cOID instead of being silently cancelled+recreated"
\* (live.py:1643-1645).
QueueKept ==
    [][~renamed /\ pc = "plan" /\ pc' = "send" /\ trouble' = trouble
           => \A o \in toCancel' : o.ident \notin wanted]_vars

\* The book is what the trader wants.
Settled ==
    /\ wanted = Desired(price, pos, red)
    /\ {o.ident : o \in book} = wanted
    /\ \A o \in book : Planned(o)

\* Once market, faults and crashes leave it alone the book settles; when RED
\* fires, that is flat and without an order.
Settles == <>[]Settled
=============================================================================
