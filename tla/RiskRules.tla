----------------------------- MODULE RiskRules ------------------------------
(***************************************************************************)
(* What src/combo_bot/risk.py decides about the orders of one tick, order  *)
(* by order: the realized-loss gate, the circuit breakers, the exposure    *)
(* caps, the unstuck order and the panic close.                            *)
(*                                                                         *)
(* Quantities, prices and money are whole units, QtyStep of which make a   *)
(* lot; fractions of the balance are percentages.  What the code leaves as *)
(* a real number (half an entry, a trimmed close) is rounded down to the   *)
(* unit: it may be less than a lot, and nothing at all.                    *)
(***************************************************************************)
EXTENDS Integers, Sequences, FiniteSets, SequencesExt, FiniteSetsExt

CONSTANTS
    Listed,         \* the symbols, in the order of account.symbols
    CMult,          \* contract multiplier of each symbol
    QtyStep, MinQty, MinCost,   \* ExchangeParams
    TotalPct, SinglePct, GridPct,   \* max_total_, max_single_ and the grid's total exposure
    LossPct,        \* max_realized_loss_pct
    PausePct,       \* pause_grid_dd_pct, pause_trend_dd_pct
    Wel,            \* wallet exposure limit of either bucket
    AllowancePct,   \* daily_loss_allowance_pct
    UnstuckAt, UnstuckClose, UnstuckDist   \* unstuck_threshold, _close_pct, _ema_dist

Symbols == Range(Listed)
Sides == {"LONG", "SHORT"}
Buckets == {"GRID", "TREND"}
Keys == Symbols \X Sides \X Buckets

ASSUME ListedOnce ==
    /\ Listed \in Seq(Symbols)
    /\ \A i, j \in DOMAIN Listed : Listed[i] = Listed[j] => i = j
ASSUME ContractsPositive == CMult \in [Symbols -> Nat \ {0}]
ASSUME LotsPositive == {QtyStep, MinQty} \subseteq Nat \ {0} /\ MinCost \in Nat
ASSUME PercentagesNat ==
    /\ {TotalPct, SinglePct, GridPct, LossPct, AllowancePct} \subseteq Nat
    /\ {UnstuckAt, UnstuckClose, UnstuckDist} \subseteq Nat
    /\ PausePct \in [Buckets -> Nat] /\ Wel \in [Buckets -> Nat]

\* An order: the target of a close may lie below zero, and a strategy may name any
\* number as the price of an entry.
Sources == {"GRID", "TREND", "RISK"}
Order == [sym : Symbols, side : Sides, src : Sources, reduce : BOOLEAN, market : BOOLEAN,
          price : Int, qty : Nat]

\* An account: every symbol has a mark.
AccountTyped(acct) ==
    /\ acct.balance \in Int
    /\ acct.pos \in [Keys -> [size : Nat, entry : Nat]]
    /\ acct.mark \in [Symbols -> Nat \ {0}]
    /\ acct.lost \in [Buckets -> Int]

PercentOf(pct, amount) == (pct * amount) \div 100
AtLeastZero(n) == IF n > 0 THEN n ELSE 0
Quantized(n) == (n \div QtyStep) * QtyStep

\* The sum of a sequence of numbers; the elements of a sequence that are in a set, in
\* their order.
Total(costs) ==
    LET upTo[n \in 0 .. Len(costs)] == IF n = 0 THEN 0 ELSE upTo[n - 1] + costs[n]
    IN  upTo[Len(costs)]
Kept(s, S) ==
    LET upTo[n \in 0 .. Len(s)] ==
            IF n = 0 THEN <<>> ELSE IF s[n] \in S THEN Append(upTo[n - 1], s[n]) ELSE upTo[n - 1]
    IN  upTo[Len(s)]

\* The buckets of all symbols, those of a symbol in the order of a walk.
KeysBy(walk) ==
    [n \in 1 .. 4 * Len(Listed) |->
        <<Listed[((n - 1) \div 4) + 1], walk[((n - 1) % 4) + 1][1], walk[((n - 1) % 4) + 1][2]>>]
PanicWalk == <<<<"LONG", "GRID">>, <<"LONG", "TREND">>, <<"SHORT", "GRID">>, <<"SHORT", "TREND">>>>
UnstuckWalk == <<<<"LONG", "GRID">>, <<"SHORT", "GRID">>, <<"LONG", "TREND">>, <<"SHORT", "TREND">>>>

\* Orders are routed by their source; RISK orders go to the grid bucket.
Bucket(src) == IF src = "TREND" THEN "TREND" ELSE "GRID"
At(acct, o) == acct.pos[<<o.sym, o.side, Bucket(o.src)>>]
IsOpen(p) == p.size > 0

Cost(o) == o.qty * o.price * CMult[o.sym]
CostAt(acct, k) == acct.pos[k].size * acct.pos[k].entry * CMult[k[1]]
Exposure(acct, keys) ==
    Total([n \in DOMAIN KeysBy(PanicWalk) |->
              LET k == KeysBy(PanicWalk)[n] IN IF k \in keys THEN CostAt(acct, k) ELSE 0])

-----------------------------------------------------------------------------
(* The realized-loss gate *)

\* What closing a unit would lose against the bucket's own entry price, if there is
\* one; what the order would lose.
UnitLoss(acct, o) ==
    LET p == At(acct, o)
        gap == IF o.side = "LONG" THEN p.entry - o.price ELSE o.price - p.entry
    IN  IF IsOpen(p) /\ p.entry > 0 THEN gap * CMult[o.sym] ELSE 0
ProjectedLoss(acct, o) == AtLeastZero(o.qty * UnitLoss(acct, o))

LossBudget(acct) ==
    PercentOf(LossPct, acct.balance) - acct.lost["GRID"] - acct.lost["TREND"]

\* What the gate looks at: limit closes.
Gates(acct, o) == LossPct > 0 /\ acct.balance > 0 /\ o.reduce /\ ~o.market

\* One order of the walk, with what is left of the budget: the orders that pass
\* and what is left after them.
\* Mutant: the next close may spend the same budget again.
GatedUnspent(acct, o, left) ==
    IF ~Gates(acct, o) \/ ProjectedLoss(acct, o) <= AtLeastZero(left)
    THEN [pass |-> <<o>>, left |-> left]
    ELSE [pass |-> <<>>, left |-> 0]
\* Mutant: a close is trimmed to a budget that is overdrawn.
GatedOnCredit(acct, o, left) ==
    LET loss == ProjectedLoss(acct, o)
    IN  IF ~Gates(acct, o) \/ loss = 0 THEN [pass |-> <<o>>, left |-> left]
        ELSE IF loss <= left THEN [pass |-> <<o>>, left |-> left - loss]
        ELSE [pass |-> <<[o EXCEPT !.qty = (@ * left) \div loss]>>, left |-> 0]
\* A close that loses more than is left is trimmed to what is left, however little.
Gated(acct, o, left) ==
    LET loss == ProjectedLoss(acct, o)
    IN  IF ~Gates(acct, o) \/ loss = 0 THEN [pass |-> <<o>>, left |-> left]
        ELSE IF loss <= left THEN [pass |-> <<o>>, left |-> left - loss]
        ELSE [pass |-> IF left > 0 THEN <<[o EXCEPT !.qty = (@ * left) \div loss]>> ELSE <<>>,
              left |-> 0]

-----------------------------------------------------------------------------
(* The circuit breakers *)

\* A source is paused when its bucket is that far below its own peak; GREEN
\* gives it half as much again.
Paused(acct, tier) ==
    {b \in Buckets : 2 * acct.dd[b] >=
        (IF tier = "GREEN" THEN 3 ELSE 2) * PercentOf(PausePct[b], acct.balance)}

\* Mutant: a breaker stops closes as well.
AfterBreakersAll(orders, acct, tier, cooling) ==
    Kept(orders, {o \in Range(orders) :
                      IF cooling \/ tier = "ORANGE" THEN o.reduce
                      ELSE Bucket(o.src) \notin Paused(acct, tier)})
\* Cooldown and ORANGE leave exits only, a paused source loses its entries, and
\* YELLOW halves those that are left.
AfterBreakers(orders, acct, tier, cooling) ==
    LET exitsOnly == cooling \/ tier = "ORANGE"
        halved(o) == IF o.reduce \/ tier # "YELLOW" THEN o ELSE [o EXCEPT !.qty = @ \div 2]
        runs(o) == o.reduce \/ (~exitsOnly /\ Bucket(o.src) \notin Paused(acct, tier))
        kept == Kept(orders, {o \in Range(orders) : runs(o)})
    IN  [i \in DOMAIN kept |-> halved(kept[i])]

-----------------------------------------------------------------------------
(* The exposure caps *)

\* Entry i is nearer to its mark than entry j, or came first: the relative
\* distances compared as fractions.  What has no price is at the mark.
Nearer(acct, orders, i, j) ==
    LET gap(o) == IF o.price <= 0 THEN 0
                  ELSE IF o.price > acct.mark[o.sym] THEN o.price - acct.mark[o.sym]
                  ELSE acct.mark[o.sym] - o.price
        a == gap(orders[i]) * acct.mark[orders[j].sym]
        b == gap(orders[j]) * acct.mark[orders[i].sym]
    IN  a < b \/ (a = b /\ i < j)

\* Exits keep their places; the places of the entries are filled nearest first: where
\* n entries came before stands the one to which n are nearer.
ByDistance(orders, acct) ==
    LET places == {i \in DOMAIN orders : ~orders[i].reduce}
        before(i) == Cardinality({j \in places : j < i})
        nearer(i) == Cardinality({j \in places : Nearer(acct, orders, j, i)})
    IN  [i \in DOMAIN orders |->
            IF i \in places THEN orders[CHOOSE j \in places : nearer(j) = before(i)] ELSE orders[i]]

SideKeys(sym, side) == {<<sym, side, b>> : b \in Buckets}
GridKeys == {k \in Keys : k[3] = "GRID"}

TotalCap(acct) == PercentOf(TotalPct, acct.balance)
SingleCap(acct) == PercentOf(SinglePct, acct.balance)
GridCap(acct) == PercentOf(GridPct, acct.balance)

NothingUsed == [total |-> 0, grid |-> 0, side |-> [s \in Symbols \X Sides |-> 0]]

\* What the tightest cap leaves for the order, with the entries already taken.
\* The grid's own cap binds GRID orders only.
\* Mutant: each order is measured against the account alone.
RoomAlone(acct, o, used) ==
    Min({TotalCap(acct) - Exposure(acct, Keys),
         SingleCap(acct) - Exposure(acct, SideKeys(o.sym, o.side))})
Room(acct, o, used) ==
    Min({TotalCap(acct) - Exposure(acct, Keys) - used.total,
         SingleCap(acct) - Exposure(acct, SideKeys(o.sym, o.side)) - used.side[<<o.sym, o.side>>]}
        \cup (IF o.src = "GRID" THEN {GridCap(acct) - Exposure(acct, GridKeys) - used.grid} ELSE {}))

\* What of an entry fits: all of it, whatever it asks for, or what is left of it in
\* whole lots, if the exchange takes so few.
Fitting(o, room) ==
    IF Cost(o) <= room THEN o.qty ELSE Quantized((o.qty * room) \div Cost(o))
Admits(o, room) ==
    /\ room > 0
    /\ \/ Cost(o) <= room
       \/ /\ Fitting(o, room) >= MinQty
          /\ Fitting(o, room) * o.price * CMult[o.sym] >= MinCost

UsedWith(used, o, n) ==
    LET more == n * o.price * CMult[o.sym]
    IN  [total |-> used.total + more,
         grid |-> used.grid + (IF o.src = "GRID" THEN more ELSE 0),
         side |-> [used.side EXCEPT ![<<o.sym, o.side>>] = @ + more]]

\* One order of the walk: what passes, and what is used of the caps after it.
Capped(acct, o, used) ==
    LET room == Room(acct, o, used)
        n == Fitting(o, room)
    IN  IF o.reduce THEN [pass |-> <<o>>, used |-> used]
        ELSE IF ~Admits(o, room) THEN [pass |-> <<>>, used |-> used]
        ELSE [pass |-> <<[o EXCEPT !.qty = n]>>, used |-> UsedWith(used, o, n)]

-----------------------------------------------------------------------------
(* RED, and the unstuck order *)

Close(sym, side, src, price, qty, market) ==
    [sym |-> sym, side |-> side, src |-> src, reduce |-> TRUE, market |-> market,
     price |-> price, qty |-> qty]

PanicCloses(acct) ==
    LET open == Kept(KeysBy(PanicWalk), {k \in Keys : IsOpen(acct.pos[k])})
    IN  [i \in DOMAIN open |->
            Close(open[i][1], open[i][2], open[i][3], acct.mark[open[i][1]],
                  acct.pos[open[i]].size, TRUE)]

\* A loss per unit at the current price; what a bucket may still lose today.
LotLoss(acct, k) ==
    (IF k[2] = "LONG" THEN acct.pos[k].entry - acct.mark[k[1]]
                      ELSE acct.mark[k[1]] - acct.pos[k].entry) * CMult[k[1]]
Allowance(acct, b) == PercentOf(AllowancePct, acct.balance) - acct.lost[b]

\* The bucket is full and the price has come back through the EMA band.
Stuck(acct, k) ==
    LET ema == acct.ema[k[1]]
        last == acct.mark[k[1]]
    IN  /\ IsOpen(acct.pos[k]) /\ Wel[k[3]] > 0
        /\ Allowance(acct, k[3]) > 0
        /\ 10000 * CostAt(acct, k) > UnstuckAt * Wel[k[3]] * acct.balance
        /\ ema.upper > 0 /\ ema.lower > 0
        /\ IF k[2] = "LONG" THEN 100 * last >= ema.upper * (100 + UnstuckDist)
                            ELSE 100 * last <= ema.lower * (100 - UnstuckDist)

\* A share of the limit, no more than is held and no more than may be lost.
UnstuckQty(acct, k) ==
    LET last == acct.mark[k[1]]
        share == (acct.balance * Wel[k[3]] * UnstuckClose) \div (10000 * last * CMult[k[1]])
        loss == LotLoss(acct, k)
        bearable == IF loss > 0 THEN {Allowance(acct, k[3]) \div loss} ELSE {}
    IN  Quantized(Min({share, acct.pos[k].size} \cup bearable))

Sheddable(acct, k) ==
    /\ Stuck(acct, k)
    /\ UnstuckQty(acct, k) >= MinQty
    /\ UnstuckQty(acct, k) * acct.mark[k[1]] * CMult[k[1]] >= MinCost

\* The candidates in the order they are collected.
Candidates(acct) == Kept(KeysBy(UnstuckWalk), {k \in Keys : Sheddable(acct, k)})

\* k is deeper under water than l; between equals, the fuller bucket comes first.
MoreStuck(acct, k, l) ==
    LET deep(a, b) == LotLoss(acct, a) * CMult[b[1]] * acct.pos[b].entry
        full(a, b) == CostAt(acct, a) * Wel[b[3]]
    IN  \/ deep(k, l) > deep(l, k)
        \/ deep(k, l) = deep(l, k) /\ full(k, l) > full(l, k)

\* At most one limit order a tick: the most stuck bucket, the first of those that are
\* equally stuck, at the current price.
UnstuckOrders(acct) ==
    LET all == Candidates(acct)
        most[n \in DOMAIN all] ==
            IF n = 1 \/ MoreStuck(acct, all[n], most[n - 1]) THEN all[n] ELSE most[n - 1]
        k == most[Len(all)]
    IN  IF all = <<>> \/ UnstuckClose = 0 THEN <<>>
        ELSE <<Close(k[1], k[2], k[3], acct.mark[k[1]], UnstuckQty(acct, k), FALSE)>>

-----------------------------------------------------------------------------
(* filter_orders as one function of the account and the orders *)

PassNext(acct, st, o) ==
    LET g == Gated(acct, o, st.left) IN [out |-> st.out \o g.pass, left |-> g.left]
Passed(acct, orders) ==
    LET upTo[n \in 0 .. Len(orders)] ==
            IF n = 0 THEN [out |-> <<>>, left |-> LossBudget(acct)]
            ELSE PassNext(acct, upTo[n - 1], orders[n])
    IN  upTo[Len(orders)].out

AdmitNext(acct, st, o) ==
    LET c == Capped(acct, o, st.used) IN [out |-> st.out \o c.pass, used |-> c.used]
Admitted(acct, orders) ==
    LET upTo[n \in 0 .. Len(orders)] ==
            IF n = 0 THEN [out |-> <<>>, used |-> NothingUsed]
            ELSE AdmitNext(acct, upTo[n - 1], orders[n])
    IN  upTo[Len(orders)].out

\* In a cooldown or in ORANGE nothing is measured against the caps: there is no
\* entry left to measure.
FilterOrders(acct, orders, tier, cooling) ==
    IF tier = "RED" THEN PanicCloses(acct)
    ELSE Admitted(acct, ByDistance(AfterBreakers(Passed(acct, orders), acct, tier, cooling), acct))
=============================================================================
