------------------------------ MODULE Backtest ------------------------------
(***************************************************************************)
(* The simulator of src/combo_bot/backtest.py on one symbol: every bar     *)
(* fills the orders decided on the bar before, books them, applies         *)
(* funding, marks the account and decides the orders of the next bar.      *)
(*                                                                         *)
(* Money is exact except for fees, funding and percentages, which are      *)
(* rounded down.  Protections, the correlation gate, the volatility target *)
(* and the ML overlay are not configured, the RED latch is off, and one    *)
(* symbol with a free slot is active on both sides.                        *)
(***************************************************************************)
EXTENDS GridEngine, Regime, StrategyHooks

CONSTANTS
    Candles,        \* the bars that may come: low, high, close and funding rate
    Moods,          \* what signal and strategy may say on a bar: a view and a hook
    Start,          \* starting_balance
    MakerFee, TakerFee, Slippage,   \* in percent
    BarHours, FundingHours,         \* bar_interval, funding_interval_hours
    YellowPct, OrangePct, RedPct,   \* drawdown thresholds
    CooldownBars,   \* cooldown_after_red_minutes
    LiquidationPct, \* liquidation_threshold
    MaxBars         \* bound: bars in a run

Sym == Listed[1]
ASSUME OneSymbol == Len(Listed) = 1
\* A market order slips, but never down to nothing.
ASSUME CandlesTyped ==
    \A c \in Candles : /\ c \in [low : Nat \ {0}, high : Nat \ {0}, close : Nat \ {0}, funding : Int]
                       /\ PercentOf(100 - Slippage, c.close) > 0
ASSUME MoodsTyped == \A m \in Moods : m.view \in Views /\ m.hook \in Hooks
ASSUME RatesNat ==
    {Start, MakerFee, TakerFee, Slippage, YellowPct, OrangePct, RedPct, CooldownBars, LiquidationPct}
        \subseteq Nat
\* An order without a price costs nothing, and the exchange takes none of those.
ASSUME CostsSomething == MinCost > 0
ASSUME BarsPositive == {BarHours, FundingHours, MaxBars} \subseteq Nat \ {0}

VARIABLES
    bar, stage,
    candle,         \* the current bar
    ema,            \* spans 1 and 3
    pos,            \* the position buckets
    trail,          \* trailing_long, trailing_short
    balance, equity, peak,
    realized,       \* grid_, trend_realized_pnl
    sourcePeak,     \* grid_, trend_equity_peak
    losses,         \* the loss logs: what each bar lost
    samples,        \* Kelly: the returns of the trend bucket
    funded, charged,    \* funding_cumsum, funding_hour_counter
    coolUntil,      \* red_cooldown_until
    pending,        \* the orders decided, and those still to be tried on this bar
    cash,           \* history: money in and out by what was traded
    ceiling,        \* history: what the positions may come to, as decided
    priced,         \* history: the entries last proposed all had a price
    overpaid,       \* history: what market entries cost above their price
    rounded         \* history: what the average prices leave out

market == <<bar, stage, candle, ema>>
account == <<pos, trail, balance, realized, losses, samples>>
marks == <<equity, peak, sourcePeak, funded, charged>>
history == <<cash, ceiling, priced, overpaid, rounded>>
runVars == <<market, account, marks, coolUntil, pending, history>>

NoLosses == [b \in Buckets |-> [i \in 0 .. MaxBars |-> 0]]

Sign(side) == IF side = "LONG" THEN 1 ELSE -1
AllBuckets(f) == Total([n \in DOMAIN KeysBy(PanicWalk) |-> f[KeysBy(PanicWalk)[n]]])
Inventory == AllBuckets([k \in Keys |-> Sign(k[2]) * pos[k].size * candle.close * CMult[Sym]])
Unrealized(b) ==
    AllBuckets([k \in Keys |->
        IF k[3] = b THEN Sign(k[2]) * pos[k].size * (candle.close - pos[k].entry) * CMult[Sym]
        ELSE 0])

\* The account as the risk manager and the engines see it.  The loss of a day is
\* what its bars lost; drawdowns are amounts below the bucket's own peak.
Acct ==
    [balance |-> balance, pos |-> pos, mark |-> [s \in Symbols |-> candle.close],
     ema |-> [s \in Symbols |-> [lower |-> Min({ema.fast, ema.slow}),
                                 upper |-> Max({ema.fast, ema.slow})]],
     lost |-> [b \in Buckets |->
                  Total([n \in 1 .. bar + 1 |->
                            IF (bar + 1 - n) * BarHours <= 24 THEN losses[b][n - 1] ELSE 0])],
     dd |-> [b \in Buckets |-> AtLeastZero(sourcePeak[b] - realized[b] - Unrealized(b))]]

Flat == [size |-> 0, entry |-> 0]

RunInit ==
    /\ bar = 0 /\ stage = "mark"
    /\ candle \in Candles /\ ema = [fast |-> candle.close, slow |-> candle.close]
    /\ pos = [k \in Keys |-> Flat] /\ trail = [d \in Sides |-> NotTrailing]
    /\ balance = Start /\ equity = Start /\ peak = Start
    /\ realized = [b \in Buckets |-> 0] /\ sourcePeak = [b \in Buckets |-> 0]
    /\ losses = NoLosses /\ samples = <<>>
    /\ funded = 0 /\ charged = 0 /\ coolUntil = 0
    /\ pending = <<>>
    /\ cash = Start /\ overpaid = 0 /\ rounded = 0
    /\ ceiling = [k \in {"total"} \cup Sides |-> 0] /\ priced = TRUE

-----------------------------------------------------------------------------
(* A bar begins *)

\* Closes are tried before entries.
ClosesFirst(orders) ==
    LET closes == {o \in Range(orders) : o.reduce}
    IN  Kept(orders, closes) \o Kept(orders, Range(orders) \ closes)

PricesUpdated(c) ==
    /\ candle' = c
    /\ trail' = [d \in Sides |-> IF IsOpen(pos[<<Sym, d, "GRID">>])
                                 THEN Trailed(trail[d], d, c) ELSE trail[d]]
EmasUpdated(c) ==
    ema' = IF bar = 0 THEN ema ELSE [fast |-> c.close, slow |-> (c.close + ema.slow) \div 2]

Mark(c) ==
    /\ stage = "mark"
    /\ bar = 0 => c = candle
    /\ PricesUpdated(c)
    /\ EmasUpdated(c)
    /\ pending' = ClosesFirst(pending)
    /\ overpaid' = 0
    /\ stage' = "fill"
    /\ UNCHANGED <<bar, pos, balance, realized, losses, samples, marks, coolUntil,
                   cash, ceiling, priced, rounded>>

-----------------------------------------------------------------------------
(* The fills *)

\* Limit orders fill when the bar touches their price.
Touched(o) ==
    \/ o.market
    \/ IF (o.side = "LONG") = o.reduce THEN candle.high >= o.price ELSE candle.low <= o.price

Sendable(o) == Quantized(o.qty) >= MinQty /\ Quantized(o.qty) * o.price * CMult[Sym] >= MinCost

\* Market orders cross at the close, against the trader.
Buys(o) == (o.side = "LONG") # o.reduce
FillPrice(o) ==
    IF o.market THEN PercentOf(100 + (IF Buys(o) THEN Slippage ELSE -Slippage), candle.close)
    ELSE o.price

Added(p, qty, price) ==
    [size |-> p.size + qty, entry |-> (p.size * p.entry + qty * price) \div (p.size + qty)]
Remainder(p, qty, price) == (p.size * p.entry + qty * price) % (p.size + qty)
\* Mutant: a bucket that is closed keeps its entry price.
ReducedOnly(p, qty) == [p EXCEPT !.size = AtLeastZero(@ - qty)]
Reduced(p, qty) == IF p.size <= qty THEN Flat ELSE [p EXCEPT !.size = @ - qty]

\* Mutant: a close earns on the quantity it was sent with.
FillOfAll(o) ==
    LET p == pos[<<Sym, o.side, Bucket(o.src)>>]
        qty == Quantized(o.qty)
        price == FillPrice(o)
    IN  [src |-> o.src, side |-> o.side, reduce |-> o.reduce, qty |-> qty, price |-> price,
         moved |-> IF o.reduce THEN Min({qty, p.size}) ELSE qty,
         fee |-> PercentOf(IF o.market THEN TakerFee ELSE MakerFee, qty * price * CMult[Sym]),
         pnl |-> IF o.reduce THEN Sign(o.side) * qty * (price - p.entry) * CMult[Sym] ELSE 0]
\* A close is clipped to what is held; the fee and the reported quantity are not.
FillOf(o) ==
    LET p == pos[<<Sym, o.side, Bucket(o.src)>>]
        qty == Quantized(o.qty)
        price == FillPrice(o)
        moved == IF o.reduce THEN Min({qty, p.size}) ELSE qty
    IN  [src |-> o.src, side |-> o.side, reduce |-> o.reduce, qty |-> qty, price |-> price,
         moved |-> moved,
         fee |-> PercentOf(IF o.market THEN TakerFee ELSE MakerFee, qty * price * CMult[Sym]),
         pnl |-> IF o.reduce THEN Sign(o.side) * moved * (price - p.entry) * CMult[Sym] ELSE 0]

Fills(o) ==
    Touched(o) /\ Sendable(o) /\ (o.reduce => IsOpen(pos[<<Sym, o.side, Bucket(o.src)>>]))

\* A fill moves its bucket, the balance, the bucket's result and its loss log,
\* and gives the throttle its sample.
Fill ==
    /\ stage = "fill" /\ pending # <<>> /\ Fills(Head(pending))
    /\ LET o == Head(pending)
           f == FillOf(o)
           k == <<Sym, o.side, Bucket(o.src)>>
           net == f.pnl - f.fee
       IN  /\ pos' = [pos EXCEPT ![k] = IF o.reduce THEN Reduced(@, f.qty)
                                                   ELSE Added(@, f.qty, f.price)]
           /\ trail' = IF ~o.reduce /\ k[3] = "GRID" /\ ~IsOpen(pos[k])
                       THEN [trail EXCEPT ![o.side] = TrailFrom(f.price)] ELSE trail
           /\ balance' = balance + net
           /\ realized' = [realized EXCEPT ![k[3]] = @ + net]
           /\ losses' = [losses EXCEPT ![k[3]][bar] = @ + AtLeastZero(-net)]
           /\ samples' = Recorded(samples, f)
           /\ cash' = cash - f.fee
                + (IF Buys(o) THEN -1 ELSE 1) * f.moved * f.price * CMult[Sym]
           /\ overpaid' = overpaid
                + (IF o.reduce THEN 0 ELSE AtLeastZero(f.price - o.price) * f.moved * CMult[Sym])
           /\ rounded' = rounded
                + (IF o.reduce THEN 0 ELSE Sign(o.side) * Remainder(pos[k], f.qty, f.price) * CMult[Sym])
    /\ pending' = Tail(pending)
    /\ UNCHANGED <<market, marks, coolUntil, ceiling, priced>>

Expire ==
    /\ stage = "fill" /\ pending # <<>> /\ ~Fills(Head(pending))
    /\ pending' = Tail(pending)
    /\ UNCHANGED <<market, account, marks, coolUntil, history>>

-----------------------------------------------------------------------------
(* Funding and marking *)

\* One charge, however many intervals went by; shorts receive what longs pay.
Funding == AllBuckets([k \in Keys |->
    Sign(k[2]) * ((pos[k].size * candle.close * CMult[Sym] * candle.funding) \div 1000)])
Intervals == ((bar + 1) * BarHours) \div FundingHours
Charge == IF Intervals > charged THEN Funding ELSE 0

\* check_liquidation, against the balance the run started with.
Liquidated(worth) == LiquidationPct > 0 /\ 100 * worth <= LiquidationPct * Start

Settle ==
    /\ stage = "fill" /\ pending = <<>>
    /\ balance' = balance - Charge
    /\ funded' = funded + Charge
    /\ charged' = Max({charged, Intervals})
    /\ cash' = cash - Charge
    /\ equity' = balance' + Unrealized("GRID") + Unrealized("TREND")
    /\ peak' = Max({peak, equity'})
    /\ sourcePeak' = [b \in Buckets |-> Max({sourcePeak[b], realized[b] + Unrealized(b)})]
    /\ stage' = IF Liquidated(equity') THEN "over" ELSE "decide"
    /\ UNCHANGED <<bar, candle, ema, pos, trail, realized, losses, samples, coolUntil,
                   pending, ceiling, priced, overpaid, rounded>>

-----------------------------------------------------------------------------
(* The decision *)

\* The drawdown is not smoothed: dd_ema_span_minutes is 0.
Tier ==
    LET dd == 100 * (peak - equity)
    IN  IF dd >= RedPct * peak THEN "RED"
        ELSE IF dd >= OrangePct * peak THEN "ORANGE"
        ELSE IF dd >= YellowPct * peak THEN "YELLOW" ELSE "GREEN"

GridBook(v, h, d) ==
    FilterExits(h, FilterEntries(h, ComputeOrders(Acct, Sym, d, SideMode(v, d), CloseAggr(v)),
                                 candle.close))
Trailing(v, h, d) ==
    FilterEntries(h, TrailingEntry(Acct, Sym, d, SideMode(v, d), trail[d]), candle.close)

\* The engines' orders in the order they are collected, then the strategy's.
Proposed(v, h) ==
    GridBook(v, h, "LONG") \o GridBook(v, h, "SHORT")
    \o Trailing(v, h, "LONG") \o Trailing(v, h, "SHORT")
    \o FilterEntries(h, OverlayEntry(Acct, Sym, v, candle.funding, samples), candle.close)
    \o TrendExits(Acct, Sym, "LONG", candle) \o TrendExits(Acct, Sym, "SHORT", candle)
    \o BucketOrders(h, Acct, <<Sym, "LONG", "GRID">>) \o BucketOrders(h, Acct, <<Sym, "SHORT", "GRID">>)
    \o BucketOrders(h, Acct, <<Sym, "LONG", "TREND">>)
    \o BucketOrders(h, Acct, <<Sym, "SHORT", "TREND">>)

Decided(v, h) ==
    FinalConfirm(h, FilterOrders(Acct, Proposed(v, h) \o UnstuckOrders(Acct), Tier,
                                 bar < coolUntil))

Decide(v, h) ==
    /\ stage = "decide"
    /\ pending' = Decided(v, h)
    /\ coolUntil' = IF Tier = "RED" THEN bar + CooldownBars ELSE coolUntil
    /\ ceiling' = [k \in {"total"} \cup Sides |->
                      IF k = "total" THEN Max({Exposure(Acct, Keys), TotalCap(Acct)})
                      ELSE Max({Exposure(Acct, SideKeys(Sym, k)), SingleCap(Acct)})]
    /\ priced' = \A o \in Range(Proposed(v, h)) : o.reduce \/ o.price > 0
    /\ bar' = bar + 1
    /\ stage' = IF bar + 1 = MaxBars THEN "over" ELSE "mark"
    /\ UNCHANGED <<candle, ema, account, marks, cash, overpaid, rounded>>

RunNext ==
    \/ \E c \in Candles : Mark(c)
    \/ Fill \/ Expire \/ Settle
    \/ \E m \in Moods : Decide(m.view, m.hook)

RunSpec == RunInit /\ [][RunNext]_runVars

-----------------------------------------------------------------------------
(* Properties *)

Stages == {"mark", "fill", "decide", "over"}

\* Sizes are never negative, as _reduce_position asserts (backtest.py:1204-1207), and
\* always whole lots, though orders arrive in parts of a lot, for nothing and at no
\* price (backtest.py:1085-1107); a bucket has an entry price exactly while it is open.
RunTypeOK ==
    /\ bar \in 0 .. MaxBars /\ stage \in Stages /\ (stage # "over" => bar < MaxBars)
    /\ candle \in Candles /\ ema \in [fast : Nat \ {0}, slow : Nat \ {0}]
    /\ pos \in [Keys -> [size : Nat, entry : Nat]]
    /\ \A k \in Keys : (pos[k].size = 0) = (pos[k].entry = 0) /\ pos[k].size % QtyStep = 0
    /\ trail \in [Sides -> [on : BOOLEAN, extreme : Nat, recovery : Nat]]
    /\ \A d \in Sides : trail[d].on => trail[d].extreme > 0 /\ trail[d].recovery > 0
    /\ {balance, equity, peak, funded, cash, rounded} \subseteq Int
    /\ {charged, coolUntil, overpaid} \subseteq Nat
    /\ realized \in [Buckets -> Int] /\ sourcePeak \in [Buckets -> Nat]
    /\ losses \in [Buckets -> [0 .. MaxBars -> Nat]]
    /\ samples \in Seq(Int) /\ Len(samples) <= KellyWindow
    /\ pending \in Seq(Order)
    /\ ceiling \in [{"total"} \cup Sides -> Int] /\ priced \in BOOLEAN

\* The books close: once a bar is marked, equity is the money that changed hands
\* plus what the inventory is worth, and the balance is what it started with plus
\* the results of both buckets less funding, through averaging, clipped closes,
\* RISK orders on the grid bucket, and funding either way.
BooksAgree ==
    stage = "decide" =>
        /\ equity = cash + Inventory + rounded
        /\ balance = Start + realized["GRID"] + realized["TREND"] - funded

\* The caps of one bar hold through the fills of the next: nothing that fills
\* takes the account or a side above the cap it was decided under, or above what it
\* held then, but for the price a market entry slipped by, as long as every entry that
\* was proposed had a price: one without frees room for the others (risk.py:769-808).
CapsKept ==
    (stage \in {"fill", "decide"} /\ priced) =>
        /\ Exposure(Acct, Keys) <= ceiling["total"] + overpaid
        /\ \A d \in Sides : Exposure(Acct, SideKeys(Sym, d)) <= ceiling[d] + overpaid

\* A throttle at nothing is a latch: it lets no overlay through, and only the fills of
\* an overlay give it samples.  With the trend buckets closed and none of their entries
\* pending, neither grid results nor time nor a signal decide an overlay entry again.
Shut ==
    /\ KellyPct(samples) = 0
    /\ \A d \in Sides : ~IsOpen(pos[<<Sym, d, "TREND">>])
    /\ \A i \in DOMAIN pending : pending[i].src = "TREND" => pending[i].reduce
SuspendedStaysShut == [][Shut => Shut']_runVars

\* The overlay "re-activates automatically once the rolling window's mean turns positive
\* again" (sizing.py:41-43): it is never shut in such a way that nothing can turn the
\* mean any more.  It is: SuspendedStaysShut.
OverlayReopens == ~Shut

\* "Entry fills (realized_pnl == 0) are intentionally ignored" (sizing.py:53): only a
\* close gives the throttle a sample.  It counts what is left after the fee, which is
\* not nothing for an entry (sizing.py:118-127).
EntriesNotSampled == [][samples' # samples => Head(pending).reduce]_runVars
=============================================================================
