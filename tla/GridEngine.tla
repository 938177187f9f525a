----------------------------- MODULE GridEngine -----------------------------
(***************************************************************************)
(* The orders one side of a symbol gets from src/combo_bot/grid_engine.py: *)
(* the entry ladder, the close levels, the panic close and the trailing    *)
(* re-entry.  Distances are hundredths of a percent (bp); the weight of    *)
(* volatility in the spacing is 0.                                         *)
(***************************************************************************)
EXTENDS RiskRules

CONSTANTS
    PriceStep,              \* ExchangeParams.price_step
    InitDist, InitPct,      \* entry_initial_ema_dist, entry_initial_qty_pct
    Spacing, WeWeight,      \* entry_grid_spacing_pct, ..._we_weight (percent)
    DoubleDown, AggressiveDoubleDown, Compression,  \* factors, in percent
    MaxLevels,              \* max_grid_levels
    MarkupStart, MarkupEnd, CloseQtyPct,    \* close_grid_*
    TrailAt, TrailBack, TrailDouble         \* entry_trailing_*

ASSUME GridNumbersNat ==
    /\ {InitDist, InitPct, Spacing, WeWeight, DoubleDown, AggressiveDoubleDown, Compression} \subseteq Nat
    /\ {MarkupStart, MarkupEnd, TrailAt, TrailBack, TrailDouble} \subseteq Nat
    /\ InitDist < 10000
ASSUME StepsPositive == {PriceStep, CloseQtyPct, MaxLevels} \subseteq Nat \ {0}

Modes == {"NORMAL", "AGGRESSIVE", "TP_ONLY", "GRACEFUL_STOP", "PANIC"}
Entering == {"NORMAL", "AGGRESSIVE"}

\* bp away from a price, against the side or in its favour, to the price step.
Stepped(price, bp, up) ==
    IF up THEN -((-price * (10000 + bp)) \div (10000 * PriceStep)) * PriceStep
          ELSE ((price * (10000 + bp)) \div (10000 * PriceStep)) * PriceStep
Worse(side, price, bp) ==
    Stepped(price, IF side = "LONG" THEN -bp ELSE bp, side = "SHORT")
Better(side, price, bp) ==
    Stepped(price, IF side = "LONG" THEN bp ELSE -bp, side = "LONG")

GridOrder(sym, side, reduce, price, qty) ==
    [sym |-> sym, side |-> side, src |-> "GRID", reduce |-> reduce, market |-> FALSE,
     price |-> price, qty |-> qty]

GridLimit(acct) == PercentOf(Wel["GRID"], acct.balance)

-----------------------------------------------------------------------------
(* The entry ladder *)

\* The spacing widens with the share of the limit that is committed.
SpacingAt(acct, sym, size, price) ==
    LET share == (100 * size * price * CMult[sym]) \div GridLimit(acct)
    IN  IF GridLimit(acct) > 0 THEN Spacing + (Spacing * WeWeight * share) \div 10000 ELSE Spacing

\* One level: what it hangs, and where the next one stands.  The level that meets
\* the limit is cut to it and is the last; without a balance nothing is committed.
Level(acct, sym, side, mode, st) ==
    LET cost(n) == n * st.price * CMult[sym]
        capped == Quantized((GridLimit(acct) - cost(st.size)) \div (st.price * CMult[sym]))
        hang(n) == Append(st.out, GridOrder(sym, side, FALSE, st.price, n))
        spacing == SpacingAt(acct, sym, st.size + st.qty, st.price)
        aggressive == mode = "AGGRESSIVE"
    IN  IF st.done \/ st.qty < MinQty \/ st.price <= 0 \/ cost(st.qty) < MinCost
        THEN [st EXCEPT !.done = TRUE]
        ELSE IF acct.balance > 0 /\ cost(st.size + st.qty) > GridLimit(acct)
        THEN [st EXCEPT !.done = TRUE, !.out = IF capped >= MinQty THEN hang(capped) ELSE @]
        ELSE [done |-> FALSE, out |-> hang(st.qty), size |-> st.size + st.qty,
              price |-> Worse(side, st.price,
                              IF aggressive THEN PercentOf(Compression, spacing) ELSE spacing),
              qty |-> Quantized(PercentOf(IF aggressive THEN AggressiveDoubleDown
                                                        ELSE DoubleDown, st.qty))]

\* The first level stands off the band; it is sized before its price is put on its step.
FirstLevel(acct, sym, side) ==
    LET band == IF side = "LONG" THEN acct.ema[sym].lower ELSE acct.ema[sym].upper
        off == 10000 + (IF side = "LONG" THEN -InitDist ELSE InitDist)
        raw == (10000 * PercentOf(InitPct, GridLimit(acct))) \div (band * off * CMult[sym])
    IN  [done |-> band <= 0, out |-> <<>>, price |-> Worse(side, band, InitDist),
         qty |-> Max({Quantized(raw), MinQty}), size |-> acct.pos[<<sym, side, "GRID">>].size]

GridEntries(acct, sym, side, mode) ==
    LET upTo[n \in 0 .. MaxLevels] ==
            IF n = 0 THEN FirstLevel(acct, sym, side) ELSE Level(acct, sym, side, mode, upTo[n - 1])
    IN  upTo[MaxLevels].out

-----------------------------------------------------------------------------
(* The close levels *)

\* From the first markup to the last one.
CloseLevels == (99 + CloseQtyPct) \div CloseQtyPct
Markup(mode, aggr, i) ==
    LET scaled(bp) == (bp * aggr * (IF mode = "GRACEFUL_STOP" THEN 50 ELSE 100)) \div 10000
    IN  scaled(MarkupStart)
            + (IF CloseLevels = 1 THEN 0
               ELSE ((scaled(MarkupEnd) - scaled(MarkupStart)) * (i - 1)) \div (CloseLevels - 1))

\* A level takes its share of the position, the last one what is left.
CloseLevel(acct, sym, side, markup, st, i) ==
    LET p == acct.pos[<<sym, side, "GRID">>]
        share == IF i = CloseLevels THEN Quantized(st.rest)
                 ELSE Min({Quantized(PercentOf(CloseQtyPct, p.size)), st.rest})
    IN  IF share < MinQty THEN st
        ELSE [rest |-> st.rest - share,
              out |-> Append(st.out, GridOrder(sym, side, TRUE, Better(side, p.entry, markup), share))]

GridCloses(acct, sym, side, mode, aggr) ==
    LET upTo[n \in 0 .. CloseLevels] ==
            IF n = 0 THEN [rest |-> acct.pos[<<sym, side, "GRID">>].size, out |-> <<>>]
            ELSE CloseLevel(acct, sym, side, Markup(mode, aggr, n), upTo[n - 1], n)
    IN  upTo[CloseLevels].out

PanicClose(acct, sym, side) ==
    LET p == acct.pos[<<sym, side, "GRID">>]
    IN  IF IsOpen(p) THEN <<Close(sym, side, "RISK", acct.mark[sym], p.size, TRUE)>> ELSE <<>>

\* compute_orders: entries in the entering modes only, closes in all but PANIC.
ComputeOrders(acct, sym, side, mode, aggr) ==
    IF mode = "PANIC" THEN PanicClose(acct, sym, side)
    ELSE (IF IsOpen(acct.pos[<<sym, side, "GRID">>])
          THEN GridCloses(acct, sym, side, mode, aggr) ELSE <<>>)
         \o (IF mode \in Entering THEN GridEntries(acct, sym, side, mode) ELSE <<>>)

-----------------------------------------------------------------------------
(* The trailing re-entry *)

NotTrailing == [on |-> FALSE, extreme |-> 0, recovery |-> 0]
TrailFrom(price) == [on |-> TRUE, extreme |-> price, recovery |-> price]

\* A new extreme resets the recovery to itself.
Trailed(t, side, candle) ==
    LET deeper == IF side = "LONG" THEN candle.low < t.extreme ELSE candle.high > t.extreme
        end == IF side = "LONG" THEN candle.low ELSE candle.high
        back == IF side = "LONG" THEN Max({t.recovery, candle.high})
                                 ELSE Min({t.recovery, candle.low})
    IN  IF ~t.on THEN t
        ELSE IF deeper THEN [t EXCEPT !.extreme = end, !.recovery = end]
        ELSE [t EXCEPT !.recovery = back]

\* Both stages: far enough from the entry, and back from the extreme.
Turned(t, side, entry) ==
    IF side = "LONG"
    THEN /\ 10000 * t.extreme < entry * (10000 - TrailAt)
         /\ 10000 * t.recovery > t.extreme * (10000 + TrailBack)
    ELSE /\ 10000 * t.extreme > entry * (10000 + TrailAt)
         /\ 10000 * t.recovery < t.extreme * (10000 - TrailBack)

\* Cut to the room its own bucket leaves.
TrailingEntry(acct, sym, side, mode, t) ==
    LET p == acct.pos[<<sym, side, "GRID">>]
        gap == TrailAt - TrailBack
        level == (p.entry * (10000 + (IF side = "LONG" THEN -gap ELSE gap))) \div 10000
        price == IF side = "LONG" THEN Min({acct.mark[sym], level}) ELSE Max({acct.mark[sym], level})
        asked == Quantized(Max({PercentOf(TrailDouble, p.size), MinQty}))
        room == GridLimit(acct) - p.size * p.entry * CMult[sym]
        fits == asked * price * CMult[sym] <= room
        qty == IF fits THEN asked ELSE Quantized(room \div (price * CMult[sym]))
    IN  IF /\ TrailAt > 0 /\ TrailBack > 0
           /\ IsOpen(p) /\ t.on /\ mode \in Entering /\ acct.balance > 0
           /\ 1000 * CostAt(acct, <<sym, side, "GRID">>) < 999 * GridLimit(acct)
           /\ Turned(t, side, p.entry)
           /\ asked > 0 /\ room > 0 /\ (fits \/ qty >= MinQty) /\ qty * price * CMult[sym] >= MinCost
        THEN <<GridOrder(sym, side, FALSE, price, qty)>> ELSE <<>>
=============================================================================
