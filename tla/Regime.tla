------------------------------- MODULE Regime -------------------------------
(***************************************************************************)
(* What the regime makes of a bar: the grid mode of each side and the      *)
(* trend overlay (RegimeArbiter.compute of src/combo_bot/regime.py), the   *)
(* stops of the trend bucket (src/combo_bot/merger.py), and how far the    *)
(* record of past trades throttles the overlay (src/combo_bot/sizing.py).  *)
(*                                                                         *)
(* A view is the trend signal with the strategy's own signals: its regime, *)
(* its conviction in percent, the sides the strategy enters and exits.     *)
(***************************************************************************)
EXTENDS RiskRules

CONSTANTS
    AggressiveAt,       \* aggressive_strength
    PanicOpposite,      \* panic_close_opposite_on_strong
    OverlayFloor, OverlaySizing,    \* overlay_min_conviction, overlay_sizing_scale
    FundingVeto,        \* funding_overlay_veto_pct, in permille
    WeakAggr, StrongAggr,   \* bull_bear_ and strong_close_aggressiveness
    EntryPct,           \* trend_entry_qty_pct
    StopLoss, TakeProfit,   \* trend_stop_loss_pct, trend_take_profit_pct
    KellyWindow, KellyMin, KellyPart    \* window, min_samples, fractional_kelly

ASSUME RegimeNumbersNat ==
    /\ {AggressiveAt, OverlayFloor, OverlaySizing, FundingVeto} \subseteq Nat
    /\ {WeakAggr, StrongAggr, EntryPct, StopLoss, TakeProfit} \subseteq Nat
    /\ PanicOpposite \in BOOLEAN
ASSUME KellyNat == {KellyWindow, KellyMin} \subseteq Nat \ {0} /\ KellyPart \in Nat

Opposite(d) == IF d = "LONG" THEN "SHORT" ELSE "LONG"
Strong(d) == IF d = "LONG" THEN "STRONG_BULL" ELSE "STRONG_BEAR"
Mild(d) == IF d = "LONG" THEN "BULL" ELSE "BEAR"
Guarded == {"PANIC", "GRACEFUL_STOP", "TP_ONLY"}
Regimes == {"STRONG_BULL", "BULL", "NEUTRAL", "BEAR", "STRONG_BEAR"}
Views == [regime : Regimes, conviction : Nat, enter : SUBSET Sides, exit : SUBSET Sides]

\* The mode the signal gives a side, then the strategy's exit, then its entry:
\* an exit wins over an entry, a defensive mode over both.
SignalMode(v, d) ==
    IF v.regime = Strong(Opposite(d)) THEN (IF PanicOpposite THEN "PANIC" ELSE "TP_ONLY")
    ELSE IF v.regime = Mild(Opposite(d)) THEN "TP_ONLY"
    ELSE IF v.regime = Strong(d) /\ v.conviction >= AggressiveAt THEN "AGGRESSIVE"
    ELSE "NORMAL"
ExitMode(v, d) ==
    IF d \in v.exit /\ SignalMode(v, d) \notin {"PANIC", "GRACEFUL_STOP"} THEN "TP_ONLY"
    ELSE SignalMode(v, d)
Promotes(v, d) == d \in v.enter \ v.exit /\ ExitMode(v, d) \notin Guarded
SideMode(v, d) == IF Promotes(v, d) THEN "AGGRESSIVE" ELSE ExitMode(v, d)

\* The side that would pay funding is not entered.
Vetoed(d, funding) == IF d = "LONG" THEN funding > FundingVeto ELSE funding < -FundingVeto

\* The curve of the conviction is taken as 1.
ScaleOf(conviction) ==
    IF conviction <= OverlayFloor THEN 0 ELSE Min({100, PercentOf(OverlaySizing, conviction)})

\* The overlay: of the strong side, or of the side the strategy enters, long first.
NoOverlay == [side |-> "none", scale |-> 0]
Overlay(v, funding) ==
    LET bySignal == {d \in Sides : /\ v.regime = Strong(d) /\ ScaleOf(v.conviction) > 0
                                   /\ ~Vetoed(d, funding) /\ d \notin v.exit}
        byStrategy == {d \in Sides : Promotes(v, d) /\ ~Vetoed(d, funding)}
    IN  CASE bySignal # {} ->
               [side |-> CHOOSE d \in bySignal : TRUE, scale |-> ScaleOf(v.conviction)]
          [] bySignal = {} /\ byStrategy # {} ->
               [side |-> IF "LONG" \in byStrategy THEN "LONG" ELSE "SHORT", scale |-> 50]
          [] OTHER -> NoOverlay

CloseAggr(v) ==
    IF v.regime \in {"STRONG_BULL", "STRONG_BEAR"} THEN StrongAggr
    ELSE IF v.regime \in {"BULL", "BEAR"} THEN WeakAggr ELSE 100

-----------------------------------------------------------------------------
(* The stops of the trend bucket *)

\* The stop looks at the extremes of the bar, the target at its close; the whole
\* bucket is closed at the market.
TrendExits(acct, sym, side, candle) ==
    LET p == acct.pos[<<sym, side, "TREND">>]
        stopped == IF side = "LONG" THEN 100 * candle.low <= p.entry * (100 - StopLoss)
                                    ELSE 100 * candle.high >= p.entry * (100 + StopLoss)
        reached == IF side = "LONG" THEN 100 * candle.close >= p.entry * (100 + TakeProfit)
                                    ELSE 100 * candle.close <= p.entry * (100 - TakeProfit)
    IN  IF IsOpen(p) /\ (stopped \/ reached)
        THEN <<Close(sym, side, "TREND", candle.close, p.size, TRUE)>> ELSE <<>>

-----------------------------------------------------------------------------
(* The Kelly throttle of the overlay *)

\* The return on the notional of a TREND fill, in permille; only a fill that nets
\* to zero or has no notional is not counted, so an entry counts with its fee.
Notional(fill) == AtLeastZero(fill.qty * fill.price) + AtLeastZero(-(fill.qty * fill.price))
Recorded(samples, fill) ==
    LET net == fill.pnl - fill.fee
        notional == Notional(fill)
        all == Append(samples, (1000 * net) \div notional)
    IN  IF net = 0 \/ notional <= 0 \/ fill.src # "TREND" THEN samples
        ELSE SubSeq(all, Max({1, Len(all) - KellyWindow + 1}), Len(all))

\* mean / variance, a part of it, between nothing and all, in percent.
KellyPct(samples) ==
    LET n == Len(samples)
        sum == Total(samples)
        off(i) == n * samples[i] - sum
        spread == Total([i \in DOMAIN samples |-> off(i) * off(i)])
    IN  IF n < KellyMin THEN 100
        ELSE IF sum <= 0 THEN 0
        ELSE IF spread = 0 THEN 100
        ELSE Min({100, (sum * n * n * 1000 * KellyPart) \div spread})

\* The first entry of the overlay, unless its bucket is open or it does not fit.
OverlayEntry(acct, sym, v, funding, samples) ==
    LET o == Overlay(v, funding)
        price == acct.mark[sym]
        budget == PercentOf(Wel["TREND"], acct.balance)
        scale == PercentOf(o.scale, KellyPct(samples))
        qty == Max({PercentOf(scale, PercentOf(EntryPct, budget)) \div (price * CMult[sym]), MinQty})
        cost == qty * price * CMult[sym]
    IN  IF \/ o.side = "none" \/ scale <= 0
           \/ IsOpen(acct.pos[<<sym, o.side, "TREND">>])
           \/ cost > budget \/ cost < MinCost
        THEN <<>>
        ELSE <<[sym |-> sym, side |-> o.side, src |-> "TREND", reduce |-> FALSE,
                market |-> TRUE, price |-> price, qty |-> qty]>>
=============================================================================
