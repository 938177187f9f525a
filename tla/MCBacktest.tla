----------------------------- MODULE MCBacktest -----------------------------
(* The instance of Backtest for TLC: two units to a lot; prices are         *)
(* multiples of 36, so that averages and slippage come out even.            *)
EXTENDS Backtest

MCListed == <<"x">>
MCCMult == [s \in {"x"} |-> 1]
MCPausePct == [b \in {"GRID", "TREND"} |-> 10]
MCWel == [b \in {"GRID", "TREND"} |-> IF b = "GRID" THEN 60 ELSE 40]

Candle(low, high, close, funding) == [low |-> low, high |-> high, close |-> close, funding |-> funding]
MCCandles == {
    Candle(6840, 7560, 7200, 10),
    Candle(6120, 7200, 6480, -10),
    Candle(7200, 8280, 7920, 30),
    Candle(4680, 6480, 5040, -10)}

View(regime, conviction, enter, exit) ==
    [regime |-> regime, conviction |-> conviction, enter |-> enter, exit |-> exit]
Idle == [stake |-> 100, shift |-> 0, leave |-> FALSE, stop |-> 0, adjust |-> 0, answer |-> "yes"]
Mood(view, hook) == [view |-> view, hook |-> hook]
Neutral == View("NEUTRAL", 0, {}, {})

MCMoods == {
    Mood(Neutral, Idle),
    Mood(View("STRONG_BULL", 80, {}, {}), Idle),
    Mood(View("STRONG_BEAR", 30, {}, {}), [Idle EXCEPT !.stake = 200]),
    Mood(View("BULL", 80, {"LONG"}, {}), [Idle EXCEPT !.stake = 200, !.shift = -20000, !.adjust = -1]),
    Mood(View("BEAR", 20, {}, {"SHORT"}), [Idle EXCEPT !.leave = TRUE, !.adjust = 2]),
    Mood(Neutral, [Idle EXCEPT !.shift = 360, !.stop = 5, !.answer = "raise"])}
=============================================================================
