----------------------------- MODULE RiskLatch -----------------------------
(***************************************************************************)
(* The drawdown supervisor of src/combo_bot/hsl.py inside the risk filter  *)
(* of src/combo_bot/risk.py: tiers, the RED latch with its optional timed  *)
(* release, the cooldown after RED, and their way through the state file   *)
(* and a restart.                                                          *)
(*                                                                         *)
(* Drawdowns are levels 0 .. Worst.  Times are kept as minutes elapsed or  *)
(* left, so that the clock itself needs no bound.                          *)
(***************************************************************************)
EXTENDS Integers

CONSTANTS
    Yellow, Orange, Red,  \* the thresholds, as drawdown levels
    Worst,                \* the deepest drawdown level
    Smooth,        \* dd_ema_span_minutes > 0
    Cooldown,      \* cooldown_after_red_minutes
    AutoRelease    \* red_latch_auto_release_minutes, 0 for never

ASSUME ThresholdsOrdered ==
    /\ {Yellow, Orange, Red, Worst} \subseteq Nat
    /\ 0 < Yellow /\ Yellow < Orange /\ Orange < Red /\ Red <= Worst
ASSUME MinutesNat == Cooldown \in Nat /\ AutoRelease \in Nat
ASSUME SmoothBoolean == Smooth \in BOOLEAN

VARIABLES
    latchEnabled,  \* red_latch_enabled
    raw,     \* the drawdown of the account
    held,    \* whether a position is open: without one the drawdown stands still
    hsl,     \* the supervisor: see Supervisor
    file,    \* what the state file holds of it
    mode,    \* what the last filter_orders let through
    dirty,   \* orders went out since the last save
    redAge,  \* history: minutes since the last RED tick, at most Horizon
    episode, \* history: minutes since the first RED tick in a row, at most Horizon
    lost     \* history: the process died between orders and the save after them

vars == <<latchEnabled, lost, raw, held, hsl, file, mode, dirty, redAge, episode>>

Levels == 0 .. Worst
Tiers == {"green", "yellow", "orange", "red"}

Supervisor ==
    [tier : Tiers,
     latched : BOOLEAN,
     age : 0 .. AutoRelease,  \* minutes since red_latched_at_ms
     left : 0 .. Cooldown,    \* minutes until red_cooldown_until
     ema : Levels,
     init : BOOLEAN,          \* _dd_initialized
     due : BOOLEAN]           \* a minute began since _last_assess_minute

Fresh == [tier |-> "green", latched |-> FALSE, age |-> 0, left |-> 0, ema |-> 0,
          init |-> FALSE, due |-> FALSE]

Horizon == IF AutoRelease > Cooldown THEN AutoRelease ELSE Cooldown
Later(n, limit) == IF n < limit THEN n + 1 ELSE n

Init ==
    /\ latchEnabled \in BOOLEAN /\ lost = FALSE
    /\ raw \in Levels /\ held = FALSE
    /\ hsl = Fresh /\ file = Fresh
    /\ mode = "none" /\ dirty = FALSE
    /\ redAge = Horizon /\ episode = 0

-----------------------------------------------------------------------------
(* The market and the clock *)

Market ==
    /\ held
    /\ raw' \in Levels
    /\ UNCHANGED <<latchEnabled, lost, held, hsl, file, mode, dirty, redAge, episode>>

\* The exchange fills the panic orders.
Flatten ==
    /\ mode = "panic"
    /\ held
    /\ held' = FALSE
    /\ UNCHANGED <<latchEnabled, lost, raw, hsl, file, mode, dirty, redAge, episode>>

Aged(h) ==
    [h EXCEPT !.age = IF h.latched THEN Later(@, AutoRelease) ELSE @,
              !.left = IF @ > 0 THEN @ - 1 ELSE 0,
              !.due = TRUE]

Minute ==
    /\ hsl' = Aged(hsl)
    /\ file' = Aged(file)
    /\ redAge' = Later(redAge, Horizon)
    /\ episode' = Later(episode, Horizon)
    /\ UNCHANGED <<latchEnabled, lost, raw, held, mode, dirty>>

-----------------------------------------------------------------------------
(* assess and filter_orders, without an await between them *)

Released(h) ==
    IF h.latched /\ AutoRelease > 0 /\ h.age >= AutoRelease
    THEN [h EXCEPT !.latched = FALSE, !.age = 0, !.left = 0]
    ELSE h

\* Mutant: the step overshoots, as it would with a span below one minute.
AveragesOvershooting(h) == {raw + (raw - h.ema)}
\* One step of the average moves it towards the drawdown, by any amount: it
\* depends on the minutes since the last step.
Averages(h) ==
    IF ~Smooth THEN {h.ema}
    ELSE IF ~h.init THEN {raw}
    ELSE IF h.due
         THEN {e \in Levels : (h.ema <= e /\ e <= raw) \/ (raw <= e /\ e <= h.ema)}
    ELSE {h.ema}

Score(h, e) == IF Smooth /\ h.init /\ e < raw THEN e ELSE raw

Base(score) ==
    IF score >= Red THEN "red"
    ELSE IF score >= Orange THEN "orange"
    ELSE IF score >= Yellow THEN "yellow"
    ELSE "green"

\* Mutant: every tick of the latched tier starts the countdown anew.
AssessedRestarting(h, e) ==
    LET base == Base(Score(h, e))
        latched == h.latched \/ (latchEnabled /\ base = "red")
        tier == IF latched THEN "red" ELSE base
    IN  [h EXCEPT !.tier = tier, !.latched = latched,
                  !.age = 0,
                  !.left = IF tier = "red" THEN Cooldown ELSE @,
                  !.ema = e, !.init = @ \/ Smooth, !.due = FALSE]

\* The latch is set on its transition only; every RED tick renews the cooldown.
Assessed(h, e) ==
    LET base == Base(Score(h, e))
        latched == h.latched \/ (latchEnabled /\ base = "red")
        tier == IF latched THEN "red" ELSE base
    IN  [h EXCEPT !.tier = tier, !.latched = latched,
                  !.age = IF h.latched THEN @ ELSE 0,
                  !.left = IF tier = "red" THEN Cooldown ELSE @,
                  !.ema = e, !.init = @ \/ Smooth, !.due = FALSE]

\* Mutant: the cooldown is not looked at.
PassesHot(h) ==
    IF h.tier = "red" THEN "panic"
    ELSE IF h.tier = "orange" THEN "reduce"
    ELSE "entries"

\* What filter_orders lets through: the panic orders only, reduce-only orders
\* only, or entries too.
Passes(h) ==
    IF h.tier = "red" THEN "panic"
    ELSE IF h.left > 0 \/ h.tier = "orange" THEN "reduce"
    ELSE "entries"

Tick ==
    /\ \E e \in Averages(Released(hsl)) : hsl' = Assessed(Released(hsl), e)
    /\ mode' = Passes(hsl')
    /\ held' \in IF mode' = "entries" THEN {held, TRUE} ELSE {held}
    /\ dirty' = TRUE
    /\ redAge' = IF mode' = "panic" THEN 0 ELSE redAge
    /\ episode' = IF mode' = "panic" /\ mode # "panic" THEN 0 ELSE episode
    /\ UNCHANGED <<latchEnabled, lost, raw, file>>

-----------------------------------------------------------------------------
(* The state file *)

Save ==
    /\ dirty
    /\ file' = hsl
    /\ dirty' = FALSE
    /\ UNCHANGED <<latchEnabled, lost, raw, held, hsl, mode, redAge, episode>>

\* Mutant: the latch is not restored.
LoadedUnlatched(f) == [f EXCEPT !.latched = FALSE, !.age = 0]
Loaded(f) == f

\* stop saves before the process ends; a crash does not.
Restart ==
    /\ hsl' = Loaded(file)
    /\ dirty' = FALSE
    /\ lost' = (lost \/ dirty)
    /\ UNCHANGED <<latchEnabled, raw, held, file, mode, redAge, episode>>

Next == Market \/ Flatten \/ Minute \/ Tick \/ Save \/ Restart

Spec == Init /\ [][Next]_vars

\* Minutes pass, the loop ticks and saves, and the exchange fills the panic
\* orders.
Fairness == WF_vars(Minute) /\ WF_vars(Tick) /\ WF_vars(Save) /\ WF_vars(Flatten)

FairSpec == Spec /\ Fairness

-----------------------------------------------------------------------------
(* Properties *)

\* Every variable has the type its code structure gives it.
TypeOK ==
    /\ latchEnabled \in BOOLEAN /\ lost \in BOOLEAN
    /\ raw \in Levels /\ held \in BOOLEAN
    /\ hsl \in Supervisor /\ file \in Supervisor
    /\ mode \in {"none", "panic", "reduce", "entries"} /\ dirty \in BOOLEAN
    /\ redAge \in 0 .. Horizon /\ episode \in 0 .. Horizon

\* What the properties ask for is not said of a process that died between the
\* panic orders and the save of the latch: it forgets RED, although "a restart
\* doesn't forget RED" (live.py:3332).

\* After a RED tick no entry passes before the cooldown is over, whatever the
\* drawdown, the average, the clock and restarts do in between.  Only the timed
\* release of the latch ends the cooldown early (hsl.py:111-113).
CooldownServed ==
    ~lost /\ (AutoRelease = 0 \/ ~latchEnabled) /\ mode = "entries" => redAge >= Cooldown

\* Once the panic orders went out, nothing else goes out before the latch was
\* held for AutoRelease minutes; with AutoRelease = 0 nothing ever does ("manual
\* reset only, the safe default for real money", hsl.py:47-49).
LatchHolds ==
    [][~lost' /\ latchEnabled /\ mode = "panic" /\ mode' # "panic"
          => AutoRelease > 0 /\ episode >= AutoRelease]_vars

\* A latch on an account that is back above the threshold is released.
ReleasedBelowRed == hsl.latched ~> (~hsl.latched \/ raw >= Red)
=============================================================================
