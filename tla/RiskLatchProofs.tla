--------------------------- MODULE RiskLatchProofs ---------------------------
(***************************************************************************)
(* Theorems about the drawdown supervisor, for any thresholds, cooldown    *)
(* and release time, with or without the latch and the smoothing.          *)
(***************************************************************************)
EXTENDS RiskLatch, TLAPS

-----------------------------------------------------------------------------
(* The inductive invariant *)

\* Nothing went out since the last save, so the file is as old as the memory.
SavedIsCurrent == ~dirty => file = hsl

\* The latch and the panic come together, and the latch is no older.
LatchIsPanic ==
    /\ hsl.latched => latchEnabled
    /\ hsl.latched => mode = "panic"
    /\ latchEnabled /\ mode = "panic" => hsl.latched /\ hsl.age <= episode

\* The cooldown that is left and the time since RED make up the cooldown.
CooldownRuns ==
    AutoRelease = 0 \/ ~latchEnabled =>
        /\ hsl.left + redAge >= Cooldown
        /\ mode = "entries" => redAge >= Cooldown

IInv == TypeOK /\ (~lost => SavedIsCurrent /\ LatchIsPanic /\ CooldownRuns)

-----------------------------------------------------------------------------
(* Lemmas about the operators *)

LEMMA Constants ==
    /\ Cooldown \in Nat /\ AutoRelease \in Nat /\ Worst \in Nat
    /\ Horizon \in Nat /\ Cooldown <= Horizon /\ AutoRelease <= Horizon
    /\ Smooth \in BOOLEAN
BY MinutesNat, ThresholdsOrdered, SmoothBoolean DEF Horizon

LEMMA FreshType == Fresh \in Supervisor
BY Constants DEF Fresh, Supervisor, Tiers, Levels

\* A minute ages the latch and runs down the cooldown.
LEMMA AgedType ==
    ASSUME NEW h \in Supervisor
    PROVE  /\ Aged(h) \in Supervisor
           /\ Aged(h).latched = h.latched
           /\ Aged(h).age \in {h.age} \/ Aged(h).age = h.age + 1
           /\ Aged(h).left = IF h.left > 0 THEN h.left - 1 ELSE 0
<1> DEFINE a == IF h.latched THEN Later(h.age, AutoRelease) ELSE h.age
           l == IF h.left > 0 THEN h.left - 1 ELSE 0
<1>1. a \in 0 .. AutoRelease /\ (a = h.age \/ a = h.age + 1)
  BY Constants DEF Supervisor, Later
<1>2. l \in 0 .. Cooldown
  BY Constants DEF Supervisor
<1>3. Aged(h) = [h EXCEPT !.age = a, !.left = l, !.due = TRUE]
  BY DEF Aged
<1> HIDE DEF a
<1>4. Aged(h) \in Supervisor
  <2> HIDE DEF l
  <2> QED BY <1>1, <1>2, <1>3 DEF Supervisor
<1> QED BY <1>1, <1>3, <1>4 DEF Supervisor

LEMMA ReleasedType ==
    ASSUME NEW h \in Supervisor
    PROVE  /\ Released(h) \in Supervisor
           /\ Released(h).latched => h.latched /\ Released(h) = h
           /\ Released(h) # h => h.latched /\ AutoRelease > 0 /\ h.age >= AutoRelease
<1> DEFINE due == h.latched /\ AutoRelease > 0 /\ h.age >= AutoRelease
<1>1. CASE due
  <2>1. Released(h) = [h EXCEPT !.latched = FALSE, !.age = 0, !.left = 0]
    BY <1>1 DEF Released
  <2>2. 0 \in 0 .. AutoRelease /\ 0 \in 0 .. Cooldown
    BY Constants
  <2> QED BY <1>1, <2>1, <2>2 DEF Supervisor
<1>2. CASE ~due
  BY <1>2 DEF Released
<1> QED BY <1>1, <1>2

LEMMA AveragesType ==
    ASSUME NEW h \in Supervisor, raw \in Levels
    PROVE  Averages(h) \subseteq Levels
BY DEF Averages, Supervisor

LEMMA AssessedType ==
    ASSUME NEW h \in Supervisor, NEW e \in Levels, latchEnabled \in BOOLEAN
    PROVE  /\ Assessed(h, e) \in Supervisor
           /\ Assessed(h, e).latched => Assessed(h, e).tier = "red"
           /\ latchEnabled /\ Assessed(h, e).tier = "red" => Assessed(h, e).latched
           /\ h.latched => Assessed(h, e).latched
           /\ ~latchEnabled /\ ~h.latched => ~Assessed(h, e).latched
           /\ Assessed(h, e).age = IF h.latched THEN h.age ELSE 0
           /\ Assessed(h, e).left = IF Assessed(h, e).tier = "red" THEN Cooldown ELSE h.left
<1> DEFINE base == Base(Score(h, e))
           latched == h.latched \/ (latchEnabled /\ base = "red")
           tier == IF latched THEN "red" ELSE base
           age == IF h.latched THEN h.age ELSE 0
           left == IF tier = "red" THEN Cooldown ELSE h.left
           init == h.init \/ Smooth
<1>1. Assessed(h, e) = [h EXCEPT !.tier = tier, !.latched = latched, !.age = age,
                                 !.left = left, !.ema = e, !.init = init, !.due = FALSE]
  BY DEF Assessed
<1>2. base \in Tiers
  BY DEF Base, Tiers
<1>3. latched \in BOOLEAN /\ init \in BOOLEAN
  BY Constants DEF Supervisor
<1>4. tier \in Tiers
  BY <1>2 DEF Tiers
<1>5. age \in 0 .. AutoRelease /\ left \in 0 .. Cooldown
  BY Constants DEF Supervisor
<1>6. Assessed(h, e) \in Supervisor
  <2> HIDE DEF base, latched, tier, age, left, init
  <2> QED BY <1>1, <1>3, <1>4, <1>5 DEF Supervisor
<1>7. /\ Assessed(h, e).tier = tier /\ Assessed(h, e).latched = latched
      /\ Assessed(h, e).age = age /\ Assessed(h, e).left = left
  <2> HIDE DEF base, latched, tier, age, left, init
  <2> QED BY <1>1 DEF Supervisor
<1>8. /\ latchEnabled /\ tier = "red" => latched
      /\ ~latchEnabled /\ ~h.latched => ~latched
  OBVIOUS
<1> QED BY <1>6, <1>7, <1>8

-----------------------------------------------------------------------------
(* The steps *)

LEMMA InitIInv == Init => IInv
<1> SUFFICES ASSUME Init PROVE IInv
  OBVIOUS
<1>1. TypeOK
  <2>1. 0 \in 0 .. Horizon /\ Horizon \in 0 .. Horizon
    BY Constants
  <2> QED BY <2>1, FreshType DEF Init, TypeOK
<1>2. SavedIsCurrent /\ LatchIsPanic
  BY DEF Init, SavedIsCurrent, LatchIsPanic, Fresh
<1>3. CooldownRuns
  BY Constants DEF Init, CooldownRuns, Fresh
<1> QED BY <1>1, <1>2, <1>3 DEF IInv

LEMMA MinuteIInv ==
    ASSUME IInv, Minute
    PROVE  IInv'
<1> USE DEF IInv
<1>0. /\ hsl \in Supervisor /\ file \in Supervisor
      /\ hsl' = Aged(hsl) /\ file' = Aged(file)
      /\ UNCHANGED <<latchEnabled, lost, raw, held, mode, dirty>>
      /\ redAge \in 0 .. Horizon /\ episode \in 0 .. Horizon
      /\ redAge' = Later(redAge, Horizon) /\ episode' = Later(episode, Horizon)
  BY DEF Minute, TypeOK
<1>1. /\ redAge' \in 0 .. Horizon /\ episode' \in 0 .. Horizon
      /\ redAge' >= redAge /\ (redAge' = redAge + 1 \/ redAge' = Horizon)
      /\ episode' = episode + 1 \/ episode' = Horizon
  BY <1>0, Constants DEF Later
<1>2. TypeOK'
  BY <1>0, <1>1, AgedType DEF TypeOK
<1> SUFFICES ASSUME ~lost PROVE SavedIsCurrent' /\ LatchIsPanic' /\ CooldownRuns'
  BY <1>0, <1>2
<1>3. SavedIsCurrent'
  BY <1>0 DEF SavedIsCurrent
<1>4. LatchIsPanic'
  <2>1. hsl'.latched = hsl.latched /\ (hsl'.age = hsl.age \/ hsl'.age = hsl.age + 1)
    BY <1>0, AgedType
  <2>2. hsl.age \in 0 .. AutoRelease /\ hsl'.age \in 0 .. AutoRelease
    BY <1>0, AgedType DEF Supervisor
  <2> QED BY <1>0, <1>1, <2>1, <2>2, Constants DEF LatchIsPanic
<1>5. CooldownRuns'
  <2>1. hsl'.left = (IF hsl.left > 0 THEN hsl.left - 1 ELSE 0) /\ hsl.left \in 0 .. Cooldown
    BY <1>0, AgedType DEF Supervisor
  <2> QED BY <1>0, <1>1, <2>1, Constants DEF CooldownRuns
<1> QED BY <1>3, <1>4, <1>5

\* One assessment of the filter, and what it lets through.
LEMMA TickIInv ==
    ASSUME IInv, Tick
    PROVE  /\ IInv'
           /\ ~lost /\ latchEnabled /\ mode = "panic" /\ mode' # "panic"
                  => AutoRelease > 0 /\ episode >= AutoRelease
<1> USE DEF IInv
<1> DEFINE h == Released(hsl)
<1>0. /\ hsl \in Supervisor /\ raw \in Levels /\ latchEnabled \in BOOLEAN
      /\ redAge \in 0 .. Horizon /\ episode \in 0 .. Horizon
      /\ hsl.age \in 0 .. AutoRelease /\ hsl.left \in 0 .. Cooldown
  BY DEF TypeOK, Supervisor
<1>1. /\ h \in Supervisor
      /\ h.latched => hsl.latched /\ h = hsl
      /\ h # hsl => hsl.latched /\ AutoRelease > 0 /\ hsl.age >= AutoRelease
  BY <1>0, ReleasedType
<1>2. PICK e \in Averages(h) : hsl' = Assessed(h, e)
  BY DEF Tick
<1> HIDE DEF h
<1>3. e \in Levels
  BY <1>0, <1>1, <1>2, AveragesType
<1>4. /\ hsl' \in Supervisor
      /\ hsl'.latched => hsl'.tier = "red"
      /\ latchEnabled /\ hsl'.tier = "red" => hsl'.latched
      /\ h.latched => hsl'.latched
      /\ ~latchEnabled /\ ~h.latched => ~hsl'.latched
      /\ hsl'.age = (IF h.latched THEN h.age ELSE 0)
      /\ hsl'.left = (IF hsl'.tier = "red" THEN Cooldown ELSE h.left)
  BY <1>0, <1>1, <1>2, <1>3, AssessedType
<1>5. /\ mode' \in {"panic", "reduce", "entries"}
      /\ mode' = "panic" <=> hsl'.tier = "red"
      /\ mode' = "entries" => ~(hsl'.left > 0)
  BY DEF Tick, Passes
<1>6. /\ redAge' = (IF mode' = "panic" THEN 0 ELSE redAge)
      /\ episode' = (IF mode' = "panic" /\ mode # "panic" THEN 0 ELSE episode)
      /\ dirty' = TRUE /\ held' \in {held, TRUE} /\ UNCHANGED <<latchEnabled, lost, raw, file>>
  BY DEF Tick
<1>7. TypeOK'
  <2>1. redAge' \in 0 .. Horizon /\ episode' \in 0 .. Horizon
    BY <1>0, <1>6, Constants
  <2>2. held' \in BOOLEAN /\ raw' \in Levels /\ file' \in Supervisor
    BY <1>6 DEF TypeOK
  <2>3. latchEnabled' \in BOOLEAN /\ lost' \in BOOLEAN
    BY <1>6 DEF TypeOK
  <2> QED BY <1>4, <1>5, <1>6, <2>1, <2>2, <2>3 DEF TypeOK
<1> SUFFICES ASSUME ~lost
             PROVE  /\ SavedIsCurrent' /\ LatchIsPanic' /\ CooldownRuns'
                    /\ latchEnabled /\ mode = "panic" /\ mode' # "panic"
                           => AutoRelease > 0 /\ episode >= AutoRelease
  BY <1>6, <1>7
<1>8. SavedIsCurrent'
  BY <1>6 DEF SavedIsCurrent
<1>9. LatchIsPanic'
  BY <1>0, <1>1, <1>4, <1>5, <1>6 DEF LatchIsPanic
<1>10. CooldownRuns'
  <2>1. AutoRelease = 0 \/ ~latchEnabled => h = hsl
    BY <1>0, <1>1, Constants DEF LatchIsPanic
  <2> QED BY <1>0, <1>4, <1>5, <1>6, <2>1, Constants DEF CooldownRuns
<1>11. latchEnabled /\ mode = "panic" /\ mode' # "panic"
           => AutoRelease > 0 /\ episode >= AutoRelease
  BY <1>0, <1>1, <1>4, <1>5, Constants DEF LatchIsPanic
<1> QED BY <1>8, <1>9, <1>10, <1>11

\* The steps that leave the supervisor's times alone.
LEMMA QuietIInv ==
    ASSUME IInv, Market \/ Flatten \/ Save \/ Restart \/ UNCHANGED vars
    PROVE  IInv' /\ mode' = mode
<1> USE DEF IInv
<1>1. CASE Market \/ Flatten \/ UNCHANGED vars
  <2>1. UNCHANGED <<latchEnabled, lost, hsl, file, mode, dirty, redAge, episode>>
    BY <1>1 DEF Market, Flatten, vars
  <2>2. raw' \in Levels /\ held' \in BOOLEAN
    BY <1>1 DEF Market, Flatten, vars, TypeOK
  <2>3. TypeOK'
    BY <2>1, <2>2 DEF TypeOK
  <2>4. ~lost => SavedIsCurrent' /\ LatchIsPanic' /\ CooldownRuns'
    BY <2>1 DEF SavedIsCurrent, LatchIsPanic, CooldownRuns
  <2> QED BY <2>1, <2>3, <2>4
<1>2. CASE Save
  <2>1. /\ UNCHANGED <<latchEnabled, lost, raw, held, hsl, mode, redAge, episode>>
        /\ file' = hsl /\ dirty' = FALSE
    BY <1>2 DEF Save
  <2>2. TypeOK'
    BY <2>1 DEF TypeOK
  <2>3. ~lost => SavedIsCurrent' /\ LatchIsPanic' /\ CooldownRuns'
    BY <2>1 DEF SavedIsCurrent, LatchIsPanic, CooldownRuns
  <2> QED BY <2>1, <2>2, <2>3
<1>3. CASE Restart
  <2>1. /\ hsl' = file /\ UNCHANGED <<latchEnabled, raw, held, file, mode, redAge, episode>>
        /\ dirty' = FALSE /\ lost' = (lost \/ dirty)
    BY <1>3 DEF Restart, Loaded
  <2>2. TypeOK'
    BY <2>1 DEF TypeOK
  <2>3. SavedIsCurrent'
    BY <2>1 DEF SavedIsCurrent
  <2>4. CASE lost'
    BY <2>1, <2>2, <2>4
  <2>5. CASE ~lost'
    <3>1. ~lost /\ file = hsl
      BY <2>1, <2>5 DEF SavedIsCurrent
    <3> QED BY <2>1, <2>2, <2>3, <3>1 DEF LatchIsPanic, CooldownRuns
  <2> QED BY <2>1, <2>4, <2>5
<1> QED BY <1>1, <1>2, <1>3

LEMMA NextIInv ==
    ASSUME IInv, [Next]_vars
    PROVE  /\ IInv'
           /\ ~lost' /\ latchEnabled /\ mode = "panic" /\ mode' # "panic"
                  => AutoRelease > 0 /\ episode >= AutoRelease
<1>1. CASE Minute
  BY <1>1, MinuteIInv DEF Minute
<1>2. CASE Tick
  BY <1>2, TickIInv DEF Tick
<1>3. CASE Market \/ Flatten \/ Save \/ Restart \/ UNCHANGED vars
  BY <1>3, QuietIInv
<1> QED BY <1>1, <1>2, <1>3 DEF Next

-----------------------------------------------------------------------------
(* The theorems *)

LEMMA RiskInductive == Spec => []IInv
<1>1. Init => IInv
  BY InitIInv
<1>2. IInv /\ [Next]_vars => IInv'
  BY NextIInv
<1> QED BY <1>1, <1>2, PTL DEF Spec

\* Every variable keeps its type, whatever the thresholds: no tier, average,
\* cooldown or latch age of HslSupervisor ever leaves its range.
THEOREM RiskTypes == Spec => []TypeOK
<1>1. IInv => TypeOK
  BY DEF IInv
<1> QED BY <1>1, RiskInductive, PTL

\* Without a timed release, filter_orders lets no entry pass before the cooldown
\* after the last RED tick is over (risk.py:196-200 and 217-218), for every
\* cooldown, any thresholds and any number of restarts that follow a save.
THEOREM RiskCooldownServed == Spec => []CooldownServed
<1>1. IInv => CooldownServed
  BY DEF IInv, CooldownRuns, CooldownServed
<1> QED BY <1>1, RiskInductive, PTL

\* The latch that RED sets keeps everything but panic orders from going out for
\* at least AutoRelease minutes, for ever if that is 0 (hsl.py:103-113, 127-137),
\* through any number of restarts that follow a save.
THEOREM RiskLatchHolds == Spec => LatchHolds
<1>1. IInv /\ [Next]_vars =>
          [~lost' /\ latchEnabled /\ mode = "panic" /\ mode' # "panic"
               => AutoRelease > 0 /\ episode >= AutoRelease]_vars
  BY NextIInv
<1> QED BY <1>1, RiskInductive, PTL DEF Spec, LatchHolds
==============================================================================
