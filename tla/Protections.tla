---------------------------- MODULE Protections -----------------------------
(***************************************************************************)
(* src/combo_bot/protections.py: locks on new entries.  StoplossGuard      *)
(* locks when losses cluster, CooldownPeriod after every loss, and the     *)
(* manager keeps the locks and drops the entries they match.               *)
(*                                                                         *)
(* A fill is [sym, side, src, at, pnl, fee]; a lock is [until, sym, side,  *)
(* src], where Every stands for the scope fields that are None.            *)
(***************************************************************************)
EXTENDS Integers, Sequences, FiniteSets, SequencesExt, FiniteSetsExt

CONSTANTS
    Lookback, LossLimit, StopDuration,  \* StoplossGuardConfig
    PerPair, PerSide, PerSource,        \* only_per_pair, _side, _source
    CoolDuration                        \* CooldownPeriodConfig.stop_duration_ms

ASSUME DurationsNat == {Lookback, StopDuration, CoolDuration} \subseteq Nat
ASSUME LossLimitPositive == LossLimit \in Nat \ {0}
ASSUME ScopesBoolean == {PerPair, PerSide, PerSource} \subseteq BOOLEAN

Every == "any"

\* Opens book no profit; a close that does not earn its fee is a loss.
IsLoss(fill) == fill.pnl # 0 /\ fill.pnl - fill.fee < 0

Matches(lock, order) ==
    /\ lock.sym \in {Every, order.sym}
    /\ lock.side \in {Every, order.side}
    /\ lock.src \in {Every, order.src}

-----------------------------------------------------------------------------
(* StoplossGuard *)

Scope(fill) ==
    [sym |-> IF PerPair THEN fill.sym ELSE Every,
     side |-> IF PerSide THEN fill.side ELSE Every,
     src |-> IF PerSource THEN fill.src ELSE Every]

InWindow(fill, now) == fill.at >= now - Lookback

\* The losses among the first n fills, in their order, and those of a whole update.
LossesUpTo(fills) ==
    LET f[n \in 0 .. Len(fills)] ==
            IF n = 0 THEN <<>>
            ELSE IF IsLoss(fills[n]) THEN Append(f[n - 1], fills[n]) ELSE f[n - 1]
    IN  f
Losing(fills) == LossesUpTo(fills)[Len(fills)]

\* The deque is pruned from the front only, up to the first loss in the window:
\* an older one that came in behind it stays.
\* Mutant: pruned from the back.
PrunedAtBack(losses, now) ==
    LET alive == {i \in DOMAIN losses : InWindow(losses[i], now)}
    IN  IF alive = {} THEN <<>> ELSE SubSeq(losses, Max(alive), Len(losses))
Pruned(losses, now) ==
    LET alive == {i \in DOMAIN losses : InWindow(losses[i], now)}
    IN  IF alive = {} THEN <<>> ELSE SubSeq(losses, Min(alive), Len(losses))

LockOf(scope, until) ==
    [until |-> until, sym |-> scope.sym, side |-> scope.side, src |-> scope.src]

\* One lock for each group of losses that reaches the limit.
GuardLocks(losses, now) ==
    LET group(scope) == {i \in DOMAIN losses : Scope(losses[i]) = scope}
        scopes == {Scope(losses[i]) : i \in DOMAIN losses}
    IN  {LockOf(g, now + StopDuration) :
            g \in {s \in scopes : Cardinality(group(s)) >= LossLimit}}

(* CooldownPeriod: every loss locks its symbol, side and source. *)
CooldownLocks(fills, now) ==
    {LockOf(fills[i], now + CoolDuration) : i \in {j \in DOMAIN fills : IsLoss(fills[j])}}

-----------------------------------------------------------------------------
(* The manager *)

Unexpired(locks, now) == {l \in locks : l.until > now}

\* One update: expired locks go, the guard takes in the losses, both rules may
\* add locks.
Updated(locks, losses, fills, now) ==
    LET kept == Pruned(losses \o Losing(fills), now)
    IN  [losses |-> kept,
         locks |-> Unexpired(locks, now) \cup GuardLocks(kept, now)
                                         \cup CooldownLocks(fills, now)]

IsLocked(locks, order, now) == \E l \in Unexpired(locks, now) : Matches(l, order)
=============================================================================
