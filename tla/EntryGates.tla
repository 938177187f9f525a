----------------------------- MODULE EntryGates -----------------------------
(***************************************************************************)
(* What stands between a wanted entry and the exchange in one tick of the  *)
(* live trader (src/combo_bot/live.py, _tick): the fill polls, which feed  *)
(* the protections, the account refresh, the candle fetches, which feed    *)
(* the freshness ledger (src/combo_bot/freshness.py), and the gates that   *)
(* read all of it when the orders are placed.                              *)
(*                                                                         *)
(* The exchange trades on meanwhile; a poll that fails leaves the trades   *)
(* of its symbol for a later one, so losses of two symbols may be told     *)
(* out of the order of time.  A restart forgets locks, losses and blocks.  *)
(***************************************************************************)
EXTENDS Protections

CONSTANTS
    Listed,         \* the symbols, in the order of config.symbols
    Sides, Sources,
    Results,        \* what a trade may have booked: [pnl, fee]
    CandleLimit,    \* rows of one fetch_ohlcv answer
    MaxNow,         \* bound: ticks
    MaxTrades,      \* bound: trades
    MaxTrouble      \* bound: restarts, failed calls and empty answers

Symbols == Range(Listed)

\* The configuration names each symbol once.
ASSUME ListedDistinct ==
    /\ Listed \in Seq(Symbols) /\ Listed # <<>>
    /\ \A i, j \in DOMAIN Listed : Listed[i] = Listed[j] => i = j
ASSUME ResultsTyped == Results \subseteq [pnl : Int, fee : Nat]
\* An answer has room for a closed bar beside the one that still forms (100 rows).
ASSUME GateBoundsNat == {MaxNow, MaxTrades, MaxTrouble} \subseteq Nat /\ CandleLimit \in Nat \ {0, 1}

Entries == [sym : Symbols, side : Sides, src : Sources]

VARIABLES
    now,            \* the tick, and the time it runs at
    phase, todo,    \* the stage of the tick, and the symbols whose turn is to come
    coming,         \* of each symbol, the trades no poll has fetched yet
    pollFailed,     \* last_poll_failed of each symbol
    epoch, stamped, block,  \* the ledger: epoch, each candle surface's epoch,
                            \* the epoch a block waits for (0: no block)
    fed,            \* of each symbol, the bars its indicators were fed, in order
    mark,           \* _last_candle_ts of each symbol: the last bar of a whole answer
    locks, losses,  \* the protections
    sent,           \* the entries that pass, were every entry wanted
    trades, trouble,
    \* observation only
    blind,          \* symbols whose last candle answer was an error
    behind,         \* symbols whose last whole answer ended before the last closed bar
    torn,           \* symbols with an answer that broke off among its bars in this run
    told,           \* losses this run was told of that were inside the window then
    due,            \* no entry before this time, by what was told
    late            \* a loss was told behind a younger one

exchange == <<coming, trades>>
bars == <<fed, mark, behind, torn>>
ledger == <<epoch, stamped, block, blind, bars>>
guards == <<locks, losses, told, due, late>>
vars == <<now, phase, todo, exchange, pollFailed, ledger, guards, sent, trouble>>

Init ==
    /\ pollFailed = [s \in Symbols |-> FALSE]
    /\ epoch = 0
    /\ stamped = [s \in Symbols |-> 0] /\ block = [s \in Symbols |-> 0]
    /\ fed = [s \in Symbols |-> <<>>] /\ mark = [s \in Symbols |-> -1]
    /\ behind = {} /\ torn = {}
    /\ locks = {} /\ losses = <<>>
    /\ blind = {} /\ told = {} /\ late = FALSE
    /\ due = [e \in Entries |-> 0]
    /\ phase = "idle" /\ todo = <<>> /\ sent = {}
    /\ now = 0 /\ coming = [s \in Symbols |-> <<>>]
    /\ trades = 0 /\ trouble = 0

Troubled == trouble < MaxTrouble /\ trouble' = trouble + 1

-----------------------------------------------------------------------------
(* The exchange *)

Trade(entry, result) ==
    /\ trades < MaxTrades
    /\ phase = "idle"
    /\ coming' = [coming EXCEPT ![entry.sym] = Append(@,
                    [id |-> trades, sym |-> entry.sym, side |-> entry.side, src |-> entry.src,
                     at |-> now, pnl |-> result.pnl, fee |-> result.fee])]
    /\ trades' = trades + 1
    /\ UNCHANGED <<now, phase, todo, pollFailed, ledger, guards, sent, trouble>>

-----------------------------------------------------------------------------
(* The tick *)

\* begin_epoch, before anything is refreshed.
Begin ==
    /\ phase = "idle" /\ now < MaxNow
    /\ now' = now + 1
    /\ epoch' = epoch + 1
    /\ phase' = "polls" /\ todo' = Listed /\ sent' = {}
    /\ UNCHANGED <<exchange, pollFailed, stamped, block, blind, bars, guards, trouble>>

\* The symbol's turn; after the last one the next stage begins.
Turn(s, next) ==
    /\ todo # <<>> /\ s = Head(todo)
    /\ todo' = IF Len(todo) = 1 THEN Listed ELSE Tail(todo)
    /\ phase' = IF Len(todo) = 1 THEN next ELSE phase

\* What the losses told so far forbid at this time: the window is the guard's own
\* rule, applied to every loss and not to the deque.
Cluster(entry, all) ==
    \E f \in all : LET alike == {g \in all : Scope(g) = Scope(f) /\ InWindow(g, now)}
                   IN  /\ Matches(Scope(f), entry)
                       /\ Cardinality(alike) >= LossLimit
DueAfter(batch, all) ==
    [e \in Entries |-> Max({due[e]}
        \cup (IF Cluster(e, all) THEN {now + StopDuration} ELSE {})
        \cup (IF \E i \in DOMAIN batch : IsLoss(batch[i]) /\ Matches(batch[i], e)
              THEN {now + CoolDuration} ELSE {}))]

\* The sink tells the protections of a poll that brought fills, and of no other.
PollOk(s) ==
    /\ phase = "polls" /\ Turn(s, "account")
    /\ pollFailed' = [pollFailed EXCEPT ![s] = FALSE]
    /\ coming' = [coming EXCEPT ![s] = <<>>]
    /\ LET batch == coming[s]
           fresh == {batch[i] : i \in {j \in DOMAIN batch : IsLoss(batch[j])}}
           all == {f \in told \cup fresh : InWindow(f, now)}
           after == Updated(locks, losses, batch, now)
       IN  IF batch = <<>> THEN UNCHANGED guards
           ELSE /\ locks' = after.locks /\ losses' = after.losses
                /\ told' = all
                /\ due' = DueAfter(batch, all)
                /\ late' = (late \/ \E f \in told, g \in fresh : g.at < f.at)
    /\ UNCHANGED <<now, trades, ledger, sent, trouble>>

PollFails(s) ==
    /\ Troubled
    /\ phase = "polls" /\ Turn(s, "account")
    /\ pollFailed' = [pollFailed EXCEPT ![s] = TRUE]
    /\ UNCHANGED <<now, exchange, ledger, guards, sent>>

AccountOk ==
    /\ phase = "account"
    /\ phase' = "candles"
    /\ UNCHANGED <<now, todo, exchange, pollFailed, ledger, guards, sent, trouble>>

\* The tick ends before the candles: nothing is placed.
AccountFails ==
    /\ Troubled
    /\ phase = "account"
    /\ phase' = "idle"
    /\ UNCHANGED <<now, todo, exchange, pollFailed, ledger, guards, sent>>

-----------------------------------------------------------------------------
(* The freshness ledger *)

\* Blocks go whose surface was stamped at the epoch they wait for, or later.
Unsatisfied(blocks, stamps) == [s \in Symbols |-> IF stamps[s] >= blocks[s] THEN 0 ELSE blocks[s]]

\* Mutants: a flag that the stamp of the tick before satisfies; one that nothing
\* but a stamp two ticks on satisfies.
FlagForLastEpoch == epoch - 1
FlagForLaterEpoch == epoch + 2
FlagEpoch == epoch + 1

\* An answer holds CandleLimit bars up to one that need not be the latest; fed are
\* those behind the watermark that are closed.
NewBars(s, end) ==
    LET first == Max({0, end - CandleLimit + 1, mark[s] + 1})
        last == Min({end, now - 1})
    IN  [k \in 1 .. (last - first + 1) |-> first + k - 1]

\* Mutant: the watermark moves to the newest row, closed or not.
MarkPastForming(s, end) == Max({mark[s], end})

\* The watermark moves to the last bar fed, once all of them are.
MarkAfter(s, end) == IF NewBars(s, end) = <<>> THEN mark[s] ELSE Last(NewBars(s, end))

CandlesOk(s) ==
    /\ phase = "candles" /\ Turn(s, "orders")
    /\ \E end \in 0 .. now :
        /\ IF end = now THEN UNCHANGED trouble ELSE Troubled
        /\ fed' = [fed EXCEPT ![s] = @ \o NewBars(s, end)]
        /\ mark' = [mark EXCEPT ![s] = MarkAfter(s, end)]
        /\ behind' = IF end < now - 1 THEN behind \cup {s} ELSE behind \ {s}
    /\ stamped' = [stamped EXCEPT ![s] = epoch]
    /\ block' = Unsatisfied(block, stamped')
    /\ blind' = blind \ {s}
    /\ UNCHANGED <<now, exchange, pollFailed, epoch, torn, guards, sent>>

\* An empty answer is skipped: neither stamped nor flagged.
CandlesEmpty(s) ==
    /\ Troubled
    /\ phase = "candles" /\ Turn(s, "orders")
    /\ UNCHANGED <<now, exchange, pollFailed, ledger, guards, sent>>

\* Something raises: the fetch, a row among those fed, before the watermark moves, or
\* what comes after them.
CandlesFail(s) ==
    /\ Troubled
    /\ phase = "candles" /\ Turn(s, "orders")
    /\ \E end \in 0 .. now : \E k \in 0 .. Len(NewBars(s, end)) :
        /\ fed' = [fed EXCEPT ![s] = @ \o SubSeq(NewBars(s, end), 1, k)]
        /\ \/ mark' = mark /\ torn' = IF k = 0 THEN torn ELSE torn \cup {s}
           \/ /\ k = Len(NewBars(s, end))
              /\ mark' = [mark EXCEPT ![s] = MarkAfter(s, end)] /\ torn' = torn
    /\ block' = Unsatisfied([block EXCEPT ![s] = FlagEpoch], stamped)
    /\ blind' = blind \cup {s}
    /\ UNCHANGED <<now, exchange, pollFailed, epoch, stamped, behind, guards, sent>>

-----------------------------------------------------------------------------
(* The gates *)

RiskIncreasingBlocked(s) == pollFailed[s] \/ Unsatisfied(block, stamped)[s] # 0

\* The protections drop the locked entries, the reconciler the blocked ones.
Passes(e) == ~IsLocked(locks, e, now) /\ ~RiskIncreasingBlocked(e.sym)

Place ==
    /\ phase = "orders"
    /\ sent' = {e \in Entries : Passes(e)}
    /\ block' = Unsatisfied(block, stamped)
    /\ phase' = "placed"
    /\ UNCHANGED <<now, todo, exchange, pollFailed, epoch, stamped, blind, bars, guards, trouble>>

End ==
    /\ phase = "placed"
    /\ phase' = "idle" /\ sent' = {}
    /\ UNCHANGED <<now, todo, exchange, pollFailed, ledger, guards, trouble>>

\* Locks, losses and blocks are not in the state file.
Restart ==
    /\ Troubled
    /\ pollFailed' = [s \in Symbols |-> FALSE]
    /\ epoch' = 0
    /\ stamped' = [s \in Symbols |-> 0] /\ block' = [s \in Symbols |-> 0]
    /\ fed' = [s \in Symbols |-> <<>>] /\ mark' = [s \in Symbols |-> -1]
    /\ behind' = {} /\ torn' = {}
    /\ locks' = {} /\ losses' = <<>>
    /\ blind' = {} /\ told' = {} /\ late' = FALSE
    /\ due' = [e \in Entries |-> 0]
    /\ phase' = "idle" /\ todo' = <<>> /\ sent' = {}
    /\ UNCHANGED <<now, exchange>>

Next ==
    \/ \E e \in Entries, r \in Results : Trade(e, r)
    \/ Begin \/ AccountOk \/ AccountFails \/ Place \/ End \/ Restart
    \/ \E s \in Symbols : PollOk(s) \/ PollFails(s)
    \/ \E s \in Symbols : CandlesOk(s) \/ CandlesEmpty(s) \/ CandlesFail(s)

Spec == Init /\ [][Next]_vars
-----------------------------------------------------------------------------
Fill == [id : Nat, sym : Symbols, side : Sides, src : Sources, at : 0 .. MaxNow,
         pnl : Int, fee : Nat]

\* Locks have a time and a scope, the deque keeps losses only, and a block waits
\* for an epoch that this run has not passed by more than its own tick.
TypeOK ==
    /\ now \in 0 .. MaxNow
    /\ phase \in {"idle", "polls", "account", "candles", "orders", "placed"}
    /\ \A s \in Symbols : \A i \in DOMAIN coming[s] : coming[s][i] \in Fill
    /\ pollFailed \in [Symbols -> BOOLEAN]
    /\ epoch \in 0 .. now
    /\ stamped \in [Symbols -> 0 .. epoch]
    /\ block \in [Symbols -> 0 .. epoch + 1]
    /\ mark \in [Symbols -> -1 .. (now - 1)]
    /\ \A l \in locks : l.until \in Nat /\ l.sym \in Symbols \cup {Every}
    /\ \A i \in DOMAIN losses : losses[i] \in Fill /\ IsLoss(losses[i])
    /\ sent \subseteq Entries

\* The indicators of a symbol saw closed bars only, each once and in order unless an
\* answer broke off among them, and all there are as far back from the watermark as
\* an answer reaches, which a whole and current answer of this tick brought to the
\* last closed bar (_refresh_candles).
IndicatorsSound(s) ==
    /\ Range(fed[s]) \subseteq 0 .. (now - 1)
    /\ s \notin torn => \A i, j \in DOMAIN fed[s] : i < j => fed[s][i] < fed[s][j]
    /\ {t \in 0 .. mark[s] : t > mark[s] - CandleLimit + 1} \subseteq Range(fed[s])
    /\ stamped[s] = epoch /\ s \notin behind => mark[s] = now - 1

\* No entry goes out for a symbol whose fills this tick could not fetch, or whose
\* last answer about candles was an error, however many ticks ago and whatever
\* came empty in between; nor on indicators that saw a bar half formed, or left one
\* out (_risk_increasing_blocked, _refresh_candles).
NoBlindEntry ==
    phase = "placed" => \A e \in sent :
        ~pollFailed[e.sym] /\ e.sym \notin blind /\ IndicatorsSound(e.sym)

\* "Only feed NEW bars to the trend engine and data provider" (live.py:1189-1196): an
\* entry goes out on indicators that saw each bar once.
EachBarOnce ==
    phase = "placed" => \A e \in sent :
        \A i, j \in DOMAIN fed[e.sym] : i # j => fed[e.sym][i] # fed[e.sym][j]

\* The ledger covers "a per-symbol candle fetch failure that left the trader
\* generating orders off a stale price / EMA" (freshness.py:15-16): an entry goes out
\* on indicators that saw the last closed bar.
NoStaleEntry == phase = "placed" => \A e \in sent : mark[e.sym] = now - 1

\* No entry goes out before its time is up: for StopDuration after an update that
\* saw LossLimit losses of its scope inside the window, for CoolDuration after a
\* loss of its own (StoplossGuard, CooldownPeriod).
LockServed == phase = "placed" => \A e \in sent : now >= due[e]

\* And nothing else holds an entry back, as long as losses were told in the order
\* of time: blocks heal with the first good answer, locks end when they are due.
\* Behind a loss told late the deque keeps losses from outside the window, and the
\* guard may lock on those.
OnlyDueIsHeld ==
    phase = "placed" => \A e \in Entries \ sent :
        pollFailed[e.sym] \/ e.sym \in blind \/ now < due[e] \/ late

\* An entry is held back while it is due and, otherwise, for one of these reasons.
HeldWhileDue == LockServed /\ OnlyDueIsHeld
=============================================================================
