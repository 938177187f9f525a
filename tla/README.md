# combo-bot: specifications, model checking and proofs

combo-bot is a trading bot for perpetual futures. It runs two strategies on one
exchange account: a *grid* that hangs a ladder of limit orders around an average
price, and a *trend overlay* that enters by market order. One asyncio process
(`LiveTrader` in `src/combo_bot/live.py`) repeats a tick; every call to the
exchange inside the tick is an await at which orders fill, requests get lost and
the process may be killed. What the process must not forget is written to two
places: a JSON state file at the end of the tick and an append-only journal of
order intents.

This directory holds TLA+ modules for the parts of that process whose correctness
depends on order, failure and restart, the TLC configurations that check them on
small instances, and TLAPS proofs of what holds for every value of the constants.
All line numbers refer to `src/combo_bot/` unless a path says otherwise.

## 1. Inventory

| Component | State | Operations | Hard part | Module |
|---|---|---|---|---|
| Intent journal `intent_journal.py` | file of JSON lines, mirror `records` | `submit`, `open`, `mark_terminal`, `replay`, `compact` | crash inside an append or a compaction; lines without attribution | `IntentJournal`, `DurableIntents` |
| Fill event manager `fill_events_manager.py` | watermark, dedup ids, attribution table, stuck and failed symbols | `poll`, `register_outgoing`, `snapshot`, `load_snapshot`, `clear_stuck` | pages, equal timestamps, failures half way, a sink that raises, restarts from an old file | `FillFeed`; attribution in `TrendOverlay` |
| Trend overlay in `live.py` | `_pending_overlay`, `_unknown_overlay`, resolved-via-fetch markers, trend bucket | `_emit_trend_overlay`, `_create_order`, `_resolve_unknowns`, `_rebuild_bucket`, the sink | a request without an answer; what the feed, the journal, `fetch_order` and the position say arrives in any order | `TrendOverlay` |
| Order reconciliation in `live.py` | open orders, recents, cid cache, `_state_change_keys` | `_reconcile_orders`, `_assign_cid`, `_cancel_order`, `_create_order` | batches, late arrivals, restarts, a book that changes between two awaits | `GridOrders` |
| Drawdown supervisor `hsl.py` | tier, latch and its time, cooldown, smoothed score | `assess`, release, `reset_red_latch` | latch, release and cooldown across restarts | `RiskLatch` |
| Risk manager `risk.py` | the above, day log of realized pnl, source pauses | `filter_orders`: loss gate, pauses, exposure caps, panic close; `compute_unstuck_orders`; `check_liquidation` | caps and budgets shared by several orders of one tick | `RiskRules`, `RiskFilter`; tier gating in `RiskLatch`, liquidation in `Backtest` |
| Account and buckets `types.py` | positions per bucket, pnl log, equity peak | `_refresh_account`, `_rebuild_bucket` | the exchange knows one position, the bot two buckets | the split in `TrendOverlay`, the books in `Backtest` |
| Freshness ledger `freshness.py` | epoch, surfaces, symbol blocks | `begin_epoch`, `stamp`, `flag_symbol_block` | a block healed by a stamp that is too old | `EntryGates` |
| State file | one JSON file, replaced atomically | `_save_state`, `_load_state` | what is saved when, relative to the journal and the exchange | in each module, for its own fields |
| Kill switch `kill_switch.py` | STOPPED sentinel | cancel all, flatten, write sentinel | runs beside a live trader; failed reads look like empty books | `EmergencyStop` |
| Web UI `webui/` | subprocess, its state, a lock, log ring, jobs | start, stop, kill, clear_sentinel; `_read_loop` | two requests at once, a reader task that outlives its process | `EmergencyStop`, without pages and jobs |
| Protections `protections.py` | losses in a window, locks | `update`, `is_locked` | order of fills, expiry | `Protections`, in `EntryGates` |
| Grid engine `grid_engine.py` | trailing state | ladder of entries, closes, panic, trailing re-entry | limits and rounding | `GridEngine`, in `Backtest`; the shape of the ladder in `GridOrders` |
| Merger, regime, signals | none | decision tables from a signal to modes, overlay and stops | who wins: exit, entry, panic, veto | `Regime`, without the indicators |
| Sizers (Kelly, correlation, volatility) | return windows | scale an order | a throttle at zero | the Kelly throttle in `Regime` |
| Strategy hooks `strategy.py` | the operator's | `StrategyRunner` around the callbacks | foreign code between two gates | `StrategyHooks`, for a small set of answers |
| Backtester `backtest.py` | account, buckets, pending orders | one bar at a time: fill, book, fund, mark, decide | orders decided on one bar fill in the next | `Backtest` |
| Rust engine, Anti-martingale engine | bars, positions | the same loops in other words | parity | not modelled |
| Data, ML, optimizer, monitor, scripts | - | I/O and numerics | no protocol | not modelled |

How they interact in one tick (`_tick`, live.py:426-914): begin an epoch; poll the
fills and hand them to the sink, which books buckets, pnl, journal and protections;
read the account and split the exchange position into the buckets; read candles;
compute desired grid orders and at most one overlay order per side; pass everything
through the risk manager; reconcile with the open orders (cancels, then creates);
resolve overlay slots of unknown fate; save the state file. A failure of the account
refresh ends the tick early with a save. `stop` and every exception out of a tick
leave the loop running or save once more; `kill -9` does neither.

Beside it runs the web UI, which starts the trader as a subprocess, stops it by SIGINT
and SIGKILL, and kills: stops it, cancels, flattens, and writes the STOPPED sentinel, at
which a trader looks once, when it starts.

What makes the components correct:

- the journal: what was written and not settled is there after any restart;
- the feed: each own trade is booked once, or the symbol is parked and entries stop;
- the overlay: one slot is never entered twice, its fills end up in its bucket;
- reconciliation: no order hangs twice, the exposure the trader counts on stays
  within the limit, the book converges to the desired one;
- the supervisor: RED is not forgotten, not cut short, and released when it may be;
- the emergency stop: one trader at a time, a state that tells the truth, a kill that
  is final, and an answer to every request;
- the order filter: what passes fits under every cap and every loss budget together, and
  no gate swallows an exit;
- the entry gates: no entry where fills or candles could not be read, or under a lock,
  and none held back for another reason;
- the simulator: equity is the money that moved plus the inventory, and the caps of one
  bar hold while the next one fills.

## 2. Modules

**`IntentJournal`** - `disk` is the sequence of lines, `records` the mirror. `Write`
and `WriteRaises` are one append with its mirror update, `Compact` the rewrite through
a temporary file, `CrashInWrite` and `CrashInCompact` the crash at each point of them,
`Replay` the restart. `Torn` and `Glued` stand for lines that do not parse. A line
"named" carries symbol, side and source. **`DurableIntents`** is what the callers rely
on: a set of intents to which submit adds, from which settling removes, and that a
crash leaves alone; an append that raised leaves the intent in doubt.

**`TrendOverlay`** - one (symbol, side). `pc` walks through the tick: poll, sink,
account, emit, submitted, await, resolve, fetch, sweep, save. `mem` is what the state
file persists and `file` its copy; `jdisk`/`jmem` the kind of each cid's last journal
line on the disk and in the mirror. The exchange accepts (`Arrive`), fills unit by unit
(`FillUnit`), expires (`Expire`) and shows trades later (`ShowTrade`). Faults are a
record of counters so that a property can say which combination it is about.

**`FillFeed`** - one symbol's `poll` as a loop over pages (`PageArrives`, with the ways
it can end in `PageAdvances`, `PageStays`, `PageStalls`, `PageEnds`, `PageFails`), then
`Commit` or `SinkRaises`, and `Save`/`Restart` around it. `spent` is history: some poll ran
out of pages; `split`: one did so between two trades of the same millisecond.

**`RiskLatch`** - drawdown in levels, time in minutes since or until. `Assessed` is one
`assess`: `Released`, then `Score`, `Base` and the latch; `Passes` is the gating of
`filter_orders`.

**`GridOrders`** - the ladder of one (symbol, side). An order is an identity (kind,
place of the ladder, units) with the era of its cid, the number of kills before the cid
was made. A tick is `AccountOk`, one of the `Plan` actions, then one `Cancel` or
`Create` at a time and `Save`; fills, price moves, RED, late arrivals and kills fall
between any two of them.

**`EmergencyStop`** - `at` says where each request stands, `lock` who holds the
manager's `asyncio.Lock`, `mstate` and `process` are its `state` and `self.process`,
`life` the trader processes themselves, `reader`/`awaited` the `_read_loop` of each.
A kill walks through `markets`, `orders`, `cancels`, `close`, `sentinel`, each call
failing or not. A trader sends orders (`Place`) until it dies, and what is `flying` reaches the
book or comes to nothing later (`Land`), also when the trader is dead. `stray` is history: what was
on its way when a kill read the book. A kill of several symbols repeats the middle part,
which is modelled for one symbol and side.

**`RiskRules`** - the decisions of `risk.py` as operators on an account (balance, buckets,
marks, EMA band, losses of the day, drawdown per source) and an order. Each walk of the
code over its list is a step operator that returns what passes and what is left (`Gated`,
`Capped`); `FilterOrders` walks them over a list. Quantities are units, `QtyStep` of which make a
lot: half an entry, a trimmed close and a scaled stake may be less than a lot or nothing, and
pass as they do in the code; only what a cap cuts is rounded to lots and held to the minimum. **`RiskFilter`** runs the same steps as a state
machine over every short list the engines may propose (`Propose`), with the unstuck order
at its end, so that each prefix of each walk is a state: `left` is what remains of the
loss budget, `used` what the entries accepted so far take of the caps.

**`Protections`** - `StoplossGuard`, `CooldownPeriod` and the manager as operators on the
locks and the deque of losses. **`EntryGates`** composes them with the freshness ledger
in the order of a tick: polls symbol by symbol, account, candles symbol by symbol, orders.
`fed` is what the indicators of a symbol were given, `mark` the bar up to which it was,
`block` the epoch its block waits for. An answer about candles may end at any bar
(`CandlesOk`), be empty, or break off after any of its rows, or before the stamp
(`CandlesFail`). `told`, `due`, `blind`, `late`, `behind` (the last answer ended at an older bar)
and `torn` (some answer broke off) observe and decide nothing.

**`Backtest`** - the simulator on one symbol: `Mark` the bar, `Fill` or `Expire` each
pending order, `Settle` (funding, equity, liquidation), `Decide` the orders of the next
bar. The decision is composed from **`GridEngine`** (ladder, close levels, panic close,
trailing re-entry), **`Regime`** (modes, overlay, trend stops, Kelly throttle),
**`StrategyHooks`** (the operator's callbacks, as a record of answers) and `RiskRules`, in
the order in which `Backtester.run` calls them. `cash`, `ceiling`, `overpaid`, `rounded`
and `priced` are history: what was paid and received by what was traded, the caps the pending
orders were decided under, what market entries slipped, what averages in whole units leave out,
and whether every entry proposed so far had a price. Its
names do not meet those of `RiskFilter` (`RunSpec`, `RunTypeOK`, `stage`), so that one module,
`RiskProofs`, proves about both from the same lemmas on `RiskRules`.

The `MC...` modules give the constants values that a cfg cannot write. Operators marked
"Mutant" are wrong versions of the definition after them, one plausible slip each; every
property below is violated when TLC runs with one of them in place.

## 3. Runs

| Run | Checks | Bounds | Result |
|---|---|---|---|
| journal | `TypeOK`, mirror = disk, attribution, `RestartResurrects`, refinement of `DurableIntents` | 2 cids, 4 lines, 2 crashes, 1 raise | pass, 53,676 states |
| overlay | `TypeOK`, `SlotSafe`, `DurableIntent`, `BucketBacked` | 3 orders of 2 units, grid of 1, trades carry ids only, any 2 faults of 5 kinds | pass, 3,069,623 states |
| overlay_live | `FillsAreBooked`, `SlotReleased` | 2 orders of 1 unit, requests that leave no trace among them, 1 crash or failed save | pass, 56,756 states |
| overlay_sink_raises | `BookedOnce`, see section 6 | 2 orders, 1 raise of the sink | violated |
| feed | `TypeOK`, `EachTradeOnce`, `QuietMeansCurrent`, `BookedOrParked` | all ways to spread 5 trades over 4 ms, 3 special histories; pages of 2, 3 pages, 6 ids, escalation at 2 | pass, 119,139 states |
| latch | `TypeOK`, `CooldownServed`, `LatchHolds`, `ReleasedBelowRed` | levels 0-3, cooldown 3, release 4 | pass, 118,609 states |
| grid | `TypeOK`, `BookBounded`, `QueueKept`, `Settles` | ladder of 2 at 2 places, batch 1, window 2, 3 fills, 2 troubles | pass, 459,291 states |
| stop | `TypeOK`, `OneTrader`, `StatusTruthful`, `KillIsFinal`, `RequestsEnd`, `DeathIsNoticed` | 2 requests at a time without end, 2 trader processes, 1 order, 1 unit | pass, 359,655 states |
| filter | `TypeOK`, `CapsHold`, `LossBudgetHeld`, `ExitsSurvive` | up to 3 of 10 orders and the unstuck order, 5 accounts, 2 symbols, every tier, in a cooldown or not | pass, 120,456 states |
| gate | `TypeOK`, `NoBlindEntry`, `HeldWhileDue` | 2 symbols, 5 ticks, 2 trades, 2 troubles | pass, 1,851,627 states |
| backtest | `RunTypeOK`, `BooksAgree`, `CapsKept` | 4 bars out of 4 candles, 6 moods of signal and strategy | pass, 268,872 states |
| kelly_pause | `OverlayReopens`, see section 6 | the same | violated |

Why the bounds are enough. *Journal*: two cids are needed for one line to follow
another's; four lines hold submit, open, terminal and a line of the other cid; after two
crashes a file written after a restart has been read again. *Overlay*: two orders are what a
double entry takes, the third is one that failed before and left a line in the journal (with
two the properties held in a form that three refute, which the proof found); two units make
an order fill in part; two faults cover every pair (crash + failed save is what the
conditions of the properties exclude, and why).
*Feed*: five trades with pages of two fill more than two pages, so that a page can lie
wholly inside one millisecond and a poll can run out of pages; a capacity of six with two
carried pages makes the buffer evict. *Latch*: cooldown and release of different
lengths, both orders of their ends. *Grid*: two levels, one place to move to, a batch of
one so that every second cancel and create is deferred; three fills eat both levels of a side
and one that came back; with two fills and three troubles (955,968 states) the same
properties hold. *Stop*: two requests overlap in every
pair of places; the second process is what a late reader or a start after a kill needs;
the
safety properties also hold with two orders and two units (1,016,097 states, without
fairness). *Filter*: three orders
are two that share a cap or a budget and one between them; the accounts are empty, below
the caps, above them, and with budgets half and wholly spent. *Gate*: a block lasts two
ticks and a lock two, the window one, so five ticks see each begin, heal and begin again;
two trades make a cluster and a late loss; two troubles are an answer that breaks off and an
older one after it, or an error and an empty answer; with three the same properties hold in
17.0 million states, and `NoBlindEntry` without trades holds with six ticks and four (988,110). *Backtest*: entry, averaging, close and what follows take four
bars; twelve hours a bar give funding on every bar and a day that ends; the candles rise,
fall, crash and stand, the moods lead through every mode, RED, ORANGE, the cooldown,
trailing, unstuck, stops, a suspended throttle and a liquidation. Two units make a
lot, so that halves and trims fall below one; one mood names a price below zero. Prices are
multiples of 36, which most averages divide; what one leaves over is in `rounded`, so that
`BooksAgree` is an equation.

Symmetry is used only for safety (cids, overlay orders), never in a run with fairness. `CHECK_DEADLOCK` is on for the
loops, which never stop; it is off for `filter`, which ends with its list, for `gate`, whose
ticks are bounded, and for `backtest`, whose run ends.

### Fairness

`overlay_live`, `feed`, `latch` and `grid` assume weak fairness of the loop (`start`,
live.py:308-368, catches every exception and sleeps one interval) and of the exchange
doing what it was asked. Strong fairness stands for calls that are repeated every tick
and may fail now and then but not always: the poll, the account refresh, the save, the
open-orders and order lookups of the resolution, and each page of a poll. Faults, fills and moves are bounded by constants, so fairness never has to end them. No fairness
is assumed of crashes, market moves or failures. `stop` assumes that the event loop
runs what can run (weak fairness of the readers), that a request goes on, that `asyncio.Lock`
serves its waiters in turn (both by strong fairness of a request, which is more than weak only
where it waits for the lock: every other step of it stays enabled until taken), and that a stop
that waits kills in the end, which the timeout of `stop` does; nothing makes a trader die, a
log reader fail, an order land or an operator ask.

### What the conditions of the properties exclude

The overlay's properties carry conditions on the faults, each found necessary by TLC or by
the proof. `SlotSafe` asks that the trader still knows its slot (`SlotKnown`): it never
crashed, or it lost its memory once and then read a journal that every append had reached.
After two losses (two crashes, a crash and a failed save) the slot is entered twice; so it is
after a crash with a journal that does not replay, and after one with a failed append, by
way of a line that was never settled (section 6). `BucketBacked` fails when the sink raises
(section 6), after two failed appends, and after a crash with one. Of failed replays it
allows one, if no second crash follows: the journal that did not replay is still on the
disk, so that an order booked in the meantime is in flight again after the next crash, and
`fetch_order` books it a second time (three faults, found by the proof).
`BookBounded` excludes kills with a
request on its way (the recents are not saved) and counts the fills the plan could not
know of; its part on the exposure leaves out a process that has not read the account since its
start, since what the last one had on the book is then not yet in any plan (found by the proof); its part on twins and `QueueKept` exclude kills before a new cid was saved. `LatchHolds`
and `CooldownServed` exclude a process that died between the panic orders and the save.
`SlotReleased` leaves out a request that left no trace at all: neither the open orders nor
`fetch_order` know its cid, the journal has it in flight, and the slot is held until the
operator acts (live.py:2094-2098, 2171-2181, against a comment, see section 6); and processes that
crashed. The half of `EachTradeOnce` that says that no fill is lost excludes polls that ran out
of pages between two trades of one millisecond (`split`, section 6); a poll that runs out of pages
anywhere else goes on where it ended. That nothing from before the start is booked
(`HistoryIgnored`) and `QuietMeansCurrent` exclude every poll that ran out of pages (`spent`): the
first leaves a watermark, and the start no longer filters; the second is neither parked nor
failed and leaves trades for the next poll. `QuietMeansCurrent` is also about exchanges that
honour `fromId`: without it a poll that stands still is silent until
it escalates. `BookedOrParked` excludes `split` and the histories that are `Endless` (section 6). Two assumptions on the constants, found by the proof, are what the deduplication
rests on: a page holds at least two rows, and the buffer of ids holds what one poll can
bring. With `max_pages` 16 and pages of 200 that is 3,200 of 4,096 (fill_events_manager.py:53,
59, 529); a larger page size would let a trade be booked twice. `KillIsFinal` is about kills that no other request overlapped (a start
during a kill passes the sentinel check, a stop under way is not waited for) and that
could read orders and positions (section 6). It allows what was on its way when the kill read
the book: a `create_order` whose process was killed in the middle of it (main.py:289-301,
live.py:2806) still lands, and kill_switch reads the book a single time. That nothing else comes
back, and each such request at most once, is what it says. `NoBlindEntry` asks for the order of bars
only of symbols none of whose answers broke off (`torn`), and for the last closed bar only if the
last answer did not end before it (`behind`): the code stamps and feeds in both cases (section 6). `RestartResurrects` is checked without torn
writes (section 6). `OnlyDueIsHeld`, the second half of `HeldWhileDue`, leaves out runs in
which a loss was told behind a younger one: the deque then keeps losses from outside the
window. `LossBudgetHeld` is about an account with a positive balance: below it the gate lets
everything through (risk.py:279-280; found by the proof). `CapsKept` allows what a market entry pays above its price, and what was held
above a cap when the bar was decided; and it asks that every entry proposed so far had a price
(`priced`): a strategy may answer any number (strategy.py:298-300), and an entry at or below zero
costs nothing or less, which frees room under the caps for the others (risk.py:765, 808).

## 4. Proofs

| Module | Theorem | For |
|---|---|---|
| `IntentJournalProofs` | `JournalTypes`, `JournalMirrorIsDurable`, `JournalInFlightIsNamed` | any cids and bounds, torn writes included |
| | `JournalRestartResurrects` | the same, without torn writes (section 6 shows what they do) |
| | `JournalImplementsDurableIntents` | the same, writes being whole or absent |
| `TrendOverlayProofs` | `OverlayTypes`, `OverlayDurableIntent`, `OverlayBucketBacked` | any orders, quantities, echo, faults of any kind and number |
| | `OverlaySlotSafe` | the same, an exchange that cancels no order it filled in part (section 6) |
| `EmergencyStopProofs` | `EmergencyTypes`, `EmergencyOneTrader`, `EmergencyStatusTruthful` | any number of requests, orders, processes |
| | `EmergencyKillIsFinal` | the same, and orders on their way; a kill that nothing overlapped and that could read |
| `RiskLatchProofs` | `RiskTypes`, `RiskCooldownServed`, `RiskLatchHolds` | any thresholds, cooldown, release time |
| `GridOrdersProofs` | `GridTypes`, `GridBookBounded`, `GridQueueKept` | any ladder, places, batches, recents window, fills, troubles and kills |
| `EntryGatesProofs` | `GateTypes`, `GateNoBlindEntry`, `GateHeldWhileDue` | any symbols, block and lock lengths, loss window and limit, troubles |
| `FillFeedProofs` | `FeedTypes`, `FeedNoDuplicate` | any history, page size, page limit and buffer that holds a poll |
| | `FeedEachTradeOnce`, `FeedQuietMeansCurrent` | the same, under the conditions of the properties |
| `RiskProofs` | `FilterTypes`, `FilterCapsHold`, `FilterLossBudgetHeld`, `FilterExitsSurvive` | any symbols, accounts, lots, percentages and lists of orders |
| | `RunTypes`, `RunBooksAgree`, `RunCapsKept`, `RunSuspendedStaysShut` | any candles, signals, answers of a strategy, fees, grid, overlay, throttle and number of bars |

Each module rests on one inductive invariant, `IInv` (the feed and the simulator build it in
layers, each proved from those below it). Each of them also holds in every state TLC reaches on
the instances of section 3.

- *Journal*: that a mirror entry is named is not inductive, since a replay takes it from
  the file; `DiskIsNamed` says that a file that reads has, for each cid in flight in
  either place, a line that names it. With `MirrorIsDurable` this survives a
  compaction, which rewrites the file from the mirror, and a replay, which goes the
  other way. The refinement adds that without torn writes the file always reads
  (`Clean`); then every action maps to an action of `DurableIntents` or to a stutter, and a
  restart finds what was in flight.
- *Overlay*: `IntentKept` adds to `DurableIntent` that the mirror of a running process
  holds the intent too, because compaction writes the mirror back, and that between
  the journal write and the request the order is not on the exchange yet.
  `FeedOrdered` orders fills, trades shown, watermark and batch; from it follows that no
  bucket goes below zero. `Facts` collects what a process that is down has forgotten, that the
  mirror is the journal, that the attribution table follows it (`IdsKnown`), and what is
  reserved while an order is being created.
  *Nothing is booked twice* is a count. `Backed` says that a bucket is no larger than the set
  of units that may have been booked: those of orders no longer in flight in the
  journal that were handed to the sink or are owed to it by a marker. A trade from the feed
  and an answer of `fetch_order` both add units to that set as they add to the bucket, and a
  marker that is used up moves a unit from "owed" to "handed". The same is kept for the file
  and the journal on the disk, which is what a restart begins with.
  *The slot is entered once* by an invariant in three parts. `MemGuards`: an order at risk is
  the only one, and is guarded by an open bucket, by its journal line, or by a mark that
  neither the journal nor the sweep can clear. `AliveGuards`, while nothing failed: the journal
  holds nothing in flight but that order, so no other can be fetched in its place.
  `FileGuards`: what a first crash would leave behind, file and journal, guards it as well.
  Each is needed for the next: a restart turns `FileGuards` into `MemGuards`, and a save
  `MemGuards` into `FileGuards`.
- *Supervisor*: `SavedIsCurrent` (nothing went out since the last save, so the file is the
  memory), `LatchIsPanic` (latch and panic orders come together and the latch is no
  older than the episode) and `CooldownRuns` (time left and time since RED make up the
  cooldown) are needed to get the two properties through a restart.
- *Stop*: `LockHeld` (the lock is held exactly across the await of a spawn and the wait
  of a stop), `SpawnsAlone` (nothing is alive during a spawn), `ReaderFollows` (a reader
  waits for the current process) and `OnlyProcess` (what is alive is that process) are
  inductive together with `StatusKnown`; one trader follows from `OnlyProcess`. That a kill
  is final adds what each stage of it has settled (`KillKnows`): nothing trades after the stop, no
  order but a stray one is left after the cancels, no position after the close but what strays have
  become since. `Landed` are the strays that are neither on their way nor on the book, and
  `OnlyTheirs` bounds the position by what the kill still has to close and their number: a
  stray that fills moves into `Landed` as the position grows.
- *Reconciliation*: an order of the book has a place of the ladder of its own, which is an
  injection of the entries of a book without twins into the levels (`CidsKept`: a cid in the cache
  names one order); `Remembering` says that a level whose create may still arrive is in the
  recents, and `FillsUnforeseen` that position, entries that hang and fills the plan did not know
  of add up. The bound follows from the two by counting.
- *Entry gates*: `Queue` gives each symbol one turn in a stage; `ToldKept` and `InTime` relate
  the deque of losses to what was told inside the window, `DueIsLocked` and `LockedIsDue` a
  lock to the losses that caused it; `FlagsOfThisTick` says that no block is younger than the
  tick before the symbol had its turn; `FedInOrder` that what was fed is closed, reaches down
  from the watermark without a gap as far as one answer does, rises unless an answer broke off, and
  that a current answer of this tick brought the watermark to the last closed bar. All of it is one step away from `NoBlindEntry` and `HeldWhileDue` through
  `Sends`.
- *Feed*: `Shown` and `Wall` place the rows of a page against the watermark; `Dedup` says that the
  ids in the buffer have no gap from the watermark on, which is why an eviction never
  lets an id through that a page can still bring; `Ledger` ties memory and file to the trades
  booked since; `InOrder`, `Fetched` and `Stalled` follow the cursor through a poll, `Drained`
  and `Polling` say that a poll that ended quietly has seen everything up to its end.
  `NoDuplicate` (no trade is booked twice and none from before the start) holds without any
  condition; that none is missing needs that no poll was `split`.
- *Filter*: lemmas first say what each decision does to one order or one list. A step of the
  loss gate takes from the budget what the order that passes loses (a trim in proportion to what is left, however small, fits: `Trim`), a step of the caps leaves every sum under its cap, YELLOW and the pauses add no loss.
  The sort by distance is a permutation because its comparison is a strict total order
  (`NearerOrder`: fractions compared crosswise), so that every rank is taken (`RankOnto`). The
  invariant: `UsedIsCost` (what is booked against each cap is what the accepted entries cost, sum by
  sum) with `UsedFits`; `LossesBudgeted` (what passed loses, with what is left or with what is
  still to pass, no more than the budget); `SafeKept` (the exits nothing may touch that passed,
  followed by those to come, are those that were asked for). The panic close is once per bucket
  because the walk over the buckets has one place for each.
- *Simulator*: `RunTypeOK` is inductive by itself, and most of it is about what one decision may
  produce: every engine, every answer of a strategy and every pass of the filter turns orders
  into orders (of any price, and of a quantity that may be nothing), a ladder that runs into its limit, a trailing re-entry cut to what fits and an
  entry whose price the strategy moved among them (`LevelTyped`, `TrailingTyped`,
  `EntriesFiltered`). A walk is a recursive function; `Recursion` says that a function defined
  by steps that stay in a set exists, and `Stays` that what each step keeps holds at the end.
  `BooksInv` says of every state what `BooksAgree` says at the end of a bar, at the entry prices
  instead of the close: cash, what the positions cost, and `rounded` make up the balance, and the
  balance is the start plus results less funding. An entry moves cash into cost (`EntryMoney`), a
  close moves cost into cash and result (`CloseMoney`, clipped or not); marking replaces cost by
  value and adds the difference to the equity (`InventoryIs`). Without what the averages round
  off the first equation is false, which the proof found.
  `CapsInv` says that what is held, with all that is still pending, fits under `ceiling` and
  `overpaid` together, for the account and for each side. It holds while all that was proposed had a price (`Decent` of the proposals of a bar, `Priced` of
  what the filter then makes of them), and needs the pending orders, since
  `CapsKept` itself does not survive a fill: `CapsMark` (the sort adds nothing), `CapsFill` (a fill takes
  from what is pending what it adds to what is held, or less), `CapsDecide` (`FilterFits`: the
  sum admitted by one call of the filter fits; `DecidedFits`: the strategy's veto only removes).
  That a suspended throttle is a latch follows an order from the engine to the book: `From` says from
  which sources a list may hold entries, `Trims` of a set of orders that no gate leads out of it. An
  overlay of scale nothing proposes none, callbacks act on open buckets only, no filter changes a
  source, and a close of a closed bucket does not fill; so the next decision is free of trend
  entries too (`ShutStep`). It is what makes the state that `kelly_pause` finds one without a way out.

Sets and sequences of any length are reasoned about by a least element: a lemma `Least` (a
non-empty set of naturals has one) takes the place of the induction theorems, and recursive
functions (`StagedUpTo`, `LossesUpTo`) that of folds, whose operator
parameters no prover expands.

Only model-checked is liveness, which is out of the prover's reach: `FillsAreBooked`,
`SlotReleased`, `BookedOrParked`, `ReleasedBelowRed`, `Settles`, `RequestsEnd` and
`DeathIsNoticed`. Every invariant and every other action property of a passing run is a theorem.

What the proofs assume of the constants are the named assumptions of the modules. Those of the
simulator: candles have positive prices, and a market order slips by less than the price
(`CandlesTyped`); the first level of the ladder is nearer to the band than the band to zero
(`GridNumbersNat`); rates and percentages are not negative, and the exchange has a minimum cost (`CostsSomething`), so
that what a cap cuts has a price. Nothing is assumed of the prices a strategy answers. An answer
about candles holds at least two rows (`GateBoundsNat`); the code asks for more.

## 5. Abstractions

- Time: a tick is a step; the TTL of the pending mark and of a stuck symbol may expire at
  any tick; minutes in `RiskLatch` are relative. The recents window is a number of ticks,
  as it is the larger of 15 s and two loops (live.py:288-293).
- Quantities are small numbers of units; prices are places of the ladder. The smoothed
  drawdown moves by any amount towards the new one.
- `TrendOverlay` reads the position at the time of the answer; entries only, no exits,
  no leverage; answers of `fetch_my_trades` come oldest first in `FillFeed`.
- An acknowledged cancel in `GridOrders` is gone from the book; `_recent_cancels`, which
  saves a second cancel of it, has no effect then and is left out.
- `journal compact` that fails leaves everything as it was and is a stutter. A short
  `os.write` and a line complete but for its newline are not modelled.
- A cid may be used again within 24 h (live.py:211-229): each `Orders` element of
  `TrendOverlay` is one use, and that two uses share a cid is not modelled.
- `EmergencyStop` takes a process that is dead and not yet reaped for reaped: the two
  branches of `stop` then end in the same answer to `is_running`. A spawn takes longer
  than waking a reader whose process has ended, which is a few turns of the event loop.
  A restart of the UI, which forgets a trader that runs on (`os.setsid`,
  process_manager.py:87-96), and the command-line kill are left out.
- `RiskRules`: units, prices and money are whole numbers and fractions of the balance
  percentages; half an entry (YELLOW), a close trimmed by the loss gate and a stake are rounded
  down to the unit, of which `QtyStep` make a lot: they may be less than a lot and pass, as in the
  code, and what the exchange would make of them is not modelled. Distances to the mark are compared as
  fractions. Every symbol has a mark; a balance at or below zero leaves no room under the
  caps (the code divides by 1e-12, risk.py:701, which leaves none for an order of any cost). In `RiskFilter` the engines propose orders for something and at a price
  (`WantedTyped`), which `Backtest`, where a strategy answers anything, does not ask. The accounts
  of the run are those of `MCRiskFilter`, not all an account can
  become; `Backtest` runs the same operators on accounts it reached itself.
- `EntryGates` knows time by the tick and one bar a tick; an answer holds three bars. All
  entries are wanted in every tick, so that one that is missing was held back. Each fill is told to
  the protections once: a sink that raises after it told them (live.py:1490) would tell a loss
  twice, which is left to `TrendOverlay`'s `BookedOnce`. The parking
  of a symbol and the persistence flag, which block too, are in `FillFeed` and
  `TrendOverlay`. `required_profit_pct` is 0; surfaces of the account are stamped by the
  code and waited for by no block.
- `RiskLatch` saves and loads whole files. A file without the field of the latch, which an older
  version may have written, loads as released (live.py:3344), and is not modelled.
- A fill between `fetch_my_trades` and `fetch_positions` of a tick shifts the grid share in
  `TrendOverlay`, as in the code; no property says what the grid share should be in that tick.
- `Backtest` has one symbol, which with a free slot is active on both sides, so
  `compute_active_sides` decides nothing. Not configured: protections (in `EntryGates`),
  correlation gate, volatility target, ML overlay, the RED latch, the volatility weight of
  the spacing; the curve of the conviction is 1. Prices are on a step, fees, funding and
  shares of the budget whole units. The code books the fills of a bar after the last of
  them, the model each at once; no fill reads what is booked. A mood is the same for both
  sides and buckets of a bar, and a stake is not negative. The drawdown is the raw one, as with
  `dd_ema_span_minutes` 0; `RiskLatch` has the smoothed score (hsl.py:158-187).
- Poll throttling, the cap of the attribution table and everything in section 1 without
  a module. Not modelled and why: the Rust engine and the anti-martingale engine repeat
  the Python loops in floating point, and what would be worth checking is that they agree,
  which a model of either does not show; the bridges convert arguments; data, ML signal,
  optimizer, monitor and scripts have no state that outlives a call.

## 6. Where the code and its documents disagree

Checked by runs that TLC must find violated:

- **overlay_sink_raises**: a sink that raises half way makes the next poll book the same
  trades again; "Dedup by trade.id" (fill_events_manager.py:20-21).
- **kelly_pause**: "The overlay re-activates automatically once the rolling window's mean turns
  positive again" (sizing.py:41-43). With a fraction of 0 no overlay is entered, so with the trend
  buckets closed and no entry pending nothing gives the window a sample. TLC reaches such a state,
  and by `RunSuspendedStaysShut` it is never left.

Each of the following has a property in its module and a configuration of its own, which TLC
finds violated within seconds (`tlc -config <cfg> <module>`); they are not among the runs of
`PROJECT.json`:

| Configuration | Property | The code does | against |
|---|---|---|---|
| `MCTrendOverlayPartial` | `ClearedIsSafe` | an order that filled in part and was then canceled, rejected or expired clears the slot (live.py:2099) | "safe to clear (no exposure was added)" (live.py:2075-2076) |
| `MCTrendOverlayLost` | `SelfCorrects` | a request that raised and never reached the exchange keeps the slot for ever: `_resolve_unknowns` holds it, the stale sweep passes it over because the journal has it (live.py:2171-2200) | "the system self-corrects when the next fetch_my_trades / fetch_open_orders poll shows the order's real state" (live.py:2895-2897) |
| `MCIntentJournalTorn` | `RestartResurrects` | the next append continues a torn line, and from then on no restart reads the journal | "partial-writes on crash are bounded to the trailing line" (intent_journal.py:10-20) |
| `MCFillFeedBurst` | `EveryFillKept` | a poll that runs out of pages inside a millisecond moves the watermark past rows it never fetched (fill_events_manager.py:538, 672-683) | "a burst of >page_size same-millisecond trades drops everything past the first page" as what pagination prevents (513-517) |
| `MCEmergencyStopRace` | `KillStopsFirst` | a kill during a graceful stop finds `is_running()` false, does not wait, and flattens beside a trader that trades | "Stop the running trader first so kill_switch doesn't race with reconcile" (webui/server.py:699-700) |
| `MCEmergencyStopExit` | `ZeroIsClean` | orders or positions that could not be read count as none, with exit code 0 (kill_switch.py:53, 73, 185-189) | "`0` - all cancels + flattens succeeded" (docs/RUNBOOK.md:115) |
| `MCEntryGatesRefed` | `EachBarOnce` | a row that raises leaves the watermark behind those fed before it, and the next answer feeds them again (live.py:1214-1256) | "Only feed NEW bars to the trend engine and data provider" (live.py:1191-1192) |
| `MCEntryGatesStale` | `NoStaleEntry` | an answer that ends at an older bar stamps its surface like any other (live.py:1300-1304) | the ledger covers "a per-symbol candle fetch failure that left the trader generating orders off a stale price / EMA" (freshness.py:15-17) |
| `MCBacktestSamples` | `EntriesNotSampled` | entries count as small losses among the throttle's samples, because of their fee (sizing.py:120) | "Entry fills (realized_pnl == 0) are intentionally ignored" (sizing.py:53) |

Found with TLC by lifting a condition of a property, and excluded from the runs by it:

- without its condition on failed replays `SlotSafe` fails: after one, the first save
  that succeeds lifts the block that should last "until the operator resolves it"
  (live.py:2450-2452, 3305) and compacts the journal to nothing, and the slot is entered
  again: "silently continuing would allow duplicate overlay entries" (live.py:2447-2449).
- without its condition on failed appends `SlotSafe` fails with three orders: the append
  that settles a refused order fails and its line stays in flight; a later order fills, is
  booked from `fetch_order`, and a crash comes before the save; the restart fetches the old
  order as rejected and clears the slot, since "all journal cIDs for this side are terminal"
  (live.py:2148-2149), with the fill in no bucket. This is the entry that the comment wants
  to prevent, "letting the next tick re-emit a duplicate market entry" (live.py:2145-2146).
- without `Endless`, `BookedOrParked` fails: with `fromId` honoured, a poll that runs out of pages
  behind a millisecond that fills a page commits a watermark at which the next one begins with
  the same pages (fill_events_manager.py:567-584, 610, 672-683). It is neither parked nor failed, and
  books nothing new for ever.
- a close larger than what is left of its bucket, because an earlier close of the bar took
  from it, moves what is left but pays the fee and reports the quantity of the whole order,
  although "fee / pnl / position math all use the same qty" (backtest.py:1103-1105 against
  1128, 1138 and 1165); `FillOf` has it as `qty` and `moved`.

Seen while reading, without a run: every unmatched order on a symbol is canceled, whoever placed
it, which `docs/RUNBOOK.md`:240-242 says is not; a log line longer than 64 KiB ends
`_read_loop`'s reading (process_manager.py:165), and a trader whose log nobody reads
blocks on its pipe; a spawn that fails with anything but FileNotFoundError leaves the
manager in STARTING until a stop; the comment at live.py:1717-1720 wants no double
entry after a position change, but a fill between the account refresh and the
open-orders fetch hangs the level again in the same tick; forced market exits are "paths
we never want to block" (live.py:1732-1742) and yet are held back by the recents window
after a create that raised; the runbook's orange tier scales entries by 0.5
(`docs/RUNBOOK.md`:81), the code lets nothing but closes through; the runbook resets
`state["risk"]` (185-192), the code saves flat keys; `stuck_symbols` "accumulates" on
fetch failures (212-218), the code parks only on pages that stand still
(fill_events_manager.py:360-374); `protections.py`:13-15 evaluates every tick, the live
trader calls it when a poll brought fills, and its comment at live.py:811-815 says that it
never does; the deque of losses is "pruned to the active window" (protections.py:210) from the
front only; an empty candle answer leaves its symbol neither stamped nor blocked
(live.py:1187-1188); a positive `adjust_trade_position` adds (strategy.py:203-206), for a
short it trims (strategy.py:514-517); `max_stake` is handed to the strategy and not enforced
(strategy.py:308-311); a veto of `confirm_trade_exit` drops the panic closes of RED as well
(strategy.py:460-475); the trend stop of the simulator looks at the extremes of the bar in
which its bucket was opened (merger.py:244-258); several funding intervals inside one bar are
charged once (backtest.py:311-320); locks, losses and the throttle's samples are not in the
state file.

## 7. Plan

1. Done: all modules of section 2, and every safety property of their runs as a theorem.
2. An abstract ledger that books each trade once, implemented by `FillFeed`, and the
   overlay composed with it instead of its own feed.
3. `Backtest` with two symbols, which brings in `compute_active_sides`, and the correlation
   gate as a cap on groups; the anti-martingale engine as a machine of its own.
