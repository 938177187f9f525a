---------------------------- MODULE EmergencyStop ----------------------------
(***************************************************************************)
(* How a trader is started, stopped and killed: the requests of the web UI *)
(* (src/combo_bot/webui/server.py), the process manager they share         *)
(* (webui/process_manager.py), the kill switch (kill_switch.py) with its   *)
(* STOPPED sentinel, and the trader process, which looks at the sentinel   *)
(* once, when it starts (live.py).                                         *)
(*                                                                         *)
(* Requests are handled concurrently: the manager's lock covers start and  *)
(* stop, and nothing covers a kill from its stop to its sentinel.          *)
(***************************************************************************)
EXTENDS Integers, FiniteSets

Nobody == "nobody"

CONSTANTS
    Requests,   \* requests that may be in progress at the same time
    Orders,     \* orders that may hang on the exchange
    MaxStarts,  \* bound on the trader processes ever started
    MaxPos      \* bound on the position

ASSUME SetsFinite == IsFiniteSet(Requests) /\ IsFiniteSet(Orders)
ASSUME NobodyIsNoRequest == Nobody \notin Requests
ASSUME BoundsPositive == {MaxStarts, MaxPos} \subseteq Nat \ {0}

VARIABLES
    book, pos,     \* the exchange: open orders and units held
    flying,        \* requests of create_order on their way to it
    sentinel,      \* whether the STOPPED file exists
    life,          \* of each trader process
    mstate,        \* the manager's TraderState; "ended" is EXITED or CRASHED
    process,       \* self.process, 0 for None
    lock,          \* who holds the manager's lock
    reader,        \* of each process: its _read_loop
    awaited,       \* ... and the process it waits for once it saw the end of the log
    at,            \* where each request stands
    listed,        \* kill: the open orders it fetched
    holding,       \* kill: the position it fetched
    failed,        \* kills with a cancel or a close that raised
    unread,        \* history: kills with a fetch that raised
    alone,         \* history: the kill that no other request overlapped with
    flat,          \* history: such a kill succeeded and its sentinel is in place
    stray          \* history: what was on its way when such a kill read the orders

exchange == <<book, pos, flying>>
manager == <<mstate, process, lock>>
readers == <<reader, awaited>>
locals == <<listed, holding, failed, unread>>
history == <<alone, flat, stray>>
vars == <<exchange, sentinel, life, manager, readers, at, locals, history>>

Traders == 1 .. MaxStarts
Alive == {t \in Traders : life[t] \in {"booting", "trading"}}
Unborn == {t \in Traders : life[t] = "unborn"}

Init ==
    /\ book = {} /\ pos = 0 /\ flying = {} /\ sentinel = FALSE
    /\ life = [t \in Traders |-> "unborn"]
    /\ mstate = "stopped" /\ process = 0 /\ lock = Nobody
    /\ reader = [t \in Traders |-> "none"] /\ awaited = [t \in Traders |-> 0]
    /\ at = [r \in Requests |-> "idle"]
    /\ listed = [r \in Requests |-> {}] /\ holding = [r \in Requests |-> 0]
    /\ failed = {} /\ unread = {} /\ alone = {} /\ flat = FALSE /\ stray = {}

-----------------------------------------------------------------------------
(* The trader and the exchange *)

TraderOnly == UNCHANGED <<manager, readers, at, locals, history, sentinel>>

\* Mutant: the trader does not look for the sentinel.
RefusesToTradeNever == FALSE

\* start: the sentinel is looked at once, before anything else.
RefusesToTrade == sentinel
Boot(t) ==
    /\ life[t] = "booting"
    /\ life' = [life EXCEPT ![t] = IF RefusesToTrade THEN "dead" ELSE "trading"]
    /\ UNCHANGED exchange /\ TraderOnly

\* create_order goes out; the answer is awaited, and what the exchange makes of the
\* request does not wait for the process that sent it.
Place(t) ==
    /\ life[t] = "trading"
    /\ \E o \in Orders \ (book \cup flying) : flying' = flying \cup {o}
    /\ UNCHANGED <<book, pos, life>> /\ TraderOnly

\* It reaches the book, or it is refused or lost.
Land(o) ==
    /\ o \in flying
    /\ flying' = flying \ {o}
    /\ book' \in {book, book \cup {o}}
    /\ UNCHANGED <<pos, life>> /\ TraderOnly

\* SIGINT ends the process at its next await; it may also end by itself.  What
\* it hung stays on the book, what it sent stays on its way.
Die(t) ==
    /\ t \in Alive
    /\ life' = [life EXCEPT ![t] = "dead"]
    /\ UNCHANGED exchange /\ TraderOnly

Fill(o) ==
    /\ o \in book /\ pos < MaxPos
    /\ book' = book \ {o} /\ pos' = pos + 1
    /\ UNCHANGED <<flying, life>> /\ TraderOnly

-----------------------------------------------------------------------------
(* The process manager *)

IsRunning == mstate \in {"starting", "running"}

Goes(r, where) == at' = [at EXCEPT ![r] = where]
Free == lock = Nobody

\* The request comes in.
Ask(r, what) ==
    /\ at[r] = "idle"
    /\ what = "start" => Cardinality({q \in Requests : at[q] \in {"start", "spawn"}})
                             < Cardinality(Unborn)
    /\ Goes(r, what)
    /\ alone' = IF what = "kill" /\ \A q \in Requests : at[q] = "idle" THEN {r} ELSE {}
    /\ stray' = IF flat THEN stray ELSE {}
    /\ UNCHANGED <<exchange, sentinel, life, manager, readers, locals, flat>>

RequestOnly == UNCHANGED <<exchange, sentinel, readers, locals, history>>

StartRefused(r) ==
    /\ at[r] = "start" /\ Free
    /\ IsRunning
    /\ Goes(r, "idle")
    /\ UNCHANGED <<life, manager>> /\ RequestOnly

\* Mutant: the lock is not held while the process is spawned.
StartSpawnsUnlocked(r) ==
    /\ at[r] = "start" /\ Free
    /\ ~IsRunning
    /\ mstate' = "starting"
    /\ Goes(r, "spawn")
    /\ UNCHANGED <<life, process, lock>> /\ RequestOnly

StartSpawns(r) ==
    /\ at[r] = "start" /\ Free
    /\ ~IsRunning
    /\ mstate' = "starting" /\ lock' = r
    /\ Goes(r, "spawn")
    /\ UNCHANGED <<life, process>> /\ RequestOnly

\* create_subprocess_exec answers.  It takes longer than the event loop needs to
\* wake a reader whose process ended.
Spawned(r) ==
    /\ at[r] = "spawn"
    /\ \A t \in Traders : reader[t] = "waiting" => awaited[t] \in Alive
    /\ \E t \in Unborn :
        /\ \A u \in Unborn : t <= u
        /\ life' = [life EXCEPT ![t] = "booting"]
        /\ process' = t
        /\ reader' = [reader EXCEPT ![t] = "reading"]
    /\ mstate' = "running" /\ lock' = Nobody
    /\ Goes(r, "idle")
    /\ UNCHANGED <<exchange, sentinel, awaited, locals, history>>

\* It raises: FileNotFoundError is caught, anything else escapes.
SpawnFails(r) ==
    /\ at[r] = "spawn"
    /\ mstate' \in {"ended", "starting"}
    /\ lock' = Nobody
    /\ Goes(r, "idle")
    /\ UNCHANGED <<life, process>> /\ RequestOnly

AfterStop(r) == IF at[r] \in {"stop", "wait"} THEN "idle" ELSE "markets"

StopNothing(r) ==
    /\ at[r] \in {"stop", "killstop"} /\ Free
    /\ process \notin Alive
    /\ mstate' = "stopped"
    /\ Goes(r, AfterStop(r))
    /\ UNCHANGED <<life, process, lock>> /\ RequestOnly

StopSignals(r) ==
    /\ at[r] \in {"stop", "killstop"} /\ Free
    /\ process \in Alive
    /\ mstate' = "stopping" /\ lock' = r
    /\ Goes(r, IF at[r] = "stop" THEN "wait" ELSE "killwait")
    /\ UNCHANGED <<life, process>> /\ RequestOnly

\* Mutant: the wait has no timeout and nothing escalates.
StopKillsNever(r) == FALSE

\* stop_timeout_seconds passed: SIGKILL.
StopKills(r) ==
    /\ at[r] \in {"wait", "killwait"}
    /\ process \in Alive
    /\ life' = [life EXCEPT ![process] = "dead"]
    /\ UNCHANGED <<manager, at>> /\ RequestOnly

StopWaited(r) ==
    /\ at[r] \in {"wait", "killwait"}
    /\ process \notin Alive
    /\ mstate' = "ended" /\ lock' = Nobody
    /\ Goes(r, AfterStop(r))
    /\ UNCHANGED <<life, process>> /\ RequestOnly

ReaderOnly == UNCHANGED <<exchange, sentinel, life, process, lock, at, locals, history>>

\* Mutant: it never waits, as if a stop were always under way.
ReaderLeavesQuietly(t) ==
    /\ reader' = [reader EXCEPT ![t] = "none"]
    /\ UNCHANGED <<awaited, mstate>> /\ ReaderOnly

\* _read_loop has left the log.  While a stop is under way it leaves the state
\* to it, else it waits for whatever self.process is by now.
ReaderLeaves(t) ==
    /\ IF IsRunning
       THEN /\ reader' = [reader EXCEPT ![t] = "waiting"]
            /\ awaited' = [awaited EXCEPT ![t] = process]
       ELSE reader' = [reader EXCEPT ![t] = "none"] /\ UNCHANGED awaited
    /\ UNCHANGED mstate /\ ReaderOnly

ReaderSeesEnd(t) ==
    /\ reader[t] = "reading" /\ life[t] = "dead"
    /\ ReaderLeaves(t)

\* readline raised: the line is too long, or another reader is at the same log.
ReaderCrashes(t) ==
    /\ reader[t] = "reading"
    /\ ReaderLeaves(t)

\* Mutant: a reader that saw its log end sets the state without waiting.
ReaderWakesEarly(t) ==
    /\ reader[t] = "waiting"
    /\ reader' = [reader EXCEPT ![t] = "none"]
    /\ awaited' = [awaited EXCEPT ![t] = 0]
    /\ mstate' = "ended" /\ ReaderOnly

ReaderWakes(t) ==
    /\ reader[t] = "waiting" /\ awaited[t] \notin Alive
    /\ reader' = [reader EXCEPT ![t] = "none"]
    /\ awaited' = [awaited EXCEPT ![t] = 0]
    /\ mstate' = "ended" /\ ReaderOnly

-----------------------------------------------------------------------------
(* A kill: the manager's stop if it believes a trader runs, then kill_switch *)

KillOnly == UNCHANGED <<life, manager, readers, alone, flat>>

KillAsked(r) ==
    /\ at[r] = "kill"
    /\ Goes(r, IF IsRunning THEN "killstop" ELSE "markets")
    /\ UNCHANGED <<exchange, sentinel, locals, stray>> /\ KillOnly

\* load_markets.  When it raises nothing else happens: no cancel, no sentinel.
KillConnects(r) ==
    /\ at[r] = "markets"
    /\ \E to \in {"orders", "idle"} : Goes(r, to)
    /\ UNCHANGED <<exchange, sentinel, locals, stray>> /\ KillOnly

\* fetch_open_orders.  A failed one reads as an empty book.
KillLists(r) ==
    /\ at[r] = "orders"
    /\ \/ listed' = [listed EXCEPT ![r] = book] /\ UNCHANGED unread
       \/ listed' = [listed EXCEPT ![r] = {}] /\ unread' = unread \cup {r}
    /\ Goes(r, "cancels")
    /\ stray' = IF r \in alone /\ ~flat THEN flying ELSE stray
    /\ UNCHANGED <<exchange, sentinel, holding, failed>> /\ KillOnly

\* cancel_order.  It raises when the order has filled meanwhile, or for no reason.
Cancels(r, o, ok) ==
    /\ ok => o \in book
    /\ book' = IF ok THEN book \ {o} ELSE book
    /\ failed' = IF ok THEN failed ELSE failed \cup {r}

KillCancels(r) ==
    /\ at[r] = "cancels"
    /\ \E o \in listed[r], ok \in BOOLEAN :
        /\ Cancels(r, o, ok)
        /\ listed' = [listed EXCEPT ![r] = @ \ {o}]
    /\ UNCHANGED <<pos, flying, sentinel, at, holding, unread, stray>> /\ KillOnly

\* fetch_positions, after the cancels.  A failed one reads as no position.
ReadsNext(r) == at[r] = "cancels" /\ listed[r] = {}
KillReads(r) ==
    /\ ReadsNext(r)
    /\ \/ holding' = [holding EXCEPT ![r] = pos] /\ UNCHANGED unread
       \/ holding' = [holding EXCEPT ![r] = 0] /\ unread' = unread \cup {r}
    /\ Goes(r, "close")
    /\ UNCHANGED <<exchange, sentinel, listed, failed, stray>> /\ KillOnly

\* Mutant: the market order is not reduce-only.
KillClosesBeyond(r) ==
    /\ at[r] = "close"
    /\ \/ pos' = pos - holding[r] /\ UNCHANGED failed
       \/ holding[r] > 0 /\ failed' = failed \cup {r} /\ UNCHANGED pos
    /\ holding' = [holding EXCEPT ![r] = 0]
    /\ Goes(r, "sentinel")
    /\ UNCHANGED <<book, flying, sentinel, listed, unread, stray>> /\ KillOnly

\* The market order is reduce-only: it takes no more than there is.
KillCloses(r) ==
    /\ at[r] = "close"
    /\ \/ holding[r] = 0 /\ UNCHANGED <<pos, failed>>
       \/ /\ holding[r] > 0 /\ pos > 0
          /\ pos' = IF holding[r] < pos THEN pos - holding[r] ELSE 0
          /\ UNCHANGED failed
       \/ holding[r] > 0 /\ failed' = failed \cup {r} /\ UNCHANGED pos
    /\ holding' = [holding EXCEPT ![r] = 0]
    /\ Goes(r, "sentinel")
    /\ UNCHANGED <<book, flying, sentinel, listed, unread, stray>> /\ KillOnly

\* The sentinel is written whatever failed; writing it may itself raise.
KillEnds(r) ==
    /\ at[r] = "sentinel"
    /\ \/ /\ sentinel' = TRUE
          /\ flat' = (flat \/ (r \in alone /\ r \notin failed \cup unread))
       \/ UNCHANGED <<sentinel, flat>>
    /\ Goes(r, "idle")
    /\ failed' = failed \ {r} /\ unread' = unread \ {r} /\ alone' = alone \ {r}
    /\ UNCHANGED <<exchange, listed, holding, life, manager, readers, stray>>

ClearSentinel ==
    /\ sentinel
    /\ sentinel' = FALSE /\ flat' = FALSE
    /\ UNCHANGED <<exchange, life, manager, readers, at, locals, alone, stray>>

-----------------------------------------------------------------------------
Start(r) == StartRefused(r) \/ StartSpawns(r)
Stop(r) == StopNothing(r) \/ StopSignals(r)
Spawn(r) == Spawned(r) \/ SpawnFails(r)
StopAnswered(r) == StopKills(r) \/ StopWaited(r)
Reader(t) == ReaderSeesEnd(t) \/ ReaderWakes(t)
Kill(r) ==
    \/ KillAsked(r) \/ KillConnects(r) \/ KillLists(r) \/ KillCancels(r)
    \/ KillReads(r) \/ KillCloses(r) \/ KillEnds(r)
Request(r) == Start(r) \/ Spawn(r) \/ Stop(r) \/ StopAnswered(r) \/ Kill(r)

Next ==
    \/ \E t \in Traders : Boot(t) \/ Place(t) \/ Die(t) \/ Reader(t) \/ ReaderCrashes(t)
    \/ \E o \in Orders : Land(o) \/ Fill(o)
    \/ \E r \in Requests : Request(r) \/ \E what \in {"start", "stop", "kill"} : Ask(r, what)
    \/ ClearSentinel

Spec == Init /\ [][Next]_vars

\* The event loop runs what can run: a request goes on, a reader that can leave or
\* wake does.  asyncio.Lock serves its waiters in turn, so a start or stop that keeps
\* finding the lock free gets it (the steps after it stay enabled until taken); and a
\* signalled process is killed in the end.  Nothing makes a trader die or an
\* operator ask.
Fairness ==
    /\ WF_vars(\E t \in Traders : Reader(t))
    /\ \A r \in Requests : SF_vars(Request(r))
FairSpec == Spec /\ Fairness

-----------------------------------------------------------------------------
TypeOK ==
    /\ book \subseteq Orders /\ pos \in 0 .. MaxPos /\ sentinel \in BOOLEAN
    /\ flying \subseteq Orders \ book
    /\ life \in [Traders -> {"unborn", "booting", "trading", "dead"}]
    /\ mstate \in {"stopped", "starting", "running", "stopping", "ended"}
    /\ process \in 0 .. MaxStarts /\ lock \in Requests \cup {Nobody}
    /\ reader \in [Traders -> {"none", "reading", "waiting"}]
    /\ awaited \in [Traders -> 0 .. MaxStarts]
    /\ at \in [Requests -> {"idle", "start", "spawn", "stop", "wait", "kill", "killstop",
                            "killwait", "markets", "orders", "cancels", "close", "sentinel"}]
    /\ listed \in [Requests -> SUBSET Orders] /\ holding \in [Requests -> 0 .. MaxPos]
    /\ failed \subseteq Requests /\ unread \subseteq Requests /\ alone \subseteq Requests
    /\ flat \in BOOLEAN /\ stray \subseteq Orders

\* Whatever starts, stops and kills overlap, one manager never has two traders
\* alive, which would trade the same account with two memories.
OneTrader == \A t, u \in Alive : t = u

\* With no start or stop under way, a manager that reports its trader as stopped,
\* exited or crashed is right: a reader of an earlier process never speaks for a
\* later one.  A kill relies on it to know whether to stop a trader first.
StatusTruthful == (Free /\ mstate \in {"stopped", "ended"}) => Alive = {}

\* What is left may be a request that the kill could not see: an order, or a unit
\* that it became.
OnlyStray == book \subseteq stray /\ pos <= Cardinality(stray \ book)

\* A kill that no other request overlapped, whose reads and orders all went
\* through, leaves no order and no position but what its trader still had on the way
\* when the kill read the book, each once; and until the sentinel is removed nothing
\* else comes back, whatever is started then.
KillIsFinal == flat => OnlyStray

\* A kill first stops the trader, so that it "doesn't race with reconcile"
\* (webui/server.py:699-700): nothing trades when it turns to the exchange.
KillStopsFirst ==
    [][\A r \in Requests : at[r] # "markets" /\ at'[r] = "markets" => Alive = {}]_vars

\* A kill that is about to report 0 has left nothing that it could have seen: "0 - all
\* cancels + flattens succeeded" (docs/RUNBOOK.md:115), of every open order and
\* position (97-100).
ZeroIsClean == \A r \in alone \ failed : at[r] = "sentinel" => OnlyStray

\* Every request is answered: no lock, no process and no failed call holds it up.
RequestsEnd == \A r \in Requests : at[r] # "idle" ~> at[r] = "idle"

\* A trader that died by itself is noticed: the manager does not report a dead
\* process as running for ever.
DeathIsNoticed == (mstate = "running" /\ process \notin Alive) ~> mstate # "running"
=============================================================================
