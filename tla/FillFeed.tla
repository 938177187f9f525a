------------------------------ MODULE FillFeed ------------------------------
(***************************************************************************)
(* The fill feed of one symbol (src/combo_bot/fill_events_manager.py):     *)
(* poll drains the exchange's trade history page by page from a watermark, *)
(* drops the ids it has seen, hands the rest to the sink and commits the   *)
(* watermark and the ids once the sink returned.  New trades appear on the *)
(* exchange between any two pages, and the process may restart from its    *)
(* state file at any time.                                                 *)
(***************************************************************************)
EXTENDS Integers, Sequences, FiniteSets, FiniteSetsExt

CONSTANTS
    Feeds,     \* the trade histories to consider: see Row
    BotStart,  \* set_bot_start: older trades of others are history
    PageSize,  \* rows per page
    MaxPages,  \* pages per poll
    Cap,       \* dedup_capacity
    Escalate,  \* _stuck_escalate_after
    Whole,     \* whether the trades of one millisecond appear together
    Failing    \* whether a page fetch or the sink may fail

\* A trade has its place in the history for id.  The trades of a history are
\* in the order of their timestamps.
Row == [ts : Nat \ {0}, ours : BOOLEAN]

ASSUME FeedsOrdered ==
    \A rows \in Feeds :
        /\ rows \in Seq(Row)
        /\ \A i, j \in DOMAIN rows : i < j => rows[i].ts <= rows[j].ts
ASSUME SizesPositive == {PageSize, MaxPages, Cap, Escalate} \subseteq Nat \ {0}
\* fromId asks for the row of that id again, so a page of one row leads nowhere; and
\* what one poll fetches must be found in the dedup buffer by the next one.  The
\* code's own sizes are 200 rows, 16 pages and 4096 ids.
ASSUME PageHoldsTwo == PageSize > 1
ASSUME CapHoldsPoll == MaxPages * PageSize <= Cap
ASSUME BotStartNat == BotStart \in Nat
ASSUME FeedBooleans == {Whole, Failing} \subseteq BOOLEAN

VARIABLES
    rows,        \* the trade history of the exchange, in the end
    honoursId,   \* whether the exchange knows the fromId parameter
    visible,     \* the trades its endpoint shows so far
    since,       \* _last_ts_ms, 0 before the first commit
    seen,        \* _seen_ids, oldest first
    stuck, stuckCount,
    failed,      \* the symbol is in _last_poll_failed_symbols
    booked,      \* trades the sink has booked, ...
    twice,       \* ... and those it has booked more than once
    pc,
    cursor, fromId, pages, got,    \* the locals of poll: got holds the rows
    stuckAt, interrupted,          \* cursor_stuck_at_ts, pagination_interrupted
    saved,       \* the state file
    asked,       \* history: what was visible when the last poll began
    cut,         \* history: a page fetch failed, ever
    spent,       \* history: a poll ended for want of pages, ever, ...
    split        \* ... and between two trades of one millisecond

exchange == <<rows, honoursId, visible>>
history == <<asked, cut, spent, split>>
committed == <<since, seen, booked, twice>>
locals == <<cursor, fromId, pages, got, stuckAt, interrupted>>
vars == <<exchange, committed, stuck, stuckCount, failed, pc, locals, saved, history>>

Trades == DOMAIN rows
ToRange(s) == {s[i] : i \in DOMAIN s}

NewFile == [since |-> 0, seen |-> <<>>, stuck |-> FALSE, stuckCount |-> 0,
            booked |-> {}, twice |-> {}]

Init ==
    /\ rows \in Feeds
    /\ honoursId \in BOOLEAN
    /\ visible = {i \in DOMAIN rows : rows[i].ts < BotStart}   \* the past
    /\ since = 0 /\ seen = <<>> /\ booked = {} /\ twice = {}
    /\ stuck = FALSE /\ stuckCount = 0 /\ failed = FALSE
    /\ pc = "idle"
    /\ cursor = 0 /\ fromId = 0 /\ pages = 0 /\ got = <<>>
    /\ stuckAt = 0 /\ interrupted = FALSE
    /\ saved = NewFile
    /\ asked = {} /\ cut = FALSE /\ spent = FALSE /\ split = FALSE

PollReturns ==
    /\ pc' = "idle"
    /\ cursor' = 0 /\ fromId' = 0 /\ pages' = 0 /\ got' = <<>>
    /\ stuckAt' = 0 /\ interrupted' = FALSE

\* Trades appear in the order of the history.
Appear ==
    \E i \in Trades \ visible :
        /\ \A j \in Trades \ visible : i <= j
        /\ visible' = visible \cup
               (IF Whole THEN {j \in Trades : rows[j].ts = rows[i].ts} ELSE {i})
        /\ UNCHANGED <<rows, honoursId, committed, stuck, stuckCount, failed, pc, locals,
                       saved, history>>

-----------------------------------------------------------------------------
(* The pages of one poll *)

\* A poll that is neither parked nor throttled begins.
Poll ==
    /\ pc = "idle"
    /\ ~stuck
    /\ failed' = FALSE
    /\ cursor' = since /\ fromId' = 0 /\ pages' = 0 /\ got' = <<>>
    /\ stuckAt' = 0 /\ interrupted' = FALSE
    /\ asked' = visible
    /\ pc' = "paging"
    /\ UNCHANGED <<exchange, committed, stuck, stuckCount, saved, cut, spent, split>>

\* What fetch_my_trades answers: the oldest rows from the cursor on, and from
\* the row fromId on if the exchange knows that parameter.  The history shows up to
\* its latest visible row, so the rows it offers follow each other.
Offered(i) == i \in visible /\ rows[i].ts >= cursor /\ (honoursId => i >= fromId)
Answer ==
    LET offered == {i \in Trades : Offered(i)}
        first == Min(offered)
        rest == Max(offered) - first + 1
    IN  IF offered = {} THEN <<>>
        ELSE [k \in 1 .. (IF rest < PageSize THEN rest ELSE PageSize) |-> first + k - 1]

Full(page) == Len(page) = PageSize
LastTs(page) == rows[page[Len(page)]].ts
LastId(page) == page[Len(page)]

PageArrives ==
    /\ pc = "paging"
    /\ pages' = pages + 1
    /\ got' = got \o Answer
    /\ UNCHANGED <<exchange, committed, failed, interrupted, saved, asked, cut>>

Continue ==
    /\ pc' = IF pages' = MaxPages THEN "commit" ELSE "paging"
    /\ spent' = (spent \/ pages' = MaxPages)

HalfFetched ==
    \E i \in visible \ ToRange(got'), j \in ToRange(got') : rows[i].ts = rows[j].ts

\* An empty page ends the poll, a short one also ends any stall.
PageEnds ==
    /\ PageArrives
    /\ ~Full(Answer)
    /\ IF Answer = <<>> THEN UNCHANGED <<stuckAt, stuckCount>>
       ELSE stuckAt' = 0 /\ stuckCount' = 0
    /\ pc' = "commit"
    /\ UNCHANGED <<cursor, fromId, stuck, spent, split>>

PageAdvances ==
    /\ PageArrives
    /\ Full(Answer)
    /\ LastTs(Answer) > cursor
    /\ cursor' = LastTs(Answer)
    /\ fromId' = LastId(Answer)
    /\ Continue
    /\ split' = (split \/ (pages' = MaxPages /\ stuckAt = 0 /\ HalfFetched))
    /\ UNCHANGED <<stuckAt, stuck, stuckCount>>

\* A full page within the cursor's millisecond: try fromId.
PageStays ==
    /\ PageArrives
    /\ Full(Answer)
    /\ LastTs(Answer) <= cursor
    /\ LastId(Answer) # fromId
    /\ stuckAt' = LastTs(Answer)
    /\ fromId' = LastId(Answer)
    /\ Continue
    /\ UNCHANGED <<cursor, stuck, stuckCount, split>>

\* Mutant: a stall is not counted.
PageStallsForgiven ==
    /\ PageArrives
    /\ Full(Answer)
    /\ LastTs(Answer) <= cursor
    /\ LastId(Answer) = fromId
    /\ stuckAt' = LastTs(Answer)
    /\ pc' = "commit"
    /\ UNCHANGED <<cursor, fromId, stuck, stuckCount, spent, split>>

\* fromId did not help; after Escalate such polls the symbol is parked.
PageStalls ==
    /\ PageArrives
    /\ Full(Answer)
    /\ LastTs(Answer) <= cursor
    /\ LastId(Answer) = fromId
    /\ stuckAt' = LastTs(Answer)
    /\ stuckCount' = stuckCount + 1
    /\ stuck' = (stuckCount' >= Escalate)
    /\ pc' = "commit"
    /\ UNCHANGED <<cursor, fromId, spent, split>>

\* Mutant: the page is given up without a trace.
PageFailsSilently ==
    /\ Failing
    /\ pc = "paging"
    /\ interrupted' = TRUE /\ cut' = TRUE
    /\ pc' = "commit"
    /\ UNCHANGED <<exchange, committed, stuck, stuckCount, failed, cursor, fromId, pages, got,
                   stuckAt, saved, asked, spent, split>>

\* fetch_my_trades failed in all its retries.
PageFails ==
    /\ Failing
    /\ pc = "paging"
    /\ failed' = TRUE
    /\ interrupted' = TRUE /\ cut' = TRUE
    /\ pc' = "commit"
    /\ UNCHANGED <<exchange, committed, stuck, stuckCount, cursor, fromId, pages, got,
                   stuckAt, saved, asked, spent, split>>

-----------------------------------------------------------------------------
(* The commit *)

\* The ids of the first n rows without those already seen and without repetitions,
\* and those of the poll.
IsNew(i) == got[i] \notin ToRange(seen) /\ \A j \in 1 .. (i - 1) : got[j] # got[i]
StagedUpTo ==
    LET f[n \in 0 .. Len(got)] ==
            IF n = 0 THEN <<>>
            ELSE IF IsNew(n) THEN Append(f[n - 1], got[n]) ELSE f[n - 1]
    IN  f
Staged == StagedUpTo[Len(got)]

\* Before the first watermark, old trades that are not ours are history.
Historic(i) == rows[i].ts < BotStart /\ ~rows[i].ours
Fresh == {i \in ToRange(Staged) : ~(since = 0 /\ Historic(i))}

MaxTs == Max({since} \cup {rows[i].ts : i \in ToRange(Staged)})

\* Mutant: an interrupted poll moves past the last millisecond it saw.
WatermarkPastInterruption ==
    IF stuckAt # 0 /\ ~interrupted THEN stuckAt
    ELSE IF MaxTs > since THEN MaxTs + 1 ELSE since

\* An interrupted or stalled poll stays at a millisecond it may not have
\* drained; the dedup ids keep its rows from being booked again.
Watermark ==
    IF interrupted THEN MaxTs
    ELSE IF stuckAt # 0 THEN stuckAt
    ELSE IF MaxTs > since THEN MaxTs + 1 ELSE since

\* Mutant: the dedup buffer is never trimmed.
KeptAll(ids) == ids
Kept(ids) == IF Len(ids) <= Cap THEN ids ELSE SubSeq(ids, Len(ids) - Cap + 1, Len(ids))

Commit ==
    /\ pc = "commit"
    /\ booked' = booked \cup Fresh
    /\ twice' = twice \cup (booked \cap Fresh)
    /\ seen' = Kept(seen \o Staged)
    /\ since' = Watermark
    /\ PollReturns
    /\ UNCHANGED <<exchange, stuck, stuckCount, failed, saved, history>>

\* The sink raises before it books anything: the poll commits nothing.  (What
\* becomes of a sink that raises half way is TrendOverlay's SinkRaises.)
SinkRaises ==
    /\ Failing
    /\ pc = "commit"
    /\ Fresh # {}
    /\ failed' = TRUE
    /\ PollReturns
    /\ UNCHANGED <<exchange, committed, stuck, stuckCount, saved, history>>

-----------------------------------------------------------------------------
(* The state file *)

\* One file holds the feed's snapshot and what the sink booked.
Save ==
    /\ pc = "idle"
    /\ saved' = [since |-> since, seen |-> seen, stuck |-> stuck, stuckCount |-> stuckCount,
                 booked |-> booked, twice |-> twice]
    /\ UNCHANGED <<exchange, committed, stuck, stuckCount, failed, pc, locals, history>>

\* The process dies and starts again; clear_stuck_on_start may unpark.
Restart ==
    /\ since' = saved.since /\ seen' = saved.seen
    /\ booked' = saved.booked /\ twice' = saved.twice
    /\ \E keep \in BOOLEAN :
        /\ stuck' = (saved.stuck /\ keep)
        /\ stuckCount' = IF saved.stuck /\ keep THEN saved.stuckCount ELSE 0
    /\ failed' = FALSE
    /\ PollReturns
    /\ asked' = {}
    /\ UNCHANGED <<exchange, saved, cut, spent, split>>

PageStep == PageEnds \/ PageAdvances \/ PageStays \/ PageStalls

Next ==
    \/ Appear
    \/ Poll
    \/ PageStep \/ PageFails
    \/ Commit \/ SinkRaises
    \/ Save \/ Restart

Spec == Init /\ [][Next]_vars

\* The trader polls again and again and saves after every tick; a page that is
\* asked for again and again is answered again and again, and so is the sink.
\* Restarts come to an end.
Fairness ==
    /\ WF_vars(Appear)
    /\ WF_vars(Poll)
    /\ \A k \in 0 .. (MaxPages - 1) : SF_vars(pages = k /\ PageStep)
    /\ WF_vars(PageStep \/ PageFails)
    /\ WF_vars(Commit \/ SinkRaises)
    /\ SF_vars(Fresh # {} /\ Commit)
    /\ <>[][~Restart]_vars

FairSpec == Spec /\ Fairness

-----------------------------------------------------------------------------
(* Properties *)

Wanted == {i \in Trades : ~Historic(i)}

File == [since : Nat, seen : Seq(Nat), stuck : BOOLEAN, stuckCount : 0 .. Escalate,
         booked : SUBSET Nat, twice : SUBSET Nat]

\* Every variable has the type its code structure gives it; the dedup buffer
\* stays within its capacity.
TypeOK ==
    /\ rows \in Feeds /\ {honoursId, cut, spent, split} \subseteq BOOLEAN
    /\ visible \subseteq Trades /\ asked \subseteq visible
    /\ since \in Nat
    /\ seen \in Seq(Trades) /\ Len(seen) <= Cap
    /\ stuck \in BOOLEAN /\ stuckCount \in 0 .. Escalate /\ failed \in BOOLEAN
    /\ booked \subseteq visible /\ twice \subseteq booked
    /\ pc \in {"idle", "paging", "commit"}
    /\ cursor \in Nat /\ fromId \in Trades \cup {0} /\ pages \in 0 .. MaxPages
    /\ got \in Seq(Trades)
    /\ stuckAt \in Nat /\ interrupted \in BOOLEAN
    /\ saved \in File

\* No trade is left behind the watermark, where no later poll would look.
\* Pagination is there so that no burst of trades "drops everything past the
\* first page" (fill_events_manager.py:513-517).
EveryFillKept == \A i \in visible \cap Wanted : rows[i].ts < since => i \in booked

\* It holds while no poll runs out of pages between two trades of one millisecond:
\* a poll that runs out of pages anywhere else goes on where it ended, and neither the
\* siblings of a full page nor those of a page that failed are skipped.
NoFillLost == ~split => EveryFillKept

\* No trade is handed to the sink twice: what a watermark that stays behind
\* fetches again is still in the dedup buffer, also after its oldest ids went.
NoDuplicate == twice = {}

\* A trade older than the bot's start that is not ours is not booked
\* (fill_events_manager.py:139-142), unless the first poll was left unfinished:
\* it commits a watermark, and the filter is for polls without one.
HistoryIgnored == ~cut /\ ~spent => booked \subseteq Wanted

\* The ledger promised: each trade that is the bot's own once, and no other.  The
\* watermark must not run ahead for the first part, nor lag behind the dedup buffer
\* for the second.
EachTradeOnce == NoFillLost /\ NoDuplicate /\ HistoryIgnored

\* On an exchange with fromId the trader is free to enter after a poll only if
\* the poll booked all there was when it began: neither is_stuck nor
\* last_poll_failed holds back the entries that a missing fill would make wrong
\* (fill_events_manager.py:349-358).
QuietMeansCurrent ==
    pc = "idle" /\ ~stuck /\ ~failed /\ ~spent /\ honoursId
        => (asked \cap Wanted) \subseteq booked

\* A millisecond that fills a page, with more trades from it on than a poll with fromId
\* can fetch: a poll that runs out of pages behind it goes back to it, again and again.
Endless ==
    \E t \in {rows[i].ts : i \in Trades} :
        /\ Cardinality({j \in Trades : rows[j].ts = t}) >= PageSize
        /\ Cardinality({j \in Trades : rows[j].ts >= t})
              > PageSize + (MaxPages - 1) * (PageSize - 1)

\* Every trade is booked in the end, for good, or the symbol is parked, as long as no
\* poll runs out of pages inside a millisecond or behind one that is Endless.
BookedOrParked ==
    <>[](Wanted \subseteq booked \/ stuck \/ split \/ (spent /\ honoursId /\ Endless))
=============================================================================
