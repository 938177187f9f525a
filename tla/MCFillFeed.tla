----------------------------- MODULE MCFillFeed -----------------------------
(* Instances of FillFeed for TLC: the trade histories to drain. *)
EXTENDS FillFeed

Ours(ts) == [ts |-> ts, ours |-> TRUE]
Foreign(ts) == [ts |-> ts, ours |-> FALSE]

\* Every way to spread five trades over four milliseconds.  With two rows to a
\* page and three pages to a poll, a burst may cross a page's end, fill pages or
\* outlast the poll.
FiveTrades ==
    {s \in [1 .. 5 -> {Ours(ts) : ts \in 2 .. 5}] :
        \A i, j \in 1 .. 5 : i < j => s[i].ts <= s[j].ts}

\* Trades of others and of the bot before the start, and more trades than the
\* dedup buffer holds.
Histories ==
    FiveTrades \cup
    {<<Foreign(1), Ours(1), Ours(3), Ours(3)>>,
     <<Foreign(1), Foreign(1), Foreign(1), Ours(2), Foreign(3)>>,
     <<Ours(2), Ours(2), Ours(3), Ours(3), Ours(4), Ours(4), Ours(5)>>}
=============================================================================
