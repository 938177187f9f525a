---------------------------- MODULE FillFeedProofs ----------------------------
(***************************************************************************)
(* Theorems about the fill feed, for any trade histories, any sizes of     *)
(* page, poll and dedup buffer that the assumptions of FillFeed allow, and *)
(* any number of polls, failures and restarts: each trade is booked once.  *)
(***************************************************************************)
EXTENDS FillFeed, SequenceTheorems, WellFoundedInduction, TLAPS

-----------------------------------------------------------------------------
(* The inductive invariant *)

Ts(i) == rows[i].ts
Past == {i \in Trades : Ts(i) < BotStart}

\* The exchange shows a beginning of its history, with all that was before the bot;
\* where trades of a millisecond appear together, it cuts between milliseconds.
Shown ==
    /\ \A i \in visible, j \in Trades : j <= i => j \in visible
    /\ Past \subseteq visible
    /\ Whole => \A i \in visible, j \in Trades \ visible : Ts(i) < Ts(j)

\* A full page from millisecond t on holds nothing but trades of t: on an exchange
\* without fromId no page leads past it.
Wall(t, ids) ==
    \E a \in Trades :
        /\ a + PageSize - 1 \in visible /\ Ts(a) = t /\ Ts(a + PageSize - 1) = t
        /\ \A i \in Trades : i < a => Ts(i) < t
        /\ a .. (a + PageSize - 1) \subseteq ids

\* The dedup buffer against the watermark: in order, and without a gap from the
\* watermark on, whose trades all fit in.
Dedup(from, ids) ==
    /\ ids \in Seq(Trades) /\ Len(ids) <= Cap
    /\ \A i, j \in DOMAIN ids : i < j => ids[i] < ids[j]
    /\ \A j \in ToRange(ids), i \in Trades : Ts(i) >= from =>
          j < i + Cap /\ (i <= j => i \in ToRange(ids))

\* The ledger against both: what was seen is booked, what was booked and may be
\* fetched again is seen, nothing wanted is left behind the watermark, and no trade
\* of before the bot that may still be fetched is unseen.
Ledger(from, ids, all, double) ==
    /\ from \in Nat
    /\ ToRange(ids) \subseteq visible /\ all \subseteq visible
    /\ double = {}
    /\ ToRange(ids) \cap Wanted \subseteq all
    /\ \A i \in all : Ts(i) >= from => i \in ToRange(ids)
    /\ Whole => \A i \in Trades \ visible : Ts(i) >= from
    /\ Whole /\ ~split => \A i \in visible \cap Wanted : Ts(i) < from => i \in all
    /\ ~cut /\ ~spent =>
          /\ all \subseteq Wanted
          /\ from # 0 => \A i \in Past :
                \/ Ts(i) < from \/ i \in ToRange(ids)
                \/ ~honoursId /\ Wall(from, ToRange(ids))

Committed == Dedup(since, seen) /\ Ledger(since, seen, booked, twice)
Saved == Dedup(saved.since, saved.seen)
         /\ Ledger(saved.since, saved.seen, saved.booked, saved.twice)

Typed ==
    /\ rows \in Feeds /\ (split => spent)
    /\ {honoursId, cut, spent, split, stuck, failed, interrupted} \subseteq BOOLEAN
    /\ visible \subseteq Trades /\ asked \subseteq visible
    /\ stuckCount \in 0 .. Escalate /\ (~stuck => stuckCount < Escalate)
    /\ pc \in {"idle", "paging", "commit"}
    /\ cursor \in Nat /\ fromId \in Trades \cup {0} /\ pages \in 0 .. MaxPages
    /\ got \in Seq(Trades)
    /\ stuckAt \in Nat
    /\ saved \in File
    /\ pc # "idle" => Past \subseteq asked
    /\ pc = "paging" => ~stuck /\ pages < MaxPages

\* The rows of a poll so far: all from the watermark up to the place where the next
\* page begins, each after the ones before it, and not too many.
InOrder ==
    /\ ToRange(got) \subseteq visible /\ Len(got) <= pages * PageSize
    /\ \A k \in DOMAIN got :
          /\ Ts(got[k]) >= since
          /\ \A i \in Trades : Ts(i) >= since =>
                /\ got[k] < i + Len(got)
                /\ i < got[k] => \E l \in 1 .. (k - 1) : got[l] = i
Fetched ==
    /\ InOrder
    /\ cursor >= since /\ (cursor = since \/ \E j \in ToRange(got) : Ts(j) = cursor)
    /\ fromId # 0 => fromId \in ToRange(got) /\ Ts(fromId) = cursor

\* A stall: the watermark will stay at the millisecond where it happened.
Stalled ==
    /\ stuckAt # 0 => /\ fromId # 0 /\ \E j \in ToRange(got) : Ts(j) = stuckAt
                      /\ ~honoursId => cursor = stuckAt /\ Wall(stuckAt, ToRange(got))
    /\ ~honoursId /\ Wall(since, ToRange(seen)) =>
          cursor = since /\ ToRange(got) \subseteq ToRange(seen)

\* The end of a poll that nothing cut short.
Drained ==
    /\ interrupted => cut /\ failed
    /\ pc = "commit" /\ ~interrupted /\ ~spent =>
          /\ honoursId => stuckAt = 0 \/ cut
          /\ (stuckAt = 0 \/ honoursId) =>
                \A i \in visible :
                    /\ Ts(i) >= since
                    /\ i \in asked \/ (Whole /\ \E j \in ToRange(got) : Ts(i) <= Ts(j))
                    => i \in ToRange(got)
    /\ pc = "commit" /\ ~interrupted /\ ~split /\ stuckAt = 0 /\ Whole =>
          \A i \in visible :
              Ts(i) >= since /\ (\E j \in ToRange(got) : Ts(i) <= Ts(j)) => i \in ToRange(got)

Polling == pc # "idle" => Fetched /\ Stalled /\ Drained

Quiet == Whole => QuietMeansCurrent

IInv == Typed /\ Shown /\ Committed /\ Saved /\ Polling /\ Quiet

-----------------------------------------------------------------------------
(* Induction and extreme elements, as sets of numbers *)

LEMMA Least ==
    ASSUME NEW S \in SUBSET Nat, S # {}
    PROVE  \E m \in S : \A k \in S : m <= k
<1>1. PICK m \in S : \A k \in S : ~ (<<k, m>> \in OpToRel(<, Nat))
  <2>1. S \subseteq Nat
    OBVIOUS
  <2> QED BY <2>1, WFMin, NatLessThanWellFounded
<1>2. \A k \in S : k < m => <<k, m>> \in OpToRel(<, Nat)
  BY DEF OpToRel
<1>3. \A k \in S : ~(k < m)
  BY <1>1, <1>2, Zenon
<1> QED BY <1>3

LEMMA Induction ==
    ASSUME NEW S \in SUBSET Nat, 0 \in S, \A n \in S : n + 1 \in S
    PROVE  S = Nat
<1> SUFFICES ASSUME Nat \ S # {} PROVE FALSE
  OBVIOUS
<1>1. PICK m \in Nat \ S : \A k \in Nat \ S : m <= k
  <2>1. Nat \ S \in SUBSET Nat
    OBVIOUS
  <2> QED BY <2>1, Least
<1>2. m - 1 \in Nat /\ m = (m - 1) + 1 /\ m - 1 < m
  OBVIOUS
<1> QED BY <1>1, <1>2

LEMMA MinOf ==
    ASSUME NEW S \in SUBSET Nat, S # {}
    PROVE  Min(S) \in S /\ \A k \in S : Min(S) <= k
BY Least DEF Min

LEMMA MaxOf ==
    ASSUME NEW S \in SUBSET Nat, S # {}, NEW n \in Nat, \A k \in S : k <= n
    PROVE  Max(S) \in S /\ \A k \in S : k <= Max(S)
<1> DEFINE T == {n - k : k \in S}
<1>1. T \in SUBSET Nat /\ T # {}
  <2>1. \A k \in S : n - k \in Nat
    OBVIOUS
  <2> QED BY <2>1
<1>2. PICK m \in T : \A t \in T : m <= t
  <2> HIDE DEF T
  <2> QED BY <1>1, Least
<1>3. PICK j \in S : m = n - j
  OBVIOUS
<1>4. \A k \in S : k <= j
  <2> SUFFICES ASSUME NEW k \in S PROVE k <= j
    OBVIOUS
  <2>1. n - j <= n - k
    BY <1>2, <1>3
  <2> QED BY <2>1
<1>5. \A k \in S : j >= k
  BY <1>4
<1> QED BY <1>5 DEF Max

LEMMA Times ==
    ASSUME NEW a \in Nat, NEW b \in Nat, NEW c \in Nat, a <= b
    PROVE  a * c <= b * c /\ (a + 1) * c = a * c + c /\ a * c \in Nat
OBVIOUS

LEMMA Sizes ==
    /\ PageSize \in Nat /\ PageSize > 1 /\ MaxPages \in Nat /\ MaxPages > 0
    /\ Cap \in Nat /\ Cap > 0 /\ Escalate \in Nat /\ Escalate > 0 /\ BotStart \in Nat
    /\ MaxPages * PageSize <= Cap
BY SizesPositive, PageHoldsTwo, CapHoldsPoll, BotStartNat

-----------------------------------------------------------------------------
(* The history and its pages *)

LEMMA RowFacts ==
    ASSUME Typed
    PROVE  /\ Len(rows) \in Nat /\ Trades = 1 .. Len(rows)
           /\ \A i \in Trades : Ts(i) \in Nat /\ Ts(i) > 0 /\ rows[i] \in Row
           /\ \A i, j \in Trades : i <= j => Ts(i) <= Ts(j)
           /\ \A i, j \in Trades : Ts(i) < Ts(j) => i < j
<1>1. /\ rows \in Seq(Row)
      /\ \A i, j \in DOMAIN rows : i < j => rows[i].ts <= rows[j].ts
  BY FeedsOrdered DEF Typed
<1>2. Len(rows) \in Nat /\ Trades = 1 .. Len(rows)
  BY <1>1, LenProperties DEF Trades
<1>3. \A i \in Trades : rows[i] \in Row
  BY <1>1, <1>2, ElementOfSeq
<1>4. \A i \in Trades : Ts(i) \in Nat /\ Ts(i) > 0
  BY <1>3 DEF Row, Ts
<1>5. \A i, j \in Trades : i <= j => Ts(i) <= Ts(j)
  <2> SUFFICES ASSUME NEW i \in Trades, NEW j \in Trades, i <= j PROVE Ts(i) <= Ts(j)
    OBVIOUS
  <2>1. CASE i = j
    BY <1>4, <2>1
  <2>2. CASE i < j
    BY <1>1, <2>2 DEF Ts, Trades
  <2> QED BY <1>2, <2>1, <2>2
<1>6. \A i, j \in Trades : Ts(i) < Ts(j) => i < j
  BY <1>2, <1>4, <1>5
<1> QED BY <1>2, <1>3, <1>4, <1>5, <1>6

\* A page holds the first trades offered, as they follow each other; a page that is
\* not full holds them all.
LEMMA AnswerFacts ==
    ASSUME Typed, Shown
    PROVE  /\ Answer \in Seq(Trades) /\ Len(Answer) \in 0 .. PageSize
           /\ Answer = <<>> => \A i \in Trades : ~Offered(i)
           /\ Answer # <<>> =>
                /\ Len(Answer) > 0
                /\ \E first \in Trades :
                     /\ Offered(first) /\ \A i \in Trades : Offered(i) => first <= i
                     /\ \A k \in 1 .. Len(Answer) :
                           Answer[k] = first + k - 1 /\ Offered(Answer[k])
                     /\ Len(Answer) < PageSize =>
                           \A i \in Trades : Offered(i) => i < first + Len(Answer)
<1> DEFINE offered == {i \in Trades : Offered(i)}
           first == Min(offered)
           last == Max(offered)
           rest == last - first + 1
           n == IF rest < PageSize THEN rest ELSE PageSize
<1>1. CASE offered = {}
  <2>1. Answer = <<>>
    BY <1>1 DEF Answer
  <2>2. <<>> \in Seq(Trades) /\ Len(<<>>) = 0
    BY EmptySeq
  <2> QED BY <1>1, <2>1, <2>2, Sizes
<1>2. CASE offered # {}
  <2>1. Answer = [k \in 1 .. n |-> first + k - 1]
    BY <1>2 DEF Answer
  <2>2. Len(rows) \in Nat /\ Trades = 1 .. Len(rows)
    BY RowFacts
  <2>3. offered \in SUBSET Nat /\ \A k \in offered : k <= Len(rows)
    BY <2>2
  <2>4. first \in offered /\ \A k \in offered : first <= k
    <3> HIDE DEF offered
    <3> QED BY <1>2, <2>3, MinOf
  <2>5. last \in offered /\ \A k \in offered : k <= last
    <3> HIDE DEF offered
    <3> QED BY <1>2, <2>2, <2>3, MaxOf
  <2>6. first \in Trades /\ last \in Trades /\ Offered(first) /\ Offered(last) /\ first <= last
    BY <2>4, <2>5
  <2>7. \A i \in Trades : Offered(i) => first <= i /\ i <= last
    BY <2>4, <2>5
  <2> HIDE DEF first, last, offered
  <2>8. n \in 1 .. PageSize /\ n <= rest /\ (n < PageSize => n = rest)
    BY <2>2, <2>6, Sizes
  <2> HIDE DEF n
  <2>9. ASSUME NEW k \in 1 .. n PROVE first + k - 1 \in Trades /\ Offered(first + k - 1)
    <3> DEFINE i == first + k - 1
    <3>1. i \in Trades /\ first <= i /\ i <= last
      BY <2>2, <2>6, <2>8
    <3> HIDE DEF i
    <3>2. i \in visible
      BY <2>6, <3>1 DEF Shown, Offered
    <3>3. rows[first].ts \in Nat /\ rows[i].ts \in Nat /\ rows[first].ts <= rows[i].ts /\ cursor \in Nat
      BY <2>6, <3>1, RowFacts DEF Ts, Typed
    <3>4. rows[i].ts >= cursor
      BY <2>6, <3>3 DEF Offered
    <3>5. honoursId => i >= fromId
      BY <2>2, <2>6, <3>1 DEF Offered, Typed
    <3>6. Offered(i)
      BY <3>2, <3>4, <3>5 DEF Offered
    <3> QED BY <3>1, <3>6 DEF i
  <2>10. Answer \in Seq(Trades) /\ Len(Answer) = n /\ \A k \in 1 .. n : Answer[k] = first + k - 1
    BY <2>1, <2>8, <2>9
  <2>11. Len(Answer) < PageSize => \A i \in Trades : Offered(i) => i < first + Len(Answer)
    BY <2>2, <2>6, <2>7, <2>8, <2>10
  <2>12. Len(Answer) > 0 /\ Len(Answer) \in 0 .. PageSize /\ Answer # <<>>
    BY <2>8, <2>10, EmptySeq
  <2> QED BY <2>6, <2>7, <2>9, <2>10, <2>11, <2>12
<1> QED BY <1>1, <1>2

-----------------------------------------------------------------------------
(* The ids of a poll *)

Ascending(ids) == \A i, j \in DOMAIN ids : i < j => ids[i] < ids[j]

\* No row comes before a row that the poll had not fetched yet.
FirstInOrder ==
    \A k \in DOMAIN got, i \in ToRange(got) : i < got[k] => \E l \in 1 .. (k - 1) : got[l] = i

Unfolds(f, n) ==
    f = [k \in 0 .. n |->
            IF k = 0 THEN <<>>
            ELSE IF IsNew(k) THEN Append(f[k - 1], got[k]) ELSE f[k - 1]]

LEMMA StagedUnfold ==
    ASSUME got \in Seq(Trades)
    PROVE  Unfolds(StagedUpTo, Len(got))
<1> DEFINE S == {n \in Nat : \E f : Unfolds(f, n)}
<1>1. 0 \in S
  <2>1. Unfolds([k \in 0 .. 0 |-> <<>>], 0)
    BY DEF Unfolds
  <2> QED BY <2>1
<1>2. ASSUME NEW n \in S PROVE n + 1 \in S
  <2>1. n \in Nat
    OBVIOUS
  <2>2. PICK f : Unfolds(f, n)
    OBVIOUS
  <2> DEFINE g == [k \in 0 .. (n + 1) |->
                      IF k = 0 THEN <<>>
                      ELSE IF IsNew(k) THEN Append(f[k - 1], got[k]) ELSE f[k - 1]]
  <2>3. \A k \in 0 .. n : g[k] = f[k]
    <3>1. \A k \in 0 .. n :
              f[k] = IF k = 0 THEN <<>>
                     ELSE IF IsNew(k) THEN Append(f[k - 1], got[k]) ELSE f[k - 1]
      BY <2>2, Zenon DEF Unfolds
    <3>2. \A k \in 0 .. n : k \in 0 .. (n + 1)
      BY <2>1
    <3>3. \A k \in 0 .. (n + 1) :
              g[k] = IF k = 0 THEN <<>>
                     ELSE IF IsNew(k) THEN Append(f[k - 1], got[k]) ELSE f[k - 1]
      BY Zenon
    <3> HIDE DEF g
    <3> QED BY <3>1, <3>2, <3>3, Zenon
  <2>4. \A k \in 0 .. (n + 1) : k # 0 => g[k - 1] = f[k - 1]
    <3>1. \A k \in 0 .. (n + 1) : k # 0 => k - 1 \in 0 .. n
      BY <2>1
    <3> HIDE DEF g
    <3> QED BY <2>3, <3>1
  <2>5. g = [k \in 0 .. (n + 1) |->
                IF k = 0 THEN <<>>
                ELSE IF IsNew(k) THEN Append(g[k - 1], got[k]) ELSE g[k - 1]]
    BY <2>4
  <2>6. Unfolds(g, n + 1)
    BY <2>5 DEF Unfolds
  <2> QED BY <2>1, <2>6
<1>3. Len(got) \in S
  <2>1. S \in SUBSET Nat
    OBVIOUS
  <2> HIDE DEF S
  <2> QED BY <1>1, <1>2, <2>1, Induction, LenProperties
<1>4. \E f : Unfolds(f, Len(got))
  BY <1>3
<1> QED BY <1>4, Zenon DEF StagedUpTo, Unfolds

\* They are the trades fetched that were not seen, in the order of the history.
LEMMA StagedFacts ==
    ASSUME Typed, FirstInOrder
    PROVE  /\ Staged \in Seq(Trades) /\ Ascending(Staged)
           /\ ToRange(Staged) = ToRange(got) \ ToRange(seen)
<1> DEFINE f == StagedUpTo
           Upto(n) == {got[k] : k \in 1 .. n} \ ToRange(seen)
           Good(g, n) == g \in Seq(Trades) /\ Ascending(g) /\ ToRange(g) = Upto(n)
           S == {n \in Nat : n <= Len(got) => Good(f[n], n)}
<1>1. /\ got \in Seq(Trades) /\ Len(got) \in Nat /\ DOMAIN got = 1 .. Len(got)
      /\ \A k \in 1 .. Len(got) : got[k] \in Trades /\ got[k] \in Nat
  <2>1. got \in Seq(Trades)
    BY DEF Typed
  <2>2. \A i \in Trades : i \in Nat
    BY RowFacts
  <2> QED BY <2>1, <2>2, LenProperties, ElementOfSeq
<1>2. /\ f[0] = <<>>
      /\ \A n \in Nat : n + 1 <= Len(got) =>
            f[n + 1] = IF IsNew(n + 1) THEN Append(f[n], got[n + 1]) ELSE f[n]
  <2>1. \A k \in 0 .. Len(got) :
            f[k] = IF k = 0 THEN <<>>
                   ELSE IF IsNew(k) THEN Append(f[k - 1], got[k]) ELSE f[k - 1]
    BY <1>1, StagedUnfold, Zenon DEF Unfolds
  <2> HIDE DEF f
  <2>2. 0 \in 0 .. Len(got)
    BY <1>1
  <2>3. \A n \in Nat : n + 1 <= Len(got) =>
            n + 1 \in 0 .. Len(got) /\ n + 1 # 0 /\ (n + 1) - 1 = n
    BY <1>1
  <2> QED BY <2>1, <2>2, <2>3
<1> HIDE DEF f
<1>3. 0 \in S
  <2>1. Good(<<>>, 0)
    BY EmptySeq DEF Ascending, ToRange
  <2>2. Good(f[0], 0)
    BY <1>2, <2>1
  <2> HIDE DEF Good
  <2> QED BY <2>2
<1>4. ASSUME NEW n \in S PROVE n + 1 \in S
  <2> SUFFICES ASSUME n + 1 <= Len(got) PROVE Good(f[n + 1], n + 1)
    OBVIOUS
  <2>1. n \in Nat /\ n + 1 \in 1 .. Len(got) /\ Good(f[n], n)
    BY <1>1
  <2>2. \A k \in 1 .. (n + 1) : k \in 1 .. n \/ k = n + 1
    BY <2>1
  <2>3. \A k \in 1 .. n : k \in 1 .. (n + 1) /\ k \in 1 .. Len(got)
    BY <2>1
  <2>4. CASE ~IsNew(n + 1)
    <3>1. f[n + 1] = f[n]
      BY <1>2, <2>1, <2>4
    <3>2. got[n + 1] \in ToRange(seen) \/ \E k \in 1 .. n : got[k] = got[n + 1]
      BY <2>1, <2>4 DEF IsNew
    <3>3. Upto(n + 1) = Upto(n)
      BY <2>1, <2>2, <2>3, <3>2
    <3> QED BY <2>1, <3>1, <3>3
  <2>5. CASE IsNew(n + 1)
    <3> DEFINE g == f[n]
               h == Append(g, got[n + 1])
    <3>1. f[n + 1] = h
      BY <1>2, <2>1, <2>5
    <3>2. g \in Seq(Trades) /\ got[n + 1] \in Trades /\ Ascending(g) /\ ToRange(g) = Upto(n)
      BY <1>1, <2>1
    <3>3. /\ h \in Seq(Trades) /\ Len(h) = Len(g) + 1 /\ Len(g) \in Nat
          /\ DOMAIN h = 1 .. (Len(g) + 1) /\ DOMAIN g = 1 .. Len(g)
          /\ \A k \in 1 .. Len(g) : h[k] = g[k]
          /\ h[Len(g) + 1] = got[n + 1]
      BY <3>2, AppendProperties, LenProperties
    <3>4. /\ got[n + 1] \notin ToRange(seen)
          /\ \A k \in 1 .. n : got[k] # got[n + 1]
      BY <2>1, <2>5 DEF IsNew
    <3>5. \A k \in 1 .. n : got[k] < got[n + 1]
      <4> SUFFICES ASSUME NEW k \in 1 .. n, ~(got[k] < got[n + 1]) PROVE FALSE
        OBVIOUS
      <4>1. got[n + 1] < got[k] /\ k \in DOMAIN got /\ got[n + 1] \in ToRange(got)
        BY <1>1, <2>1, <2>3, <3>4 DEF ToRange
      <4>2. PICK l \in 1 .. (k - 1) : got[l] = got[n + 1]
        BY <4>1 DEF FirstInOrder
      <4>3. l \in 1 .. n
        BY <2>1
      <4> QED BY <3>4, <4>2, <4>3
    <3> HIDE DEF g, h
    <3>6. ToRange(h) = ToRange(g) \cup {got[n + 1]}
      BY <3>3 DEF ToRange
    <3>7. Upto(n + 1) = Upto(n) \cup {got[n + 1]}
      BY <2>1, <2>2, <2>3, <3>4
    <3>8. Ascending(h)
      <4> SUFFICES ASSUME NEW i \in 1 .. (Len(g) + 1), NEW j \in 1 .. (Len(g) + 1), i < j
                   PROVE  h[i] < h[j]
        BY <3>3 DEF Ascending
      <4>1. i \in 1 .. Len(g)
        BY <3>3
      <4>2. CASE j \in 1 .. Len(g)
        BY <3>2, <3>3, <4>1, <4>2 DEF Ascending
      <4>3. CASE j = Len(g) + 1
        <5>1. g[i] \in Upto(n)
          BY <3>2, <3>3, <4>1 DEF ToRange
        <5>2. g[i] < got[n + 1]
          BY <3>5, <5>1
        <5> QED BY <3>3, <4>1, <4>3, <5>2
      <4> QED BY <3>3, <4>2, <4>3
    <3> QED BY <3>1, <3>2, <3>3, <3>6, <3>7, <3>8
  <2> QED BY <2>4, <2>5
<1>5. Len(got) \in S
  <2>1. S \in SUBSET Nat
    OBVIOUS
  <2> HIDE DEF S
  <2> QED BY <1>1, <1>3, <1>4, <2>1, Induction
<1>6. Good(f[Len(got)], Len(got))
  BY <1>1, <1>5
<1>7. Upto(Len(got)) = ToRange(got) \ ToRange(seen)
  BY <1>1 DEF ToRange
<1> QED BY <1>6, <1>7 DEF Staged, f

LEMMA MaxTsFacts ==
    ASSUME Typed, since \in Nat, ToRange(Staged) \subseteq Trades
    PROVE  /\ MaxTs \in Nat /\ MaxTs >= since
           /\ \A i \in ToRange(Staged) : Ts(i) <= MaxTs
           /\ MaxTs = since \/ \E i \in ToRange(Staged) : MaxTs = Ts(i)
<1> DEFINE S == {since} \cup {rows[i].ts : i \in ToRange(Staged)}
<1>1. \A i \in ToRange(Staged) : rows[i].ts \in Nat /\ Ts(i) = rows[i].ts
  BY RowFacts DEF Ts
<1>2. S \in SUBSET Nat /\ S # {}
  BY <1>1
<1>3. \E n \in Nat : \A k \in S : k <= n
  <2>1. CASE Trades = {}
    <3>1. S = {since}
      BY <2>1
    <3> QED BY <3>1
  <2>2. CASE Trades # {}
    <3>1. /\ Len(rows) \in Trades /\ Ts(Len(rows)) \in Nat
          /\ \A i \in Trades : Ts(i) <= Ts(Len(rows))
      BY <2>2, RowFacts
    <3>2. CASE since <= Ts(Len(rows))
      BY <1>1, <3>1, <3>2
    <3>3. CASE Ts(Len(rows)) <= since
      <4>1. \A i \in ToRange(Staged) : rows[i].ts <= since
        <5> SUFFICES ASSUME NEW i \in ToRange(Staged) PROVE rows[i].ts <= since
          OBVIOUS
        <5>1. rows[i].ts \in Nat /\ rows[i].ts <= Ts(Len(rows))
          BY <1>1, <3>1
        <5> QED BY <3>1, <3>3, <5>1
      <4> QED BY <4>1
    <3> QED BY <3>1, <3>2, <3>3
  <2> QED BY <2>1, <2>2
<1>4. MaxTs = Max(S)
  BY DEF MaxTs
<1>5. since \in S /\ (\A i \in ToRange(Staged) : rows[i].ts \in S)
      /\ \A k \in S : k = since \/ \E i \in ToRange(Staged) : k = rows[i].ts
  OBVIOUS
<1> HIDE DEF S
<1>6. Max(S) \in S /\ \A k \in S : k <= Max(S)
  BY <1>2, <1>3, MaxOf
<1> QED BY <1>1, <1>2, <1>4, <1>5, <1>6

-----------------------------------------------------------------------------
(* The dedup buffer *)

LEMMA AscendingGap ==
    ASSUME Typed, NEW ids \in Seq(Trades), Ascending(ids)
    PROVE  \A p, q \in DOMAIN ids : p <= q => ids[q] >= ids[p] + (q - p)
<1> DEFINE S == {n \in Nat : \A p \in DOMAIN ids :
                     p + n \in DOMAIN ids => ids[p + n] >= ids[p] + n}
<1>1. /\ Len(ids) \in Nat /\ DOMAIN ids = 1 .. Len(ids)
      /\ \A p \in DOMAIN ids : ids[p] \in Nat
  <2>1. \A i \in Trades : i \in Nat
    BY RowFacts
  <2> QED BY <2>1, LenProperties, ElementOfSeq
<1>2. 0 \in S
  BY <1>1
<1>3. ASSUME NEW n \in S PROVE n + 1 \in S
  <2> SUFFICES ASSUME NEW p \in DOMAIN ids, p + (n + 1) \in DOMAIN ids
               PROVE  ids[p + (n + 1)] >= ids[p] + (n + 1)
    OBVIOUS
  <2>1. n \in Nat /\ p + n \in DOMAIN ids /\ p + n < p + (n + 1)
    BY <1>1
  <2>2. ids[p + n] >= ids[p] + n
    BY <2>1
  <2>3. ids[p + n] < ids[p + (n + 1)]
    BY <2>1 DEF Ascending
  <2>4. ids[p + n] \in Nat /\ ids[p + (n + 1)] \in Nat /\ ids[p] \in Nat
    BY <1>1, <2>1
  <2> QED BY <2>1, <2>2, <2>3, <2>4
<1>4. S = Nat
  <2>1. S \in SUBSET Nat
    OBVIOUS
  <2> HIDE DEF S
  <2> QED BY <1>2, <1>3, <2>1, Induction
<1> SUFFICES ASSUME NEW p \in DOMAIN ids, NEW q \in DOMAIN ids, p <= q
             PROVE  ids[q] >= ids[p] + (q - p)
  OBVIOUS
<1>5. q - p \in Nat /\ p + (q - p) = q
  BY <1>1
<1>6. q - p \in S
  BY <1>4, <1>5
<1> QED BY <1>5, <1>6

\* What the trimming of the buffer keeps: everything near the last id.
LEMMA KeptFacts ==
    ASSUME Typed, NEW ids \in Seq(Trades), Ascending(ids)
    PROVE  /\ Kept(ids) \in Seq(Trades) /\ Len(Kept(ids)) <= Cap
           /\ Ascending(Kept(ids)) /\ ToRange(Kept(ids)) \subseteq ToRange(ids)
           /\ \A i \in ToRange(ids) :
                 (\A j \in ToRange(ids) : j < i + Cap) => i \in ToRange(Kept(ids))
<1>1. /\ Len(ids) \in Nat /\ DOMAIN ids = 1 .. Len(ids)
      /\ \A p \in DOMAIN ids : ids[p] \in Nat /\ ids[p] \in Trades
  <2>1. \A i \in Trades : i \in Nat
    BY RowFacts
  <2> QED BY <2>1, LenProperties, ElementOfSeq
<1>2. CASE Len(ids) <= Cap
  <2>1. Kept(ids) = ids
    BY <1>2 DEF Kept
  <2> QED BY <1>2, <2>1
<1>3. CASE ~(Len(ids) <= Cap)
  <2> DEFINE m == Len(ids) - Cap
             k == Kept(ids)
  <2>1. m \in Nat /\ m > 0 /\ m + 1 \in 1 .. Len(ids) + 1 /\ Len(ids) = m + Cap
    BY <1>1, <1>3, Sizes
  <2>2. k = SubSeq(ids, m + 1, Len(ids))
    BY <1>3 DEF Kept
  <2> HIDE DEF m, k
  <2>3. /\ k \in Seq(Trades) /\ Len(k) = Cap /\ DOMAIN k = 1 .. Cap
        /\ \A p \in 1 .. Cap : k[p] = ids[m + p] /\ m + p \in DOMAIN ids
    <3>1. /\ m + 1 \in 1 .. Len(ids) + 1 /\ Len(ids) \in m + 1 - 1 .. Len(ids)
      BY <1>1, <2>1, Sizes
    <3>2. /\ SubSeq(ids, m + 1, Len(ids)) \in Seq(Trades)
          /\ Len(SubSeq(ids, m + 1, Len(ids))) = Len(ids) - (m + 1) + 1
          /\ \A p \in 1 .. (Len(ids) - (m + 1) + 1) :
                SubSeq(ids, m + 1, Len(ids))[p] = ids[m + 1 + p - 1]
      BY <3>1, SubSeqProperties
    <3>3. Len(ids) - (m + 1) + 1 = Cap
      BY <1>1, <2>1, Sizes
    <3>4. \A p \in 1 .. Cap : m + 1 + p - 1 = m + p /\ m + p \in DOMAIN ids
      BY <1>1, <2>1, Sizes
    <3> QED BY <2>2, <3>2, <3>3, <3>4, LenProperties
  <2>4. Ascending(k)
    <3> SUFFICES ASSUME NEW p \in 1 .. Cap, NEW q \in 1 .. Cap, p < q PROVE k[p] < k[q]
      BY <2>3 DEF Ascending
    <3>1. m + p < m + q
      BY <2>1
    <3> QED BY <2>3, <3>1 DEF Ascending
  <2>5. ToRange(k) \subseteq ToRange(ids)
    BY <2>3 DEF ToRange
  <2>6. ASSUME NEW i \in ToRange(ids), \A j \in ToRange(ids) : j < i + Cap
        PROVE  i \in ToRange(k)
    <3>1. PICK p \in DOMAIN ids : i = ids[p]
      BY DEF ToRange
    <3>2. Len(ids) \in DOMAIN ids /\ p <= Len(ids)
      BY <1>1, <2>1, Sizes
    <3>3. ids[Len(ids)] >= ids[p] + (Len(ids) - p)
      BY <3>2, AscendingGap
    <3>4. ids[Len(ids)] \in ToRange(ids)
      BY <3>2 DEF ToRange
    <3>5. Len(ids) - p < Cap
      BY <1>1, <2>6, <3>1, <3>2, <3>3, <3>4, Sizes
    <3>6. p - m \in 1 .. Cap /\ m + (p - m) = p
      BY <1>1, <2>1, <3>2, <3>5, Sizes
    <3>7. k[p - m] = i
      BY <2>3, <3>1, <3>6
    <3> QED BY <2>3, <3>6, <3>7 DEF ToRange
  <2> QED BY <2>3, <2>4, <2>5, <2>6, Sizes DEF k
<1> QED BY <1>2, <1>3

-----------------------------------------------------------------------------
(* Steps that leave the ledgers alone *)

\* A ledger stays right while trades appear and histories only grow.
LEMMA LedgerKept ==
    ASSUME NEW from, NEW ids, NEW all, NEW double,
           Dedup(from, ids), Ledger(from, ids, all, double),
           UNCHANGED <<rows, honoursId>>,
           visible \subseteq visible', visible' \subseteq Trades,
           Typed, spent => spent', split => split', cut => cut'
    PROVE  Dedup(from, ids)' /\ Ledger(from, ids, all, double)'
<1>1. /\ Trades' = Trades /\ (\A i : Ts(i)' = Ts(i))
      /\ Wanted' = Wanted /\ Past' = Past
  BY DEF Trades, Ts, Wanted, Historic, Past
<1>2. Dedup(from, ids)'
  BY <1>1 DEF Dedup, Trades, Ts
<1>3. Wall(from, ToRange(ids)) => Wall(from, ToRange(ids))'
  BY <1>1 DEF Wall, Trades, Ts
<1>4. Ledger(from, ids, all, double)'
  <2>1. ASSUME Whole PROVE (\A i \in Trades \ visible : Ts(i) >= from)'
    BY <1>1, <2>1 DEF Ledger, Trades, Ts
  <2>2. ASSUME Whole, ~split' PROVE (\A i \in visible \cap Wanted : Ts(i) < from => i \in all)'
    <3>1. \A i \in Trades \ visible : Ts(i) >= from
      BY <2>2 DEF Ledger
    <3>2. \A i \in Trades : Ts(i)' = Ts(i) /\ Ts(i) \in Nat
      BY <1>1, RowFacts
    <3>3. from \in Nat
      BY DEF Ledger
    <3> QED BY <1>1, <2>2, <3>1, <3>2, <3>3 DEF Ledger, Typed
  <2>3. {spent, split, cut} \subseteq BOOLEAN
    BY DEF Typed
  <2> QED BY <1>1, <1>3, <2>1, <2>2, <2>3 DEF Ledger
<1> QED BY <1>2, <1>4

LEMMA LedgersKept ==
    ASSUME Typed, Committed, Saved,
           UNCHANGED <<rows, honoursId, since, seen, booked, twice, saved>>,
           visible \subseteq visible', visible' \subseteq Trades,
           spent => spent', split => split', cut => cut'
    PROVE  Committed' /\ Saved'
<1>2. Dedup(since, seen)' /\ Ledger(since, seen, booked, twice)'
  BY LedgerKept DEF Committed
<1>3. (Dedup(saved.since, saved.seen)
         /\ Ledger(saved.since, saved.seen, saved.booked, saved.twice))'
  BY LedgerKept DEF Saved
<1> QED BY <1>2, <1>3 DEF Committed, Saved

-----------------------------------------------------------------------------
(* A page arrives *)

\* What the next page leaves out was fetched before.
LEMMA Behind ==
    ASSUME Typed, Committed, Fetched, NEW i \in visible, Ts(i) >= since, ~Offered(i)
    PROVE  i \in ToRange(got)
<1>1. /\ i \in Trades /\ Ts(i) \in Nat /\ since \in Nat /\ cursor \in Nat /\ i \in Nat
      /\ fromId \in Nat
  BY RowFacts DEF Typed, Committed, Ledger
<1>2. ASSUME NEW j \in ToRange(got), i < j PROVE i \in ToRange(got)
  <2>1. PICK k \in DOMAIN got : j = got[k]
    BY DEF ToRange
  <2>2. PICK l \in 1 .. (k - 1) : got[l] = i
    BY <1>1, <1>2, <2>1 DEF Fetched, InOrder
  <2>3. l \in DOMAIN got
    <3>1. got \in Seq(Trades)
      BY DEF Typed
    <3>2. DOMAIN got = 1 .. Len(got) /\ Len(got) \in Nat
      BY <3>1, LenProperties
    <3> QED BY <3>2
  <2> QED BY <2>2, <2>3 DEF ToRange
<1>3. Ts(i) < cursor \/ (honoursId /\ i < fromId)
  BY <1>1 DEF Offered, Ts
<1>4. CASE Ts(i) < cursor
  <2>1. cursor # since
    BY <1>1, <1>4
  <2>2. PICK j \in ToRange(got) : Ts(j) = cursor
    BY <2>1 DEF Fetched, InOrder
  <2>3. j \in Trades
    BY DEF Fetched, InOrder, Typed
  <2>4. i < j
    BY <1>1, <1>4, <2>2, <2>3, RowFacts
  <2> QED BY <1>2, <2>2, <2>4
<1>5. CASE honoursId /\ i < fromId
  <2>1. fromId # 0 /\ fromId \in ToRange(got)
    BY <1>1, <1>5, RowFacts DEF Fetched, InOrder
  <2> QED BY <1>2, <1>5, <2>1
<1> QED BY <1>3, <1>4, <1>5

\* The rows fetched keep their order and their number.
LEMMA GotMore ==
    ASSUME Typed, Shown, Committed, Fetched
    PROVE  LET more == got \o Answer
           IN  /\ more \in Seq(Trades)
               /\ ToRange(more) = ToRange(got) \cup ToRange(Answer)
               /\ ToRange(more) \subseteq visible /\ Len(more) <= (pages + 1) * PageSize
               /\ \A k \in DOMAIN more :
                     /\ Ts(more[k]) >= since
                     /\ \A i \in Trades : Ts(i) >= since =>
                           /\ more[k] < i + Len(more)
                           /\ i < more[k] => \E l \in 1 .. (k - 1) : more[l] = i
<1> DEFINE more == got \o Answer
           n == Len(got)
           m == Len(Answer)
<1>1. /\ got \in Seq(Trades) /\ n \in Nat /\ DOMAIN got = 1 .. n
      /\ cursor \in Nat /\ since \in Nat /\ pages \in Nat
      /\ \A k \in 1 .. n : got[k] \in Trades /\ got[k] \in Nat
  <2>1. got \in Seq(Trades)
    BY DEF Typed
  <2>2. cursor \in Nat /\ since \in Nat /\ pages \in Nat
    BY Sizes DEF Typed, Committed, Ledger
  <2>3. \A i \in Trades : i \in Nat
    BY RowFacts
  <2> QED BY <2>1, <2>2, <2>3, LenProperties, ElementOfSeq
<1>2. Answer \in Seq(Trades) /\ m \in 0 .. PageSize /\ DOMAIN Answer = 1 .. m
  BY AnswerFacts, LenProperties
<1>3. /\ more \in Seq(Trades) /\ Len(more) = n + m /\ DOMAIN more = 1 .. (n + m)
      /\ \A k \in 1 .. (n + m) : more[k] = IF k <= n THEN got[k] ELSE Answer[k - n]
  BY <1>1, <1>2, ConcatProperties, LenProperties
<1> HIDE DEF more, n, m
<1>4. ToRange(more) = ToRange(got) \cup ToRange(Answer)
  <2>1. \A k \in 1 .. n : k \in 1 .. (n + m) /\ more[k] = got[k]
    BY <1>1, <1>2, <1>3
  <2>2. \A k \in 1 .. m : n + k \in 1 .. (n + m) /\ more[n + k] = Answer[k]
    BY <1>1, <1>2, <1>3
  <2>3. \A k \in 1 .. (n + m) :
            (k \in 1 .. n /\ more[k] = got[k]) \/ (k - n \in 1 .. m /\ more[k] = Answer[k - n])
    BY <1>1, <1>2, <1>3
  <2>4. DOMAIN got = 1 .. n
    BY <1>1
  <2>5. ToRange(got) \subseteq ToRange(more) /\ ToRange(Answer) \subseteq ToRange(more)
    <3>1. \A k \in DOMAIN got : k \in DOMAIN more /\ more[k] = got[k]
      BY <1>3, <2>1, <2>4
    <3>2. \A k \in DOMAIN Answer : \E l \in DOMAIN more : more[l] = Answer[k]
      BY <1>2, <1>3, <2>2
    <3> QED BY <3>1, <3>2 DEF ToRange
  <2>6. ToRange(more) \subseteq ToRange(got) \cup ToRange(Answer)
    BY <1>2, <1>3, <2>3, <2>4 DEF ToRange
  <2> QED BY <2>5, <2>6
<1>5. ToRange(Answer) \subseteq visible
  <2>1. \A k \in 1 .. m : Offered(Answer[k])
    BY <1>2, AnswerFacts, EmptySeq DEF m
  <2> QED BY <1>2, <2>1 DEF ToRange, Offered
<1>6. ToRange(more) \subseteq visible
  BY <1>4, <1>5 DEF Fetched, InOrder
<1>7. Len(more) <= (pages + 1) * PageSize
  <2>1. n <= pages * PageSize
    BY DEF Fetched, InOrder, n
  <2>2. (pages + 1) * PageSize = pages * PageSize + PageSize /\ pages * PageSize \in Nat
    BY <1>1, Sizes, Times
  <2> QED BY <1>1, <1>2, <1>3, <2>1, <2>2, Sizes
<1>8. ASSUME NEW k \in 1 .. (n + m)
      PROVE  /\ Ts(more[k]) >= since
             /\ \A i \in Trades : Ts(i) >= since =>
                   /\ more[k] < i + (n + m)
                   /\ i < more[k] => \E l \in 1 .. (k - 1) : more[l] = i
  <2>1. CASE k <= n
    <3>1. k \in DOMAIN got /\ more[k] = got[k] /\ got[k] \in Nat
      BY <1>1, <1>3, <2>1
    <3>2. \A l \in 1 .. (k - 1) : more[l] = got[l]
      BY <1>1, <1>2, <1>3, <2>1
    <3>3. Ts(got[k]) >= since
      BY <3>1 DEF Fetched, InOrder
    <3>4. ASSUME NEW i \in Trades, Ts(i) >= since
          PROVE  /\ more[k] < i + (n + m)
                 /\ i < more[k] => \E l \in 1 .. (k - 1) : more[l] = i
      <4>1. got[k] < i + n /\ (i < got[k] => \E l \in 1 .. (k - 1) : got[l] = i)
        BY <3>1, <3>4 DEF Fetched, InOrder, n
      <4>2. i \in Nat
        BY RowFacts
      <4>3. n \in Nat /\ m \in Nat
        BY <1>1, <1>2
      <4>4. more[k] < i + (n + m)
        BY <3>1, <4>1, <4>2, <4>3
      <4>5. ASSUME i < more[k] PROVE \E l \in 1 .. (k - 1) : more[l] = i
        BY <3>1, <3>2, <4>1, <4>5
      <4> QED BY <4>4, <4>5
    <3> QED BY <3>1, <3>3, <3>4
  <2>2. CASE k > n
    <3>1. Answer # <<>> /\ k - n \in 1 .. m /\ more[k] = Answer[k - n]
      BY <1>1, <1>2, <1>3, <2>2, EmptySeq DEF m
    <3>2. PICK first \in Trades :
              /\ Offered(first) /\ \A i \in Trades : Offered(i) => first <= i
              /\ \A p \in 1 .. m : Answer[p] = first + p - 1 /\ Offered(Answer[p])
      BY <3>1, AnswerFacts DEF m
    <3>3. first \in Nat /\ \A i \in Trades : i \in Nat /\ Ts(i) \in Nat
      BY RowFacts
    <3>4. /\ more[k] = first + (k - n) - 1 /\ Offered(more[k])
          /\ more[k] \in Nat /\ first <= more[k] /\ more[k] \in visible
      BY <1>1, <3>1, <3>2, <3>3 DEF Offered
    <3>5. more[k] \in Trades /\ Ts(more[k]) >= since
      <4>1. more[k] \in Trades
        BY <3>4 DEF Typed
      <4>2. Ts(more[k]) >= cursor
        BY <3>4 DEF Offered, Ts
      <4>3. cursor >= since
        BY DEF Fetched, InOrder
      <4>4. Ts(more[k]) \in Nat
        BY <3>3, <4>1
      <4> QED BY <1>1, <4>1, <4>2, <4>3, <4>4
    <3>6. ASSUME NEW i \in Trades, Ts(i) >= since
          PROVE  /\ more[k] < i + (n + m)
                 /\ i < more[k] => \E l \in 1 .. (k - 1) : more[l] = i
      <4>1. i \in Nat
        BY <3>3
      <4>2. CASE i >= first
        <5>1. more[k] < i + (n + m)
          BY <1>1, <1>2, <3>1, <3>3, <3>4, <4>1, <4>2
        <5>2. ASSUME i < more[k] PROVE \E l \in 1 .. (k - 1) : more[l] = i
          <6> DEFINE p == i - first + 1
          <6>1. p \in 1 .. m /\ n + p \in 1 .. (k - 1) /\ n + p \in 1 .. (n + m)
            BY <1>1, <1>2, <3>1, <3>3, <3>4, <4>1, <4>2, <5>2
          <6>2. Answer[p] = first + p - 1
            BY <3>2, <6>1
          <6>3. first + p - 1 = i
            BY <3>3, <4>1
          <6>4. more[n + p] = Answer[p]
            <7> HIDE DEF p
            <7> QED BY <1>1, <1>2, <1>3, <6>1
          <6> HIDE DEF p
          <6> QED BY <6>1, <6>2, <6>3, <6>4
        <5> QED BY <5>1, <5>2
      <4>3. CASE i < first
        <5> DEFINE q == first - 1
        <5>1. q \in Trades /\ i <= q /\ q < first /\ q \in Nat
          BY <3>3, <4>1, <4>3, RowFacts
        <5> HIDE DEF q
        <5>2. i \in visible /\ q \in visible
          BY <3>2, <3>3, <4>1, <4>3, <5>1 DEF Shown, Offered
        <5>3. ~Offered(i) /\ ~Offered(q)
          BY <3>2, <3>3, <4>1, <4>3, <5>1
        <5>4. Ts(q) >= since
          <6>1. Ts(i) <= Ts(q) /\ Ts(q) \in Nat /\ Ts(i) \in Nat
            BY <5>1, RowFacts
          <6> QED BY <1>1, <3>6, <6>1
        <5>5. i \in ToRange(got)
          BY <3>6, <5>2, <5>3, Behind
        <5>6. q \in ToRange(got)
          BY <5>2, <5>3, <5>4, Behind
        <5>7. q < i + n
          BY <3>6, <5>6 DEF Fetched, InOrder, ToRange, n
        <5>8. more[k] < i + (n + m)
          BY <1>1, <1>2, <3>1, <3>3, <3>4, <4>1, <5>1, <5>7 DEF q
        <5>9. PICK l \in 1 .. n : got[l] = i
          BY <1>1, <5>5 DEF ToRange
        <5>10. l \in 1 .. (k - 1) /\ more[l] = i
          BY <1>1, <1>2, <1>3, <2>2, <5>9
        <5> QED BY <5>8, <5>10
      <4> QED BY <3>3, <4>1, <4>2, <4>3
    <3> QED BY <3>5, <3>6
  <2> QED BY <1>1, <1>2, <2>1, <2>2
<1> QED BY <1>3, <1>4, <1>6, <1>7, <1>8 DEF more

\* A full page within the millisecond of the cursor, on an exchange without fromId.
LEMMA WallAnswer ==
    ASSUME Typed, Shown, ~honoursId, NEW ids, Wall(cursor, ids)
    PROVE  Full(Answer) /\ LastTs(Answer) = cursor /\ ToRange(Answer) \subseteq ids
<1>1. PICK a \in Trades :
          /\ a + PageSize - 1 \in visible /\ Ts(a) = cursor /\ Ts(a + PageSize - 1) = cursor
          /\ \A i \in Trades : i < a => Ts(i) < cursor
          /\ a .. (a + PageSize - 1) \subseteq ids
  BY DEF Wall
<1>2. /\ cursor \in Nat /\ a \in Nat /\ \A i \in Trades : i \in Nat /\ Ts(i) \in Nat
      /\ visible \subseteq Trades
  BY RowFacts DEF Typed
<1>3. Offered(a) /\ Offered(a + PageSize - 1)
  <2>1. a \in visible
    BY <1>1, <1>2, Sizes DEF Shown
  <2> QED BY <1>1, <1>2, <2>1 DEF Offered, Ts
<1>4. a + PageSize - 1 \in Trades
  BY <1>1, <1>2
<1>5. Answer # <<>>
  BY <1>3, AnswerFacts
<1>6. PICK first \in Trades :
          /\ Offered(first) /\ \A i \in Trades : Offered(i) => first <= i
          /\ \A k \in 1 .. Len(Answer) : Answer[k] = first + k - 1 /\ Offered(Answer[k])
          /\ Len(Answer) < PageSize => \A i \in Trades : Offered(i) => i < first + Len(Answer)
  BY <1>5, AnswerFacts
<1>7. first = a
  <2>1. first <= a /\ first \in Nat
    BY <1>2, <1>3, <1>6
  <2>2. Ts(first) >= cursor
    BY <1>6 DEF Offered, Ts
  <2>3. ~(first < a)
    BY <1>1, <1>2, <2>1, <2>2
  <2> QED BY <1>2, <2>1, <2>3
<1>8. Answer \in Seq(Trades) /\ Len(Answer) \in 0 .. PageSize /\ DOMAIN Answer = 1 .. Len(Answer)
  BY AnswerFacts, LenProperties
<1>9. Len(Answer) = PageSize
  <2> DEFINE m == Len(Answer)
  <2>1. m \in Nat /\ m <= PageSize
    BY <1>8, Sizes
  <2>2. m < PageSize => a + PageSize - 1 < first + m
    BY <1>3, <1>4, <1>6
  <2> HIDE DEF m
  <2>3. m = PageSize
    BY <1>2, <1>7, <2>1, <2>2, Sizes
  <2> QED BY <2>3 DEF m
<1>10. Answer[PageSize] = a + PageSize - 1
  BY <1>6, <1>7, <1>9, Sizes
<1>11. ToRange(Answer) \subseteq ids
  <2> SUFFICES ASSUME NEW k \in 1 .. PageSize PROVE Answer[k] \in ids
    BY <1>8, <1>9 DEF ToRange
  <2>1. Answer[k] = a + k - 1
    BY <1>6, <1>7, <1>9
  <2>2. a + k - 1 \in a .. (a + PageSize - 1)
    BY <1>2, Sizes
  <2> QED BY <1>1, <2>1, <2>2
<1> QED BY <1>1, <1>9, <1>10, <1>11 DEF Full, LastTs, Ts

\* A full page: it ends at or after the cursor; where it ends within the cursor's
\* millisecond and fromId does not help, nothing will.
LEMMA FullPage ==
    ASSUME Typed, Shown, Full(Answer)
    PROVE  /\ LastId(Answer) \in Trades /\ LastId(Answer) \in ToRange(Answer)
           /\ LastId(Answer) # 0 /\ LastId(Answer) \in visible
           /\ LastTs(Answer) = Ts(LastId(Answer)) /\ LastTs(Answer) \in Nat
           /\ LastTs(Answer) > 0 /\ LastTs(Answer) >= cursor
           /\ ~honoursId /\ LastTs(Answer) <= cursor => Wall(cursor, ToRange(Answer))
           /\ honoursId /\ fromId \in Trades /\ Offered(fromId) => LastId(Answer) # fromId
<1>1. Answer \in Seq(Trades) /\ Len(Answer) = PageSize /\ DOMAIN Answer = 1 .. PageSize
  BY AnswerFacts, LenProperties DEF Full
<1>2. Answer # <<>>
  BY <1>1, EmptySeq, Sizes
<1>3. PICK first \in Trades :
          /\ Offered(first) /\ \A i \in Trades : Offered(i) => first <= i
          /\ \A k \in 1 .. PageSize : Answer[k] = first + k - 1 /\ Offered(Answer[k])
  BY <1>1, <1>2, AnswerFacts
<1> DEFINE last == first + PageSize - 1
<1>4. LastId(Answer) = last /\ Offered(last) /\ last \in ToRange(Answer)
  <2>1. PageSize \in 1 .. PageSize
    BY Sizes
  <2> QED BY <1>1, <1>3, <2>1 DEF LastId, ToRange
<1>5. /\ \A i \in Trades : i \in Nat /\ i > 0 /\ Ts(i) \in Nat /\ Ts(i) > 0
      /\ cursor \in Nat /\ first \in Nat
  BY RowFacts DEF Typed
<1>6. last \in Trades /\ last \in visible /\ Ts(last) >= cursor /\ first < last
  <2>1. last \in visible /\ Ts(last) >= cursor
    BY <1>4 DEF Offered, Ts
  <2>2. first < last
    BY <1>5, Sizes
  <2> HIDE DEF last
  <2> QED BY <2>1, <2>2 DEF Typed
<1>7. LastTs(Answer) = Ts(last)
  BY <1>4 DEF LastTs, LastId, Ts
<1>8. ASSUME ~honoursId, LastTs(Answer) <= cursor PROVE Wall(cursor, ToRange(Answer))
  <2>1. Ts(first) = cursor /\ Ts(last) = cursor
    <3>1. Ts(last) = cursor
      <4> HIDE DEF last
      <4> QED BY <1>5, <1>6, <1>7, <1>8
    <3>2. Ts(first) >= cursor
      BY <1>3 DEF Offered, Ts
    <3>3. Ts(first) <= Ts(last)
      <4> HIDE DEF last
      <4>1. last \in Nat /\ first <= last
        BY <1>5, <1>6
      <4> QED BY <1>6, <4>1, RowFacts
    <3> QED BY <1>5, <3>1, <3>2, <3>3
  <2>2. ASSUME NEW i \in Trades, i < first PROVE Ts(i) < cursor
    <3>1. i \in visible
      BY <1>3, <1>5, <2>2 DEF Shown, Offered
    <3>2. ~Offered(i)
      BY <1>3, <1>5, <2>2
    <3> QED BY <1>5, <1>8, <3>1, <3>2 DEF Offered, Ts
  <2>3. first .. last \subseteq ToRange(Answer)
    <3> SUFFICES ASSUME NEW i \in first .. last PROVE i \in ToRange(Answer)
      OBVIOUS
    <3>1. i - first + 1 \in 1 .. PageSize /\ first + (i - first + 1) - 1 = i
      BY <1>5, Sizes
    <3>2. Answer[i - first + 1] = i
      BY <1>3, <3>1
    <3> QED BY <1>1, <3>1, <3>2 DEF ToRange
  <2> QED BY <1>6, <2>1, <2>2, <2>3 DEF Wall
<1>9. ASSUME honoursId, fromId \in Trades, Offered(fromId) PROVE last # fromId
  <2>1. first <= fromId /\ fromId <= first
    BY <1>3, <1>9 DEF Offered
  <2> QED BY <1>5, <1>6, <1>9, <2>1
<1> HIDE DEF last
<1> QED BY <1>4, <1>5, <1>6, <1>7, <1>8, <1>9

LEMMA Arrives ==
    ASSUME Typed, Shown, Committed, Fetched, PageArrives
    PROVE  /\ got' \in Seq(Trades) /\ InOrder'
           /\ ToRange(got)' = ToRange(got) \cup ToRange(Answer)
           /\ UNCHANGED <<rows, honoursId, visible, since, seen, booked, twice, failed,
                          interrupted, saved, asked, cut>>
           /\ \A i \in Trades : Ts(i)' = Ts(i)
           /\ pages' = pages + 1
<1>1. /\ UNCHANGED <<rows, honoursId, visible, since, seen, booked, twice, failed,
                     interrupted, saved, asked, cut>>
      /\ got' = got \o Answer /\ pages' = pages + 1
  BY DEF PageArrives, exchange, committed
<1>2. Trades' = Trades /\ \A i : Ts(i)' = Ts(i)
  BY <1>1 DEF Trades, Ts
<1>3. ToRange(got)' = ToRange(got')
  BY DEF ToRange
<1> DEFINE more == got \o Answer
<1>4. /\ more \in Seq(Trades)
      /\ ToRange(more) = ToRange(got) \cup ToRange(Answer)
      /\ ToRange(more) \subseteq visible /\ Len(more) <= (pages + 1) * PageSize
      /\ \A k \in DOMAIN more :
            /\ Ts(more[k]) >= since
            /\ \A i \in Trades : Ts(i) >= since =>
                  /\ more[k] < i + Len(more)
                  /\ i < more[k] => \E l \in 1 .. (k - 1) : more[l] = i
  BY GotMore
<1>5. got' = more
  BY <1>1
<1> HIDE DEF more
<1> QED BY <1>1, <1>2, <1>3, <1>4, <1>5 DEF InOrder

LEMMA WallMore ==
    ASSUME NEW t, NEW ids, NEW more, Wall(t, ids), ids \subseteq more,
           UNCHANGED <<rows, visible>>
    PROVE  Wall(t, more) /\ Wall(t, more)'
BY DEF Wall, Ts, Trades

\* A wall at the watermark, all of whose trades were seen: the poll fetches them
\* again and nothing else.
AtTheWall == ~honoursId /\ Wall(since, ToRange(seen))

LEMMA AtTheWallSame ==
    ASSUME UNCHANGED <<rows, honoursId, visible, since, seen>>
    PROVE  AtTheWall' <=> AtTheWall
BY DEF AtTheWall, Wall, Ts, Trades, ToRange

LEMMA PageEndsKeeps ==
    ASSUME IInv, PageEnds
    PROVE  Fetched' /\ Stalled' /\ Drained'
<1>1. /\ Typed /\ Shown /\ Committed /\ Fetched /\ Stalled /\ Drained
      /\ PageArrives /\ ~Full(Answer) /\ pc' = "commit"
      /\ UNCHANGED <<cursor, fromId, stuck, spent, split>>
      /\ IF Answer = <<>> THEN UNCHANGED <<stuckAt, stuckCount>>
         ELSE stuckAt' = 0 /\ stuckCount' = 0
  BY DEF IInv, Polling, PageEnds, PageArrives
<1>2. /\ InOrder' /\ ToRange(got)' = ToRange(got) \cup ToRange(Answer)
      /\ UNCHANGED <<rows, honoursId, visible, since, seen, booked, twice, failed,
                     interrupted, saved, asked, cut>>
      /\ \A i \in Trades : Ts(i)' = Ts(i)
  BY <1>1, Arrives
<1>3. ToRange(got) \subseteq Trades /\ fromId \in Trades \cup {0} /\ visible \subseteq Trades
  BY <1>1 DEF Fetched, InOrder, Typed
<1>4. Fetched'
  <2>1. cursor >= since /\ (cursor = since \/ \E j \in ToRange(got) : Ts(j) = cursor)
    BY <1>1 DEF Fetched
  <2>2. fromId # 0 => fromId \in ToRange(got) /\ Ts(fromId) = cursor
    BY <1>1 DEF Fetched
  <2> QED BY <1>1, <1>2, <1>3, <2>1, <2>2 DEF Fetched
<1>5. ASSUME honoursId PROVE stuckAt' = 0
  <2> SUFFICES ASSUME Answer = <<>>, stuckAt # 0 PROVE FALSE
    BY <1>1
  <2>1. fromId # 0 /\ fromId \in ToRange(got) /\ Ts(fromId) = cursor
    BY <1>1 DEF Stalled, Fetched
  <2>2. fromId \in visible /\ fromId \in Trades /\ fromId \in Nat /\ cursor \in Nat
    BY <1>1, <1>3, <2>1, RowFacts DEF Fetched, InOrder, Typed
  <2>3. Offered(fromId)
    BY <2>1, <2>2 DEF Offered, Ts
  <2> QED BY <1>1, <2>2, <2>3, AnswerFacts
<1>6. ~AtTheWall
  <2> SUFFICES ASSUME AtTheWall PROVE FALSE
    OBVIOUS
  <2>1. ~honoursId /\ Wall(cursor, ToRange(seen))
    BY <1>1 DEF AtTheWall, Stalled
  <2> QED BY <1>1, <2>1, WallAnswer
<1>7. Stalled'
  <2>1. ASSUME stuckAt' # 0
        PROVE  /\ fromId' # 0 /\ (\E j \in ToRange(got) : Ts(j) = stuckAt)'
               /\ ~honoursId' => cursor' = stuckAt' /\ Wall(stuckAt, ToRange(got))'
    <3>1. /\ stuckAt' = stuckAt
          /\ fromId # 0 /\ \E j \in ToRange(got) : Ts(j) = stuckAt
          /\ ~honoursId => cursor = stuckAt /\ Wall(stuckAt, ToRange(got))
      BY <1>1, <2>1 DEF Stalled
    <3>2. ~honoursId => Wall(stuckAt, ToRange(got))'
      BY <1>2, <3>1, WallMore
    <3> QED BY <1>1, <1>2, <1>3, <3>1, <3>2
  <2>2. ~AtTheWall'
    BY <1>2, <1>6, AtTheWallSame
  <2> QED BY <2>1, <2>2 DEF Stalled, AtTheWall
<1>8. Drained'
  <2>1. ASSUME NEW i \in visible, Ts(i) >= since PROVE i \in ToRange(got) \cup ToRange(Answer)
    <3>1. CASE ~Offered(i)
      BY <1>1, <2>1, <3>1, Behind
    <3>2. CASE Offered(i)
      <4>1. i \in Trades /\ i \in Nat
        BY <1>1, <1>3, RowFacts
      <4>2. Answer # <<>>
        BY <1>1, <3>2, <4>1, AnswerFacts
      <4> DEFINE m == Len(Answer)
      <4>3. m \in Nat /\ m < PageSize /\ DOMAIN Answer = 1 .. m
        BY <1>1, AnswerFacts, LenProperties, Sizes DEF Full
      <4>4. PICK first \in Trades :
                /\ \A k \in Trades : Offered(k) => first <= k
                /\ \A k \in 1 .. m : Answer[k] = first + k - 1 /\ Offered(Answer[k])
                /\ m < PageSize => \A k \in Trades : Offered(k) => k < first + m
        BY <1>1, <4>2, AnswerFacts
      <4> HIDE DEF m
      <4>5. first <= i /\ i < first + m /\ first \in Nat
        BY <1>1, <3>2, <4>1, <4>3, <4>4, RowFacts
      <4>6. i - first + 1 \in 1 .. m /\ first + (i - first + 1) - 1 = i
        BY <4>1, <4>3, <4>5
      <4>7. Answer[i - first + 1] = i
        BY <4>4, <4>6
      <4> QED BY <4>3, <4>6, <4>7 DEF ToRange
    <3> QED BY <3>1, <3>2
  <2>2. \A i \in visible' : Ts(i)' >= since' => i \in ToRange(got)'
    BY <1>2, <1>3, <2>1
  <2>3. interrupted => cut /\ failed
    BY <1>1 DEF Drained
  <2> QED BY <1>2, <1>5, <2>2, <2>3 DEF Drained
<1> QED BY <1>4, <1>7, <1>8

\* No page leads past a wall.
LEMMA PageAdvancesKeeps ==
    ASSUME IInv, PageAdvances
    PROVE  Fetched' /\ Stalled' /\ Drained'
<1>1. /\ Typed /\ Shown /\ Committed /\ Fetched /\ Stalled /\ Drained
      /\ PageArrives /\ Full(Answer) /\ Continue
      /\ LastTs(Answer) > cursor /\ cursor' = LastTs(Answer) /\ fromId' = LastId(Answer)
      /\ UNCHANGED <<stuckAt, stuck, stuckCount>>
  BY DEF IInv, Polling, PageAdvances, PageArrives
<1>2. /\ InOrder' /\ ToRange(got)' = ToRange(got) \cup ToRange(Answer)
      /\ UNCHANGED <<rows, honoursId, visible, since, seen, booked, twice, failed,
                     interrupted, saved, asked, cut>>
      /\ \A i \in Trades : Ts(i)' = Ts(i)
  BY <1>1, Arrives
<1>3. ToRange(got) \subseteq Trades /\ cursor \in Nat /\ since \in Nat /\ cursor >= since
  BY <1>1 DEF Fetched, InOrder, Typed, Committed, Ledger
<1>4. /\ fromId' \in Trades /\ fromId' \in ToRange(got)' /\ fromId' # 0
      /\ Ts(fromId') = cursor' /\ cursor' > cursor /\ cursor' \in Nat
  BY <1>1, <1>2, FullPage
<1>5. Ts(fromId)' = cursor'
  BY <1>2, <1>4 DEF Ts
<1>6. Fetched'
  <2>1. (\E j \in ToRange(got) : Ts(j) = cursor)'
    BY <1>4, <1>5 DEF Ts
  <2>2. cursor' >= since'
    BY <1>2, <1>3, <1>4
  <2> QED BY <1>2, <1>4, <1>5, <2>1, <2>2 DEF Fetched
<1>7. ASSUME NEW ids, ~honoursId PROVE ~Wall(cursor, ids)
  <2>1. ~(LastTs(Answer) = cursor)
    BY <1>1, <1>3, FullPage
  <2> QED BY <1>1, <1>7, <2>1, WallAnswer
<1>8. Stalled'
  <2>1. ~AtTheWall'
    <3>1. ~AtTheWall
      BY <1>1, <1>7 DEF AtTheWall, Stalled
    <3> QED BY <1>2, <3>1, AtTheWallSame
  <2>2. ASSUME stuckAt' # 0
        PROVE  honoursId' /\ (\E j \in ToRange(got) : Ts(j) = stuckAt)'
    <3>1. /\ \E j \in ToRange(got) : Ts(j) = stuckAt
          /\ ~honoursId => cursor = stuckAt /\ Wall(stuckAt, ToRange(got))
      BY <1>1, <2>2 DEF Stalled
    <3>2. honoursId
      BY <1>7, <3>1
    <3> QED BY <1>1, <1>2, <1>3, <3>1, <3>2
  <2> QED BY <1>4, <2>1, <2>2 DEF Stalled, AtTheWall
<1>9. Drained'
  <2>1. interrupted' => cut' /\ failed'
    BY <1>1, <1>2 DEF Drained
  <2>2. pc' = "commit" => spent'
    BY <1>1 DEF Continue
  <2>3. ASSUME pc' = "commit", ~split', stuckAt' = 0, NEW i \in visible, Ts(i) >= since,
               NEW j \in ToRange(got'), Ts(i) <= Ts(j)
        PROVE  i \in ToRange(got')
    <3>1. pages' = MaxPages /\ stuckAt = 0
      BY <1>1, <2>3 DEF Continue
    <3>2. ~HalfFetched
      BY <2>3, <3>1 DEF PageAdvances
    <3>3. i \in Trades /\ j \in Trades /\ i \in Nat /\ j \in Nat
      <4>1. ToRange(got') \subseteq visible
        BY <1>2 DEF InOrder, ToRange
      <4> QED BY <1>1, <4>1, RowFacts DEF Typed
    <3>4. CASE Ts(i) = Ts(j)
      BY <3>2, <3>4 DEF HalfFetched, Ts
    <3>5. CASE Ts(i) # Ts(j)
      <4>1. i < j
        <5>1. ~(j <= i)
          BY <1>1, <2>3, <3>3, <3>5, RowFacts
        <5> QED BY <3>3, <5>1
      <4>2. PICK k \in DOMAIN got' : j = got'[k]
        BY DEF ToRange
      <4>3. PICK l \in 1 .. (k - 1) : got'[l] = i
        <5>1. (\A n \in DOMAIN got, m \in Trades :
                  Ts(m) >= since /\ m < got[n] => \E l \in 1 .. (n - 1) : got[l] = m)'
          BY <1>2 DEF InOrder
        <5>2. Trades' = Trades /\ Ts(i)' = Ts(i) /\ since' = since
          BY <1>2, <3>3 DEF Trades
        <5> QED BY <2>3, <3>3, <4>1, <4>2, <5>1, <5>2
      <4>4. l \in DOMAIN got'
        <5>1. got' \in Seq(Trades)
          BY <1>1, Arrives
        <5> QED BY <5>1, LenProperties
      <4> QED BY <4>3, <4>4 DEF ToRange
    <3> QED BY <3>4, <3>5
  <2>4. /\ visible' = visible /\ since' = since /\ ToRange(got)' = ToRange(got')
        /\ \A i \in visible : Ts(i)' = Ts(i)
        /\ \A i \in ToRange(got') : Ts(i)' = Ts(i)
    BY <1>2 DEF ToRange, Ts
  <2> QED BY <2>1, <2>2, <2>3, <2>4 DEF Drained
<1> QED BY <1>6, <1>8, <1>9

\* A page that ends where the poll stood shows a wall, if fromId is not there to
\* lead past it.
LEMMA PageStopsKeeps ==
    ASSUME IInv, PageStays \/ PageStalls
    PROVE  Fetched' /\ Stalled' /\ Drained'
<1>1. /\ Typed /\ Shown /\ Committed /\ Fetched /\ Stalled /\ Drained
      /\ PageArrives /\ Full(Answer)
      /\ LastTs(Answer) <= cursor /\ stuckAt' = LastTs(Answer) /\ fromId' = LastId(Answer)
      /\ cursor' = cursor
  <2>1. Typed /\ Shown /\ Committed
    BY DEF IInv
  <2>2. /\ PageArrives /\ Full(Answer)
        /\ LastTs(Answer) <= cursor /\ stuckAt' = LastTs(Answer) /\ fromId' = LastId(Answer)
        /\ cursor' = cursor
    BY DEF PageStays, PageStalls
  <2> QED BY <2>1, <2>2 DEF IInv, Polling, PageArrives
<1>2. /\ InOrder' /\ ToRange(got)' = ToRange(got) \cup ToRange(Answer)
      /\ UNCHANGED <<rows, honoursId, visible, since, seen, booked, twice, failed,
                     interrupted, saved, asked, cut>>
      /\ \A i \in Trades : Ts(i)' = Ts(i)
  BY <1>1, Arrives
<1>3. ToRange(got) \subseteq Trades /\ cursor \in Nat /\ since \in Nat /\ cursor >= since
  BY <1>1 DEF Fetched, InOrder, Typed, Committed, Ledger
<1>4. /\ fromId' \in Trades /\ fromId' \in ToRange(got)' /\ fromId' # 0
      /\ Ts(fromId') = cursor /\ stuckAt' = cursor /\ stuckAt' # 0
  BY <1>1, <1>2, <1>3, FullPage
<1>5. Ts(fromId)' = cursor
  BY <1>2, <1>4 DEF Ts
<1>6. (\E j \in ToRange(got) : Ts(j) = cursor)'
  BY <1>1, <1>4, <1>5 DEF Ts
<1>7. Fetched'
  BY <1>1, <1>2, <1>3, <1>4, <1>5, <1>6 DEF Fetched
<1>8. Stalled'
  <2>1. ~honoursId => Wall(cursor, ToRange(got))'
    <3>1. ~honoursId => Wall(cursor, ToRange(Answer))
      BY <1>1, FullPage
    <3>2. Wall(cursor, ToRange(Answer)) => Wall(cursor, ToRange(got))'
      <4> SUFFICES ASSUME Wall(cursor, ToRange(Answer)) PROVE Wall(cursor, ToRange(got))'
        OBVIOUS
      <4>1. cursor' = cursor /\ rows' = rows /\ visible' = visible
            /\ ToRange(Answer) \subseteq ToRange(got)'
        BY <1>1, <1>2
      <4> QED BY <4>1 DEF Wall, Ts, Trades
    <3> QED BY <3>1, <3>2
  <2>2. ASSUME AtTheWall PROVE cursor = since /\ ToRange(got)' \subseteq ToRange(seen)
    <3>1. cursor = since /\ ToRange(got) \subseteq ToRange(seen)
      BY <1>1, <2>2 DEF Stalled, AtTheWall
    <3>2. ToRange(Answer) \subseteq ToRange(seen)
      BY <1>1, <2>2, <3>1, WallAnswer DEF AtTheWall
    <3> QED BY <1>2, <3>1, <3>2
  <2>3. AtTheWall' => (cursor = since /\ ToRange(got) \subseteq ToRange(seen))'
    <3>1. AtTheWall' => AtTheWall
      BY <1>2, AtTheWallSame
    <3>2. ToRange(seen)' = ToRange(seen)
      BY <1>2 DEF ToRange
    <3> QED BY <1>1, <1>2, <2>2, <3>1, <3>2
  <2> QED BY <1>1, <1>2, <1>4, <1>6, <2>1, <2>3 DEF Stalled, AtTheWall
<1>9. Drained'
  <2>1. interrupted' => cut' /\ failed'
    BY <1>1, <1>2 DEF Drained
  <2>2. CASE PageStays
    BY <1>4, <2>1, <2>2 DEF Drained, PageStays, Continue
  <2>3. CASE PageStalls
    <3>1. LastId(Answer) = fromId
      BY <2>3 DEF PageStalls
    <3>2. ~honoursId
      <4> SUFFICES ASSUME honoursId PROVE FALSE
        OBVIOUS
      <4>1. fromId # 0 /\ fromId \in ToRange(got) /\ Ts(fromId) = cursor
        BY <1>1, <1>4, <3>1 DEF Fetched
      <4>2. fromId \in visible /\ fromId \in Trades /\ fromId \in Nat
        BY <1>1, <1>3, <4>1, RowFacts DEF Fetched, InOrder
      <4>3. Offered(fromId)
        BY <1>3, <4>1, <4>2 DEF Offered, Ts
      <4> QED BY <1>1, <3>1, <4>2, <4>3, FullPage
    <3> QED BY <1>2, <1>4, <2>1, <3>2 DEF Drained
  <2> QED BY <2>2, <2>3
<1> QED BY <1>7, <1>8, <1>9

LEMMA PageFailsKeeps ==
    ASSUME IInv, PageFails
    PROVE  Fetched' /\ Stalled' /\ Drained'
<1>1. /\ Fetched /\ Stalled
      /\ interrupted' = TRUE /\ cut' = TRUE /\ failed' = TRUE
      /\ UNCHANGED <<rows, honoursId, visible, since, seen, cursor, fromId, pages, got,
                     stuckAt>>
  BY DEF IInv, Polling, PageFails, exchange, committed
<1>2. Fetched'
  BY <1>1 DEF Fetched, InOrder, Ts, Trades, ToRange
<1>3. Stalled'
  BY <1>1 DEF Stalled, Wall, Ts, Trades, ToRange
<1>4. Drained'
  BY <1>1 DEF Drained
<1> QED BY <1>2, <1>3, <1>4

-----------------------------------------------------------------------------
(* The commit *)

\* What the commit puts in place of the ledger it had.
LEMMA CommitFacts ==
    ASSUME IInv, pc = "commit"
    PROVE  /\ Staged \in Seq(Trades) /\ ToRange(Staged) = ToRange(got) \ ToRange(seen)
           /\ Dedup(since, Kept(seen \o Staged))
           /\ ToRange(Kept(seen \o Staged)) \subseteq ToRange(seen) \cup ToRange(got)
           /\ \A i \in ToRange(seen) \cup ToRange(got) : Ts(i) >= since =>
                 i \in ToRange(Kept(seen \o Staged))
<1>1. Typed /\ Shown /\ Committed /\ Fetched /\ InOrder
  BY DEF IInv, Polling, Fetched
<1>2. /\ got \in Seq(Trades) /\ seen \in Seq(Trades)
      /\ DOMAIN got = 1 .. Len(got) /\ Len(got) \in Nat
      /\ Ascending(seen)
  <2>1. got \in Seq(Trades) /\ seen \in Seq(Trades) /\ Ascending(seen)
    BY <1>1 DEF Typed, Committed, Dedup, Ascending
  <2> QED BY <2>1, LenProperties
<1>3. \A i \in Trades : i \in Nat /\ Ts(i) \in Nat
  BY <1>1, RowFacts
<1>4. ToRange(got) \subseteq Trades /\ ToRange(seen) \subseteq Trades
  BY <1>2, ElementOfSeq, LenProperties DEF ToRange
<1>5. \A j \in ToRange(got) : Ts(j) >= since
  BY <1>1 DEF InOrder, ToRange
<1>6. FirstInOrder
  BY <1>1, <1>4, <1>5 DEF FirstInOrder, InOrder
<1>7. /\ Staged \in Seq(Trades) /\ Ascending(Staged)
      /\ ToRange(Staged) = ToRange(got) \ ToRange(seen)
  BY <1>1, <1>6, StagedFacts
<1> DEFINE ids == seen \o Staged
<1>8. /\ ids \in Seq(Trades) /\ Ascending(ids)
      /\ ToRange(ids) = ToRange(seen) \cup ToRange(got)
  <2> DEFINE n == Len(seen)
             m == Len(Staged)
  <2>1. /\ ids \in Seq(Trades) /\ n \in Nat /\ m \in Nat
        /\ DOMAIN seen = 1 .. n /\ DOMAIN Staged = 1 .. m /\ DOMAIN ids = 1 .. (n + m)
        /\ \A k \in 1 .. (n + m) : ids[k] = IF k <= n THEN seen[k] ELSE Staged[k - n]
    BY <1>2, <1>7, ConcatProperties, LenProperties
  <2>2. \A j \in ToRange(seen), i \in ToRange(Staged) : j < i
    <3> SUFFICES ASSUME NEW j \in ToRange(seen), NEW i \in ToRange(Staged) PROVE j < i
      OBVIOUS
    <3>1. i \in ToRange(got) /\ i \notin ToRange(seen) /\ i \in Trades /\ j \in Trades
      BY <1>4, <1>7
    <3>2. ~(i <= j)
      BY <1>1, <1>5, <3>1 DEF Committed, Dedup
    <3> QED BY <1>3, <3>1, <3>2
  <2> HIDE DEF ids, n, m
  <2>3. \A k \in 1 .. n : k \in 1 .. (n + m) /\ ids[k] = seen[k] /\ seen[k] \in ToRange(seen)
    BY <2>1 DEF ToRange
  <2>4. \A k \in 1 .. m : n + k \in 1 .. (n + m) /\ ids[n + k] = Staged[k]
    BY <2>1
  <2>5. \A k \in 1 .. (n + m) :
            \/ k \in 1 .. n /\ ids[k] = seen[k]
            \/ k > n /\ k - n \in 1 .. m /\ ids[k] = Staged[k - n]
               /\ Staged[k - n] \in ToRange(Staged)
    BY <2>1 DEF ToRange
  <2>6. ToRange(ids) = ToRange(seen) \cup ToRange(Staged)
    <3>1. \A k \in 1 .. (n + m) : ids[k] \in ToRange(seen) \cup ToRange(Staged)
      BY <2>3, <2>5
    <3>2. ToRange(ids) \subseteq ToRange(seen) \cup ToRange(Staged)
      BY <2>1, <3>1 DEF ToRange
    <3>3. ToRange(seen) \subseteq ToRange(ids)
      BY <2>1, <2>3 DEF ToRange
    <3>4. ToRange(Staged) \subseteq ToRange(ids)
      <4>1. \A k \in 1 .. m : Staged[k] \in ToRange(ids)
        BY <2>1, <2>4 DEF ToRange
      <4>2. \A j \in ToRange(Staged) : \E k \in 1 .. m : j = Staged[k]
        BY <2>1 DEF ToRange
      <4> QED BY <4>1, <4>2
    <3> QED BY <3>2, <3>3, <3>4
  <2>7. Ascending(ids)
    <3> SUFFICES ASSUME NEW i \in 1 .. (n + m), NEW j \in 1 .. (n + m), i < j
                 PROVE  ids[i] < ids[j]
      BY <2>1 DEF Ascending
    <3>1. CASE j \in 1 .. n
      <4>1. i \in 1 .. n /\ ids[i] = seen[i] /\ ids[j] = seen[j]
        BY <2>1, <2>3, <3>1
      <4> QED BY <1>2, <2>1, <3>1, <4>1 DEF Ascending
    <3>2. CASE i \in 1 .. n /\ j > n
      BY <2>1, <2>2, <2>3, <2>5, <3>2
    <3>3. CASE i > n /\ j > n
      <4>1. /\ i - n \in 1 .. m /\ ids[i] = Staged[i - n] /\ j - n \in 1 .. m
            /\ ids[j] = Staged[j - n] /\ i - n < j - n
        BY <2>1, <2>5, <3>3
      <4> QED BY <1>7, <2>1, <4>1 DEF Ascending
    <3> QED BY <2>1, <3>1, <3>2, <3>3
  <2> QED BY <1>7, <2>1, <2>6, <2>7
<1> HIDE DEF ids
<1>9. ASSUME NEW j \in ToRange(ids), NEW i \in Trades, Ts(i) >= since
      PROVE  j < i + Cap /\ (i <= j => i \in ToRange(ids))
  <2>1. CASE j \in ToRange(seen)
    BY <1>1, <1>8, <1>9, <2>1 DEF Committed, Dedup
  <2>2. CASE j \in ToRange(got)
    <3>1. PICK k \in DOMAIN got : j = got[k]
      BY <2>2 DEF ToRange
    <3>2. j < i + Len(got) /\ (i < j => \E l \in 1 .. (k - 1) : got[l] = i)
      BY <1>1, <1>9, <3>1 DEF InOrder
    <3>3. Len(got) <= Cap
      <4>1. pages \in Nat /\ pages <= MaxPages /\ Len(got) <= pages * PageSize
        BY <1>1, Sizes DEF Typed, InOrder
      <4>2. pages * PageSize <= MaxPages * PageSize /\ pages * PageSize \in Nat
        BY <4>1, Sizes, Times
      <4>3. MaxPages * PageSize <= Cap /\ MaxPages * PageSize \in Nat
        BY Sizes, Times
      <4> QED BY <1>2, <4>1, <4>2, <4>3, Sizes
    <3>4. i \in Nat /\ j \in Nat /\ j < i + Cap
      BY <1>2, <1>3, <1>4, <2>2, <3>2, <3>3, Sizes
    <3>5. ASSUME i < j PROVE i \in ToRange(got)
      <4>1. PICK l \in 1 .. (k - 1) : got[l] = i
        BY <3>2, <3>5
      <4>2. l \in DOMAIN got
        BY <1>2
      <4> QED BY <4>1, <4>2 DEF ToRange
    <3> QED BY <1>8, <2>2, <3>4, <3>5
  <2> QED BY <1>8, <2>1, <2>2
<1>10. /\ Kept(ids) \in Seq(Trades) /\ Len(Kept(ids)) <= Cap
       /\ Ascending(Kept(ids)) /\ ToRange(Kept(ids)) \subseteq ToRange(ids)
       /\ \A i \in ToRange(ids) :
             (\A j \in ToRange(ids) : j < i + Cap) => i \in ToRange(Kept(ids))
  BY <1>1, <1>8, KeptFacts
<1>11. \A i \in ToRange(ids) : Ts(i) >= since => i \in ToRange(Kept(ids))
  BY <1>4, <1>8, <1>9, <1>10
<1>12. Dedup(since, Kept(ids))
  BY <1>9, <1>10, <1>11 DEF Dedup, Ascending
<1> QED BY <1>7, <1>8, <1>10, <1>11, <1>12 DEF ids

\* Where the watermark goes: never back, and never past a millisecond of which the
\* poll may have left a trade behind.
LEMMA WatermarkFacts ==
    ASSUME IInv, pc = "commit"
    PROVE  /\ Watermark \in Nat /\ Watermark >= since
           /\ \/ Watermark = since
              \/ \E j \in ToRange(got) : Watermark = Ts(j)
              \/ \E j \in ToRange(got) :
                    Watermark = Ts(j) + 1 /\ ~interrupted /\ stuckAt = 0
           /\ ~interrupted /\ stuckAt # 0 => Watermark = stuckAt
<1>1. Typed /\ Committed /\ InOrder /\ Stalled
  BY DEF IInv, Polling, Fetched
<1>2. since \in Nat /\ stuckAt \in Nat /\ ToRange(got) \subseteq Trades
  BY <1>1 DEF Committed, Ledger, Typed, InOrder
<1>3. ToRange(Staged) \subseteq ToRange(got)
  BY CommitFacts
<1>4. /\ MaxTs \in Nat /\ MaxTs >= since
      /\ MaxTs = since \/ \E i \in ToRange(Staged) : MaxTs = Ts(i)
  BY <1>1, <1>2, <1>3, MaxTsFacts
<1>5. stuckAt # 0 => \E j \in ToRange(got) : Ts(j) = stuckAt
  BY <1>1 DEF Stalled
<1>6. \A j \in ToRange(got) : Ts(j) >= since
  BY <1>1 DEF InOrder, ToRange
<1>7. CASE interrupted
  BY <1>2, <1>3, <1>4, <1>7 DEF Watermark
<1>8. CASE ~interrupted /\ stuckAt # 0
  BY <1>2, <1>5, <1>6, <1>8 DEF Watermark
<1>9. CASE ~interrupted /\ stuckAt = 0 /\ MaxTs > since
  <2>1. PICK j \in ToRange(got) : MaxTs = Ts(j)
    BY <1>2, <1>3, <1>4, <1>9
  <2>2. Watermark = Ts(j) + 1
    BY <1>9, <2>1 DEF Watermark
  <2> QED BY <1>2, <1>4, <1>9, <2>1, <2>2
<1>10. CASE ~interrupted /\ stuckAt = 0 /\ ~(MaxTs > since)
  BY <1>2, <1>10 DEF Watermark
<1> QED BY <1>7, <1>8, <1>9, <1>10

\* The new ledger is right against the new watermark.
LEMMA CommitLedger ==
    ASSUME IInv, pc = "commit"
    PROVE  /\ Dedup(Watermark, Kept(seen \o Staged))
           /\ Ledger(Watermark, Kept(seen \o Staged), booked \cup Fresh,
                     twice \cup (booked \cap Fresh))
<1> DEFINE w == Watermark
           ids == ToRange(Kept(seen \o Staged))
           all == booked \cup Fresh
<1>1. Typed /\ Shown /\ Committed /\ Fetched /\ InOrder /\ Stalled /\ Drained
  BY DEF IInv, Polling, Fetched
<1>2. /\ ToRange(Staged) = ToRange(got) \ ToRange(seen)
      /\ Dedup(since, Kept(seen \o Staged))
      /\ ids \subseteq ToRange(seen) \cup ToRange(got)
      /\ \A i \in ToRange(seen) \cup ToRange(got) : Ts(i) >= since => i \in ids
  BY CommitFacts
<1>3. /\ w \in Nat /\ w >= since
      /\ \/ w = since
         \/ \E j \in ToRange(got) : w = Ts(j)
         \/ \E j \in ToRange(got) : w = Ts(j) + 1 /\ ~interrupted /\ stuckAt = 0
      /\ ~interrupted /\ stuckAt # 0 => w = stuckAt
  BY WatermarkFacts
<1>4. /\ since \in Nat /\ visible \subseteq Trades
      /\ ToRange(got) \subseteq visible /\ ToRange(seen) \subseteq visible
      /\ \A i \in Trades : i \in Nat /\ Ts(i) \in Nat
      /\ \A j \in ToRange(got) : Ts(j) >= since
      /\ {cut, spent, split, honoursId, interrupted} \subseteq BOOLEAN
  BY <1>1, RowFacts DEF Committed, Ledger, Typed, InOrder, ToRange
<1>5. \A i \in Trades : Ts(i) >= w => Ts(i) >= since
  <2> HIDE DEF w
  <2> QED BY <1>3, <1>4
<1>6. Dedup(w, Kept(seen \o Staged))
  <2> HIDE DEF w
  <2> QED BY <1>2, <1>5 DEF Dedup
<1>7. Ledger(since, seen, booked, twice)
  BY <1>1 DEF Committed
<1>8. Fresh = {i \in ToRange(Staged) : ~(since = 0 /\ Historic(i))}
  BY DEF Fresh
<1>9. all \subseteq visible
  BY <1>2, <1>4, <1>7, <1>8 DEF Ledger
<1>10. booked \cap Fresh = {}
  BY <1>2, <1>4, <1>7, <1>8 DEF Ledger
<1>11. \A i \in (ToRange(seen) \cup ToRange(got)) \cap Wanted : i \in all
  BY <1>2, <1>7, <1>8 DEF Ledger, Wanted
<1>12. \A i \in all : Ts(i) >= w => i \in ids
  <2>1. \A i \in all : Ts(i) >= since => i \in ids
    BY <1>2, <1>7, <1>8 DEF Ledger
  <2> HIDE DEF w, ids, all
  <2> QED BY <1>4, <1>5, <1>9, <2>1
<1> HIDE DEF w, ids, all
\* A trade between the watermark of before and a trade fetched was fetched.
<1>13. ASSUME NEW i \in Trades, NEW j \in ToRange(got), Ts(i) >= since, Ts(i) < Ts(j)
       PROVE  i \in ToRange(got)
  <2>1. i < j
    BY <1>1, <1>4, <1>13, RowFacts
  <2>2. PICK k \in DOMAIN got : j = got[k]
    BY DEF ToRange
  <2>3. PICK l \in 1 .. (k - 1) : got[l] = i
    BY <1>1, <1>13, <2>1, <2>2 DEF InOrder
  <2>4. got \in Seq(Trades)
    BY <1>1 DEF Typed
  <2>5. l \in DOMAIN got
    BY <2>4, LenProperties
  <2> QED BY <2>3, <2>5 DEF ToRange
<1>14. ASSUME Whole, NEW i \in Trades \ visible PROVE Ts(i) >= w
  <2>1. Ts(i) >= since /\ \A j \in ToRange(got) : Ts(j) < Ts(i)
    BY <1>1, <1>4, <1>7, <1>14 DEF Ledger, Shown
  <2>2. Ts(i) \in Nat
    BY <1>4
  <2>3. CASE w = since
    BY <2>1, <2>3
  <2>4. CASE \E j \in ToRange(got) : w = Ts(j)
    BY <1>3, <2>1, <2>2, <2>4
  <2>5. CASE \E j \in ToRange(got) : w = Ts(j) + 1
    <3>1. PICK j \in ToRange(got) : w = Ts(j) + 1
      BY <2>5
    <3>2. Ts(j) \in Nat /\ Ts(j) < Ts(i)
      BY <1>4, <2>1
    <3> QED BY <2>2, <3>1, <3>2
  <2> QED BY <1>3, <2>3, <2>4, <2>5
<1>15. ASSUME Whole, ~split, NEW i \in visible \cap Wanted, Ts(i) < w PROVE i \in all
  <2>1. i \in Trades /\ Ts(i) \in Nat
    BY <1>4
  <2>2. CASE Ts(i) < since
    BY <1>7, <1>15, <2>2 DEF Ledger, all
  <2>3. CASE Ts(i) >= since
    <3>1. CASE w = since
      BY <1>4, <1>15, <2>1, <2>3, <3>1
    <3>2. CASE \E j \in ToRange(got) : w = Ts(j)
      BY <1>11, <1>13, <1>15, <2>1, <2>3, <3>2
    <3>3. CASE \E j \in ToRange(got) : w = Ts(j) + 1 /\ ~interrupted /\ stuckAt = 0
      <4>1. PICK j \in ToRange(got) : w = Ts(j) + 1 /\ ~interrupted /\ stuckAt = 0
        BY <3>3
      <4>2. Ts(j) \in Nat
        BY <1>4
      <4>3. Ts(i) <= Ts(j)
        BY <1>15, <2>1, <4>1, <4>2
      <4>4. i \in ToRange(got)
        BY <1>1, <1>15, <2>3, <4>1, <4>3 DEF Drained
      <4> QED BY <1>11, <1>15, <4>4
    <3> QED BY <1>3, <3>1, <3>2, <3>3
  <2> QED BY <1>4, <2>1, <2>2, <2>3
<1>16. ASSUME ~cut, ~spent PROVE all \subseteq Wanted
  <2>1. booked \subseteq Wanted
    BY <1>7, <1>16 DEF Ledger
  <2>2. ASSUME NEW i \in Fresh PROVE i \in Wanted
    <3>1. /\ i \in ToRange(got) /\ i \notin ToRange(seen) /\ i \in Trades /\ Ts(i) >= since
          /\ Ts(i) \in Nat
      BY <1>2, <1>4, <1>8
    <3>2. CASE since = 0
      BY <1>8, <3>1, <3>2 DEF Wanted
    <3>3. CASE since # 0
      <4>1. ~(~honoursId /\ Wall(since, ToRange(seen)))
        BY <1>1, <3>1 DEF Stalled
      <4>2. i \notin Past
        <5>1. ~(Ts(i) < since)
          BY <1>4, <3>1
        <5> QED BY <1>7, <1>16, <3>1, <3>3, <4>1, <5>1 DEF Ledger
      <4> QED BY <3>1, <4>2 DEF Past, Wanted, Historic, Ts
    <3> QED BY <3>2, <3>3
  <2> QED BY <2>1, <2>2 DEF all
<1>17. ASSUME ~cut, ~spent, NEW i \in Past, ~(Ts(i) < w)
       PROVE  i \in ids \/ (~honoursId /\ Wall(w, ids))
  <2>1. i \in Trades /\ Ts(i) \in Nat /\ i \in asked /\ i \in visible
    BY <1>1, <1>4, <1>17 DEF Typed, Past
  <2>2. Ts(i) >= since
    BY <1>3, <1>5, <1>17, <2>1
  <2>3. ~interrupted
    BY <1>1, <1>17 DEF Drained
  <2>4. CASE stuckAt = 0 \/ honoursId
    <3>1. i \in ToRange(got)
      BY <1>1, <1>17, <2>1, <2>2, <2>3, <2>4 DEF Drained
    <3> QED BY <1>2, <2>2, <3>1
  <2>5. CASE stuckAt # 0 /\ ~honoursId
    <3>1. w = stuckAt /\ Wall(stuckAt, ToRange(got))
      BY <1>1, <1>3, <2>3, <2>5 DEF Stalled
    <3>2. ToRange(got) \subseteq ids
      BY <1>2, <1>4
    <3>3. Wall(w, ids)
      BY <3>1, <3>2 DEF Wall
    <3> QED BY <2>5, <3>3
  <2> QED BY <2>4, <2>5
<1>18. Ledger(w, Kept(seen \o Staged), all, twice \cup (booked \cap Fresh))
  <2>1. ids \cap Wanted \subseteq all
    BY <1>2, <1>11
  <2>2. twice = {}
    BY <1>7 DEF Ledger
  <2>3. ids \subseteq visible
    BY <1>2, <1>4
  <2> QED BY <1>3, <1>9, <1>10, <1>12, <1>14, <1>15, <1>16, <1>17, <2>1, <2>2, <2>3
          DEF Ledger, ids
<1> QED BY <1>6, <1>18 DEF w, all

LEMMA CommitKeeps ==
    ASSUME IInv, Commit
    PROVE  Committed' /\ Quiet'
<1> DEFINE w == Watermark
           ids == Kept(seen \o Staged)
           all == booked \cup Fresh
           double == twice \cup (booked \cap Fresh)
<1>1. /\ pc = "commit" /\ pc' = "idle"
      /\ since' = w /\ seen' = ids /\ booked' = all /\ twice' = double
      /\ UNCHANGED <<rows, honoursId, visible, stuck, stuckCount, failed, saved, asked,
                     cut, spent, split>>
  BY DEF Commit, PollReturns, exchange, history
<1>2. /\ Typed /\ Committed /\ InOrder /\ Drained /\ visible \subseteq Trades
      /\ ToRange(got) \subseteq Trades /\ asked \subseteq visible
  BY <1>1 DEF IInv, Polling, Fetched, InOrder, Typed
<1>3. Dedup(w, ids) /\ Ledger(w, ids, all, double)
  BY <1>1, CommitLedger
<1>4. ToRange(Staged) = ToRange(got) \ ToRange(seen)
  BY <1>1, CommitFacts
<1>5. Fresh = {i \in ToRange(Staged) : ~(since = 0 /\ Historic(i))}
  BY DEF Fresh
<1>6. Ledger(since, seen, booked, twice)
  BY <1>2 DEF Committed
<1>7. Wanted' = Wanted /\ Trades' = Trades
  BY <1>1 DEF Wanted, Historic, Trades
<1>8. Quiet'
  <2> SUFFICES ASSUME Whole, ~stuck, ~failed, ~spent, honoursId, NEW i \in asked \cap Wanted
               PROVE  i \in all
    BY <1>1, <1>7 DEF Quiet, QuietMeansCurrent
  <2>1. i \in visible /\ i \in Trades /\ Ts(i) \in Nat /\ since \in Nat
    BY <1>2, <1>6, RowFacts DEF Ledger
  <2>2. CASE Ts(i) < since
    <3>1. ~split
      BY <1>2 DEF Typed
    <3> QED BY <1>6, <2>1, <2>2, <3>1 DEF Ledger
  <2>3. CASE Ts(i) >= since
    <3>1. ~interrupted
      BY <1>2 DEF Drained, Typed
    <3>2. i \in ToRange(got)
      BY <1>1, <1>2, <2>1, <2>3, <3>1 DEF Drained
    <3> QED BY <1>4, <1>5, <1>6, <3>2 DEF Ledger, Wanted
  <2> QED BY <2>1, <2>2, <2>3
<1> HIDE DEF w, ids, all, double
<1>9. PICK x, y, z, u : x = w /\ y = ids /\ z = all /\ u = double
  OBVIOUS
<1>10. Dedup(x, y) /\ Ledger(x, y, z, u)
  BY <1>3, <1>9
<1>11. Dedup(x, y)' /\ Ledger(x, y, z, u)'
  <2>1. UNCHANGED <<rows, honoursId>> /\ visible \subseteq visible' /\ visible' \subseteq Trades
        /\ (spent => spent') /\ (split => split') /\ (cut => cut')
    BY <1>1, <1>2
  <2> QED BY <1>2, <1>10, <2>1, LedgerKept
<1>12. since' = x /\ seen' = y /\ booked' = z /\ twice' = u
  BY <1>1, <1>9
<1>13. Committed'
  BY <1>11, <1>12 DEF Committed
<1> QED BY <1>8, <1>13

-----------------------------------------------------------------------------
(* The other steps *)

LEMMA AppearKeeps ==
    ASSUME IInv, Appear
    PROVE  Shown' /\ Committed' /\ Saved' /\ Polling' /\ Quiet'
<1>1. PICK i \in Trades \ visible :
          /\ \A j \in Trades \ visible : i <= j
          /\ visible' = visible \cup
                 (IF Whole THEN {j \in Trades : rows[j].ts = rows[i].ts} ELSE {i})
          /\ UNCHANGED <<rows, honoursId, since, seen, booked, twice, stuck, stuckCount,
                         failed, pc, cursor, fromId, pages, got, stuckAt, interrupted,
                         saved, asked, cut, spent, split>>
  BY DEF Appear, committed, locals, history
<1>2. Typed /\ Shown /\ Committed /\ Saved /\ Polling /\ Quiet /\ Whole \in BOOLEAN
  BY FeedBooleans DEF IInv
<1>3. /\ \A j \in Trades : j \in Nat /\ Ts(j) \in Nat
      /\ \A j, k \in Trades : j <= k => Ts(j) <= Ts(k)
  BY <1>2, RowFacts
<1>4. Trades' = Trades /\ Past' = Past /\ Wanted' = Wanted /\ \A j : Ts(j)' = Ts(j)
  BY <1>1 DEF Trades, Past, Wanted, Historic, Ts
<1>5. visible \subseteq visible' /\ visible' \subseteq Trades /\ visible \subseteq Trades
  BY <1>1, <1>2 DEF Typed
<1>6. \A j \in visible' \ visible : j \in Trades /\ i <= j /\ Ts(j) = Ts(i)
  BY <1>1 DEF Ts
<1>7. Shown'
  <2>1. ASSUME NEW a \in visible', NEW j \in Trades, j <= a PROVE j \in visible'
    <3>1. CASE a \in visible
      BY <1>2, <1>5, <2>1, <3>1 DEF Shown
    <3>2. CASE a \notin visible /\ j \notin visible
      <4>1. i <= j /\ a \in Trades /\ Ts(a) = Ts(i)
        BY <1>1, <1>6, <2>1, <3>2
      <4>2. Ts(j) = Ts(i)
        BY <1>3, <2>1, <4>1
      <4>3. ~Whole => a = i
        BY <1>1, <2>1, <3>2
      <4>4. ~Whole => j = i
        BY <1>3, <2>1, <4>1, <4>3
      <4> QED BY <1>1, <2>1, <4>2, <4>4 DEF Ts
    <3> QED BY <1>5, <3>1, <3>2
  <2>2. Past \subseteq visible'
    BY <1>2, <1>5 DEF Shown
  <2>3. ASSUME Whole, NEW a \in visible', NEW j \in Trades \ visible' PROVE Ts(a) < Ts(j)
    <3>1. CASE a \in visible
      BY <1>2, <1>5, <2>3, <3>1 DEF Shown
    <3>2. CASE a \notin visible
      <4>1. Ts(a) = Ts(i) /\ i <= j /\ Ts(j) # Ts(i)
        BY <1>1, <1>5, <1>6, <2>3, <3>2 DEF Ts
      <4> QED BY <1>3, <4>1
    <3> QED BY <3>1, <3>2
  <2> QED BY <1>4, <2>1, <2>2, <2>3 DEF Shown
<1>8. Committed' /\ Saved'
  BY <1>1, <1>2, <1>5, LedgersKept
<1>9. ASSUME pc # "idle" PROVE Fetched' /\ Stalled' /\ Drained'
  <2>1. Fetched /\ Stalled /\ Drained
    BY <1>2, <1>9 DEF Polling
  <2>2. ToRange(got)' = ToRange(got) /\ ToRange(seen)' = ToRange(seen)
    BY <1>1 DEF ToRange
  <2>3. ToRange(got) \subseteq visible /\ ToRange(seen) \subseteq visible
    BY <1>2, <2>1 DEF Fetched, InOrder, Committed, Ledger
  <2>4. InOrder'
    BY <1>1, <1>4, <1>5, <2>1, <2>2 DEF Fetched, InOrder, Ts, Trades
  <2>5. Fetched'
    BY <1>1, <1>4, <2>1, <2>2, <2>4 DEF Fetched, Ts
  <2>6. Wall(stuckAt, ToRange(got)) => Wall(stuckAt, ToRange(got))'
    BY <1>1, <1>5 DEF Wall, Ts, Trades, ToRange
  <2>7. Wall(since, ToRange(seen))' => Wall(since, ToRange(seen))
    <3> SUFFICES ASSUME Wall(since, ToRange(seen))' PROVE Wall(since, ToRange(seen))
      OBVIOUS
    <3>1. PICK a \in Trades :
              /\ Ts(a) = since /\ Ts(a + PageSize - 1) = since
              /\ \A j \in Trades : j < a => Ts(j) < since
              /\ a .. (a + PageSize - 1) \subseteq ToRange(seen)
      BY <1>1, <2>2 DEF Wall, Ts, Trades
    <3>2. a + PageSize - 1 \in a .. (a + PageSize - 1)
      BY <1>3, Sizes
    <3>3. a + PageSize - 1 \in visible
      BY <2>3, <3>1, <3>2
    <3> QED BY <3>1, <3>3 DEF Wall
  <2>8. Stalled'
    <3>1. stuckAt' # 0 => /\ fromId' # 0 /\ (\E j \in ToRange(got) : Ts(j) = stuckAt)'
                          /\ ~honoursId' => cursor' = stuckAt' /\ Wall(stuckAt, ToRange(got))'
      BY <1>1, <1>4, <2>1, <2>2, <2>6 DEF Stalled, Ts
    <3>2. (~honoursId /\ Wall(since, ToRange(seen)))' =>
              cursor' = since' /\ ToRange(got)' \subseteq ToRange(seen)'
      BY <1>1, <2>1, <2>2, <2>7 DEF Stalled
    <3> QED BY <3>1, <3>2 DEF Stalled
  <2>9. Drained'
    <3>1. ASSUME NEW a \in visible',
                 a \in asked \/ (Whole /\ \E j \in ToRange(got) : Ts(a) <= Ts(j))
          PROVE  a \in visible
      <4> SUFFICES ASSUME a \notin visible PROVE FALSE
        OBVIOUS
      <4>1. a \notin asked
        BY <1>2 DEF Typed
      <4>2. PICK j \in ToRange(got) : Ts(a) <= Ts(j)
        BY <3>1, <4>1
      <4>3. j \in visible /\ a \in Trades
        BY <1>5, <2>3
      <4>4. Ts(j) < Ts(a)
        BY <1>2, <3>1, <4>1, <4>3 DEF Shown
      <4> QED BY <1>3, <1>5, <4>2, <4>3, <4>4
    <3> QED BY <1>1, <1>4, <2>1, <2>2, <3>1 DEF Drained, Ts
  <2> QED BY <2>5, <2>8, <2>9
<1>10. Polling'
  BY <1>1, <1>9 DEF Polling
<1>11. Quiet'
  BY <1>1, <1>2, <1>4 DEF Quiet, QuietMeansCurrent
<1> QED BY <1>7, <1>8, <1>10, <1>11

LEMMA PollKeeps ==
    ASSUME IInv, Poll
    PROVE  Fetched' /\ Stalled' /\ Drained'
<1>1. /\ cursor' = since /\ fromId' = 0 /\ pages' = 0 /\ got' = <<>>
      /\ stuckAt' = 0 /\ interrupted' = FALSE /\ pc' = "paging"
      /\ UNCHANGED <<rows, honoursId, visible, since, seen, spent, split, cut>>
  BY DEF Poll, exchange, committed
<1>2. since \in Nat
  BY DEF IInv, Committed, Ledger
<1>3. ToRange(got)' = {} /\ DOMAIN got' = {} /\ Len(got') = 0
  BY <1>1, EmptySeq DEF ToRange
<1>4. 0 <= 0 * PageSize
  BY Sizes
<1>5. Fetched'
  BY <1>1, <1>2, <1>3, <1>4 DEF Fetched, InOrder
<1>6. Stalled' /\ Drained'
  BY <1>1, <1>3 DEF Stalled, Drained
<1> QED BY <1>5, <1>6

LEMMA TypedKeeps ==
    ASSUME IInv, [Next]_vars
    PROVE  Typed'
<1>1. /\ Typed /\ Shown /\ Committed /\ Polling
      /\ rows \in Feeds /\ (split => spent)
      /\ {honoursId, cut, spent, split, stuck, failed, interrupted} \subseteq BOOLEAN
      /\ visible \subseteq Trades /\ asked \subseteq visible
      /\ stuckCount \in 0 .. Escalate /\ (~stuck => stuckCount < Escalate)
      /\ pc \in {"idle", "paging", "commit"}
      /\ cursor \in Nat /\ fromId \in Trades \cup {0} /\ pages \in 0 .. MaxPages
      /\ got \in Seq(Trades) /\ stuckAt \in Nat /\ saved \in File
      /\ (pc # "idle" => Past \subseteq asked) /\ (pc = "paging" => ~stuck /\ pages < MaxPages)
      /\ (pc # "idle" => Fetched) /\ Past \subseteq visible
  BY DEF IInv, Typed, Polling, Shown
<1>2. <<>> \in Seq(Trades)
  BY EmptySeq
<1>3. rows' = rows => Trades' = Trades /\ Past' = Past
  BY DEF Trades, Past, Ts
<1>13. PollReturns =>
          /\ cursor' \in Nat /\ fromId' \in Trades \cup {0} /\ pages' \in 0 .. MaxPages
          /\ got' \in Seq(Trades) /\ stuckAt' \in Nat /\ interrupted' \in BOOLEAN /\ pc' = "idle"
  <2> SUFFICES ASSUME PollReturns
               PROVE  /\ cursor' \in Nat /\ fromId' \in Trades \cup {0}
                      /\ pages' \in 0 .. MaxPages /\ got' \in Seq(Trades)
                      /\ stuckAt' \in Nat /\ interrupted' \in BOOLEAN /\ pc' = "idle"
    OBVIOUS
  <2>1. /\ cursor' = 0 /\ fromId' = 0 /\ pages' = 0 /\ got' = <<>> /\ stuckAt' = 0
        /\ interrupted' = FALSE /\ pc' = "idle"
    BY DEF PollReturns
  <2>2. pages' \in 0 .. MaxPages
    BY <2>1, Sizes
  <2>3. got' \in Seq(Trades)
    BY <1>2, <2>1
  <2> QED BY <2>1, <2>2, <2>3
<1>4. CASE Appear
  <2>1. /\ visible \subseteq visible' /\ visible' \subseteq Trades
        /\ UNCHANGED <<rows, honoursId, stuck, stuckCount, failed, pc, cursor, fromId, pages,
                       got, stuckAt, interrupted, saved, asked, cut, spent, split>>
    BY <1>1, <1>4 DEF Appear, locals, history
  <2> QED BY <1>1, <1>3, <2>1 DEF Typed
<1>5. CASE Poll
  <2>1. since \in Nat
    BY <1>1 DEF Committed, Ledger
  <2>2. /\ cursor' = since /\ fromId' = 0 /\ pages' = 0 /\ got' = <<>> /\ stuckAt' = 0
        /\ interrupted' = FALSE /\ failed' = FALSE /\ asked' = visible /\ pc' = "paging"
        /\ UNCHANGED <<rows, honoursId, visible, stuck, stuckCount, saved, cut, spent, split>>
        /\ ~stuck
    BY <1>5 DEF Poll, exchange
  <2>3. pages' \in 0 .. MaxPages /\ pages' < MaxPages /\ got' \in Seq(Trades)
    BY <1>2, <2>2, Sizes
  <2> QED BY <1>1, <1>3, <2>1, <2>2, <2>3 DEF Typed
<1>6. CASE PageEnds
  <2>1. /\ got' \in Seq(Trades) /\ pages' = pages + 1
        /\ UNCHANGED <<rows, honoursId, visible, failed, interrupted, saved, asked, cut>>
        /\ pc = "paging"
    BY <1>1, <1>6, Arrives DEF PageEnds, PageArrives
  <2>2. pages' \in 0 .. MaxPages
    BY <1>1, <2>1, Sizes
  <2>3. UNCHANGED <<cursor, fromId, stuck, spent, split>> /\ pc' = "commit"
    BY <1>6 DEF PageEnds
  <2>4. stuckAt' \in {0, stuckAt} /\ stuckCount' \in {0, stuckCount}
    BY <1>6 DEF PageEnds
  <2>5. stuckAt' \in Nat /\ stuckCount' \in 0 .. Escalate /\ stuckCount' < Escalate /\ ~stuck
    BY <1>1, <2>1, <2>4, Sizes
  <2> QED BY <1>1, <1>3, <2>1, <2>2, <2>3, <2>5 DEF Typed
<1>7. CASE PageAdvances \/ PageStays \/ PageStalls
  <2>1. PageArrives /\ Full(Answer) /\ pc = "paging"
    BY <1>7 DEF PageAdvances, PageStays, PageStalls, PageArrives
  <2>2. /\ got' \in Seq(Trades) /\ pages' = pages + 1
        /\ UNCHANGED <<rows, honoursId, visible, failed, interrupted, saved, asked, cut>>
    BY <1>1, <2>1, Arrives
  <2>3. LastId(Answer) \in Trades /\ LastTs(Answer) \in Nat
    BY <1>1, <2>1, FullPage
  <2>4. /\ pages \in Nat /\ pages' \in 0 .. MaxPages
        /\ (pages' # MaxPages => pages' < MaxPages) /\ ~stuck
    BY <1>1, <2>1, <2>2, Sizes
  <2>5. cursor' \in Nat /\ fromId' \in Trades \cup {0} /\ stuckAt' \in Nat
    BY <1>1, <1>7, <2>3 DEF PageAdvances, PageStays, PageStalls
  <2>6. /\ {spent', split'} \subseteq BOOLEAN /\ (split' => spent') /\ pc' \in {"paging", "commit"}
        /\ pc' = "paging" => UNCHANGED stuck /\ pages' # MaxPages
    <3>1. CASE PageStays \/ PageStalls
      <4>1. UNCHANGED split /\ (split => spent)
        BY <1>1, <3>1 DEF PageStays, PageStalls
      <4>2. CASE PageStalls
        BY <1>1, <4>1, <4>2 DEF PageStalls
      <4>3. CASE PageStays
        <5>1. /\ spent' = (spent \/ pages' = MaxPages) /\ UNCHANGED stuck
              /\ pc' = IF pages' = MaxPages THEN "commit" ELSE "paging"
          BY <4>3, Zenon DEF PageStays, Continue
        <5>2. {spent', split'} \subseteq BOOLEAN
          BY <1>1, <4>1, <5>1
        <5>3. split' => spent'
          BY <4>1, <5>1, Zenon
        <5> QED BY <5>1, <5>2, <5>3
      <4> QED BY <3>1, <4>2, <4>3
    <3>2. CASE PageAdvances
      <4>1. /\ spent' = (spent \/ pages' = MaxPages) /\ UNCHANGED stuck
            /\ split' = (split \/ (pages' = MaxPages /\ stuckAt = 0 /\ HalfFetched))
            /\ pc' = IF pages' = MaxPages THEN "commit" ELSE "paging"
        BY <3>2, Zenon DEF PageAdvances, Continue
      <4>2. spent' \in BOOLEAN /\ split' \in BOOLEAN
        BY <4>1
      <4>3. split' => spent'
        BY <1>1, <4>1, Zenon
      <4> QED BY <4>1, <4>2, <4>3
    <3> QED BY <1>7, <3>1, <3>2
  <2>7. stuck' \in BOOLEAN /\ stuckCount' \in 0 .. Escalate /\ (~stuck' => stuckCount' < Escalate)
    <3>1. CASE PageAdvances \/ PageStays
      BY <1>1, <3>1 DEF PageAdvances, PageStays
    <3>2. CASE PageStalls
      <4>1. stuckCount' = stuckCount + 1 /\ stuck' = (stuckCount' >= Escalate)
        BY <3>2 DEF PageStalls
      <4>2. stuckCount \in Nat /\ stuckCount < Escalate
        BY <1>1, <2>4, Sizes
      <4>3. stuckCount' \in 0 .. Escalate
        BY <4>1, <4>2, Sizes
      <4>4. stuck' \in BOOLEAN
        BY <4>1
      <4>5. ASSUME ~(stuckCount' >= Escalate) PROVE stuckCount' < Escalate
        BY <4>1, <4>2, <4>5, Sizes
      <4> QED BY <4>1, <4>3, <4>4, <4>5
    <3> QED BY <1>7, <3>1, <3>2
  <2> QED BY <1>1, <1>3, <2>1, <2>2, <2>4, <2>5, <2>6, <2>7 DEF Typed
<1>8. CASE PageFails
  BY <1>1, <1>3, <1>8 DEF Typed, PageFails, exchange
<1>9. CASE Commit \/ SinkRaises
  <2>1. /\ UNCHANGED <<rows, honoursId, visible, stuck, stuckCount, saved, asked, cut, spent, split>>
        /\ failed' \in BOOLEAN
    BY <1>1, <1>9 DEF Commit, SinkRaises, exchange, history
  <2>2. PollReturns
    BY <1>9 DEF Commit, SinkRaises
  <2> QED BY <1>1, <1>3, <1>13, <2>1, <2>2 DEF Typed
<1>10. CASE Save
  <2>1. /\ since \in Nat /\ seen \in Seq(Trades) /\ booked \subseteq visible /\ twice = {}
    BY <1>1 DEF Committed, Dedup, Ledger
  <2>2. Trades \subseteq Nat
    BY <1>1, RowFacts
  <2>3. seen \in Seq(Nat)
    <3>1. seen = [k \in 1 .. Len(seen) |-> seen[k]] /\ Len(seen) \in Nat
          /\ \A k \in 1 .. Len(seen) : seen[k] \in Nat
      BY <2>1, <2>2, LenProperties, ElementOfSeq
    <3>2. [k \in 1 .. Len(seen) |-> seen[k]] \in Seq(Nat)
      BY <3>1, IsASeq
    <3> QED BY <3>1, <3>2
  <2>4. saved' \in File
    BY <1>1, <1>10, <2>1, <2>2, <2>3 DEF Save, File
  <2> QED BY <1>1, <1>3, <1>10, <2>4 DEF Typed, Save, exchange, locals, history
<1>11. CASE Restart
  <2>1. saved.stuck \in BOOLEAN /\ saved.stuckCount \in 0 .. Escalate
    BY <1>1 DEF File
  <2>2. PICK keep \in BOOLEAN :
            /\ stuck' = (saved.stuck /\ keep)
            /\ stuckCount' = IF saved.stuck /\ keep THEN saved.stuckCount ELSE 0
    BY <1>11 DEF Restart
  <2>3. stuck' \in BOOLEAN /\ stuckCount' \in 0 .. Escalate /\ (~stuck' => stuckCount' < Escalate)
    BY <2>1, <2>2, Sizes
  <2>4. /\ UNCHANGED <<rows, honoursId, visible, saved, cut, spent, split>>
        /\ failed' = FALSE /\ asked' = {} /\ PollReturns
    BY <1>11 DEF Restart, exchange
  <2> QED BY <1>1, <1>3, <1>13, <2>3, <2>4 DEF Typed
<1>12. CASE UNCHANGED vars
  BY <1>1, <1>3, <1>12 DEF Typed, vars, exchange, committed, locals, history
<1> QED BY <1>4, <1>5, <1>6, <1>7, <1>8, <1>9, <1>10, <1>11, <1>12 DEF Next, PageStep

-----------------------------------------------------------------------------
(* The invariant is inductive *)

LEMMA InitHolds ==
    ASSUME Init
    PROVE  IInv
<1>1. /\ rows \in Feeds /\ honoursId \in BOOLEAN
      /\ visible = {i \in DOMAIN rows : rows[i].ts < BotStart}
      /\ since = 0 /\ seen = <<>> /\ booked = {} /\ twice = {}
      /\ stuck = FALSE /\ stuckCount = 0 /\ failed = FALSE /\ pc = "idle"
      /\ cursor = 0 /\ fromId = 0 /\ pages = 0 /\ got = <<>>
      /\ stuckAt = 0 /\ interrupted = FALSE /\ saved = NewFile
      /\ asked = {} /\ cut = FALSE /\ spent = FALSE /\ split = FALSE
  BY DEF Init
<1>2. <<>> \in Seq(Trades) /\ <<>> \in Seq(Nat) /\ Len(<<>>) = 0 /\ DOMAIN <<>> = {}
  BY EmptySeq
<1>3. ToRange(<<>>) = {}
  BY <1>2 DEF ToRange
<1>4. visible = Past
  BY <1>1 DEF Past, Ts, Trades
<1>5. Typed
  <2>1. saved \in File
    BY <1>1, <1>2, Sizes DEF NewFile, File
  <2>2. stuckCount \in 0 .. Escalate /\ stuckCount < Escalate /\ pages \in 0 .. MaxPages
    BY <1>1, Sizes
  <2>3. got \in Seq(Trades) /\ visible \subseteq Trades
    BY <1>1, <1>2, <1>4 DEF Past
  <2> QED BY <1>1, <2>1, <2>2, <2>3 DEF Typed
<1>6. /\ \A i \in Trades : i \in Nat /\ Ts(i) \in Nat
      /\ \A i, j \in Trades : i <= j => Ts(i) <= Ts(j)
  BY <1>5, RowFacts
<1>7. Shown
  BY <1>4, <1>6, Sizes DEF Shown, Past
<1>8. Dedup(0, <<>>)
  BY <1>2, <1>3, Sizes DEF Dedup
<1>9. Ledger(0, <<>>, {}, {})
  <2>1. \A i \in Trades : Ts(i) >= 0 /\ ~(Ts(i) < 0)
    BY <1>6
  <2>2. \A ids : ToRange(ids) = {} => Ledger(0, ids, {}, {})
    BY <2>1 DEF Ledger, Wanted
  <2> QED BY <1>3, <2>2
<1>10. Committed
  BY <1>1, <1>8, <1>9 DEF Committed
<1>11. Saved
  <2>1. saved.since = 0 /\ saved.seen = <<>> /\ saved.booked = {} /\ saved.twice = {}
    BY <1>1 DEF NewFile
  <2> QED BY <1>8, <1>9, <2>1 DEF Saved
<1>12. Polling /\ Quiet
  BY <1>1 DEF Polling, Quiet, QuietMeansCurrent
<1> QED BY <1>5, <1>7, <1>10, <1>11, <1>12 DEF IInv

LEMMA StepKeeps ==
    ASSUME IInv, [Next]_vars
    PROVE  IInv'
<1>1. Typed /\ Shown /\ Committed /\ Saved /\ Polling /\ Quiet /\ visible \subseteq Trades
  BY DEF IInv, Typed
<1>2. Typed'
  BY TypedKeeps
<1>3. UNCHANGED <<rows, visible>> => Shown'
  BY <1>1 DEF Shown, Past, Ts, Trades
<1>4. CASE Appear
  BY <1>2, <1>4, AppearKeeps DEF IInv
<1>5. CASE Poll
  <2>1. /\ UNCHANGED <<rows, honoursId, visible, since, seen, booked, twice, saved, spent, split, cut>>
        /\ pc' = "paging"
    BY <1>5 DEF Poll, exchange, committed
  <2>2. Committed' /\ Saved'
    BY <1>1, <2>1, LedgersKept
  <2>3. Polling'
    BY <1>5, PollKeeps DEF Polling
  <2>4. Quiet'
    BY <2>1 DEF Quiet, QuietMeansCurrent
  <2> QED BY <1>2, <1>3, <2>1, <2>2, <2>3, <2>4 DEF IInv
<1>6. CASE PageStep \/ PageFails
  <2>1. /\ UNCHANGED <<rows, honoursId, visible, since, seen, booked, twice, saved>>
        /\ pc' # "idle" /\ (spent => spent') /\ (split => split') /\ (cut => cut')
    <3>1. CASE PageStep
      <4>2. ASSUME PageEnds \/ PageStalls
            PROVE  PageArrives /\ pc' # "idle" /\ UNCHANGED <<spent, split>>
        <5>1. PageArrives /\ pc' = "commit" /\ spent' = spent /\ split' = split
          BY <4>2 DEF PageEnds, PageStalls
        <5> QED BY <5>1
      <4>3. ASSUME PageAdvances \/ PageStays
            PROVE  PageArrives /\ pc' # "idle" /\ (spent => spent') /\ (split => split')
        <5>1. PageArrives /\ Continue
          BY <4>3 DEF PageAdvances, PageStays
        <5>2. pc' \in {"commit", "paging"}
          BY <5>1 DEF Continue
        <5>3. spent => spent'
          BY <5>1 DEF Continue
        <5>4. CASE PageAdvances
          BY <5>1, <5>2, <5>3, <5>4, Zenon DEF PageAdvances
        <5>5. CASE PageStays
          BY <5>1, <5>2, <5>3, <5>5, Zenon DEF PageStays
        <5> QED BY <4>3, <5>4, <5>5
      <4>1. PageArrives /\ pc' # "idle" /\ (spent => spent') /\ (split => split')
        BY <3>1, <4>2, <4>3 DEF PageStep
      <4> QED BY <4>1 DEF PageArrives, exchange, committed
    <3>2. CASE PageFails
      BY <3>2 DEF PageFails, exchange, committed
    <3> QED BY <1>6, <3>1, <3>2
  <2>2. Committed' /\ Saved'
    BY <1>1, <2>1, LedgersKept
  <2>3. Polling'
    <3>1. Fetched' /\ Stalled' /\ Drained'
      BY <1>6, PageEndsKeeps, PageAdvancesKeeps, PageStopsKeeps, PageFailsKeeps DEF PageStep
    <3> QED BY <3>1 DEF Polling
  <2>4. Quiet'
    BY <2>1 DEF Quiet, QuietMeansCurrent
  <2> QED BY <1>2, <1>3, <2>1, <2>2, <2>3, <2>4 DEF IInv
<1>7. CASE Commit
  <2>1. UNCHANGED <<rows, honoursId, visible, saved, spent, split, cut>> /\ pc' = "idle"
    BY <1>7 DEF Commit, PollReturns, exchange, history
  <2>2. Committed' /\ Quiet'
    BY <1>7, CommitKeeps
  <2>3. Saved'
    <3>1. (Dedup(saved.since, saved.seen)
             /\ Ledger(saved.since, saved.seen, saved.booked, saved.twice))'
      BY <1>1, <2>1, LedgerKept DEF Saved
    <3> QED BY <3>1 DEF Saved
  <2>4. Polling'
    BY <2>1 DEF Polling
  <2> QED BY <1>2, <1>3, <2>1, <2>2, <2>3, <2>4 DEF IInv
<1>8. CASE SinkRaises
  <2>1. /\ UNCHANGED <<rows, honoursId, visible, since, seen, booked, twice, saved, spent, split, cut>>
        /\ pc' = "idle" /\ failed' = TRUE
    BY <1>8 DEF SinkRaises, PollReturns, exchange, committed, history
  <2>2. Committed' /\ Saved'
    BY <1>1, <2>1, LedgersKept
  <2>3. Polling' /\ Quiet'
    BY <2>1 DEF Polling, Quiet, QuietMeansCurrent
  <2> QED BY <1>2, <1>3, <2>1, <2>2, <2>3 DEF IInv
<1>9. CASE Save
  <2>1. /\ UNCHANGED <<rows, honoursId, visible, since, seen, booked, twice, stuck, failed,
                       asked, spent, split, cut>>
        /\ pc = "idle" /\ pc' = "idle"
        /\ saved' = [since |-> since, seen |-> seen, stuck |-> stuck,
                     stuckCount |-> stuckCount, booked |-> booked, twice |-> twice]
    BY <1>9 DEF Save, exchange, committed, history
  <2>2. Dedup(since, seen)' /\ Ledger(since, seen, booked, twice)'
    BY <1>1, <2>1, LedgerKept DEF Committed
  <2>3. /\ saved'.since = since' /\ saved'.seen = seen' /\ saved'.booked = booked'
        /\ saved'.twice = twice'
    BY <2>1
  <2>4. Committed' /\ Saved'
    BY <2>2, <2>3 DEF Committed, Saved
  <2>5. Wanted' = Wanted
    BY <2>1 DEF Wanted, Historic, Trades
  <2>6. Polling' /\ Quiet'
    BY <1>1, <2>1, <2>5 DEF Polling, Quiet, QuietMeansCurrent
  <2> QED BY <1>2, <1>3, <2>1, <2>4, <2>6 DEF IInv
<1>10. CASE Restart
  <2>1. /\ UNCHANGED <<rows, honoursId, visible, saved, spent, split, cut>>
        /\ since' = saved.since /\ seen' = saved.seen
        /\ booked' = saved.booked /\ twice' = saved.twice
        /\ pc' = "idle" /\ asked' = {}
    BY <1>10 DEF Restart, PollReturns, exchange
  <2>2. (Dedup(saved.since, saved.seen)
           /\ Ledger(saved.since, saved.seen, saved.booked, saved.twice))'
    BY <1>1, <2>1, LedgerKept DEF Saved
  <2>3. Committed' /\ Saved'
    BY <2>1, <2>2 DEF Committed, Saved
  <2>4. Polling' /\ Quiet'
    BY <2>1 DEF Polling, Quiet, QuietMeansCurrent
  <2> QED BY <1>2, <1>3, <2>1, <2>3, <2>4 DEF IInv
<1>11. CASE UNCHANGED vars
  <2>1. UNCHANGED <<rows, honoursId, visible, since, seen, booked, twice, stuck, stuckCount,
                    failed, pc, cursor, fromId, pages, got, stuckAt, interrupted, saved,
                    asked, cut, spent, split>>
    BY <1>11 DEF vars, exchange, committed, locals, history
  <2>2. Committed' /\ Saved'
    BY <1>1, <2>1, LedgersKept
  <2>3. Polling'
    <3>1. Fetched => Fetched'
      BY <2>1 DEF Fetched, InOrder, Ts, Trades, ToRange
    <3>2. Stalled => Stalled'
      BY <2>1 DEF Stalled, Wall, Ts, Trades, ToRange
    <3>3. Drained => Drained'
      BY <2>1 DEF Drained, Ts, Trades, ToRange
    <3> QED BY <1>1, <2>1, <3>1, <3>2, <3>3 DEF Polling
  <2>4. Quiet'
    BY <1>1, <2>1 DEF Quiet, QuietMeansCurrent, Wanted, Historic, Trades
  <2> QED BY <1>2, <1>3, <2>1, <2>2, <2>3, <2>4 DEF IInv
<1> QED BY <1>4, <1>5, <1>6, <1>7, <1>8, <1>9, <1>10, <1>11 DEF Next

LEMMA InvariantHolds == Spec => []IInv
<1>1. Init => IInv
  BY InitHolds
<1>2. IInv /\ [Next]_vars => IInv'
  BY StepKeeps
<1> QED BY <1>1, <1>2, PTL DEF Spec

-----------------------------------------------------------------------------
(* The theorems *)

\* Every variable keeps the type its code structure gives it, and the dedup buffer
\* its capacity, whatever pages fail and whenever the process restarts.
THEOREM FeedTypes == Spec => []TypeOK
<1>1. IInv => TypeOK
  <2> SUFFICES ASSUME IInv PROVE TypeOK
    OBVIOUS
  <2>1. Typed /\ Dedup(since, seen) /\ Ledger(since, seen, booked, twice)
    BY DEF IInv, Committed
  <2> QED BY <2>1 DEF Typed, Dedup, Ledger, TypeOK
<1> QED BY <1>1, InvariantHolds, PTL

\* No trade is handed to the sink twice, not even where the trades of a millisecond
\* appear one after the other: what a watermark that stays behind fetches again is
\* still among the ids seen (fill_events_manager.py, poll).  And none of others from
\* before the bot is, while every page arrives.
THEOREM FeedNoDuplicate == Spec => [](NoDuplicate /\ HistoryIgnored)
<1>1. IInv => NoDuplicate /\ HistoryIgnored
  BY DEF IInv, Committed, Ledger, NoDuplicate, HistoryIgnored
<1> QED BY <1>1, InvariantHolds, PTL

\* Where the trades of a millisecond appear together, the ledger is the one promised:
\* nothing is left behind the watermark while no poll runs out of pages between two
\* trades of one millisecond, nothing is booked twice, and no trade of before the bot is
\* booked while every page arrives and no poll runs out of pages.
THEOREM FeedEachTradeOnce == Spec => [](Whole => EachTradeOnce)
<1>1. IInv => (Whole => EachTradeOnce)
  <2> SUFFICES ASSUME IInv, Whole PROVE EachTradeOnce
    OBVIOUS
  <2>1. Ledger(since, seen, booked, twice) /\ Typed
    BY DEF IInv, Committed
  <2>2. ASSUME ~split, NEW i \in visible \cap Wanted, rows[i].ts < since PROVE i \in booked
    BY <2>1, <2>2 DEF Ledger, Ts
  <2>3. NoFillLost
    BY <2>2 DEF NoFillLost, EveryFillKept
  <2> QED BY <2>1, <2>3 DEF EachTradeOnce, NoDuplicate, HistoryIgnored, Ledger
<1> QED BY <1>1, InvariantHolds, PTL

\* There too, a poll of an exchange with fromId that leaves neither is_stuck nor
\* last_poll_failed has booked all there was when it began.
THEOREM FeedQuietMeansCurrent == Spec => [](Whole => QuietMeansCurrent)
<1>1. IInv => (Whole => QuietMeansCurrent)
  BY DEF IInv, Quiet
<1> QED BY <1>1, InvariantHolds, PTL
=============================================================================
