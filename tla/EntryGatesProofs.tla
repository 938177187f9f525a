--------------------------- MODULE EntryGatesProofs ---------------------------
(***************************************************************************)
(* Theorems about the entry gates, for any symbols, any window, limits and *)
(* durations of the protections, and any number of ticks, trades and       *)
(* faults: no entry where fills or candles could not be read or under a    *)
(* lock, and none held back for another reason.                            *)
(***************************************************************************)
EXTENDS EntryGates, FiniteSetTheorems, SequenceTheorems, WellFoundedInduction, TLAPS

-----------------------------------------------------------------------------
(* The inductive invariant *)

\* The symbols whose turn is to come: each once, and in a stage of turns there is one.
Queue ==
    /\ todo \in Seq(Symbols)
    /\ \A i, j \in DOMAIN todo : todo[i] = todo[j] => i = j
    /\ phase \in {"polls", "account", "candles"} => todo # <<>>

Typed ==
    /\ coming \in [Symbols -> Seq(Fill)] /\ losses \in Seq(Fill) /\ told \subseteq Fill
    /\ fed \in [Symbols -> Seq(Nat)] /\ behind \subseteq Symbols /\ torn \subseteq Symbols
    /\ trades \in Nat /\ blind \subseteq Symbols /\ late \in BOOLEAN
    /\ due \in [Entries -> Nat]
    /\ phase # "idle" => epoch > 0

\* Trades have their own ids; those of a symbol wait in the order of time.
Indexed(s) == \A i, j \in DOMAIN s : i < j => s[i].id < s[j].id /\ s[i].at <= s[j].at
ComingInOrder ==
    \A s \in Symbols :
        /\ Indexed(coming[s])
        /\ \A i \in DOMAIN coming[s] :
              /\ coming[s][i].id < trades /\ coming[s][i].at <= now
              /\ \A u \in Symbols \ {s} : \A j \in DOMAIN coming[u] : coming[u][j].id # coming[s][i].id
LossesDiffer ==
    /\ \A i, j \in DOMAIN losses : losses[i].id = losses[j].id => i = j
    /\ \A i \in DOMAIN losses :
        /\ losses[i].id < trades
        /\ \A s \in Symbols : \A j \in DOMAIN coming[s] : coming[s][j].id # losses[i].id

\* The deque holds every loss that was told inside the window, and as long as losses
\* were told in the order of time, in that order and no other.
ToldKept == told \subseteq Range(losses)
InTime ==
    ~late => /\ Range(losses) \subseteq told
             /\ \A i, j \in DOMAIN losses : i < j => losses[i].at <= losses[j].at

\* What is due is locked, for as long; and in time nothing else is.
DueIsLocked ==
    \A e \in Entries : due[e] <= now \/ \E l \in locks : Matches(l, e) /\ l.until >= due[e]
LockedIsDue ==
    ~late => \A l \in locks : \A e \in Entries : Matches(l, e) => l.until <= due[e]

\* The last answer about candles was an error exactly if a block is not satisfied,
\* and no block is of this tick before the symbol had its turn.
BlindIsBlocked == \A s \in Symbols : s \in blind <=> block[s] > stamped[s]
FlagsOfThisTick ==
    \A s \in Symbols :
        (phase \in {"polls", "account"} \/ (phase = "candles" /\ s \in Range(todo)))
            => block[s] <= epoch

\* The bars fed are closed and, unless an answer broke off among them, rise as far as
\* the watermark, below which they hold all that one answer reaches; a whole and
\* current answer of this tick brought it to the last closed bar.
FedOf(s) ==
    /\ Range(fed[s]) \subseteq 0 .. (now - 1)
    /\ s \notin torn =>
          /\ \A i, j \in DOMAIN fed[s] : i < j => fed[s][i] < fed[s][j]
          /\ \A i \in DOMAIN fed[s] : fed[s][i] <= mark[s]
    /\ {t \in 0 .. mark[s] : t > mark[s] - CandleLimit + 1} \subseteq Range(fed[s])
    /\ stamped[s] = epoch /\ epoch > 0 /\ s \notin behind => mark[s] = now - 1
FedInOrder == \A s \in Symbols : FedOf(s)

Sends == phase = "placed" => sent = {e \in Entries : Passes(e)}

Types == TypeOK /\ Typed /\ Queue
Told == ComingInOrder /\ LossesDiffer /\ ToldKept /\ InTime
Locked == DueIsLocked /\ LockedIsDue
Ledger == BlindIsBlocked /\ FlagsOfThisTick
IInv == Types /\ Told /\ Locked /\ Ledger /\ FedInOrder /\ Sends

-----------------------------------------------------------------------------
(* Induction and least elements, as sets of numbers *)

LEMMA Least ==
    ASSUME NEW S \in SUBSET Nat, S # {}
    PROVE  \E m \in S : \A k \in S : m <= k
<1>1. PICK m \in S : \A k \in S : ~ (<<k, m>> \in OpToRel(<, Nat))
  <2>1. S \subseteq Nat
    OBVIOUS
  <2> QED BY <2>1, WFMin, NatLessThanWellFounded
<1>2. \A k \in S : k < m => <<k, m>> \in OpToRel(<, Nat)
  BY DEF OpToRel
<1>3. \A k \in S : ~(k < m)
  BY <1>1, <1>2, Zenon
<1>4. \A k \in S : m <= k
  BY <1>3
<1> QED BY <1>4

LEMMA Induction ==
    ASSUME NEW S \in SUBSET Nat, 0 \in S, \A n \in S : n + 1 \in S
    PROVE  S = Nat
<1> SUFFICES ASSUME Nat \ S # {} PROVE FALSE
  OBVIOUS
<1>1. PICK m \in Nat \ S : \A k \in Nat \ S : m <= k
  <2>1. Nat \ S \in SUBSET Nat
    OBVIOUS
  <2> QED BY <2>1, Least
<1>2. m - 1 \in Nat /\ m = (m - 1) + 1 /\ m - 1 < m
  OBVIOUS
<1> QED BY <1>1, <1>2

LEMMA MinOf ==
    ASSUME NEW S \in SUBSET Nat, S # {}
    PROVE  Min(S) \in S /\ \A k \in S : Min(S) <= k
BY Least DEF Min

\* The largest of up to three numbers.
LEMMA MaxOf ==
    ASSUME NEW a \in Int, NEW b \in Int, NEW c \in Int, NEW S, a \in S, S \subseteq {a, b, c}
    PROVE  Max(S) \in S /\ \A k \in S : k <= Max(S)
<1>1. \E m \in S : \A k \in S : m >= k
  <2>1. CASE \A k \in S : a >= k
    BY <2>1
  <2>2. CASE b \in S /\ b > a /\ \A k \in S : b >= k
    BY <2>2
  <2>3. CASE c \in S /\ c > a /\ \A k \in S : c >= k
    BY <2>3
  <2> QED BY <2>1, <2>2, <2>3
<1> QED BY <1>1 DEF Max

-----------------------------------------------------------------------------
(* The losses of an update *)

\* The function that the definition of LossesUpTo describes, up to n.
Unfolds(f, fills, n) ==
    f = [k \in 0 .. n |->
            IF k = 0 THEN <<>>
            ELSE IF IsLoss(fills[k]) THEN Append(f[k - 1], fills[k]) ELSE f[k - 1]]

LEMMA LossesUnfold ==
    ASSUME NEW fills \in Seq(Fill)
    PROVE  Unfolds(LossesUpTo(fills), fills, Len(fills))
<1> DEFINE S == {n \in Nat : \E f : Unfolds(f, fills, n)}
<1>1. 0 \in S
  <2>1. Unfolds([k \in 0 .. 0 |-> <<>>], fills, 0)
    BY DEF Unfolds
  <2> QED BY <2>1
<1>2. ASSUME NEW n \in S PROVE n + 1 \in S
  <2>1. n \in Nat
    OBVIOUS
  <2>2. PICK f : Unfolds(f, fills, n)
    OBVIOUS
  <2> DEFINE g == [k \in 0 .. (n + 1) |->
                      IF k = 0 THEN <<>>
                      ELSE IF IsLoss(fills[k]) THEN Append(f[k - 1], fills[k]) ELSE f[k - 1]]
  <2>3. \A k \in 0 .. n : g[k] = f[k]
    <3>1. \A k \in 0 .. n :
              f[k] = IF k = 0 THEN <<>>
                     ELSE IF IsLoss(fills[k]) THEN Append(f[k - 1], fills[k]) ELSE f[k - 1]
      BY <2>2, Zenon DEF Unfolds
    <3>2. \A k \in 0 .. n : k \in 0 .. (n + 1)
      BY <2>1
    <3>3. \A k \in 0 .. (n + 1) :
              g[k] = IF k = 0 THEN <<>>
                     ELSE IF IsLoss(fills[k]) THEN Append(f[k - 1], fills[k]) ELSE f[k - 1]
      BY Zenon
    <3> HIDE DEF g
    <3> QED BY <3>1, <3>2, <3>3, Zenon
  <2>4. \A k \in 0 .. (n + 1) : k # 0 => g[k - 1] = f[k - 1]
    <3>1. \A k \in 0 .. (n + 1) : k # 0 => k - 1 \in 0 .. n
      BY <2>1
    <3> HIDE DEF g
    <3> QED BY <2>3, <3>1
  <2>5. g = [k \in 0 .. (n + 1) |->
                IF k = 0 THEN <<>>
                ELSE IF IsLoss(fills[k]) THEN Append(g[k - 1], fills[k]) ELSE g[k - 1]]
    BY <2>4
  <2>6. Unfolds(g, fills, n + 1)
    BY <2>5 DEF Unfolds
  <2> QED BY <2>1, <2>6
<1>3. Len(fills) \in S
  <2>1. S \in SUBSET Nat
    OBVIOUS
  <2> HIDE DEF S
  <2> QED BY <1>1, <1>2, <2>1, Induction, LenProperties
<1>4. \E f : Unfolds(f, fills, Len(fills))
  BY <1>3
<1> QED BY <1>4, Zenon DEF LossesUpTo, Unfolds

\* They are the losses, all of them, in the order of the fills.
LEMMA LosingFacts ==
    ASSUME NEW fills \in Seq(Fill)
    PROVE  /\ Losing(fills) \in Seq(Fill)
           /\ \A k \in DOMAIN Losing(fills) :
                 /\ IsLoss(Losing(fills)[k])
                 /\ \E i \in DOMAIN fills : Losing(fills)[k] = fills[i]
           /\ \A i \in DOMAIN fills :
                 IsLoss(fills[i]) => \E k \in DOMAIN Losing(fills) : Losing(fills)[k] = fills[i]
           /\ Indexed(fills) => Indexed(Losing(fills))
<1> DEFINE f == LossesUpTo(fills)
           Good(g, n) ==
               /\ g \in Seq(Fill)
               /\ \A k \in DOMAIN g : IsLoss(g[k]) /\ \E i \in 1 .. n : g[k] = fills[i]
               /\ \A i \in 1 .. n : IsLoss(fills[i]) => \E k \in DOMAIN g : g[k] = fills[i]
               /\ Indexed(fills) => Indexed(g)
           S == {n \in Nat : n <= Len(fills) => Good(f[n], n)}
<1>1. /\ Len(fills) \in Nat /\ DOMAIN fills = 1 .. Len(fills)
      /\ \A i \in 1 .. Len(fills) : fills[i] \in Fill
  BY LenProperties
<1>2. /\ f[0] = <<>>
      /\ \A n \in Nat : n + 1 <= Len(fills) =>
            f[n + 1] = IF IsLoss(fills[n + 1]) THEN Append(f[n], fills[n + 1]) ELSE f[n]
  <2>1. \A k \in 0 .. Len(fills) :
            f[k] = IF k = 0 THEN <<>>
                   ELSE IF IsLoss(fills[k]) THEN Append(f[k - 1], fills[k]) ELSE f[k - 1]
    BY LossesUnfold, Zenon DEF Unfolds
  <2> HIDE DEF f
  <2>2. 0 \in 0 .. Len(fills)
    BY <1>1
  <2>3. \A n \in Nat : n + 1 <= Len(fills) =>
            n + 1 \in 0 .. Len(fills) /\ n + 1 # 0 /\ (n + 1) - 1 = n
    BY <1>1
  <2> QED BY <2>1, <2>2, <2>3
<1> HIDE DEF f
<1>3. 0 \in S
  <2>1. Good(<<>>, 0)
    BY EmptySeq DEF Indexed
  <2>2. Good(f[0], 0)
    BY <1>2, <2>1
  <2> HIDE DEF Good
  <2> QED BY <2>2
<1>4. ASSUME NEW n \in S PROVE n + 1 \in S
  <2> SUFFICES ASSUME n + 1 <= Len(fills) PROVE Good(f[n + 1], n + 1)
    OBVIOUS
  <2>1. n \in Nat /\ n + 1 \in 1 .. Len(fills) /\ Good(f[n], n)
    BY <1>1
  <2>2. CASE ~IsLoss(fills[n + 1])
    <3>1. f[n + 1] = f[n]
      BY <1>2, <2>1, <2>2
    <3>2. \A i \in 1 .. (n + 1) : i \in 1 .. n \/ i = n + 1
      BY <2>1
    <3> QED BY <2>1, <2>2, <3>1, <3>2
  <2>3. CASE IsLoss(fills[n + 1])
    <3> DEFINE g == f[n]
               h == Append(g, fills[n + 1])
    <3>1. f[n + 1] = h
      BY <1>2, <2>1, <2>3
    <3>2. g \in Seq(Fill) /\ fills[n + 1] \in Fill
      BY <1>1, <2>1
    <3>3. /\ h \in Seq(Fill) /\ Len(h) = Len(g) + 1 /\ Len(g) \in Nat
          /\ DOMAIN h = 1 .. (Len(g) + 1) /\ DOMAIN g = 1 .. Len(g)
          /\ \A k \in 1 .. Len(g) : h[k] = g[k]
          /\ h[Len(g) + 1] = fills[n + 1]
      BY <3>2, AppendProperties, LenProperties
    <3>4. \A k \in DOMAIN g : IsLoss(g[k]) /\ \E i \in 1 .. n : g[k] = fills[i]
      BY <2>1
    <3>5. \A i \in 1 .. n : IsLoss(fills[i]) => \E k \in DOMAIN g : g[k] = fills[i]
      BY <2>1
    <3>6. Indexed(fills) => Indexed(g)
      BY <2>1
    <3> HIDE DEF g, h
    <3>7. \A k \in DOMAIN h : IsLoss(h[k]) /\ \E i \in 1 .. (n + 1) : h[k] = fills[i]
      <4> SUFFICES ASSUME NEW k \in 1 .. (Len(g) + 1)
                   PROVE  IsLoss(h[k]) /\ \E i \in 1 .. (n + 1) : h[k] = fills[i]
        BY <3>3
      <4>1. CASE k = Len(g) + 1
        <5>1. h[k] = fills[n + 1] /\ n + 1 \in 1 .. (n + 1)
          BY <2>1, <3>3, <4>1
        <5> QED BY <2>3, <5>1
      <4>2. CASE k \in 1 .. Len(g)
        <5>1. PICK i \in 1 .. n : g[k] = fills[i]
          BY <3>3, <3>4, <4>2
        <5>2. k \in DOMAIN g
          BY <3>3, <4>2
        <5>3. IsLoss(g[k])
          BY <3>4, <5>2, Zenon
        <5>4. h[k] = g[k]
          BY <3>3, <4>2, Zenon
        <5>5. i \in 1 .. (n + 1)
          BY <2>1
        <5> QED BY <5>1, <5>3, <5>4, <5>5
      <4>3. k = Len(g) + 1 \/ k \in 1 .. Len(g)
        BY <3>3
      <4> QED BY <4>1, <4>2, <4>3, Zenon
    <3>8. ASSUME NEW i \in 1 .. (n + 1), IsLoss(fills[i])
          PROVE  \E k \in DOMAIN h : h[k] = fills[i]
      <4>1. CASE i = n + 1
        BY <3>3, <4>1
      <4>2. CASE i \in 1 .. n
        <5>1. PICK k \in DOMAIN g : g[k] = fills[i]
          BY <3>5, <3>8, <4>2
        <5> QED BY <3>3, <5>1
      <4> QED BY <2>1, <4>1, <4>2
    <3>9. ASSUME Indexed(fills) PROVE Indexed(h)
      <4> SUFFICES ASSUME NEW k \in 1 .. (Len(g) + 1), NEW l \in 1 .. (Len(g) + 1), k < l
                   PROVE  h[k].id < h[l].id /\ h[k].at <= h[l].at
        BY <3>3 DEF Indexed
      <4>1. CASE l \in 1 .. Len(g)
        BY <3>3, <3>6, <3>9, <4>1 DEF Indexed
      <4>2. CASE l = Len(g) + 1
        <5>1. k \in 1 .. Len(g)
          BY <3>3, <4>2
        <5>2. PICK i \in 1 .. n : g[k] = fills[i]
          BY <3>3, <3>4, <5>1
        <5>4. h[k] = fills[i]
          BY <3>3, <5>1, <5>2
        <5>3. i \in DOMAIN fills /\ n + 1 \in DOMAIN fills /\ i < n + 1
          BY <1>1, <2>1
        <5>5. fills[i].id < fills[n + 1].id /\ fills[i].at <= fills[n + 1].at
          BY <3>9, <5>3 DEF Indexed
        <5> QED BY <3>3, <4>2, <5>4, <5>5
      <4>3. l \in 1 .. Len(g) \/ l = Len(g) + 1
        BY <3>3
      <4> QED BY <4>1, <4>2, <4>3, Zenon
    <3> QED BY <3>1, <3>3, <3>7, <3>8, <3>9
  <2> QED BY <2>2, <2>3
<1>5. Len(fills) \in S
  <2>1. S \in SUBSET Nat
    OBVIOUS
  <2> HIDE DEF S
  <2> QED BY <1>1, <1>3, <1>4, <2>1, Induction
<1>6. Good(f[Len(fills)], Len(fills))
  BY <1>1, <1>5
<1> QED BY <1>1, <1>6 DEF Losing, f

\* Pruning takes a prefix that ends before the first loss in the window.
LEMMA PrunedFacts ==
    ASSUME NEW s \in Seq(Fill), NEW at \in Int
    PROVE  \E m \in 0 .. Len(s) :
               /\ Pruned(s, at) \in Seq(Fill)
               /\ Len(Pruned(s, at)) = Len(s) - m
               /\ \A i \in 1 .. (Len(s) - m) : Pruned(s, at)[i] = s[m + i]
               /\ \A i \in 1 .. Len(s) : InWindow(s[i], at) => i > m
               /\ m < Len(s) => InWindow(s[m + 1], at)
<1> DEFINE alive == {i \in DOMAIN s : InWindow(s[i], at)}
<1>1. /\ Len(s) \in Nat /\ DOMAIN s = 1 .. Len(s)
      /\ \A i \in 1 .. Len(s) : s[i] \in Fill
  BY LenProperties
<1>2. CASE alive = {}
  <2>1. Pruned(s, at) = <<>>
    BY <1>2 DEF Pruned
  <2>2. <<>> \in Seq(Fill) /\ Len(<<>>) = 0
    BY EmptySeq
  <2>3. \A i \in 1 .. Len(s) : ~InWindow(s[i], at)
    BY <1>1, <1>2
  <2>4. Len(s) \in 0 .. Len(s) /\ Len(s) - Len(s) = 0
    BY <1>1
  <2> HIDE DEF alive
  <2> WITNESS Len(s) \in 0 .. Len(s)
  <2> QED BY <2>1, <2>2, <2>3, <2>4, <1>1
<1>3. CASE alive # {}
  <2>1. alive \in SUBSET Nat
    BY <1>1
  <2> DEFINE first == Min(alive)
  <2>2. first \in alive /\ \A i \in alive : first <= i
    BY <1>3, <2>1, MinOf
  <2>3. Pruned(s, at) = SubSeq(s, first, Len(s))
    BY <1>3 DEF Pruned
  <2>4. first \in 1 .. Len(s) /\ InWindow(s[first], at)
    BY <1>1, <2>2
  <2>5. \A i \in 1 .. Len(s) : InWindow(s[i], at) => first <= i
    BY <1>1, <2>2
  <2> HIDE DEF first, alive
  <2>6. /\ SubSeq(s, first, Len(s)) \in Seq(Fill)
        /\ Len(SubSeq(s, first, Len(s))) = Len(s) - first + 1
        /\ \A i \in 1 .. (Len(s) - first + 1) : SubSeq(s, first, Len(s))[i] = s[first + i - 1]
    BY <1>1, <2>4, SubSeqProperties
  <2> DEFINE m == first - 1
  <2>7. m \in 0 .. Len(s) /\ m < Len(s) /\ InWindow(s[m + 1], at)
    BY <1>1, <2>4
  <2>8. Len(s) - m = Len(s) - first + 1
    BY <1>1, <2>4
  <2>9. \A i \in 1 .. (Len(s) - m) : Pruned(s, at)[i] = s[m + i]
    <3>1. \A i \in 1 .. (Len(s) - m) : first + i - 1 = m + i
      BY <1>1, <2>4
    <3> QED BY <2>3, <2>6, <2>8, <3>1
  <2>10. \A i \in 1 .. Len(s) : InWindow(s[i], at) => i > m
    BY <1>1, <2>4, <2>5
  <2> HIDE DEF m
  <2> QED BY <2>3, <2>6, <2>7, <2>8, <2>9, <2>10
<1> QED BY <1>2, <1>3

-----------------------------------------------------------------------------
(* Types *)

LEMMA Numbers ==
    /\ Lookback \in Nat /\ StopDuration \in Nat /\ CoolDuration \in Nat
    /\ LossLimit \in Nat /\ LossLimit > 0
    /\ CandleLimit \in Nat /\ CandleLimit > 1
    /\ MaxNow \in Nat /\ MaxTrades \in Nat /\ MaxTrouble \in Nat
BY DurationsNat, LossLimitPositive, GateBoundsNat

LEMMA FillsTyped ==
    ASSUME NEW s \in Seq(Fill)
    PROVE  /\ Len(s) \in Nat /\ DOMAIN s = 1 .. Len(s)
           /\ \A i \in DOMAIN s : s[i] \in Fill /\ s[i].id \in Nat /\ s[i].at \in Nat
<1>1. Len(s) \in Nat /\ DOMAIN s = 1 .. Len(s)
  BY LenProperties
<1>2. \A i \in DOMAIN s : s[i] \in Fill
  BY <1>1, ElementOfSeq
<1>3. \A f \in Fill : f.id \in Nat /\ f.at \in Nat
  BY Numbers DEF Fill
<1> QED BY <1>1, <1>2, <1>3

LEMMA InitTypes == Init => Types
<1> SUFFICES ASSUME Init PROVE Types
  OBVIOUS
<1>1. <<>> \in Seq(Fill) /\ <<>> \in Seq(Nat) /\ <<>> \in Seq(Symbols) /\ DOMAIN <<>> = {}
  BY EmptySeq
<1>2. Typed
  BY <1>1 DEF Init, Typed
<1>3. Queue
  BY <1>1 DEF Init, Queue
<1>4. TypeOK
  BY <1>1, Numbers DEF Init, TypeOK
<1> QED BY <1>2, <1>3, <1>4 DEF Types

\* The first symbol of the queue has its turn; it has no other in this stage.
LEMMA TurnFacts ==
    ASSUME Types, NEW s, NEW next, Turn(s, next)
    PROVE  /\ s \in Symbols /\ s \in Range(todo)
           /\ todo' \in Seq(Symbols) /\ todo' # <<>>
           /\ \A i, j \in DOMAIN todo' : todo'[i] = todo'[j] => i = j
           /\ \/ phase' = next
              \/ phase' = phase /\ s \notin Range(todo') /\ Range(todo') \subseteq Range(todo)
<1>1. /\ todo \in Seq(Symbols) /\ todo # <<>> /\ s = Head(todo)
      /\ \A i, j \in DOMAIN todo : todo[i] = todo[j] => i = j
  BY DEF Types, Queue, Turn
<1>2. /\ Len(todo) \in Nat /\ Len(todo) > 0 /\ DOMAIN todo = 1 .. Len(todo)
      /\ \A i \in 1 .. Len(todo) : todo[i] \in Symbols
  BY <1>1, LenProperties, EmptySeq
<1>3. s = todo[1] /\ 1 \in DOMAIN todo
  BY <1>1, <1>2
<1>4. s \in Symbols /\ s \in Range(todo)
  BY <1>2, <1>3 DEF Range
<1>5. CASE Len(todo) = 1
  BY <1>4, <1>5, ListedDistinct DEF Turn
<1>6. CASE Len(todo) # 1
  <2>1. todo' = Tail(todo) /\ phase' = phase
    BY <1>6 DEF Turn
  <2>2. /\ todo' \in Seq(Symbols) /\ Len(todo') = Len(todo) - 1
        /\ \A i \in 1 .. Len(todo') : todo'[i] = todo[i + 1]
    BY <1>1, <2>1, HeadTailProperties
  <2>3. DOMAIN todo' = 1 .. (Len(todo) - 1)
    BY <2>2, LenProperties
  <2>4. todo' # <<>>
    BY <1>2, <1>6, <2>2, EmptySeq
  <2>5. \A i \in DOMAIN todo' : i + 1 \in DOMAIN todo /\ todo'[i] = todo[i + 1] /\ i + 1 # 1
    BY <1>2, <2>2, <2>3
  <2>6. \A i, j \in DOMAIN todo' : todo'[i] = todo'[j] => i = j
    <3> SUFFICES ASSUME NEW i \in DOMAIN todo', NEW j \in DOMAIN todo', todo'[i] = todo'[j]
                 PROVE  i = j
      OBVIOUS
    <3>1. i + 1 = j + 1
      BY <1>1, <2>5
    <3>2. i \in Int /\ j \in Int
      BY <1>2, <2>3
    <3> QED BY <3>1, <3>2
  <2>7. s \notin Range(todo') /\ Range(todo') \subseteq Range(todo)
    BY <1>1, <1>3, <2>5 DEF Range
  <2> QED BY <1>4, <2>1, <2>2, <2>4, <2>6, <2>7
<1> QED BY <1>5, <1>6

LEMMA UnsatisfiedTyped ==
    ASSUME NEW n \in Nat, NEW b \in [Symbols -> 0 .. n], NEW st
    PROVE  Unsatisfied(b, st) \in [Symbols -> 0 .. n]
BY DEF Unsatisfied

\* What an update makes of the time an entry is due: the latest of three.
LEMMA DueFacts ==
    ASSUME Types, NEW batch, NEW all, NEW e \in Entries
    PROVE  /\ DueAfter(batch, all)[e] \in Nat
           /\ DueAfter(batch, all)[e] >= due[e]
           /\ Cluster(e, all) => DueAfter(batch, all)[e] >= now + StopDuration
           /\ (\E i \in DOMAIN batch : IsLoss(batch[i]) /\ Matches(batch[i], e)) =>
                  DueAfter(batch, all)[e] >= now + CoolDuration
           /\ \/ DueAfter(batch, all)[e] = due[e]
              \/ Cluster(e, all) /\ DueAfter(batch, all)[e] = now + StopDuration
              \/ /\ \E i \in DOMAIN batch : IsLoss(batch[i]) /\ Matches(batch[i], e)
                 /\ DueAfter(batch, all)[e] = now + CoolDuration
<1> DEFINE struck == \E i \in DOMAIN batch : IsLoss(batch[i]) /\ Matches(batch[i], e)
           clustered == Cluster(e, all)
           stop == now + StopDuration
           cool == now + CoolDuration
           T == {due[e]} \cup (IF clustered THEN {stop} ELSE {}) \cup (IF struck THEN {cool} ELSE {})
<1>1. due[e] \in Nat /\ stop \in Nat /\ cool \in Nat
  BY Numbers DEF Types, Typed, TypeOK
<1>2. DueAfter(batch, all)[e] = Max(T)
  BY DEF DueAfter
<1> HIDE DEF struck, clustered, stop, cool
<1>3. due[e] \in T /\ T \subseteq {due[e], stop, cool}
  OBVIOUS
<1>4. /\ due[e] \in T
      /\ clustered => stop \in T
      /\ struck => cool \in T
      /\ \A x \in T : x = due[e] \/ (x = stop /\ clustered) \/ (x = cool /\ struck)
  OBVIOUS
<1> HIDE DEF T
<1>5. Max(T) \in T /\ \A k \in T : k <= Max(T)
  <2>1. due[e] \in Int /\ stop \in Int /\ cool \in Int
    BY <1>1
  <2> QED BY <2>1, <1>3, MaxOf, Zenon
<1>6. Max(T) \in Nat
  BY <1>1, <1>3, <1>5
<1>7. Max(T) >= due[e] /\ (clustered => Max(T) >= stop) /\ (struck => Max(T) >= cool)
  BY <1>1, <1>4, <1>5, <1>6
<1> QED BY <1>2, <1>4, <1>5, <1>6, <1>7 DEF struck, clustered, stop, cool

\* What the deque holds after an update: some of the old and the new losses, among
\* them all inside the window, in their order.
LEMMA KeptFacts ==
    ASSUME Types, NEW batch \in Seq(Fill)
    PROVE  LET all == losses \o Losing(batch)
               kept == Updated(locks, losses, batch, now).losses
           IN  /\ all \in Seq(Fill) /\ kept \in Seq(Fill)
               /\ Len(all) = Len(losses) + Len(Losing(batch))
               /\ \A i \in 1 .. Len(all) :
                     all[i] = IF i <= Len(losses) THEN losses[i]
                              ELSE Losing(batch)[i - Len(losses)]
               /\ \E m \in 0 .. Len(all) :
                     /\ Len(kept) = Len(all) - m
                     /\ \A i \in 1 .. (Len(all) - m) : kept[i] = all[m + i]
                     /\ \A i \in 1 .. Len(all) : InWindow(all[i], now) => i > m
                     /\ m < Len(all) => InWindow(all[m + 1], now)
<1> DEFINE all == losses \o Losing(batch)
<1>1. losses \in Seq(Fill) /\ Losing(batch) \in Seq(Fill)
  BY LosingFacts DEF Types, Typed
<1>2. /\ all \in Seq(Fill)
      /\ Len(all) = Len(losses) + Len(Losing(batch))
      /\ \A i \in 1 .. Len(losses) + Len(Losing(batch)) :
            all[i] = IF i <= Len(losses) THEN losses[i] ELSE Losing(batch)[i - Len(losses)]
  BY <1>1, ConcatProperties
<1>3. now \in Int
  BY DEF Types, TypeOK
<1>4. Updated(locks, losses, batch, now).losses = Pruned(all, now)
  BY DEF Updated
<1> HIDE DEF all
<1>5. \E m \in 0 .. Len(all) :
          /\ Pruned(all, now) \in Seq(Fill)
          /\ Len(Pruned(all, now)) = Len(all) - m
          /\ \A i \in 1 .. (Len(all) - m) : Pruned(all, now)[i] = all[m + i]
          /\ \A i \in 1 .. Len(all) : InWindow(all[i], now) => i > m
          /\ m < Len(all) => InWindow(all[m + 1], now)
  BY <1>2, <1>3, PrunedFacts
<1> QED BY <1>2, <1>4, <1>5 DEF all

\* Each of them is a loss that was in the deque or came with the update.
LEMMA KeptFrom ==
    ASSUME Types, NEW batch \in Seq(Fill)
    PROVE  LET kept == Updated(locks, losses, batch, now).losses
           IN  \A i \in DOMAIN kept :
                  /\ kept[i] \in Fill /\ IsLoss(kept[i])
                  /\ \/ \E j \in DOMAIN losses : kept[i] = losses[j]
                     \/ \E j \in DOMAIN batch : kept[i] = batch[j]
<1> DEFINE kept == Updated(locks, losses, batch, now).losses
           fresh == Losing(batch)
           all == losses \o fresh
<1>1. /\ all \in Seq(Fill) /\ kept \in Seq(Fill)
      /\ Len(all) = Len(losses) + Len(fresh)
      /\ \A i \in 1 .. Len(all) : all[i] = IF i <= Len(losses) THEN losses[i]
                                           ELSE fresh[i - Len(losses)]
  BY KeptFacts
<1>2. PICK m \in 0 .. Len(all) :
          /\ Len(kept) = Len(all) - m
          /\ \A i \in 1 .. (Len(all) - m) : kept[i] = all[m + i]
  BY KeptFacts
<1>3. /\ \A j \in DOMAIN losses : IsLoss(losses[j])
      /\ losses \in Seq(Fill) /\ fresh \in Seq(Fill)
      /\ \A k \in DOMAIN fresh :
            IsLoss(fresh[k]) /\ \E j \in DOMAIN batch : fresh[k] = batch[j]
  BY LosingFacts DEF Types, TypeOK, Typed
<1> HIDE DEF kept, fresh, all
<1>4. /\ Len(all) \in Nat /\ Len(losses) \in Nat /\ Len(fresh) \in Nat /\ Len(kept) \in Nat
      /\ DOMAIN losses = 1 .. Len(losses) /\ DOMAIN fresh = 1 .. Len(fresh)
      /\ DOMAIN kept = 1 .. Len(kept)
  BY <1>1, <1>3, LenProperties
<1> SUFFICES ASSUME NEW i \in DOMAIN kept
             PROVE  /\ kept[i] \in Fill /\ IsLoss(kept[i])
                    /\ \/ \E j \in DOMAIN losses : kept[i] = losses[j]
                       \/ \E j \in DOMAIN batch : kept[i] = batch[j]
  BY DEF kept
<1>5. kept[i] \in Fill
  BY <1>1, <1>4, ElementOfSeq
<1>6. m + i \in 1 .. Len(all) /\ kept[i] = all[m + i]
  BY <1>2, <1>4
<1>7. CASE m + i <= Len(losses)
  <2>1. kept[i] = losses[m + i] /\ m + i \in DOMAIN losses
    BY <1>1, <1>4, <1>6, <1>7
  <2> QED BY <1>3, <1>5, <2>1
<1>8. CASE m + i > Len(losses)
  <2>1. m + i - Len(losses) \in DOMAIN fresh
    BY <1>1, <1>4, <1>6, <1>8
  <2>2. kept[i] = fresh[m + i - Len(losses)]
    <3>1. ~(m + i <= Len(losses))
      BY <1>4, <1>8
    <3>2. all[m + i] = fresh[m + i - Len(losses)]
      BY <1>1, <1>6, <3>1
    <3> QED BY <1>6, <3>2, Zenon
  <2> QED BY <1>3, <1>5, <2>1, <2>2
<1> QED BY <1>4, <1>6, <1>7, <1>8

LEMMA TradeTypes ==
    ASSUME Types, NEW e \in Entries, NEW r \in Results, Trade(e, r)
    PROVE  Types'
<1> DEFINE t == [id |-> trades, sym |-> e.sym, side |-> e.side, src |-> e.src, at |-> now,
                 pnl |-> r.pnl, fee |-> r.fee]
<1>1. t \in Fill
  <2>1. r.pnl \in Int /\ r.fee \in Nat
    BY ResultsTyped
  <2> QED BY <2>1 DEF Types, TypeOK, Typed, Entries, Fill
<1>2. e.sym \in Symbols /\ coming[e.sym] \in Seq(Fill) /\ trades' = trades + 1
      /\ coming' = [coming EXCEPT ![e.sym] = Append(coming[e.sym], t)]
  BY DEF Trade, Entries, Types, Typed
<1> HIDE DEF t
<1>3. Append(coming[e.sym], t) \in Seq(Fill)
  BY <1>1, <1>2, AppendProperties
<1>4. coming' \in [Symbols -> Seq(Fill)]
  BY <1>2, <1>3 DEF Types, Typed
<1>5. \A s \in Symbols : \A i \in DOMAIN coming'[s] : coming'[s][i] \in Fill
  BY <1>4, LenProperties, ElementOfSeq
<1>6. trades' \in Nat
  BY <1>2 DEF Types, Typed
<1> QED BY <1>4, <1>5, <1>6 DEF Trade, ledger, bars, guards, Types, TypeOK, Typed, Queue

LEMMA BeginTypes ==
    ASSUME Types, Begin
    PROVE  Types'
<1>1. /\ now' = now + 1 /\ epoch' = epoch + 1 /\ now' \in 0 .. MaxNow /\ epoch' \in 0 .. now'
      /\ epoch' > 0
  BY Numbers DEF Begin, Types, TypeOK
<1>2. stamped \in [Symbols -> 0 .. epoch'] /\ block \in [Symbols -> 0 .. epoch' + 1]
  <2>1. \A n \in 0 .. epoch : n \in 0 .. epoch'
    BY <1>1 DEF Types, TypeOK
  <2>2. \A n \in 0 .. (epoch + 1) : n \in 0 .. (epoch' + 1)
    BY <1>1 DEF Types, TypeOK
  <2> QED BY <2>1, <2>2 DEF Types, TypeOK
<1>3. todo' = Listed /\ phase' = "polls"
  BY DEF Begin
<1>4. Queue'
  BY <1>3, ListedDistinct DEF Queue
<1>5. mark' \in [Symbols -> -1 .. (now' - 1)]
  <2>1. \A n \in -1 .. (now - 1) : n \in -1 .. (now' - 1)
    BY <1>1 DEF Types, TypeOK
  <2> QED BY <2>1 DEF Begin, bars, Types, TypeOK
<1>6. TypeOK'
  BY <1>1, <1>2, <1>3, <1>5 DEF Begin, exchange, guards, bars, Types, TypeOK
<1>7. Typed'
  BY <1>1 DEF Begin, exchange, guards, bars, Types, Typed
<1> QED BY <1>4, <1>6, <1>7 DEF Types

LEMMA PollTypes ==
    ASSUME Types, NEW s \in Symbols, PollOk(s)
    PROVE  Types'
<1>1. /\ Turn(s, "account") /\ phase = "polls"
      /\ coming' = [coming EXCEPT ![s] = <<>>] /\ pollFailed' = [pollFailed EXCEPT ![s] = FALSE]
      /\ UNCHANGED <<now, trades, epoch, stamped, block, fed, mark, behind, torn, blind, sent>>
  BY DEF PollOk, ledger, bars
<1>2. Queue'
  BY <1>1, TurnFacts DEF Queue
<1>3. phase' \in {"polls", "account"}
  BY <1>1, TurnFacts
<1>4. coming' \in [Symbols -> Seq(Fill)]
  BY <1>1, EmptySeq DEF Types, Typed
<1>5. \A u \in Symbols : \A i \in DOMAIN coming'[u] : coming'[u][i] \in Fill
  BY <1>4, LenProperties, ElementOfSeq
<1>6. /\ losses' \in Seq(Fill) /\ told' \subseteq Fill /\ due' \in [Entries -> Nat]
      /\ late' \in BOOLEAN
      /\ \A l \in locks' : l.until \in Nat /\ l.sym \in Symbols \cup {Every}
      /\ \A i \in DOMAIN losses' : losses'[i] \in Fill /\ IsLoss(losses'[i])
  <2>1. CASE UNCHANGED guards
    BY <2>1 DEF guards, Types, Typed, TypeOK
  <2>2. CASE ~UNCHANGED guards
    <3> DEFINE batch == coming[s]
               fresh == {batch[i] : i \in {j \in DOMAIN batch : IsLoss(batch[j])}}
               all == {f \in told \cup fresh : InWindow(f, now)}
               after == Updated(locks, losses, batch, now)
    <3>1. /\ locks' = after.locks /\ losses' = after.losses /\ told' = all
          /\ due' = DueAfter(batch, all)
          /\ late' = (late \/ \E f \in told, g \in fresh : g.at < f.at)
      BY <2>2 DEF PollOk
    <3>2. batch \in Seq(Fill) /\ \A i \in DOMAIN batch : batch[i] \in Fill
      BY DEF Types, Typed, TypeOK
    <3>3. told' \subseteq Fill
      BY <3>1, <3>2 DEF Types, Typed
    <3>4. /\ losses' \in Seq(Fill)
          /\ \A i \in DOMAIN losses' : losses'[i] \in Fill /\ IsLoss(losses'[i])
      BY <3>1, <3>2, KeptFacts, KeptFrom
    <3>5. due' \in [Entries -> Nat]
      <4> HIDE DEF batch, all
      <4>1. \A e \in Entries : DueAfter(batch, all)[e] \in Nat
        BY DueFacts
      <4>2. DueAfter(batch, all) = [e \in Entries |-> DueAfter(batch, all)[e]]
        BY Zenon DEF DueAfter
      <4> QED BY <3>1, <4>1, <4>2
    <3>6. after.locks = Unexpired(locks, now) \cup GuardLocks(after.losses, now)
                                              \cup CooldownLocks(batch, now)
      BY DEF Updated
    <3>7. now \in Nat
      BY DEF Types, TypeOK
    <3>8. \A l \in GuardLocks(losses', now) : l.until \in Nat /\ l.sym \in Symbols \cup {Every}
      <4> SUFFICES ASSUME NEW l \in GuardLocks(losses', now)
                   PROVE  l.until \in Nat /\ l.sym \in Symbols \cup {Every}
        OBVIOUS
      <4>1. PICK i \in DOMAIN losses' : l = LockOf(Scope(losses'[i]), now + StopDuration)
        BY Zenon DEF GuardLocks
      <4>2. losses'[i] \in Fill
        BY <3>4
      <4>3. Scope(losses'[i]).sym \in Symbols \cup {Every}
        BY <4>2 DEF Scope, Fill
      <4>4. l.until = now + StopDuration /\ l.sym = Scope(losses'[i]).sym
        BY <4>1 DEF LockOf
      <4> QED BY <3>7, <4>3, <4>4, Numbers
    <3>9. \A l \in CooldownLocks(batch, now) : l.until \in Nat /\ l.sym \in Symbols \cup {Every}
      <4> SUFFICES ASSUME NEW l \in CooldownLocks(batch, now)
                   PROVE  l.until \in Nat /\ l.sym \in Symbols \cup {Every}
        OBVIOUS
      <4>1. PICK i \in DOMAIN batch : l = LockOf(batch[i], now + CoolDuration)
        BY Zenon DEF CooldownLocks
      <4>2. batch[i].sym \in Symbols
        BY <3>2 DEF Fill
      <4>3. l.until = now + CoolDuration /\ l.sym = batch[i].sym
        BY <4>1 DEF LockOf
      <4> QED BY <3>7, <4>2, <4>3, Numbers
    <3>10. \A l \in Unexpired(locks, now) : l.until \in Nat /\ l.sym \in Symbols \cup {Every}
      BY DEF Unexpired, Types, TypeOK
    <3> QED BY <3>1, <3>3, <3>4, <3>5, <3>6, <3>8, <3>9, <3>10 DEF Types, Typed
  <2> QED BY <2>1, <2>2
<1>7. pollFailed' \in [Symbols -> BOOLEAN]
  BY <1>1 DEF Types, TypeOK
<1>8. TypeOK'
  BY <1>1, <1>3, <1>5, <1>6, <1>7 DEF Types, TypeOK
<1>9. Typed'
  BY <1>1, <1>4, <1>6 DEF Types, Typed
<1> QED BY <1>2, <1>8, <1>9 DEF Types

\* The first and the last bar of an answer that are behind the watermark and closed.
FirstBar(s, end) == Max({0, end - CandleLimit + 1, mark[s] + 1})
LastBar(end) == Min({end, now - 1})

LEMMA NewBarsFacts ==
    ASSUME Types, phase = "candles", NEW s \in Symbols, NEW end \in 0 .. now
    PROVE  LET first == FirstBar(s, end)
               last == LastBar(end)
               new == NewBars(s, end)
           IN  /\ first \in Nat /\ first >= end - CandleLimit + 1 /\ first > mark[s]
               /\ first \in {0, end - CandleLimit + 1, mark[s] + 1}
               /\ last \in Nat /\ last <= end /\ last <= now - 1 /\ last \in {end, now - 1}
               /\ new \in Seq(Nat) /\ Len(new) = IF first <= last THEN last - first + 1 ELSE 0
               /\ \A k \in 1 .. Len(new) : new[k] = first + k - 1
<1> DEFINE low == end - CandleLimit + 1
           next == mark[s] + 1
           first == FirstBar(s, end)
           last == LastBar(end)
<1>1. now \in Nat /\ now > 0 /\ end \in Nat /\ low \in Int /\ mark[s] \in Int /\ next \in Nat
  <2>1. now \in Nat /\ epoch \in 0 .. now /\ epoch > 0 /\ mark[s] \in -1 .. (now - 1)
    BY DEF Types, TypeOK, Typed
  <2> QED BY <2>1, Numbers
<1>2. first \in {0, low, next} /\ \A k \in {0, low, next} : k <= first
  <2>1. 0 \in Int /\ next \in Int
    BY <1>1
  <2> HIDE DEF low, next
  <2>2. Max({0, low, next}) \in {0, low, next} /\ \A k \in {0, low, next} : k <= Max({0, low, next})
    BY <1>1, <2>1, MaxOf, Zenon
  <2> QED BY <2>2 DEF FirstBar, low, next
<1>3. last \in {end, now - 1} /\ \A k \in {end, now - 1} : last <= k
  <2>1. {end, now - 1} \in SUBSET Nat /\ {end, now - 1} # {}
    BY <1>1
  <2> QED BY <2>1, MinOf DEF LastBar
<1>4. /\ first \in Nat /\ first >= low /\ first >= next
      /\ last \in Nat /\ last <= end /\ last <= now - 1
  BY <1>1, <1>2, <1>3
<1>5. first > mark[s]
  BY <1>1, <1>4
<1>6. LET new == NewBars(s, end)
      IN  /\ new \in Seq(Nat) /\ Len(new) = IF first <= last THEN last - first + 1 ELSE 0
          /\ \A k \in 1 .. Len(new) : new[k] = first + k - 1
  <2> DEFINE n == IF first <= last THEN last - first + 1 ELSE 0
  <2>1. NewBars(s, end) = [k \in 1 .. (last - first + 1) |-> first + k - 1]
    BY Zenon DEF NewBars, FirstBar, LastBar
  <2> HIDE DEF first, last
  <2>2. n \in Nat /\ 1 .. n = 1 .. (last - first + 1)
    BY <1>4
  <2>3. \A k \in 1 .. n : first + k - 1 \in Nat
    BY <1>4, <2>2
  <2>4. NewBars(s, end) = [k \in 1 .. n |-> first + k - 1]
    BY <2>1, <2>2
  <2>5. n = IF first <= last THEN last - first + 1 ELSE 0
    OBVIOUS
  <2> HIDE DEF n
  <2> QED BY <2>2, <2>3, <2>4, <2>5
<1> HIDE DEF first, last
<1>7. /\ first \in {0, low, next} /\ first \in Nat /\ first >= low /\ first > mark[s]
      /\ last \in Nat /\ last <= end /\ last <= now - 1 /\ last \in {end, now - 1}
  BY <1>2, <1>3, <1>4, <1>5
<1> QED BY <1>6, <1>7 DEF first, last

\* The watermark never goes back nor past a closed bar, and an answer that holds the
\* last closed bar brings it there.
LEMMA MarkFacts ==
    ASSUME Types, phase = "candles", NEW s \in Symbols, NEW end \in 0 .. now
    PROVE  LET new == NewBars(s, end)
               after == MarkAfter(s, end)
           IN  /\ after \in -1 .. (now - 1) /\ mark[s] <= after
               /\ after = IF Len(new) > 0 THEN LastBar(end) ELSE mark[s]
               /\ end >= now - 1 => after = now - 1
<1> DEFINE new == NewBars(s, end)
           first == FirstBar(s, end)
           last == LastBar(end)
           after == MarkAfter(s, end)
<1>1. /\ first \in Nat /\ first >= end - CandleLimit + 1 /\ first > mark[s]
      /\ first \in {0, end - CandleLimit + 1, mark[s] + 1}
      /\ last \in Nat /\ last <= end /\ last <= now - 1 /\ last \in {end, now - 1}
      /\ new \in Seq(Nat) /\ Len(new) = IF first <= last THEN last - first + 1 ELSE 0
      /\ \A k \in 1 .. Len(new) : new[k] = first + k - 1
  BY NewBarsFacts
<1>2. now \in Nat /\ now > 0 /\ mark[s] \in -1 .. (now - 1) /\ end \in 0 .. now
      /\ CandleLimit \in Nat /\ CandleLimit > 1
  <2>1. now \in Nat /\ epoch \in 0 .. now /\ epoch > 0 /\ mark[s] \in -1 .. (now - 1)
    BY DEF Types, TypeOK, Typed
  <2> QED BY <2>1, Numbers
<1>3. Len(new) \in Nat /\ (new = <<>> <=> Len(new) = 0)
  BY <1>1, EmptySeq, LenProperties
<1>4. Len(new) > 0 => after = new[Len(new)]
  BY <1>3 DEF MarkAfter, Last
<1>5. Len(new) = 0 => after = mark[s]
  BY <1>3 DEF MarkAfter
<1> HIDE DEF new, first, last, after
<1>6. CASE Len(new) > 0
  <2>1. first <= last /\ new[Len(new)] = first + Len(new) - 1 /\ Len(new) = last - first + 1
    BY <1>1, <1>3, <1>6
  <2>2. after = last
    BY <1>1, <1>4, <1>6, <2>1
  <2>3. last >= mark[s] /\ last \in -1 .. (now - 1) /\ (end >= now - 1 => last = now - 1)
    BY <1>1, <1>2, <2>1
  <2> QED BY <1>6, <2>2, <2>3 DEF new, last, after
<1>7. CASE Len(new) = 0
  <2>1. ~(first <= last)
    BY <1>1, <1>3, <1>7
  <2>2. end >= now - 1 => last = now - 1
    BY <1>1, <1>2
  <2>3. end >= now - 1 => mark[s] = now - 1
    BY <1>1, <1>2, <2>1, <2>2
  <2> QED BY <1>2, <1>5, <1>7, <2>3 DEF new, last, after
<1> QED BY <1>3, <1>6, <1>7

\* The bars fed with the first k of an answer behind them.
LEMMA FedTyped ==
    ASSUME Types, phase = "candles", NEW s \in Symbols, NEW end \in 0 .. now,
           NEW k \in 0 .. Len(NewBars(s, end))
    PROVE  LET new == NewBars(s, end)
               sub == SubSeq(new, 1, k)
           IN  /\ new \in Seq(Nat) /\ Len(new) \in Nat /\ k \in Nat
               /\ sub \in Seq(Nat) /\ Len(sub) = k
               /\ \A i \in 1 .. k : sub[i] = new[i]
               /\ k = Len(new) => sub = new
               /\ k = 0 => sub = <<>>
               /\ fed[s] \in Seq(Nat) /\ fed[s] \o sub \in Seq(Nat)
<1> DEFINE new == NewBars(s, end)
           sub == SubSeq(new, 1, k)
<1>1. new \in Seq(Nat) /\ Len(new) \in Nat
  BY NewBarsFacts, LenProperties
<1>2. k \in Nat /\ k <= Len(new) /\ fed[s] \in Seq(Nat)
  BY <1>1 DEF Types, Typed
<1> HIDE DEF new
<1>3. \A i \in 1 .. k : new[i] \in Nat
  BY <1>1, <1>2, ElementOfSeq
<1>4. /\ sub \in Seq(Nat) /\ Len(sub) = IF 1 <= k THEN k - 1 + 1 ELSE 0
      /\ \A i \in 1 .. k - 1 + 1 : sub[i] = new[1 + i - 1]
  BY <1>2, <1>3, SubSeqProperties
<1>5. k = Len(new) => sub = new
  BY <1>1, SubSeqFull
<1>6. k = 0 => sub = <<>>
  BY <1>2, SubSeqEmpty
<1> HIDE DEF sub
<1>7. Len(sub) = k /\ \A i \in 1 .. k : sub[i] = new[i]
  <2>1. Len(sub) = k
    BY <1>2, <1>4
  <2>2. \A i \in 1 .. k : i \in 1 .. k - 1 + 1 /\ 1 + i - 1 = i
    BY <1>2
  <2> QED BY <1>4, <2>1, <2>2
<1>8. fed[s] \o sub \in Seq(Nat)
  BY <1>2, <1>4, ConcatProperties
<1> QED BY <1>1, <1>2, <1>4, <1>5, <1>6, <1>7, <1>8 DEF new, sub

LEMMA CandlesTypes ==
    ASSUME Types, NEW s \in Symbols, CandlesOk(s) \/ CandlesEmpty(s) \/ CandlesFail(s)
    PROVE  Types'
<1>1. /\ Turn(s, "orders") /\ phase = "candles"
      /\ UNCHANGED <<now, exchange, pollFailed, epoch, guards, sent>>
  BY DEF CandlesOk, CandlesEmpty, CandlesFail, ledger, bars
<1>2. Queue'
  BY <1>1, TurnFacts DEF Queue
<1>3. phase' \in {"candles", "orders"}
  BY <1>1, TurnFacts
<1>4. epoch \in Nat /\ epoch + 1 \in Nat /\ epoch > 0 /\ now \in Int
  BY <1>1 DEF Types, TypeOK, Typed
<1>5. stamped' \in [Symbols -> 0 .. epoch]
  <2>1. stamped' = stamped \/ stamped' = [stamped EXCEPT ![s] = epoch]
    BY DEF CandlesOk, CandlesEmpty, CandlesFail, ledger
  <2> QED BY <1>4, <2>1 DEF Types, TypeOK
<1>6. block' \in [Symbols -> 0 .. (epoch + 1)]
  <2>1. CASE CandlesOk(s)
    <3>1. block \in [Symbols -> 0 .. (epoch + 1)]
      BY DEF Types, TypeOK
    <3>2. block' = Unsatisfied(block, stamped')
      BY <2>1 DEF CandlesOk
    <3> QED BY <1>4, <3>1, <3>2, UnsatisfiedTyped
  <2>2. CASE CandlesEmpty(s)
    BY <2>2 DEF CandlesEmpty, ledger, bars, Types, TypeOK
  <2>3. CASE CandlesFail(s)
    <3>1. [block EXCEPT ![s] = FlagEpoch] \in [Symbols -> 0 .. (epoch + 1)]
      BY <1>4 DEF FlagEpoch, Types, TypeOK
    <3> QED BY <1>4, <2>3, <3>1, UnsatisfiedTyped DEF CandlesFail
  <2> QED BY <2>1, <2>2, <2>3
<1>7. fed' \in [Symbols -> Seq(Nat)] /\ mark' \in [Symbols -> -1 .. (now - 1)]
  <2>1. CASE CandlesOk(s)
    <3>1. PICK end \in 0 .. now :
              /\ fed' = [fed EXCEPT ![s] = @ \o NewBars(s, end)]
              /\ mark' = [mark EXCEPT ![s] = MarkAfter(s, end)]
      BY <2>1 DEF CandlesOk
    <3>2. fed[s] \o NewBars(s, end) \in Seq(Nat)
      BY <1>1, NewBarsFacts, ConcatProperties DEF Types, Typed
    <3>3. MarkAfter(s, end) \in -1 .. (now - 1)
      BY <1>1, MarkFacts
    <3> QED BY <3>1, <3>2, <3>3 DEF Types, Typed, TypeOK
  <2>2. CASE CandlesEmpty(s)
    BY <2>2 DEF CandlesEmpty, ledger, bars, Types, Typed, TypeOK
  <2>3. CASE CandlesFail(s)
    <3>1. PICK end \in 0 .. now : \E k \in 0 .. Len(NewBars(s, end)) :
              /\ fed' = [fed EXCEPT ![s] = @ \o SubSeq(NewBars(s, end), 1, k)]
              /\ mark' = mark \/ mark' = [mark EXCEPT ![s] = MarkAfter(s, end)]
      BY <2>3 DEF CandlesFail
    <3>2. \A k \in 0 .. Len(NewBars(s, end)) :
              fed[s] \o SubSeq(NewBars(s, end), 1, k) \in Seq(Nat)
      BY <1>1, FedTyped
    <3>3. MarkAfter(s, end) \in -1 .. (now - 1)
      BY <1>1, MarkFacts
    <3> QED BY <3>1, <3>2, <3>3 DEF Types, Typed, TypeOK
  <2> QED BY <2>1, <2>2, <2>3
<1>8. blind' \subseteq Symbols /\ behind' \subseteq Symbols /\ torn' \subseteq Symbols
  <2>1. CASE CandlesOk(s)
    BY <2>1 DEF CandlesOk, Types, Typed
  <2>2. CASE CandlesEmpty(s)
    BY <2>2 DEF CandlesEmpty, ledger, bars, Types, Typed
  <2>3. CASE CandlesFail(s)
    <3>1. torn' = torn \/ torn' = torn \cup {s}
      BY <2>3 DEF CandlesFail
    <3> QED BY <2>3, <3>1 DEF CandlesFail, Types, Typed
  <2> QED BY <2>1, <2>2, <2>3
<1>9. TypeOK'
  BY <1>1, <1>3, <1>5, <1>6, <1>7 DEF exchange, guards, Types, TypeOK
<1>10. Typed'
  BY <1>1, <1>4, <1>7, <1>8 DEF exchange, guards, Types, Typed
<1> QED BY <1>2, <1>9, <1>10 DEF Types

LEMMA StepTypes ==
    ASSUME Types, [Next]_vars
    PROVE  Types'
<1>1. ASSUME NEW s \in Symbols, PollFails(s) PROVE Types'
  <2>1. Turn(s, "account") /\ phase = "polls"
    BY <1>1 DEF PollFails
  <2>2. Queue' /\ phase' \in {"polls", "account"}
    BY <2>1, TurnFacts DEF Queue
  <2> QED BY <1>1, <2>1, <2>2 DEF PollFails, exchange, ledger, bars, guards, Types, TypeOK, Typed
<1>2. CASE AccountOk
  BY <1>2 DEF AccountOk, exchange, ledger, bars, guards, Types, TypeOK, Typed, Queue
<1>3. CASE AccountFails
  BY <1>3 DEF AccountFails, exchange, ledger, bars, guards, Types, TypeOK, Typed, Queue
<1>4. CASE Place
  <2>1. block' \in [Symbols -> 0 .. (epoch + 1)]
    <3>1. block \in [Symbols -> 0 .. (epoch + 1)] /\ epoch + 1 \in Nat
      BY DEF Types, TypeOK
    <3>2. block' = Unsatisfied(block, stamped)
      BY <1>4 DEF Place
    <3> QED BY <3>1, <3>2, UnsatisfiedTyped
  <2> QED BY <1>4, <2>1 DEF Place, exchange, guards, bars, Types, TypeOK, Typed, Queue
<1>5. CASE End
  BY <1>5 DEF End, exchange, ledger, bars, guards, Types, TypeOK, Typed, Queue
<1>6. CASE Restart
  <2>1. <<>> \in Seq(Fill) /\ <<>> \in Seq(Nat) /\ <<>> \in Seq(Symbols) /\ DOMAIN <<>> = {}
    BY EmptySeq
  <2>2. 0 \in 0 .. now
    BY DEF Types, TypeOK
  <2>3. TypeOK'
    BY <1>6, <2>1, <2>2 DEF Restart, exchange, Types, TypeOK
  <2> QED BY <1>6, <2>1, <2>3 DEF Restart, exchange, Types, Typed, Queue
<1>7. CASE UNCHANGED vars
  BY <1>7 DEF vars, exchange, ledger, bars, guards, Types, TypeOK, Typed, Queue
<1> QED BY <1>1, <1>2, <1>3, <1>4, <1>5, <1>6, <1>7, TradeTypes, BeginTypes, PollTypes, CandlesTypes
        DEF Next

-----------------------------------------------------------------------------
(* The losses told *)

LEMMA InitTold == Init => Told
<1>1. \A s \in Symbols : DOMAIN <<>> = {}
  BY EmptySeq
<1> QED BY <1>1 DEF Init, Told, ComingInOrder, Indexed, LossesDiffer, ToldKept, InTime, Range

LEMMA TradeTold ==
    ASSUME Types, Told, NEW e \in Entries, NEW r \in Results, Trade(e, r)
    PROVE  Told'
<1> DEFINE t == [id |-> trades, sym |-> e.sym, side |-> e.side, src |-> e.src, at |-> now,
                 pnl |-> r.pnl, fee |-> r.fee]
           more == Append(coming[e.sym], t)
<1>1. /\ e.sym \in Symbols /\ coming' = [coming EXCEPT ![e.sym] = more]
      /\ trades' = trades + 1 /\ trades \in Nat /\ t.id = trades /\ t.at = now
      /\ now \in Nat /\ UNCHANGED <<now, losses, told, late>>
  BY DEF Trade, Entries, Types, Typed, TypeOK, guards
<1>2. /\ coming \in [Symbols -> Seq(Fill)] /\ coming' \in [Symbols -> Seq(Fill)]
      /\ losses \in Seq(Fill)
  BY TradeTypes DEF Types, Typed
<1>0. t \in Fill
  <2>1. r.pnl \in Int /\ r.fee \in Nat
    BY ResultsTyped
  <2> QED BY <2>1 DEF Types, TypeOK, Typed, Entries, Fill
<1> HIDE DEF t
<1>3. /\ Len(more) = Len(coming[e.sym]) + 1 /\ Len(coming[e.sym]) \in Nat
      /\ DOMAIN more = 1 .. (Len(coming[e.sym]) + 1) /\ DOMAIN coming[e.sym] = 1 .. Len(coming[e.sym])
      /\ \A i \in 1 .. Len(coming[e.sym]) : more[i] = coming[e.sym][i]
      /\ more[Len(coming[e.sym]) + 1] = t
  <2>1. coming[e.sym] \in Seq(Fill)
    BY <1>1, <1>2
  <2>2. /\ Len(more) = Len(coming[e.sym]) + 1 /\ more \in Seq(Fill)
        /\ \A i \in 1 .. Len(coming[e.sym]) : more[i] = coming[e.sym][i]
        /\ more[Len(coming[e.sym]) + 1] = t
    BY <1>0, <2>1, AppendProperties
  <2> QED BY <2>1, <2>2, LenProperties
<1> HIDE DEF more
<1>4. \A u \in Symbols : \A i \in DOMAIN coming'[u] :
          \/ i \in DOMAIN coming[u] /\ coming'[u][i] = coming[u][i]
          \/ u = e.sym /\ i = Len(coming[u]) + 1 /\ coming'[u][i] = t
  <2> SUFFICES ASSUME NEW u \in Symbols, NEW i \in DOMAIN coming'[u]
               PROVE  \/ i \in DOMAIN coming[u] /\ coming'[u][i] = coming[u][i]
                      \/ u = e.sym /\ i = Len(coming[u]) + 1 /\ coming'[u][i] = t
    OBVIOUS
  <2>1. CASE u # e.sym
    BY <1>1, <1>2, <2>1
  <2>2. CASE u = e.sym
    <3>1. coming'[u] = more
      BY <1>1, <1>2, <2>2
    <3> QED BY <1>3, <2>2, <3>1
  <2> QED BY <2>1, <2>2
<1>5. \A u \in Symbols :
          /\ Len(coming[u]) \in Nat
          /\ \A i \in DOMAIN coming[u] :
                i \in 1 .. Len(coming[u]) /\ coming[u][i].id \in Nat /\ coming[u][i].at \in Nat
  BY <1>2, FillsTyped
<1>6. \A u \in Symbols : \A i \in DOMAIN coming[u] : coming[u][i].id < trades /\ coming[u][i].at <= now
  BY DEF Told, ComingInOrder
<1>7. ComingInOrder'
  <2>1. ASSUME NEW u \in Symbols PROVE Indexed(coming'[u])
    <3> SUFFICES ASSUME NEW i \in DOMAIN coming'[u], NEW j \in DOMAIN coming'[u], i < j
                 PROVE  coming'[u][i].id < coming'[u][j].id /\ coming'[u][i].at <= coming'[u][j].at
      BY DEF Indexed
    <3>1. CASE j \in DOMAIN coming[u] /\ coming'[u][j] = coming[u][j]
      <4>1. i \in DOMAIN coming[u] /\ coming'[u][i] = coming[u][i]
        BY <1>3, <1>4, <1>5, <3>1
      <4> QED BY <3>1, <4>1 DEF Told, ComingInOrder, Indexed
    <3>2. CASE u = e.sym /\ j = Len(coming[u]) + 1 /\ coming'[u][j] = t
      <4>1. i \in DOMAIN coming[u] /\ coming'[u][i] = coming[u][i]
        BY <1>3, <1>4, <3>2
      <4> QED BY <1>1, <1>6, <3>2, <4>1
    <3> QED BY <1>4, <3>1, <3>2
  <2>2. ASSUME NEW u \in Symbols, NEW i \in DOMAIN coming'[u]
        PROVE  coming'[u][i].id < trades' /\ coming'[u][i].at <= now'
    BY <1>1, <1>4, <1>5, <1>6
  <2>3. ASSUME NEW u \in Symbols, NEW i \in DOMAIN coming'[u],
               NEW v \in Symbols \ {u}, NEW j \in DOMAIN coming'[v]
        PROVE  coming'[v][j].id # coming'[u][i].id
    <3>1. CASE coming'[u][i] = t
      <4>1. u = e.sym
        <5>1. CASE i \in DOMAIN coming[u] /\ coming'[u][i] = coming[u][i]
          BY <1>1, <1>5, <1>6, <3>1, <5>1
        <5> QED BY <1>4, <5>1
      <4>2. j \in DOMAIN coming[v] /\ coming'[v][j] = coming[v][j]
        BY <1>4, <4>1
      <4> QED BY <1>1, <1>5, <1>6, <3>1, <4>2
    <3>2. CASE coming'[v][j] = t
      <4>1. v = e.sym
        <5>1. CASE j \in DOMAIN coming[v] /\ coming'[v][j] = coming[v][j]
          BY <1>1, <1>5, <1>6, <3>2, <5>1
        <5> QED BY <1>4, <5>1
      <4>2. i \in DOMAIN coming[u] /\ coming'[u][i] = coming[u][i]
        BY <1>4, <4>1
      <4> QED BY <1>1, <1>5, <1>6, <3>2, <4>2
    <3>3. CASE coming'[u][i] # t /\ coming'[v][j] # t
      BY <1>4, <3>3 DEF Told, ComingInOrder
    <3> QED BY <3>1, <3>2, <3>3
  <2> QED BY <2>1, <2>2, <2>3 DEF ComingInOrder
<1>8. LossesDiffer'
  <2>1. \A i \in DOMAIN losses : losses[i].id \in Nat
    BY <1>2, FillsTyped
  <2>2. \A i \in DOMAIN losses : losses[i].id < trades /\ losses[i].id < trades'
    BY <1>1, <2>1 DEF Told, LossesDiffer
  <2>3. \A i \in DOMAIN losses : \A u \in Symbols : \A j \in DOMAIN coming'[u] :
            coming'[u][j].id # losses[i].id
    <3> SUFFICES ASSUME NEW i \in DOMAIN losses, NEW u \in Symbols, NEW j \in DOMAIN coming'[u]
                 PROVE  coming'[u][j].id # losses[i].id
      OBVIOUS
    <3>1. CASE j \in DOMAIN coming[u] /\ coming'[u][j] = coming[u][j]
      BY <3>1 DEF Told, LossesDiffer
    <3>2. CASE coming'[u][j] = t
      BY <1>1, <2>1, <2>2, <3>2
    <3> QED BY <1>4, <3>1, <3>2
  <2> QED BY <1>1, <2>2, <2>3 DEF Told, LossesDiffer
<1> QED BY <1>1, <1>7, <1>8 DEF Told, ToldKept, InTime

\* The deque and the losses of a poll behind it: no loss twice, and none that waits.
LEMMA AllDiffer ==
    ASSUME Types, Told, NEW s \in Symbols
    PROVE  LET all == losses \o Losing(coming[s])
           IN  /\ \A i, j \in DOMAIN all : all[i].id = all[j].id => i = j
               /\ \A i \in DOMAIN all :
                     /\ all[i].id < trades
                     /\ \A u \in Symbols \ {s} : \A j \in DOMAIN coming[u] : coming[u][j].id # all[i].id
<1> DEFINE fresh == Losing(coming[s])
           all == losses \o fresh
<1>1. coming[s] \in Seq(Fill) /\ losses \in Seq(Fill)
  BY DEF Types, Typed
<1>2. /\ fresh \in Seq(Fill) /\ Indexed(fresh)
      /\ \A k \in DOMAIN fresh : \E i \in DOMAIN coming[s] : fresh[k] = coming[s][i]
  BY <1>1, LosingFacts DEF Told, ComingInOrder
<1>3. /\ all \in Seq(Fill) /\ Len(all) = Len(losses) + Len(fresh)
      /\ \A i \in 1 .. Len(all) : all[i] = IF i <= Len(losses) THEN losses[i]
                                           ELSE fresh[i - Len(losses)]
  BY <1>1, KeptFacts
<1> HIDE DEF fresh, all
<1>4. /\ Len(all) \in Nat /\ DOMAIN all = 1 .. Len(all)
      /\ Len(fresh) \in Nat /\ DOMAIN fresh = 1 .. Len(fresh)
      /\ Len(losses) \in Nat /\ DOMAIN losses = 1 .. Len(losses)
      /\ \A k \in DOMAIN fresh : fresh[k].id \in Nat
  BY <1>1, <1>2, <1>3, FillsTyped
<1>5. \A i \in DOMAIN all :
          \/ i \in DOMAIN losses /\ all[i] = losses[i]
          \/ i > Len(losses) /\ i - Len(losses) \in DOMAIN fresh /\ all[i] = fresh[i - Len(losses)]
  BY <1>3, <1>4
<1>6. \A k \in DOMAIN fresh :
          /\ fresh[k].id < trades
          /\ \A u \in Symbols \ {s} : \A j \in DOMAIN coming[u] : coming[u][j].id # fresh[k].id
          /\ \A i \in DOMAIN losses : losses[i].id # fresh[k].id
  <2> SUFFICES ASSUME NEW k \in DOMAIN fresh
               PROVE  /\ fresh[k].id < trades
                      /\ \A u \in Symbols \ {s} : \A j \in DOMAIN coming[u] : coming[u][j].id # fresh[k].id
                      /\ \A i \in DOMAIN losses : losses[i].id # fresh[k].id
    OBVIOUS
  <2>1. PICK i \in DOMAIN coming[s] : fresh[k] = coming[s][i]
    BY <1>2
  <2> QED BY <2>1 DEF Told, ComingInOrder, LossesDiffer
<1>7. \A k, l \in DOMAIN fresh : fresh[k].id = fresh[l].id => k = l
  BY <1>2, <1>4 DEF Indexed
<1>8. ASSUME NEW i \in DOMAIN all, NEW j \in DOMAIN all, all[i].id = all[j].id PROVE i = j
  <2>1. CASE i \in DOMAIN losses /\ all[i] = losses[i] /\ j \in DOMAIN losses /\ all[j] = losses[j]
    BY <1>8, <2>1 DEF Told, LossesDiffer
  <2>2. CASE /\ i > Len(losses) /\ i - Len(losses) \in DOMAIN fresh /\ all[i] = fresh[i - Len(losses)]
             /\ j > Len(losses) /\ j - Len(losses) \in DOMAIN fresh /\ all[j] = fresh[j - Len(losses)]
    <3>1. i - Len(losses) = j - Len(losses)
      BY <1>7, <1>8, <2>2
    <3> QED BY <1>4, <3>1
  <2> QED BY <1>5, <1>6, <1>8, <2>1, <2>2
<1>9. \A i \in DOMAIN all :
          /\ all[i].id < trades
          /\ \A u \in Symbols \ {s} : \A j \in DOMAIN coming[u] : coming[u][j].id # all[i].id
  BY <1>5, <1>6 DEF Told, LossesDiffer
<1> QED BY <1>8, <1>9 DEF all, fresh

\* An update of losses that come in the order of time leaves the window's, in order.
LEMMA KeptInTime ==
    ASSUME Types, Told, NEW s \in Symbols,
           NEW batch, batch = coming[s],
           NEW new, new = {batch[i] : i \in {j \in DOMAIN batch : IsLoss(batch[j])}},
           ~late, \A f \in told, g \in new : ~(g.at < f.at)
    PROVE  LET kept == Updated(locks, losses, batch, now).losses
           IN  /\ \A i, j \in DOMAIN kept : i < j => kept[i].at <= kept[j].at
               /\ \A i \in DOMAIN kept : InWindow(kept[i], now) /\ kept[i] \in told \cup new
<1> DEFINE fresh == Losing(batch)
           all == losses \o fresh
           kept == Updated(locks, losses, batch, now).losses
<1>1. batch \in Seq(Fill) /\ losses \in Seq(Fill) /\ now \in Nat
  BY DEF Types, Typed, TypeOK
<1>2. /\ fresh \in Seq(Fill) /\ Indexed(fresh)
      /\ \A k \in DOMAIN fresh : fresh[k] \in new
  <2>1. /\ fresh \in Seq(Fill) /\ Indexed(fresh)
        /\ \A k \in DOMAIN fresh : IsLoss(fresh[k]) /\ \E i \in DOMAIN batch : fresh[k] = batch[i]
    BY <1>1, LosingFacts DEF Told, ComingInOrder
  <2> HIDE DEF fresh
  <2> QED BY <2>1
<1>3. /\ all \in Seq(Fill) /\ kept \in Seq(Fill) /\ Len(all) = Len(losses) + Len(fresh)
      /\ \A i \in 1 .. Len(all) : all[i] = IF i <= Len(losses) THEN losses[i]
                                           ELSE fresh[i - Len(losses)]
      /\ \E m \in 0 .. Len(all) :
            /\ Len(kept) = Len(all) - m
            /\ \A i \in 1 .. (Len(all) - m) : kept[i] = all[m + i]
            /\ m < Len(all) => InWindow(all[m + 1], now)
  BY <1>1, KeptFacts
<1> HIDE DEF fresh, all, kept
<1>4. /\ Len(all) \in Nat /\ DOMAIN all = 1 .. Len(all)
      /\ Len(fresh) \in Nat /\ DOMAIN fresh = 1 .. Len(fresh)
      /\ Len(losses) \in Nat /\ DOMAIN losses = 1 .. Len(losses)
      /\ Len(kept) \in Nat /\ DOMAIN kept = 1 .. Len(kept)
      /\ \A k \in DOMAIN fresh : fresh[k].at \in Nat
      /\ \A k \in DOMAIN all : all[k].at \in Nat
      /\ \A k \in DOMAIN losses : losses[k].at \in Nat
  BY <1>1, <1>2, <1>3, FillsTyped
<1>5. \A i \in DOMAIN all :
          \/ i \in DOMAIN losses /\ all[i] = losses[i]
          \/ i > Len(losses) /\ i - Len(losses) \in DOMAIN fresh /\ all[i] = fresh[i - Len(losses)]
  BY <1>3, <1>4
<1>6. /\ \A i \in DOMAIN losses : losses[i] \in told
      /\ \A i, j \in DOMAIN losses : i < j => losses[i].at <= losses[j].at
  BY DEF Told, InTime, Range
<1>7. \A i \in DOMAIN all : all[i] \in told \cup new
  BY <1>2, <1>5, <1>6
<1>8. ASSUME NEW i \in DOMAIN all, NEW j \in DOMAIN all, i < j PROVE all[i].at <= all[j].at
  <2>1. CASE j \in DOMAIN losses /\ all[j] = losses[j]
    BY <1>4, <1>5, <1>6, <1>8, <2>1
  <2>2. CASE j > Len(losses) /\ j - Len(losses) \in DOMAIN fresh /\ all[j] = fresh[j - Len(losses)]
    <3>1. CASE i \in DOMAIN losses /\ all[i] = losses[i]
      <4>1. all[i] \in told /\ all[j] \in new
        BY <1>2, <1>6, <2>2, <3>1
      <4>2. ~(all[j].at < all[i].at)
        BY <4>1
      <4> QED BY <1>4, <4>2
    <3>2. CASE i > Len(losses) /\ i - Len(losses) \in DOMAIN fresh /\ all[i] = fresh[i - Len(losses)]
      <4>1. i - Len(losses) < j - Len(losses)
        BY <1>4, <1>8
      <4> QED BY <1>2, <2>2, <3>2, <4>1 DEF Indexed
    <3> QED BY <1>5, <3>1, <3>2
  <2> QED BY <1>5, <2>1, <2>2
<1>9. PICK m \in 0 .. Len(all) :
          /\ Len(kept) = Len(all) - m
          /\ \A i \in 1 .. (Len(all) - m) : kept[i] = all[m + i]
          /\ m < Len(all) => InWindow(all[m + 1], now)
  BY <1>3
<1>10. \A i \in DOMAIN kept : m + i \in DOMAIN all /\ kept[i] = all[m + i] /\ m + 1 <= m + i
  BY <1>4, <1>9
<1>11. ASSUME NEW i \in DOMAIN kept, NEW j \in DOMAIN kept, i < j PROVE kept[i].at <= kept[j].at
  <2>1. m + i < m + j
    BY <1>4, <1>11
  <2> QED BY <1>8, <1>10, <2>1
<1>12. ASSUME NEW i \in DOMAIN kept PROVE InWindow(kept[i], now) /\ kept[i] \in told \cup new
  <2>1. m < Len(all) /\ m + 1 \in DOMAIN all
    BY <1>4, <1>9, <1>10
  <2>2. all[m + 1].at <= all[m + i].at
    <3>1. CASE i = 1
      BY <1>4, <2>1, <3>1
    <3>2. CASE i # 1
      <4>1. m + 1 < m + i
        BY <1>4, <3>2
      <4> QED BY <1>8, <1>10, <2>1, <4>1
    <3> QED BY <3>1, <3>2
  <2>3. all[m + 1].at >= now - Lookback
    BY <1>9, <2>1 DEF InWindow
  <2>4. kept[i].at >= now - Lookback
    <3> DEFINE x == all[m + 1].at
               y == kept[i].at
    <3>1. x \in Int /\ y \in Int /\ x <= y /\ x >= now - Lookback /\ now - Lookback \in Int
      <4>1. x \in Int
        BY <1>4, <2>1
      <4>2. kept[i] = all[m + i] /\ all[m + i].at \in Int
        BY <1>4, <1>10
      <4> QED BY <1>1, <2>2, <2>3, <4>1, <4>2, Numbers
    <3> HIDE DEF x, y
    <3>2. y >= now - Lookback
      BY <3>1
    <3> QED BY <3>2 DEF y
  <2> QED BY <1>7, <1>10, <2>4 DEF InWindow
<1> QED BY <1>11, <1>12 DEF kept

LEMMA PollTold ==
    ASSUME Types, Told, NEW s \in Symbols, PollOk(s)
    PROVE  Told'
<1> DEFINE batch == coming[s]
           fresh == {batch[i] : i \in {j \in DOMAIN batch : IsLoss(batch[j])}}
           all == losses \o Losing(batch)
           kept == Updated(locks, losses, batch, now).losses
<1>1. /\ coming' = [coming EXCEPT ![s] = <<>>] /\ UNCHANGED <<now, trades>>
      /\ coming \in [Symbols -> Seq(Fill)] /\ batch \in Seq(Fill)
      /\ coming'[s] = <<>> /\ DOMAIN coming'[s] = {}
      /\ \A u \in Symbols \ {s} : coming'[u] = coming[u]
  BY EmptySeq DEF PollOk, Types, Typed
<1>2. ComingInOrder'
  <2>1. ASSUME NEW u \in Symbols PROVE Indexed(coming'[u])
    <3>1. CASE u = s
      BY <1>1, <3>1 DEF Indexed
    <3>2. CASE u # s
      BY <1>1, <3>2 DEF Told, ComingInOrder
    <3> QED BY <3>1, <3>2
  <2>2. ASSUME NEW u \in Symbols, NEW i \in DOMAIN coming'[u]
        PROVE  /\ coming'[u][i].id < trades' /\ coming'[u][i].at <= now'
               /\ \A v \in Symbols \ {u} : \A j \in DOMAIN coming'[v] :
                     coming'[v][j].id # coming'[u][i].id
    <3>1. u # s /\ i \in DOMAIN coming[u] /\ coming'[u] = coming[u]
      BY <1>1
    <3>2. \A v \in Symbols \ {u} : \A j \in DOMAIN coming'[v] :
              v # s /\ j \in DOMAIN coming[v] /\ coming'[v] = coming[v]
      BY <1>1
    <3> QED BY <1>1, <3>1, <3>2 DEF Told, ComingInOrder
  <2> QED BY <2>1, <2>2 DEF ComingInOrder
<1>3. CASE UNCHANGED guards
  <2>1. \A i \in DOMAIN losses : \A u \in Symbols : \A j \in DOMAIN coming'[u] :
            coming'[u][j].id # losses[i].id
    BY <1>1 DEF Told, LossesDiffer
  <2>2. LossesDiffer'
    BY <1>1, <1>3, <2>1 DEF guards, Told, LossesDiffer
  <2> QED BY <1>2, <1>3, <2>2 DEF guards, Told, ToldKept, InTime
<1>4. CASE ~UNCHANGED guards
  <2>1. /\ losses' = kept
        /\ told' = {f \in told \cup fresh : InWindow(f, now)}
        /\ late' = (late \/ \E f \in told, g \in fresh : g.at < f.at)
    BY <1>4 DEF PollOk
  <2>2. /\ all \in Seq(Fill) /\ kept \in Seq(Fill) /\ losses \in Seq(Fill) /\ Losing(batch) \in Seq(Fill)
        /\ Len(all) = Len(losses) + Len(Losing(batch))
        /\ \A i \in 1 .. Len(all) : all[i] = IF i <= Len(losses) THEN losses[i]
                                             ELSE Losing(batch)[i - Len(losses)]
        /\ \E m \in 0 .. Len(all) :
              /\ Len(kept) = Len(all) - m
              /\ \A i \in 1 .. (Len(all) - m) : kept[i] = all[m + i]
              /\ \A i \in 1 .. Len(all) : InWindow(all[i], now) => i > m
    BY <1>1, KeptFacts, LosingFacts DEF Types, Typed
  <2>3. \A f \in fresh : \E k \in DOMAIN Losing(batch) : Losing(batch)[k] = f
    <3>1. \A i \in DOMAIN batch :
              IsLoss(batch[i]) => \E k \in DOMAIN Losing(batch) : Losing(batch)[k] = batch[i]
      BY <1>1, LosingFacts
    <3> HIDE DEF batch
    <3> QED BY <3>1
  <2>4. /\ \A i, j \in DOMAIN all : all[i].id = all[j].id => i = j
        /\ \A i \in DOMAIN all :
              /\ all[i].id < trades
              /\ \A u \in Symbols \ {s} : \A j \in DOMAIN coming[u] : coming[u][j].id # all[i].id
    BY AllDiffer
  <2>5. InTime'
    <3> SUFFICES ASSUME ~late'
                 PROVE  /\ Range(losses') \subseteq told'
                        /\ \A i, j \in DOMAIN losses' : i < j => losses'[i].at <= losses'[j].at
      BY DEF InTime
    <3>1. ~late /\ \A f \in told, g \in fresh : ~(g.at < f.at)
      BY <2>1
    <3>2. batch = coming[s] /\ fresh = {batch[i] : i \in {j \in DOMAIN batch : IsLoss(batch[j])}}
      OBVIOUS
    <3> HIDE DEF batch, fresh
    <3>3. /\ \A i, j \in DOMAIN kept : i < j => kept[i].at <= kept[j].at
          /\ \A i \in DOMAIN kept : InWindow(kept[i], now) /\ kept[i] \in told \cup fresh
      <4>1. \A b, new : /\ b = coming[s] /\ new = {b[i] : i \in {j \in DOMAIN b : IsLoss(b[j])}}
                        /\ \A f \in told, g \in new : ~(g.at < f.at)
                        => LET left == Updated(locks, losses, b, now).losses
                           IN  /\ \A i, j \in DOMAIN left : i < j => left[i].at <= left[j].at
                               /\ \A i \in DOMAIN left : InWindow(left[i], now)
                                                         /\ left[i] \in told \cup new
        BY <3>1, KeptInTime, Zenon
      <4> QED BY <3>1, <3>2, <4>1, Zenon
    <3> HIDE DEF kept
    <3> QED BY <2>1, <3>3 DEF Range
  <2> HIDE DEF all, kept, fresh, batch
  <2>6. PICK m \in 0 .. Len(all) :
            /\ Len(kept) = Len(all) - m
            /\ \A i \in 1 .. (Len(all) - m) : kept[i] = all[m + i]
            /\ \A i \in 1 .. Len(all) : InWindow(all[i], now) => i > m
    BY <2>2
  <2>7. /\ Len(all) \in Nat /\ DOMAIN all = 1 .. Len(all)
        /\ Len(kept) \in Nat /\ DOMAIN kept = 1 .. Len(kept)
        /\ Len(losses) \in Nat /\ DOMAIN losses = 1 .. Len(losses)
        /\ Len(Losing(batch)) \in Nat /\ DOMAIN Losing(batch) = 1 .. Len(Losing(batch))
    BY <2>2, FillsTyped
  <2>8. \A i \in DOMAIN kept : m + i \in DOMAIN all /\ kept[i] = all[m + i]
    BY <2>6, <2>7
  <2>9. LossesDiffer'
    <3>1. ASSUME NEW i \in DOMAIN kept, NEW j \in DOMAIN kept, kept[i].id = kept[j].id PROVE i = j
      <4>1. m + i = m + j
        BY <2>4, <2>8, <3>1
      <4> QED BY <2>7, <4>1
    <3>2. ASSUME NEW i \in DOMAIN kept
          PROVE  /\ kept[i].id < trades
                 /\ \A u \in Symbols : \A j \in DOMAIN coming'[u] : coming'[u][j].id # kept[i].id
      BY <1>1, <2>4, <2>8
    <3> QED BY <1>1, <2>1, <3>1, <3>2 DEF LossesDiffer
  <2>10. ToldKept'
    <3> SUFFICES ASSUME NEW f \in told', InWindow(f, now), f \in told \cup fresh
                 PROVE  f \in Range(kept)
      BY <2>1 DEF ToldKept
    <3>1. \E i \in DOMAIN all : all[i] = f
      <4>1. CASE f \in told
        <5>1. PICK i \in DOMAIN losses : losses[i] = f
          BY <4>1 DEF Told, ToldKept, Range
        <5>2. i \in DOMAIN all /\ all[i] = f
          BY <2>2, <2>7, <5>1
        <5> QED BY <5>2
      <4>2. CASE f \in fresh
        <5>1. PICK k \in DOMAIN Losing(batch) : Losing(batch)[k] = f
          BY <2>3, <4>2
        <5>2. /\ Len(losses) + k \in DOMAIN all /\ ~(Len(losses) + k <= Len(losses))
              /\ Len(losses) + k - Len(losses) = k
          BY <2>2, <2>7
        <5>3. all[Len(losses) + k] = f
          BY <2>2, <2>7, <5>1, <5>2
        <5> QED BY <5>2, <5>3
      <4> QED BY <4>1, <4>2
    <3>2. PICK i \in DOMAIN all : all[i] = f
      BY <3>1
    <3>3. i > m
      BY <2>6, <2>7, <3>2
    <3>4. i - m \in DOMAIN kept /\ kept[i - m] = f
      <4>1. i - m \in 1 .. (Len(all) - m) /\ m + (i - m) = i
        BY <2>6, <2>7, <3>3
      <4> QED BY <2>6, <2>7, <3>2, <4>1
    <3> QED BY <3>4 DEF Range
  <2> QED BY <1>2, <2>5, <2>9, <2>10 DEF Told
<1> QED BY <1>3, <1>4

LEMMA StepTold ==
    ASSUME Types, Told, [Next]_vars
    PROVE  Told'
<1>1. CASE Begin
  <2>1. /\ now' = now + 1 /\ now \in Nat /\ UNCHANGED <<coming, trades, losses, told, late>>
        /\ coming \in [Symbols -> Seq(Fill)]
    BY <1>1 DEF Begin, exchange, guards, Types, Typed, TypeOK
  <2>2. \A s \in Symbols : \A i \in DOMAIN coming[s] : coming[s][i].at \in Nat
    BY <2>1, FillsTyped
  <2>3. \A s \in Symbols : \A i \in DOMAIN coming[s] : coming[s][i].at <= now'
    BY <2>1, <2>2 DEF Told, ComingInOrder
  <2> QED BY <2>1, <2>3 DEF Told, ComingInOrder, LossesDiffer, ToldKept, InTime
<1>2. CASE Restart
  <2>1. losses' = <<>> /\ told' = {} /\ DOMAIN losses' = {} /\ UNCHANGED <<now, coming, trades>>
    BY <1>2, EmptySeq DEF Restart, exchange
  <2> QED BY <2>1 DEF Told, ComingInOrder, LossesDiffer, ToldKept, InTime, Range
<1>3. CASE UNCHANGED <<now, coming, trades, losses, told, late>>
  BY <1>3 DEF Told, ComingInOrder, LossesDiffer, ToldKept, InTime
<1>4. ASSUME NEW s \in Symbols,
             PollFails(s) \/ CandlesOk(s) \/ CandlesEmpty(s) \/ CandlesFail(s)
      PROVE  UNCHANGED <<now, coming, trades, losses, told, late>>
  BY <1>4 DEF PollFails, CandlesOk, CandlesEmpty, CandlesFail, exchange, guards
<1>5. ASSUME AccountOk \/ AccountFails \/ Place \/ End \/ UNCHANGED vars
      PROVE  UNCHANGED <<now, coming, trades, losses, told, late>>
  BY <1>5 DEF AccountOk, AccountFails, Place, End, vars, exchange, guards
<1> QED BY <1>1, <1>2, <1>3, <1>4, <1>5, TradeTold, PollTold DEF Next

-----------------------------------------------------------------------------
(* The locks *)

\* A group of entries of the deque, as positions and as losses.
LEMMA ImageSize ==
    ASSUME NEW s \in Seq(Fill), NEW G \in SUBSET DOMAIN s
    PROVE  LET T == {s[i] : i \in G}
           IN  /\ IsFiniteSet(G) /\ IsFiniteSet(T)
               /\ Cardinality(G) \in Nat /\ Cardinality(T) \in Nat
               /\ Cardinality(T) <= Cardinality(G)
               /\ (\A i, j \in G : s[i] = s[j] => i = j) => Cardinality(T) = Cardinality(G)
<1> DEFINE T == {s[i] : i \in G}
           image == [i \in G |-> s[i]]
<1>1. IsFiniteSet(G)
  <2>1. Len(s) \in Int /\ 1 \in Int /\ G \in SUBSET (1 .. Len(s))
    BY FillsTyped
  <2>2. IsFiniteSet(1 .. Len(s))
    BY <2>1, FS_Interval
  <2> QED BY <2>1, <2>2, FS_Subset
<1>2. image \in Surjection(G, T)
  BY DEF Surjection
<1>3. (\A i, j \in G : s[i] = s[j] => i = j) => image \in Injection(G, T)
  BY DEF Injection, IsInjective
<1> HIDE DEF T, image
<1>4. /\ IsFiniteSet(T) /\ Cardinality(T) <= Cardinality(G)
      /\ image \in Injection(G, T) => Cardinality(T) = Cardinality(G)
  BY <1>1, <1>2, FS_Surjection, Zenon
<1>5. Cardinality(G) \in Nat /\ Cardinality(T) \in Nat
  BY <1>1, <1>4, FS_CardinalityType
<1> QED BY <1>1, <1>3, <1>4, <1>5 DEF T

\* After a poll with fills: a scope's losses in the window are in its group of the
\* deque, and if they were told in the order of time they are all of it.
LEMMA GroupSize ==
    ASSUME Types', Told', NEW scope
    PROVE  LET group == {i \in DOMAIN losses' : Scope(losses'[i]) = scope}
               alike == {g \in told' : Scope(g) = scope}
           IN  /\ Cardinality(group) \in Nat /\ Cardinality(alike) \in Nat
               /\ Cardinality(alike) <= Cardinality(group)
               /\ ~late' => Cardinality(alike) = Cardinality(group)
<1> DEFINE group == {i \in DOMAIN losses' : Scope(losses'[i]) = scope}
           alike == {g \in told' : Scope(g) = scope}
           T == {losses'[i] : i \in group}
<1>1. losses' \in Seq(Fill) /\ group \in SUBSET DOMAIN losses'
  BY DEF Types, Typed
<1>2. \A i, j \in group : losses'[i] = losses'[j] => i = j
  BY DEF Told, LossesDiffer
<1>3. alike \in SUBSET T
  <2> SUFFICES ASSUME NEW g \in told', Scope(g) = scope PROVE g \in T
    OBVIOUS
  <2>1. PICK i \in DOMAIN losses' : losses'[i] = g
    BY DEF Told, ToldKept, Range
  <2> QED BY <2>1
<1>4. ~late' => T = alike
  <2>1. ~late' => \A i \in DOMAIN losses' : losses'[i] \in told'
    BY DEF Told, InTime, Range
  <2> QED BY <1>3, <2>1
<1> HIDE DEF group, alike
<1>5. /\ IsFiniteSet(group) /\ IsFiniteSet(T)
      /\ Cardinality(group) \in Nat /\ Cardinality(T) \in Nat
      /\ Cardinality(T) <= Cardinality(group)
      /\ Cardinality(T) = Cardinality(group)
  <2>1. LET U == {losses'[i] : i \in group}
        IN  /\ IsFiniteSet(group) /\ IsFiniteSet(U)
            /\ Cardinality(group) \in Nat /\ Cardinality(U) \in Nat
            /\ Cardinality(U) <= Cardinality(group)
            /\ (\A i, j \in group : losses'[i] = losses'[j] => i = j) => Cardinality(U) = Cardinality(group)
    BY <1>1, ImageSize, Zenon
  <2> QED BY <1>2, <2>1
<1> HIDE DEF T
<1>6. Cardinality(alike) \in Nat /\ Cardinality(alike) <= Cardinality(T)
  BY <1>3, <1>5, FS_Subset, FS_CardinalityType
<1> QED BY <1>4, <1>5, <1>6 DEF group, alike

LEMMA PollLocked ==
    ASSUME Types, Told, Types', Told', Locked, NEW s \in Symbols, PollOk(s)
    PROVE  Locked'
<1> DEFINE batch == coming[s]
           after == Updated(locks, losses, batch, now)
           struck(e) == \E i \in DOMAIN batch : IsLoss(batch[i]) /\ Matches(batch[i], e)
<1>1. CASE UNCHANGED guards
  BY <1>1 DEF PollOk, guards, Locked, DueIsLocked, LockedIsDue
<1>2. CASE ~UNCHANGED guards
  <2>1. /\ now' = now /\ due' = DueAfter(batch, told') /\ (late => late')
        /\ locks' = Unexpired(locks, now) \cup GuardLocks(losses', now) \cup CooldownLocks(batch, now)
    BY <1>2 DEF PollOk, Updated
  <2>2. \A f \in told' : InWindow(f, now)
    BY <1>2 DEF PollOk
  <2>3. now \in Nat /\ now + StopDuration \in Nat /\ now + CoolDuration \in Nat
    BY Numbers DEF Types, TypeOK
  <2>4. \A e \in Entries : due[e] \in Nat /\ due'[e] \in Nat
    BY DEF Types, Typed
  <2>5. \A l \in locks : l.until \in Nat
    BY DEF Types, TypeOK
  <2>6. ASSUME NEW e \in Entries
        PROVE  /\ due'[e] >= due[e]
               /\ Cluster(e, told') => due'[e] >= now + StopDuration
               /\ struck(e) => due'[e] >= now + CoolDuration
               /\ \/ due'[e] = due[e]
                  \/ Cluster(e, told') /\ due'[e] = now + StopDuration
                  \/ struck(e) /\ due'[e] = now + CoolDuration
    <3> HIDE DEF batch
    <3> QED BY <2>1, DueFacts
  <2>7. \A e : Cluster(e, told') <=>
            \E f \in told' : /\ Matches(Scope(f), e)
                             /\ Cardinality({g \in told' : Scope(g) = Scope(f)}) >= LossLimit
    <3>1. \A f : {g \in told' : Scope(g) = Scope(f) /\ InWindow(g, now)}
                     = {g \in told' : Scope(g) = Scope(f)}
      BY <2>2
    <3> QED BY <3>1 DEF Cluster
  <2>8. \A scope, until, e : Matches(LockOf(scope, until), e) <=> Matches(scope, e)
    BY DEF Matches, LockOf
  <2>9. \A scope, until : LockOf(scope, until).until = until
    BY DEF LockOf
  <2>10. \A l : l \in GuardLocks(losses', now) <=>
            \E i \in DOMAIN losses' :
                /\ l = LockOf(Scope(losses'[i]), now + StopDuration)
                /\ Cardinality({j \in DOMAIN losses' : Scope(losses'[j]) = Scope(losses'[i])}) >= LossLimit
    BY Zenon DEF GuardLocks
  <2>11. \A l : l \in CooldownLocks(batch, now) <=>
            \E i \in DOMAIN batch : IsLoss(batch[i]) /\ l = LockOf(batch[i], now + CoolDuration)
    BY Zenon DEF CooldownLocks
  <2> HIDE DEF batch, after
  <2>12. DueIsLocked'
    <3> SUFFICES ASSUME NEW e \in Entries, ~(due'[e] <= now)
                 PROVE  \E l \in locks' : Matches(l, e) /\ l.until >= due'[e]
      BY <2>1 DEF DueIsLocked
    <3>1. CASE due'[e] = due[e]
      <4>1. PICK l \in locks : Matches(l, e) /\ l.until >= due[e]
        BY <3>1 DEF Locked, DueIsLocked
      <4>2. l.until > now
        BY <2>3, <2>4, <2>5, <3>1, <4>1
      <4>3. l \in Unexpired(locks, now)
        BY <4>2 DEF Unexpired
      <4> QED BY <2>1, <3>1, <4>1, <4>3
    <3>2. CASE Cluster(e, told') /\ due'[e] = now + StopDuration
      <4>1. PICK f \in told' : /\ Matches(Scope(f), e)
                               /\ Cardinality({g \in told' : Scope(g) = Scope(f)}) >= LossLimit
        BY <2>7, <3>2
      <4>2. PICK i \in DOMAIN losses' : losses'[i] = f
        BY DEF Told, ToldKept, Range
      <4>3. Cardinality({j \in DOMAIN losses' : Scope(losses'[j]) = Scope(f)}) >= LossLimit
        <5> DEFINE group == {j \in DOMAIN losses' : Scope(losses'[j]) = Scope(f)}
                   alike == {g \in told' : Scope(g) = Scope(f)}
        <5>1. /\ Cardinality(group) \in Nat /\ Cardinality(alike) \in Nat
              /\ Cardinality(alike) <= Cardinality(group)
          BY GroupSize
        <5>2. Cardinality(alike) >= LossLimit
          BY <4>1
        <5> HIDE DEF group, alike
        <5>3. Cardinality(group) >= LossLimit
          BY <5>1, <5>2, Numbers
        <5> QED BY <5>3 DEF group
      <4>4. LockOf(Scope(f), now + StopDuration) \in locks'
        BY <2>1, <2>10, <4>2, <4>3
      <4> QED BY <2>3, <2>8, <2>9, <3>2, <4>1, <4>4
    <3>3. CASE struck(e) /\ due'[e] = now + CoolDuration
      <4>1. PICK i \in DOMAIN batch : IsLoss(batch[i]) /\ Matches(batch[i], e)
        BY <3>3
      <4>2. LockOf(batch[i], now + CoolDuration) \in locks'
        BY <2>1, <2>11, <4>1
      <4> QED BY <2>3, <2>8, <2>9, <3>3, <4>1, <4>2
    <3> QED BY <2>6, <3>1, <3>2, <3>3
  <2>13. LockedIsDue'
    <3> SUFFICES ASSUME ~late', NEW l \in locks', NEW e \in Entries, Matches(l, e)
                 PROVE  l.until <= due'[e]
      BY DEF LockedIsDue
    <3>1. CASE l \in Unexpired(locks, now)
      <4>1. l \in locks
        BY <3>1 DEF Unexpired
      <4>2. l.until <= due[e]
        BY <2>1, <4>1 DEF Locked, LockedIsDue
      <4> QED BY <2>4, <2>5, <2>6, <4>1, <4>2
    <3>2. CASE l \in GuardLocks(losses', now)
      <4>1. PICK i \in DOMAIN losses' :
                /\ l = LockOf(Scope(losses'[i]), now + StopDuration)
                /\ Cardinality({j \in DOMAIN losses' : Scope(losses'[j]) = Scope(losses'[i])}) >= LossLimit
        BY <2>10, <3>2
      <4>2. losses'[i] \in told'
        BY DEF Told, InTime, Range
      <4>3. Cardinality({g \in told' : Scope(g) = Scope(losses'[i])})
                = Cardinality({j \in DOMAIN losses' : Scope(losses'[j]) = Scope(losses'[i])})
        BY GroupSize
      <4>4. Matches(Scope(losses'[i]), e)
        BY <2>8, <4>1
      <4>5. Cluster(e, told')
        BY <2>7, <4>1, <4>2, <4>3, <4>4
      <4> QED BY <2>3, <2>4, <2>6, <2>9, <4>1, <4>5
    <3>3. CASE l \in CooldownLocks(batch, now)
      <4>1. PICK i \in DOMAIN batch : IsLoss(batch[i]) /\ l = LockOf(batch[i], now + CoolDuration)
        BY <2>11, <3>3
      <4>2. struck(e)
        BY <2>8, <4>1
      <4> QED BY <2>3, <2>4, <2>6, <2>9, <4>1, <4>2
    <3> QED BY <2>1, <3>1, <3>2, <3>3
  <2> QED BY <2>12, <2>13 DEF Locked
<1> QED BY <1>1, <1>2

LEMMA StepLocked ==
    ASSUME Types, Told, Types', Told', Locked, [Next]_vars
    PROVE  Locked'
<1>1. CASE Begin
  <2>1. now' = now + 1 /\ now \in Nat /\ UNCHANGED <<locks, due, late>>
    BY <1>1 DEF Begin, guards, Types, TypeOK
  <2>2. \A e \in Entries : due[e] \in Nat
    BY DEF Types, Typed
  <2>3. \A e \in Entries : due[e] <= now => due[e] <= now'
    BY <2>1, <2>2
  <2> QED BY <2>1, <2>3 DEF Locked, DueIsLocked, LockedIsDue
<1>2. CASE Restart
  <2>1. locks' = {} /\ due' = [e \in Entries |-> 0] /\ now' = now /\ now \in Nat
    BY <1>2 DEF Restart, Types, TypeOK
  <2> QED BY <2>1 DEF Locked, DueIsLocked, LockedIsDue
<1>3. CASE UNCHANGED <<now, locks, due, late>>
  BY <1>3 DEF Locked, DueIsLocked, LockedIsDue
<1>4. ASSUME NEW s \in Symbols,
             PollFails(s) \/ CandlesOk(s) \/ CandlesEmpty(s) \/ CandlesFail(s)
      PROVE  UNCHANGED <<now, locks, due, late>>
  BY <1>4 DEF PollFails, CandlesOk, CandlesEmpty, CandlesFail, guards
<1>5. ASSUME \/ AccountOk \/ AccountFails \/ Place \/ End \/ UNCHANGED vars
             \/ \E e \in Entries, r \in Results : Trade(e, r)
      PROVE  UNCHANGED <<now, locks, due, late>>
  BY <1>5 DEF AccountOk, AccountFails, Place, End, Trade, vars, guards
<1> QED BY <1>1, <1>2, <1>3, <1>4, <1>5, PollLocked DEF Next

-----------------------------------------------------------------------------
(* The freshness ledger, bars *)

\* A block that goes was satisfied; one that stays waits for more than the stamp.
LEMMA UnsatisfiedFacts ==
    ASSUME NEW b, NEW st, NEW s \in Symbols, b[s] \in Nat, st[s] \in Nat
    PROVE  /\ Unsatisfied(b, st)[s] > st[s] <=> b[s] > st[s]
           /\ Unsatisfied(b, st)[s] <= b[s]
           /\ Unsatisfied(b, st)[s] # 0 <=> b[s] > st[s]
BY DEF Unsatisfied

LEMMA StepLedger ==
    ASSUME Types, Ledger, [Next]_vars
    PROVE  Ledger'
<1>1. /\ epoch \in Nat
      /\ \A s \in Symbols : /\ block[s] \in Nat /\ stamped[s] \in Nat /\ stamped[s] <= epoch
                            /\ block[s] <= epoch + 1
  BY DEF Types, TypeOK
<1>2. CASE Begin
  <2>1. epoch' = epoch + 1 /\ UNCHANGED <<block, stamped, blind>>
    BY <1>2 DEF Begin
  <2> QED BY <1>1, <2>1 DEF Ledger, BlindIsBlocked, FlagsOfThisTick
<1>3. ASSUME UNCHANGED <<epoch, block, stamped, blind>>,
             phase' \in {"idle", "orders", "placed"} \/ phase \in {"polls", "account"}
      PROVE  Ledger'
  BY <1>3 DEF Ledger, BlindIsBlocked, FlagsOfThisTick
<1>4. ASSUME NEW s \in Symbols, CandlesOk(s) PROVE Ledger'
  <2>1. /\ Turn(s, "orders") /\ phase = "candles"
        /\ stamped' = [stamped EXCEPT ![s] = epoch] /\ block' = Unsatisfied(block, stamped')
        /\ blind' = blind \ {s} /\ epoch' = epoch
    BY <1>4 DEF CandlesOk
  <2>2. /\ s \in Range(todo)
        /\ phase' = "orders" \/ (phase' = phase /\ Range(todo') \subseteq Range(todo))
    BY <2>1, TurnFacts
  <2>3. stamped \in [Symbols -> 0 .. epoch]
    BY DEF Types, TypeOK
  <2>4. stamped'[s] = epoch /\ \A u \in Symbols \ {s} : stamped'[u] = stamped[u]
    BY <2>1, <2>3
  <2>5. \A u \in Symbols : stamped'[u] \in Nat
    BY <1>1, <2>4
  <2>6. \A u \in Symbols : /\ block'[u] > stamped'[u] <=> block[u] > stamped'[u]
                           /\ block'[u] <= block[u] /\ block'[u] \in Nat
    BY <1>1, <2>1, <2>5, UnsatisfiedFacts DEF Unsatisfied
  <2>7. block[s] <= epoch
    BY <2>1, <2>2 DEF Ledger, FlagsOfThisTick
  <2>8. BlindIsBlocked'
    <3> SUFFICES ASSUME NEW u \in Symbols PROVE u \in blind' <=> block'[u] > stamped'[u]
      BY DEF BlindIsBlocked
    <3>1. CASE u = s
      <4>1. ~(block[s] > epoch)
        BY <1>1, <2>7
      <4> QED BY <2>1, <2>4, <2>6, <3>1, <4>1
    <3>2. CASE u # s
      BY <2>1, <2>4, <2>6, <3>2 DEF Ledger, BlindIsBlocked
    <3> QED BY <3>1, <3>2
  <2>9. FlagsOfThisTick'
    <3> SUFFICES ASSUME NEW u \in Symbols,
                        phase' \in {"polls", "account"} \/ (phase' = "candles" /\ u \in Range(todo'))
                 PROVE  block'[u] <= epoch'
      BY DEF FlagsOfThisTick
    <3>1. block[u] <= epoch
      BY <2>1, <2>2 DEF Ledger, FlagsOfThisTick
    <3>2. block'[u] <= block[u] /\ block'[u] \in Nat /\ block[u] \in Nat
      BY <1>1, <2>6
    <3>3. epoch' = epoch
      BY <2>1
    <3> QED BY <1>1, <3>1, <3>2, <3>3
  <2> QED BY <2>8, <2>9 DEF Ledger
<1>5. ASSUME NEW s \in Symbols, CandlesFail(s) PROVE Ledger'
  <2> DEFINE flagged == [block EXCEPT ![s] = epoch + 1]
  <2>1. /\ Turn(s, "orders") /\ phase = "candles"
        /\ stamped' = stamped /\ block' = Unsatisfied(flagged, stamped)
        /\ blind' = blind \cup {s} /\ epoch' = epoch
    BY <1>5 DEF CandlesFail, FlagEpoch
  <2>2. phase' = "orders" \/ (phase' = phase /\ Range(todo') \subseteq Range(todo) /\ s \notin Range(todo'))
    BY <2>1, TurnFacts
  <2>3. block \in [Symbols -> 0 .. (epoch + 1)]
    BY DEF Types, TypeOK
  <2>4. flagged[s] = epoch + 1 /\ \A u \in Symbols \ {s} : flagged[u] = block[u]
    BY <2>3
  <2> HIDE DEF flagged
  <2>5. \A u \in Symbols : flagged[u] \in Nat
    BY <1>1, <2>4
  <2>6. \A u \in Symbols : /\ block'[u] > stamped[u] <=> flagged[u] > stamped[u]
                           /\ block'[u] <= flagged[u] /\ block'[u] \in Nat
    BY <1>1, <2>1, <2>5, UnsatisfiedFacts DEF Unsatisfied
  <2>7. BlindIsBlocked'
    <3> SUFFICES ASSUME NEW u \in Symbols PROVE u \in blind' <=> block'[u] > stamped[u]
      BY <2>1 DEF BlindIsBlocked
    <3>1. CASE u = s
      <4>1. epoch + 1 > stamped[s]
        BY <1>1
      <4> QED BY <2>1, <2>4, <2>6, <3>1, <4>1
    <3>2. CASE u # s
      BY <2>1, <2>4, <2>6, <3>2 DEF Ledger, BlindIsBlocked
    <3> QED BY <3>1, <3>2
  <2>8. FlagsOfThisTick'
    <3> SUFFICES ASSUME NEW u \in Symbols,
                        phase' \in {"polls", "account"} \/ (phase' = "candles" /\ u \in Range(todo'))
                 PROVE  block'[u] <= epoch'
      BY DEF FlagsOfThisTick
    <3>1. u # s /\ block[u] <= epoch
      BY <2>1, <2>2 DEF Ledger, FlagsOfThisTick
    <3> QED BY <1>1, <2>1, <2>4, <2>6, <3>1
  <2> QED BY <2>7, <2>8 DEF Ledger
<1>6. ASSUME NEW s \in Symbols, CandlesEmpty(s) PROVE Ledger'
  <2>1. Turn(s, "orders") /\ phase = "candles" /\ UNCHANGED <<epoch, block, stamped, blind>>
    BY <1>6 DEF CandlesEmpty, ledger, bars
  <2>2. phase' = "orders" \/ (phase' = phase /\ Range(todo') \subseteq Range(todo))
    BY <2>1, TurnFacts
  <2> QED BY <2>1, <2>2 DEF Ledger, BlindIsBlocked, FlagsOfThisTick
<1>7. CASE Place
  <2>1. /\ phase' = "placed" /\ UNCHANGED <<epoch, stamped, blind>>
        /\ block' = Unsatisfied(block, stamped)
    BY <1>7 DEF Place
  <2>2. \A s \in Symbols : block'[s] > stamped[s] <=> block[s] > stamped[s]
    BY <1>1, <2>1, UnsatisfiedFacts
  <2> QED BY <2>1, <2>2 DEF Ledger, BlindIsBlocked, FlagsOfThisTick
<1>8. CASE Restart
  BY <1>8 DEF Restart, Ledger, BlindIsBlocked, FlagsOfThisTick
<1>9. ASSUME NEW s \in Symbols, PollOk(s) \/ PollFails(s) PROVE Ledger'
  BY <1>3, <1>9 DEF PollOk, PollFails, ledger, bars
<1>10. CASE AccountOk \/ AccountFails \/ End \/ \E e \in Entries, r \in Results : Trade(e, r)
  BY <1>3, <1>10 DEF AccountOk, AccountFails, End, Trade, ledger, bars
<1>11. CASE UNCHANGED vars
  BY <1>11 DEF vars, ledger, bars, Ledger, BlindIsBlocked, FlagsOfThisTick
<1> QED BY <1>2, <1>4, <1>5, <1>6, <1>7, <1>8, <1>9, <1>10, <1>11 DEF Next

-----------------------------------------------------------------------------
(* The bars fed *)

\* A bar of the window below the new watermark was one of the old window, or is one
\* of the answer.
LEMMA InWindowOrNew ==
    ASSUME NEW limit \in Int, NEW old \in Int, NEW end \in Int, NEW first \in Int, NEW last \in Int,
           NEW n \in Int, NEW t \in Int, 0 <= t, t <= last, t > last - limit + 1,
           first \in {0, end - limit + 1, old + 1}, old < last,
           last \in {end, n - 1}, end <= n, last <= end
    PROVE  t >= first \/ (t <= old /\ t > old - limit + 1)
<1>1. CASE first = 0
  BY <1>1
<1>2. CASE first = old + 1
  BY <1>2
<1>3. CASE first = end - limit + 1
  <2>1. end <= last + 1
    OBVIOUS
  <2> QED BY <1>3, <2>1
<1> QED BY <1>1, <1>2, <1>3

\* Bars of an answer continue those fed, and all of them leave no gap.
LEMMA FedFacts ==
    ASSUME Types, phase = "candles", FedInOrder, NEW s \in Symbols, NEW end \in 0 .. now,
           NEW k \in 0 .. Len(NewBars(s, end))
    PROVE  LET all == fed[s] \o SubSeq(NewBars(s, end), 1, k)
               after == MarkAfter(s, end)
           IN  /\ Range(fed[s]) \subseteq Range(all) /\ Range(all) \subseteq 0 .. (now - 1)
               /\ s \notin torn =>
                     /\ \A i, j \in DOMAIN all : i < j => all[i] < all[j]
                     /\ \A i \in DOMAIN all : all[i] <= after
               /\ k = Len(NewBars(s, end)) =>
                     {t \in 0 .. after : t > after - CandleLimit + 1} \subseteq Range(all)
<1> DEFINE old == fed[s]
           new == NewBars(s, end)
           sub == SubSeq(new, 1, k)
           first == FirstBar(s, end)
           last == LastBar(end)
           after == MarkAfter(s, end)
           all == old \o sub
           m == mark[s]
<1>1. /\ now \in Nat /\ end \in Int /\ end <= now /\ CandleLimit \in Nat
      /\ m \in -1 .. (now - 1) /\ after \in -1 .. (now - 1) /\ m <= after
      /\ after = IF Len(new) > 0 THEN last ELSE m
  <2>1. now \in Nat /\ m \in -1 .. (now - 1)
    BY DEF Types, TypeOK
  <2> QED BY <2>1, MarkFacts, Numbers
<1>2. /\ first \in Nat /\ first > m
      /\ first \in {0, end - CandleLimit + 1, m + 1}
      /\ last \in Nat /\ last <= end /\ last <= now - 1 /\ last \in {end, now - 1}
      /\ Len(new) = IF first <= last THEN last - first + 1 ELSE 0
      /\ \A i \in 1 .. Len(new) : new[i] = first + i - 1
  BY NewBarsFacts
<1>3. /\ new \in Seq(Nat) /\ Len(new) \in Nat /\ k \in Nat /\ k <= Len(new)
      /\ sub \in Seq(Nat) /\ Len(sub) = k /\ \A i \in 1 .. k : sub[i] = new[i]
      /\ old \in Seq(Nat) /\ all \in Seq(Nat)
  BY FedTyped
<1>4. /\ Range(old) \subseteq 0 .. (now - 1)
      /\ s \notin torn => /\ \A i, j \in DOMAIN old : i < j => old[i] < old[j]
                          /\ \A i \in DOMAIN old : old[i] <= m
      /\ {t \in 0 .. m : t > m - CandleLimit + 1} \subseteq Range(old)
  BY DEF FedInOrder, FedOf
<1> HIDE DEF old, new, sub, first, last, after, m
<1>5. /\ Len(all) = Len(old) + Len(sub)
      /\ \A i \in 1 .. Len(old) + Len(sub) : all[i] = IF i <= Len(old) THEN old[i] ELSE sub[i - Len(old)]
  BY <1>3, ConcatProperties
<1> HIDE DEF all
<1>6. Len(old) \in Nat /\ DOMAIN old = 1 .. Len(old) /\ DOMAIN all = 1 .. (Len(old) + k)
      /\ \A i \in DOMAIN old : old[i] \in Nat
  <2>1. Len(old) \in Nat /\ DOMAIN old = 1 .. Len(old) /\ DOMAIN all = 1 .. Len(all)
    BY <1>3, LenProperties
  <2> QED BY <1>3, <1>5, <2>1, ElementOfSeq
<1>7. \A i \in 1 .. k : sub[i] = first + i - 1
  <2> SUFFICES ASSUME NEW i \in 1 .. k PROVE sub[i] = first + i - 1
    OBVIOUS
  <2>1. i \in 1 .. Len(new) /\ sub[i] = new[i]
    BY <1>3
  <2> QED BY <1>2, <2>1
<1>8. \A i \in DOMAIN all :
          \/ i \in DOMAIN old /\ all[i] = old[i]
          \/ i > Len(old) /\ i - Len(old) \in 1 .. k /\ all[i] = first + (i - Len(old)) - 1
  <2> SUFFICES ASSUME NEW i \in DOMAIN all
               PROVE  \/ i \in DOMAIN old /\ all[i] = old[i]
                      \/ /\ i > Len(old) /\ i - Len(old) \in 1 .. k
                         /\ all[i] = first + (i - Len(old)) - 1
    OBVIOUS
  <2>1. i \in 1 .. Len(old) + Len(sub) /\ Len(sub) = k
    BY <1>3, <1>6
  <2>2. i \in 1 .. (Len(old) + k) /\ Len(old) \in Nat /\ k \in Nat
    BY <1>3, <1>6
  <2>3. i > Len(old) => i - Len(old) \in 1 .. k /\ ~(i <= Len(old))
    BY <2>2
  <2> QED BY <1>5, <1>6, <1>7, <2>1, <2>2, <2>3
<1>9. /\ \A i \in DOMAIN old : i \in DOMAIN all /\ all[i] = old[i]
      /\ \A i \in 1 .. k : Len(old) + i \in DOMAIN all /\ all[Len(old) + i] = first + i - 1
  <2>1. ASSUME NEW i \in DOMAIN old PROVE i \in DOMAIN all /\ all[i] = old[i]
    <3>1. i \in 1 .. (Len(old) + k) /\ i \in 1 .. Len(old) + Len(sub) /\ i <= Len(old)
      BY <1>3, <1>6
    <3> QED BY <1>5, <1>6, <3>1
  <2>2. \A i \in 1 .. k : /\ Len(old) + i \in 1 .. (Len(old) + k)
                          /\ ~(Len(old) + i <= Len(old)) /\ Len(old) + i - Len(old) = i
    BY <1>3, <1>6
  <2>3. \A i \in 1 .. k : Len(old) + i \in 1 .. Len(old) + Len(sub)
    BY <1>3, <2>2
  <2>4. \A i \in 1 .. k : all[Len(old) + i] = sub[i]
    BY <1>5, <2>2, <2>3
  <2> QED BY <1>6, <1>7, <2>1, <2>2, <2>4
<1>10. Range(old) \subseteq Range(all)
  BY <1>9 DEF Range
<1>11. ASSUME NEW i \in 1 .. k
       PROVE  first + i - 1 \in 0 .. (now - 1) /\ first + i - 1 <= after /\ first + i - 1 > m
  <2>1. Len(new) > 0 /\ after = last /\ Len(new) = last - first + 1
    BY <1>1, <1>2, <1>3
  <2> QED BY <1>1, <1>2, <1>3, <2>1
<1>12. Range(all) \subseteq 0 .. (now - 1)
  <2> SUFFICES ASSUME NEW i \in DOMAIN all PROVE all[i] \in 0 .. (now - 1)
    BY DEF Range
  <2>1. CASE i \in DOMAIN old /\ all[i] = old[i]
    BY <1>4, <2>1 DEF Range
  <2>2. CASE i - Len(old) \in 1 .. k /\ all[i] = first + (i - Len(old)) - 1
    BY <1>11, <2>2
  <2> QED BY <1>8, <2>1, <2>2
<1>13. ASSUME s \notin torn, NEW i \in DOMAIN all PROVE all[i] <= after
  <2>1. CASE i \in DOMAIN old /\ all[i] = old[i]
    BY <1>1, <1>4, <1>6, <1>13, <2>1
  <2>2. CASE i - Len(old) \in 1 .. k /\ all[i] = first + (i - Len(old)) - 1
    BY <1>11, <2>2
  <2> QED BY <1>8, <2>1, <2>2
<1>14. ASSUME s \notin torn, NEW i \in DOMAIN all, NEW j \in DOMAIN all, i < j
       PROVE  all[i] < all[j]
  <2>1. CASE i \in DOMAIN old /\ all[i] = old[i] /\ j \in DOMAIN old /\ all[j] = old[j]
    BY <1>4, <1>14, <2>1
  <2>2. CASE /\ i \in DOMAIN old /\ all[i] = old[i]
             /\ j - Len(old) \in 1 .. k /\ all[j] = first + (j - Len(old)) - 1
    <3> DEFINE later == first + (j - Len(old)) - 1
    <3>1. all[i] <= m /\ later > m /\ all[j] = later
      BY <1>4, <1>11, <1>14, <2>2
    <3>2. all[i] \in Int /\ m \in Int /\ later \in Int
      BY <1>1, <1>2, <1>6, <2>2
    <3> HIDE DEF later
    <3> QED BY <3>1, <3>2
  <2>3. CASE /\ i > Len(old) /\ all[i] = first + (i - Len(old)) - 1
             /\ j > Len(old) /\ all[j] = first + (j - Len(old)) - 1
    BY <1>2, <1>6, <1>14, <2>3
  <2>4. CASE i > Len(old) /\ j \in DOMAIN old
    BY <1>6, <1>14, <2>4
  <2> QED BY <1>8, <2>1, <2>2, <2>3, <2>4
<1>15. ASSUME k = Len(new), NEW t \in 0 .. after, t > after - CandleLimit + 1 PROVE t \in Range(all)
  <2>1. CASE Len(new) = 0
    BY <1>1, <1>4, <1>10, <1>15, <2>1
  <2>2. CASE Len(new) > 0
    <3>1. after = last /\ first <= last /\ Len(new) = last - first + 1
      BY <1>1, <1>2, <2>2
    <3>2. t >= first \/ (t <= m /\ t > m - CandleLimit + 1)
      <4>1. t \in Int /\ 0 <= t /\ t <= last /\ t > last - CandleLimit + 1
        BY <1>1, <1>15, <3>1
      <4>2. m \in Int /\ m < last /\ first \in Int /\ last \in Int /\ now \in Int /\ CandleLimit \in Int
        BY <1>1, <1>2, <3>1
      <4> QED BY <1>1, <1>2, <4>1, <4>2, InWindowOrNew
    <3>3. CASE t >= first
      <4>1. t - first + 1 \in 1 .. k /\ first + (t - first + 1) - 1 = t
        BY <1>1, <1>2, <1>15, <3>1, <3>3
      <4> QED BY <1>9, <4>1 DEF Range
    <3>4. CASE t <= m /\ t > m - CandleLimit + 1
      BY <1>1, <1>4, <1>10, <1>15, <3>4
    <3> QED BY <3>2, <3>3, <3>4
  <2> QED BY <1>3, <2>1, <2>2
<1> QED BY <1>10, <1>12, <1>13, <1>14, <1>15 DEF all, after, new, old, sub

LEMMA StepFed ==
    ASSUME Types, Types', FedInOrder, [Next]_vars
    PROVE  FedInOrder'
<1>1. CASE Begin
  <2>1. /\ now' = now + 1 /\ epoch' = epoch + 1 /\ UNCHANGED <<fed, mark, torn, stamped>>
        /\ now \in Nat /\ epoch \in Nat
    BY <1>1 DEF Begin, bars, Types, TypeOK
  <2>2. \A s \in Symbols : stamped[s] \in Nat /\ stamped[s] <= epoch
    BY DEF Types, TypeOK
  <2>3. \A s \in Symbols : stamped'[s] # epoch'
    BY <2>1, <2>2
  <2>4. 0 .. (now - 1) \subseteq 0 .. (now' - 1)
    BY <2>1
  <2> QED BY <2>1, <2>3, <2>4 DEF FedInOrder, FedOf
<1>2. ASSUME NEW s \in Symbols, NEW u \in Symbols \ {s}, CandlesOk(s) \/ CandlesFail(s)
      PROVE  FedOf(u)'
  <2>1. /\ UNCHANGED <<now, epoch>> /\ fed'[u] = fed[u] /\ mark'[u] = mark[u]
        /\ stamped'[u] = stamped[u] /\ (u \in behind' <=> u \in behind) /\ (u \in torn' <=> u \in torn)
    <3>1. CASE CandlesOk(s)
      BY <1>2, <3>1 DEF CandlesOk, Types, Typed, TypeOK
    <3>2. CASE CandlesFail(s)
      BY <1>2, <3>2 DEF CandlesFail, Types, Typed, TypeOK
    <3> QED BY <1>2, <3>1, <3>2
  <2> QED BY <2>1 DEF FedInOrder, FedOf
<1>3. ASSUME NEW s \in Symbols, CandlesOk(s) PROVE FedOf(s)'
  <2>1. PICK end \in 0 .. now :
            /\ fed' = [fed EXCEPT ![s] = @ \o NewBars(s, end)]
            /\ mark' = [mark EXCEPT ![s] = MarkAfter(s, end)]
            /\ behind' = IF end < now - 1 THEN behind \cup {s} ELSE behind \ {s}
    BY <1>3 DEF CandlesOk
  <2>2. phase = "candles" /\ now' = now /\ epoch' = epoch /\ torn' = torn /\ now \in Nat
    BY <1>3 DEF CandlesOk, Types, TypeOK
  <2> DEFINE new == NewBars(s, end)
             n == Len(new)
  <2>3. n \in 0 .. n /\ SubSeq(new, 1, n) = new
    BY <2>2, NewBarsFacts, LenProperties, SubSeqFull
  <2>4. fed'[s] = fed[s] \o SubSeq(new, 1, n) /\ mark'[s] = MarkAfter(s, end)
    BY <2>1, <2>3 DEF Types, Typed, TypeOK
  <2>5. s \notin behind' => mark'[s] = now - 1
    <3>1. s \notin behind' => end >= now - 1
      BY <2>1, <2>2
    <3> QED BY <2>2, <2>4, <3>1, MarkFacts
  <2> HIDE DEF n, new
  <2>6. /\ Range(fed'[s]) \subseteq 0 .. (now - 1)
        /\ s \notin torn =>
              /\ \A i, j \in DOMAIN fed'[s] : i < j => fed'[s][i] < fed'[s][j]
              /\ \A i \in DOMAIN fed'[s] : fed'[s][i] <= mark'[s]
        /\ {t \in 0 .. mark'[s] : t > mark'[s] - CandleLimit + 1} \subseteq Range(fed'[s])
    BY <2>2, <2>3, <2>4, FedFacts DEF n, new
  <2> QED BY <2>2, <2>5, <2>6 DEF FedOf
<1>4. ASSUME NEW s \in Symbols, CandlesFail(s) PROVE FedOf(s)'
  <2>1. PICK end \in 0 .. now : \E k \in 0 .. Len(NewBars(s, end)) :
            /\ fed' = [fed EXCEPT ![s] = @ \o SubSeq(NewBars(s, end), 1, k)]
            /\ \/ mark' = mark /\ torn' = IF k = 0 THEN torn ELSE torn \cup {s}
               \/ /\ k = Len(NewBars(s, end))
                  /\ mark' = [mark EXCEPT ![s] = MarkAfter(s, end)] /\ torn' = torn
    BY <1>4 DEF CandlesFail
  <2> PICK k \in 0 .. Len(NewBars(s, end)) :
            /\ fed' = [fed EXCEPT ![s] = @ \o SubSeq(NewBars(s, end), 1, k)]
            /\ \/ mark' = mark /\ torn' = IF k = 0 THEN torn ELSE torn \cup {s}
               \/ /\ k = Len(NewBars(s, end))
                  /\ mark' = [mark EXCEPT ![s] = MarkAfter(s, end)] /\ torn' = torn
    BY <2>1
  <2>2. /\ phase = "candles" /\ UNCHANGED <<now, epoch, stamped, behind>>
        /\ now \in Nat /\ mark[s] \in -1 .. (now - 1)
    BY <1>4 DEF CandlesFail, Types, TypeOK
  <2> DEFINE all == fed[s] \o SubSeq(NewBars(s, end), 1, k)
             after == MarkAfter(s, end)
  <2>3. fed'[s] = all
    BY <2>1 DEF Types, Typed
  <2>4. FedOf(s)
    BY DEF FedInOrder
  <2>5. /\ Range(fed[s]) \subseteq Range(all) /\ Range(all) \subseteq 0 .. (now - 1)
        /\ s \notin torn =>
              /\ \A i, j \in DOMAIN all : i < j => all[i] < all[j]
              /\ \A i \in DOMAIN all : all[i] <= after
        /\ k = Len(NewBars(s, end)) =>
              {t \in 0 .. after : t > after - CandleLimit + 1} \subseteq Range(all)
    BY <2>2, FedFacts
  <2>6. k = 0 => all = fed[s]
    BY <2>2, FedTyped, ConcatEmptySeq
  <2>7. after \in -1 .. (now - 1) /\ mark[s] <= after
    BY <2>2, MarkFacts
  <2> HIDE DEF all, after
  <2>8. CASE mark' = mark /\ torn' = IF k = 0 THEN torn ELSE torn \cup {s}
    <3>1. CASE k = 0
      BY <2>2, <2>3, <2>4, <2>6, <2>8, <3>1 DEF FedOf
    <3>2. CASE k # 0
      <4>1. s \in torn' /\ mark'[s] = mark[s]
        BY <2>8, <3>2
      <4> QED BY <2>2, <2>3, <2>4, <2>5, <4>1 DEF FedOf
    <3> QED BY <3>1, <3>2
  <2>9. CASE k = Len(NewBars(s, end)) /\ mark' = [mark EXCEPT ![s] = after] /\ torn' = torn
    <3>1. mark'[s] = after
      BY <2>9 DEF Types, TypeOK
    <3>2. mark[s] = now - 1 => after = now - 1
      BY <2>2, <2>7
    <3> QED BY <2>2, <2>3, <2>4, <2>5, <2>9, <3>1, <3>2 DEF FedOf
  <2> QED BY <2>1, <2>8, <2>9 DEF after
<1>5. CASE Restart
  <2>1. /\ fed' = [s \in Symbols |-> <<>>] /\ mark' = [s \in Symbols |-> -1]
        /\ epoch' = 0 /\ now' = now /\ DOMAIN <<>> = {}
    BY <1>5, EmptySeq DEF Restart
  <2>2. \A s \in Symbols : fed'[s] = <<>> /\ mark'[s] = -1 /\ {t \in 0 .. -1 : t > -1 - CandleLimit + 1} = {}
    BY <2>1
  <2> QED BY <2>1, <2>2 DEF FedInOrder, FedOf, Range
<1>6. CASE UNCHANGED <<now, epoch, stamped, fed, mark, behind, torn>>
  BY <1>6 DEF FedInOrder, FedOf
<1>7. ASSUME NEW s \in Symbols, PollOk(s) \/ PollFails(s) \/ CandlesEmpty(s)
      PROVE  UNCHANGED <<now, epoch, stamped, fed, mark, behind, torn>>
  BY <1>7 DEF PollOk, PollFails, CandlesEmpty, ledger, bars
<1>8. ASSUME \/ AccountOk \/ AccountFails \/ Place \/ End \/ UNCHANGED vars
              \/ \E e \in Entries, r \in Results : Trade(e, r)
       PROVE  UNCHANGED <<now, epoch, stamped, fed, mark, behind, torn>>
  BY <1>8 DEF AccountOk, AccountFails, Place, End, Trade, vars, ledger, bars
<1>9. ASSUME NEW s \in Symbols, CandlesOk(s) \/ CandlesFail(s) PROVE FedInOrder'
  <2>1. \A u \in Symbols : FedOf(u)'
    BY <1>2, <1>3, <1>4, <1>9
  <2> QED BY <2>1 DEF FedInOrder
<1> QED BY <1>1, <1>5, <1>6, <1>7, <1>8, <1>9 DEF Next

-----------------------------------------------------------------------------
(* What is sent *)

LEMMA StepSends ==
    ASSUME Types, Sends, [Next]_vars
    PROVE  Sends'
<1>1. CASE Place
  <2>1. /\ UNCHANGED <<now, locks, pollFailed, stamped>> /\ sent' = {e \in Entries : Passes(e)}
        /\ block' = Unsatisfied(block, stamped)
    BY <1>1 DEF Place, guards
  <2>2. \A s \in Symbols : Unsatisfied(block', stamped')[s] = Unsatisfied(block, stamped)[s]
    <3>1. \A s \in Symbols : block[s] \in Nat /\ stamped[s] \in Nat
      BY DEF Types, TypeOK
    <3> QED BY <2>1, <3>1 DEF Unsatisfied
  <2>3. \A s \in Symbols : RiskIncreasingBlocked(s)' <=> RiskIncreasingBlocked(s)
    BY <2>1, <2>2 DEF RiskIncreasingBlocked
  <2>4. \A e \in Entries : Passes(e)' <=> Passes(e)
    BY <2>1, <2>3 DEF Passes, IsLocked, Unexpired, Entries
  <2> QED BY <2>1, <2>4 DEF Sends
<1>2. CASE UNCHANGED vars
  BY <1>2 DEF vars, ledger, bars, guards, Sends, Passes, IsLocked, Unexpired, RiskIncreasingBlocked, Unsatisfied
<1>3. ASSUME NEW s \in Symbols,
             PollOk(s) \/ PollFails(s) \/ CandlesOk(s) \/ CandlesEmpty(s) \/ CandlesFail(s)
      PROVE  phase' # "placed"
  <2>1. \/ Turn(s, "account") /\ phase = "polls"
        \/ Turn(s, "orders") /\ phase = "candles"
    BY <1>3 DEF PollOk, PollFails, CandlesOk, CandlesEmpty, CandlesFail
  <2> QED BY <2>1, TurnFacts
<1>4. ASSUME \/ Begin \/ AccountOk \/ AccountFails \/ End \/ Restart
             \/ \E e \in Entries, r \in Results : Trade(e, r)
      PROVE  phase' # "placed"
  BY <1>4 DEF Begin, AccountOk, AccountFails, End, Restart, Trade
<1> QED BY <1>1, <1>2, <1>3, <1>4 DEF Next, Sends

LEMMA Inductive == Spec => []IInv
<1>1. Init => IInv
  <2> SUFFICES ASSUME Init PROVE IInv
    OBVIOUS
  <2>1. Types /\ Told
    BY InitTypes, InitTold
  <2>2. DOMAIN <<>> = {}
    BY EmptySeq
  <2> QED BY <2>1, <2>2
          DEF Init, IInv, Locked, DueIsLocked, LockedIsDue, Ledger, BlindIsBlocked, FlagsOfThisTick,
              FedInOrder, FedOf, Range, Sends
<1>2. IInv /\ [Next]_vars => IInv'
  BY StepTypes, StepTold, StepLocked, StepLedger, StepFed, StepSends DEF IInv
<1> QED BY <1>1, <1>2, PTL DEF Spec

-----------------------------------------------------------------------------
(* The theorems *)

\* The types hold: locks have a time and a scope, the deque keeps losses, and no
\* block waits for an epoch beyond the tick after this one.
THEOREM GateTypes == Spec => []TypeOK
<1>1. IInv => TypeOK
  BY DEF IInv, Types
<1> QED BY <1>1, Inductive, PTL

\* No entry goes out for a symbol whose fills this tick could not fetch or whose
\* last answer about candles was an error, nor on a bar half formed or with one left
\* out below the watermark. What it does not say: an answer may be an old one, and
\* then stamps the surface all the same (behind), and after one that broke off among
\* its bars those are fed again (torn) (_risk_increasing_blocked, FreshnessLedger,
\* _refresh_candles).
THEOREM GateNoBlindEntry == Spec => []NoBlindEntry
<1>1. IInv => NoBlindEntry
  <2> SUFFICES ASSUME IInv, phase = "placed", NEW e \in sent
               PROVE  ~pollFailed[e.sym] /\ e.sym \notin blind /\ IndicatorsSound(e.sym)
    BY DEF NoBlindEntry
  <2>1. e \in Entries /\ ~RiskIncreasingBlocked(e.sym) /\ e.sym \in Symbols
    BY DEF IInv, Sends, Passes, Entries
  <2>2. block[e.sym] \in Nat /\ stamped[e.sym] \in Nat
    BY <2>1 DEF IInv, Types, TypeOK
  <2>3. ~pollFailed[e.sym] /\ ~(block[e.sym] > stamped[e.sym])
    BY <2>1, <2>2, UnsatisfiedFacts DEF RiskIncreasingBlocked
  <2>4. epoch > 0
    BY DEF IInv, Types, Typed
  <2>5. IndicatorsSound(e.sym)
    BY <2>1, <2>4 DEF IInv, FedInOrder, FedOf, IndicatorsSound
  <2> QED BY <2>1, <2>3, <2>5 DEF IInv, Ledger, BlindIsBlocked
<1> QED BY <1>1, Inductive, PTL

\* No entry goes out before its time is up, and as long as losses were told in the
\* order of time nothing but a failed poll, a failed candle answer or that time holds
\* one back (StoplossGuard, CooldownPeriod, ProtectionManager).
THEOREM GateHeldWhileDue == Spec => []HeldWhileDue
<1>1. IInv => HeldWhileDue
  <2> SUFFICES ASSUME IInv, phase = "placed"
               PROVE  /\ \A e \in sent : now >= due[e]
                      /\ \A e \in Entries \ sent :
                            pollFailed[e.sym] \/ e.sym \in blind \/ now < due[e] \/ late
    BY DEF HeldWhileDue, LockServed, OnlyDueIsHeld
  <2>1. /\ now \in Nat /\ \A e \in Entries : due[e] \in Nat /\ e.sym \in Symbols
        /\ \A l \in locks : l.until \in Nat
    <3>1. now \in Nat /\ \A l \in locks : l.until \in Nat
      BY DEF IInv, Types, TypeOK
    <3>2. \A e \in Entries : due[e] \in Nat
      BY DEF IInv, Types, Typed
    <3>3. \A e \in Entries : e.sym \in Symbols
      BY DEF Entries
    <3> QED BY <3>1, <3>2, <3>3
  <2>2. sent = {e \in Entries : Passes(e)}
    BY DEF IInv, Sends
  <2>3. \A e : IsLocked(locks, e, now) <=> \E l \in locks : l.until > now /\ Matches(l, e)
    BY DEF IsLocked, Unexpired
  <2>4. ASSUME NEW e \in sent PROVE now >= due[e]
    <3>1. e \in Entries /\ ~IsLocked(locks, e, now)
      BY <2>2 DEF Passes
    <3>2. ~\E l \in locks : Matches(l, e) /\ l.until > now
      BY <2>3, <3>1
    <3>3. due[e] <= now \/ \E l \in locks : Matches(l, e) /\ l.until >= due[e]
      BY <3>1 DEF IInv, Locked, DueIsLocked
    <3> QED BY <2>1, <3>1, <3>2, <3>3
  <2>5. ASSUME NEW e \in Entries \ sent, ~pollFailed[e.sym], e.sym \notin blind, ~late
        PROVE  now < due[e]
    <3>1. ~(block[e.sym] > stamped[e.sym]) /\ block[e.sym] \in Nat /\ stamped[e.sym] \in Nat
      BY <2>1, <2>5 DEF IInv, Ledger, BlindIsBlocked, Types, TypeOK
    <3>2. ~RiskIncreasingBlocked(e.sym)
      BY <2>1, <2>5, <3>1, UnsatisfiedFacts DEF RiskIncreasingBlocked
    <3>3. IsLocked(locks, e, now)
      BY <2>2, <3>2 DEF Passes
    <3>4. PICK l \in locks : l.until > now /\ Matches(l, e)
      BY <2>3, <3>3
    <3>5. l.until <= due[e]
      BY <2>5, <3>4 DEF IInv, Locked, LockedIsDue
    <3> QED BY <2>1, <3>4, <3>5
  <2> QED BY <2>4, <2>5
<1> QED BY <1>1, Inductive, PTL
=============================================================================
