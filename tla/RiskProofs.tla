----------------------------- MODULE RiskProofs -----------------------------
(***************************************************************************)
(* Theorems about the order filter (RiskFilter) and about the simulator    *)
(* that decides and fills through it (Backtest), for any symbols, caps,    *)
(* budgets, lots, accounts, candles, signals and lists of orders.          *)
(*                                                                         *)
(* Of the filter: what passes fits under every cap and the loss budget     *)
(* together, and no forced exit is lost.  Of the simulator: the books      *)
(* close, the caps of a decision hold through its fills if its entries     *)
(* have prices, and a throttle at nothing is a latch.  Both are built on   *)
(* RiskRules, so its lemmas are stated once; the two specifications have   *)
(* no name in common (Spec and TypeOK are the filter's, RunSpec and        *)
(* RunTypeOK the simulator's).                                             *)
(*                                                                         *)
(* Sums and selections are recursive functions; what they do to an Append  *)
(* and to a Tail is proved first, then what each decision of RiskRules     *)
(* does to one order or one list, then the inductive invariants.           *)
(***************************************************************************)
EXTENDS RiskFilter, Backtest, FiniteSetTheorems, SequenceTheorems, WellFoundedInduction, TLAPS

-----------------------------------------------------------------------------
(* Induction and least elements, as sets of numbers *)

LEMMA Least ==
    ASSUME NEW S \in SUBSET Nat, S # {}
    PROVE  \E m \in S : \A k \in S : m <= k
<1>1. PICK m \in S : \A k \in S : ~ (<<k, m>> \in OpToRel(<, Nat))
  <2>1. S \subseteq Nat
    OBVIOUS
  <2> QED BY <2>1, WFMin, NatLessThanWellFounded
<1>2. \A k \in S : k < m => <<k, m>> \in OpToRel(<, Nat)
  BY DEF OpToRel
<1>3. \A k \in S : ~(k < m)
  BY <1>1, <1>2, Zenon
<1> QED BY <1>3

LEMMA Induction ==
    ASSUME NEW S \in SUBSET Nat, 0 \in S, \A n \in S : n + 1 \in S
    PROVE  S = Nat
<1> SUFFICES ASSUME Nat \ S # {} PROVE FALSE
  OBVIOUS
<1>1. PICK m \in Nat \ S : \A k \in Nat \ S : m <= k
  <2>1. Nat \ S \in SUBSET Nat
    OBVIOUS
  <2> QED BY <2>1, Least
<1>2. m - 1 \in Nat /\ m = (m - 1) + 1 /\ m - 1 < m
  OBVIOUS
<1> QED BY <1>1, <1>2

\* The least of one, two or three numbers.
LEMMA MinOf ==
    ASSUME NEW a \in Int, NEW b \in Int, NEW c \in Int, NEW S, a \in S, S \subseteq {a, b, c}
    PROVE  Min(S) \in S /\ \A k \in S : Min(S) <= k
<1>1. \E m \in S : \A k \in S : m <= k
  <2>1. CASE \A k \in S : a <= k
    BY <2>1
  <2>2. CASE b \in S /\ b < a /\ \A k \in S : b <= k
    BY <2>2
  <2>3. CASE c \in S /\ c < a /\ \A k \in S : c <= k
    BY <2>3
  <2> QED BY <2>1, <2>2, <2>3
<1> QED BY <1>1 DEF Min

-----------------------------------------------------------------------------
(* Arithmetic *)

\* A trim in proportion fits the room it was scaled to.
LEMMA Trim ==
    ASSUME NEW q \in Nat, NEW c \in Int, NEW r \in Int, q * c > 0
    PROVE  /\ (q * r) \div (q * c) \in Int
           /\ ((q * r) \div (q * c)) * c <= r
<1> DEFINE t == (q * r) \div (q * c)
<1>1. q > 0 /\ c > 0
  OBVIOUS
<1>2. q * r \in Int /\ q * c \in Nat /\ q * c > 0
  OBVIOUS
<1>3. t \in Int /\ t * (q * c) <= q * r
  BY <1>2
<1> HIDE DEF t
<1>4. q * (t * c) <= q * r
  BY <1>3
<1>5. t * c <= r
  <2>1. t * c \in Int
    BY <1>3
  <2> HIDE DEF t
  <2> QED BY <1>1, <1>4, <2>1
<1> QED BY <1>3, <1>5 DEF t

LEMMA Quantum ==
    ASSUME NEW n \in Int
    PROVE  Quantized(n) \in Int /\ Quantized(n) <= n
BY LotsPositive DEF Quantized

LEMMA Multiple ==
    ASSUME NEW q \in Nat, q > 0, NEW x \in Int
    PROVE  (q * x) % q = 0
<1> DEFINE n == q * x
           d == n \div q
           r == n % q
<1>1. n \in Int
  OBVIOUS
<1>2. d \in Int /\ r \in Int /\ n = q * d + r /\ 0 <= r /\ r < q
  <2> HIDE DEF n
  <2> QED BY <1>1
<1>3. r = q * (x - d)
  <2>1. q * (x - d) = q * x - q * d
    BY <1>2
  <2>2. q * d \in Int
    BY <1>2
  <2> HIDE DEF d, r
  <2> QED BY <1>1, <1>2, <2>1, <2>2
<1> HIDE DEF d, r
<1>4. CASE x - d = 0
  <2>1. q * 0 = 0
    OBVIOUS
  <2> QED BY <1>3, <1>4, <2>1 DEF r
<1>5. CASE x - d >= 1
  <2>1. q * (x - d) >= q * 1
    BY <1>2, <1>5
  <2> QED BY <1>2, <1>3, <2>1
<1>6. CASE x - d <= -1
  <2>1. q * (x - d) <= q * (-1)
    BY <1>2, <1>6
  <2>2. q * (-1) = -q
    OBVIOUS
  <2> QED BY <1>2, <1>3, <2>1, <2>2
<1> QED BY <1>2, <1>4, <1>5, <1>6

\* Whole lots stay whole.
LEMMA WholeLots ==
    /\ \A n \in Int : Quantized(n) % QtyStep = 0
    /\ \A m, n \in Int : m % QtyStep = 0 /\ n % QtyStep = 0 =>
          (m + n) % QtyStep = 0 /\ (m - n) % QtyStep = 0
<1>1. QtyStep \in Nat /\ QtyStep > 0
  BY LotsPositive
<1>2. ASSUME NEW n \in Int PROVE Quantized(n) % QtyStep = 0
  <2> DEFINE d == n \div QtyStep
  <2>1. d \in Int
    BY <1>1
  <2>2. Quantized(n) = d * QtyStep
    BY DEF Quantized
  <2> HIDE DEF d
  <2>3. d * QtyStep = QtyStep * d
    BY <1>1, <2>1
  <2> QED BY <1>1, <2>1, <2>2, <2>3, Multiple
<1>3. ASSUME NEW m \in Int, NEW n \in Int, m % QtyStep = 0, n % QtyStep = 0
      PROVE  (m + n) % QtyStep = 0 /\ (m - n) % QtyStep = 0
  <2> DEFINE c == m \div QtyStep
             d == n \div QtyStep
  <2>1. c \in Int /\ d \in Int /\ m = QtyStep * c /\ n = QtyStep * d
    BY <1>1, <1>3
  <2> HIDE DEF c, d
  <2>2. m + n = QtyStep * (c + d) /\ m - n = QtyStep * (c - d)
    BY <1>1, <2>1
  <2>3. (QtyStep * (c + d)) % QtyStep = 0 /\ (QtyStep * (c - d)) % QtyStep = 0
    <3>1. c + d \in Int /\ c - d \in Int
      BY <2>1
    <3> QED BY <1>1, <3>1, Multiple
  <2> QED BY <2>2, <2>3, Zenon
<1> QED BY <1>2, <1>3

-----------------------------------------------------------------------------
(* Sums and selections of sequences *)

\* What holds of the empty sequence and survives an Append holds of every sequence.
LEMMA SeqInduction ==
    ASSUME NEW T, NEW Q, <<>> \in Q, \A q \in Seq(T) : q \in Q => \A x \in T : Append(q, x) \in Q
    PROVE  Seq(T) \subseteq Q
<1> DEFINE S == {n \in Nat : \A q \in Seq(T) : Len(q) = n => q \in Q}
<1>1. 0 \in S
  BY EmptySeq
<1>2. ASSUME NEW n \in S PROVE n + 1 \in S
  <2> SUFFICES ASSUME NEW q \in Seq(T), Len(q) = n + 1 PROVE q \in Q
    OBVIOUS
  <2>1. q # <<>>
    BY EmptySeq
  <2>2. PICK p \in Seq(T), x \in T : q = Append(p, x)
    BY <2>1, SequenceEmptyOrAppend
  <2>3. Len(p) = n
    BY <2>2, AppendProperties, LenProperties
  <2> QED BY <2>2, <2>3
<1>3. S = Nat
  <2>1. S \in SUBSET Nat
    OBVIOUS
  <2> HIDE DEF S
  <2> QED BY <1>1, <1>2, <2>1, Induction
<1> QED BY <1>3, LenProperties

\* The functions that the definitions of Total and Kept describe, up to n.
SumsUp(f, s, n) == f = [k \in 0 .. n |-> IF k = 0 THEN 0 ELSE f[k - 1] + s[k]]
Selects(f, s, S, n) ==
    f = [k \in 0 .. n |-> IF k = 0 THEN <<>>
                          ELSE IF s[k] \in S THEN Append(f[k - 1], s[k]) ELSE f[k - 1]]

LEMMA SumsExist ==
    ASSUME NEW s, NEW m \in Nat
    PROVE  \E f : SumsUp(f, s, m)
<1> DEFINE S == {n \in Nat : \E f : SumsUp(f, s, n)}
<1>1. 0 \in S
  <2>1. SumsUp([k \in 0 .. 0 |-> 0], s, 0)
    BY DEF SumsUp
  <2> QED BY <2>1
<1>2. ASSUME NEW n \in S PROVE n + 1 \in S
  <2>1. n \in Nat
    OBVIOUS
  <2>2. PICK f : SumsUp(f, s, n)
    OBVIOUS
  <2> DEFINE g == [k \in 0 .. (n + 1) |-> IF k = 0 THEN 0 ELSE f[k - 1] + s[k]]
  <2>3. \A k \in 0 .. n : g[k] = f[k]
    <3>1. \A k \in 0 .. n : f[k] = IF k = 0 THEN 0 ELSE f[k - 1] + s[k]
      BY <2>2, Zenon DEF SumsUp
    <3>2. \A k \in 0 .. n : k \in 0 .. (n + 1)
      BY <2>1
    <3>3. \A k \in 0 .. (n + 1) : g[k] = IF k = 0 THEN 0 ELSE f[k - 1] + s[k]
      BY Zenon
    <3> HIDE DEF g
    <3> QED BY <3>1, <3>2, <3>3, Zenon
  <2>4. \A k \in 0 .. (n + 1) : k # 0 => g[k - 1] = f[k - 1]
    <3>1. \A k \in 0 .. (n + 1) : k # 0 => k - 1 \in 0 .. n
      BY <2>1
    <3> HIDE DEF g
    <3> QED BY <2>3, <3>1
  <2>5. g = [k \in 0 .. (n + 1) |-> IF k = 0 THEN 0 ELSE g[k - 1] + s[k]]
    BY <2>4
  <2>6. SumsUp(g, s, n + 1)
    BY <2>5 DEF SumsUp
  <2> QED BY <2>1, <2>6
<1>3. m \in S
  <2>1. S \in SUBSET Nat
    OBVIOUS
  <2> HIDE DEF S
  <2> QED BY <1>1, <1>2, <2>1, Induction
<1> QED BY <1>3

\* The sum is what such a function has at the end, whichever it is.
LEMMA TotalIs ==
    ASSUME NEW s, Len(s) \in Nat,
           NEW f, f[0] = 0, \A k \in 1 .. Len(s) : f[k] = f[k - 1] + s[k]
    PROVE  Total(s) = f[Len(s)]
<1>1. PICK g : SumsUp(g, s, Len(s)) /\ Total(s) = g[Len(s)]
  <2>1. \E g : SumsUp(g, s, Len(s))
    BY SumsExist
  <2> QED BY <2>1, Zenon DEF Total, SumsUp
<1>2. \A k \in 0 .. Len(s) : g[k] = IF k = 0 THEN 0 ELSE g[k - 1] + s[k]
  BY <1>1, Zenon DEF SumsUp
<1> DEFINE S == {n \in Nat : n <= Len(s) => g[n] = f[n]}
<1>3. 0 \in S
  BY <1>2
<1>4. ASSUME NEW n \in S PROVE n + 1 \in S
  <2> SUFFICES ASSUME n + 1 <= Len(s) PROVE g[n + 1] = f[n + 1]
    OBVIOUS
  <2>1. n \in Nat /\ n + 1 \in 0 .. Len(s) /\ n + 1 \in 1 .. Len(s) /\ (n + 1) - 1 = n /\ n + 1 # 0
    OBVIOUS
  <2>2. g[n] = f[n]
    BY <2>1
  <2> QED BY <1>2, <2>1, <2>2
<1>5. Len(s) \in S
  <2>1. S \in SUBSET Nat
    OBVIOUS
  <2> HIDE DEF S
  <2> QED BY <1>3, <1>4, <2>1, Induction
<1> QED BY <1>1, <1>5

LEMMA TotalEmpty == Total(<<>>) = 0
<1> DEFINE f == [k \in {0} |-> 0]
<1>1. Len(<<>>) = 0 /\ f[0] = 0 /\ \A k \in 1 .. Len(<<>>) : f[k] = f[k - 1] + (<<>>)[k]
  BY EmptySeq
<1> HIDE DEF f
<1>2. Total(<<>>) = f[Len(<<>>)]
  BY <1>1, TotalIs
<1> QED BY <1>1, <1>2

LEMMA TotalAppend ==
    ASSUME NEW T, NEW s \in Seq(T), NEW x \in T
    PROVE  Total(Append(s, x)) = Total(s) + x
<1> DEFINE t == Append(s, x)
<1>1. /\ Len(s) \in Nat /\ Len(t) = Len(s) + 1 /\ t[Len(s) + 1] = x
      /\ \A k \in 1 .. Len(s) : t[k] = s[k]
  BY AppendProperties, LenProperties
<1> HIDE DEF t
<1>2. PICK f : SumsUp(f, t, Len(t))
  <2>1. Len(t) \in Nat
    BY <1>1
  <2> QED BY <2>1, SumsExist
<1>3. \A k \in 0 .. Len(t) : f[k] = IF k = 0 THEN 0 ELSE f[k - 1] + t[k]
  BY <1>2, Zenon DEF SumsUp
<1>4. f[0] = 0 /\ \A k \in 1 .. Len(t) : f[k] = f[k - 1] + t[k]
  BY <1>1, <1>3
<1>5. \A k \in 1 .. Len(s) : f[k] = f[k - 1] + s[k]
  BY <1>1, <1>4
<1>6. Total(t) = f[Len(t)] /\ Total(s) = f[Len(s)]
  BY <1>1, <1>4, <1>5, TotalIs
<1>7. f[Len(s) + 1] = f[Len(s)] + x
  BY <1>1, <1>4
<1> QED BY <1>1, <1>6, <1>7 DEF t

LEMMA TotalType ==
    /\ \A s \in Seq(Int) : Total(s) \in Int
    /\ \A s \in Seq(Nat) : Total(s) \in Nat
<1>1. Seq(Int) \subseteq {s \in Seq(Int) : Total(s) \in Int}
  <2> DEFINE Q == {s \in Seq(Int) : Total(s) \in Int}
  <2>1. <<>> \in Q
    BY TotalEmpty, EmptySeq
  <2>2. ASSUME NEW q \in Seq(Int), q \in Q, NEW x \in Int PROVE Append(q, x) \in Q
    <3>1. Append(q, x) \in Seq(Int) /\ Total(Append(q, x)) = Total(q) + x
      BY TotalAppend, AppendProperties
    <3>2. Total(q) \in Int
      BY <2>2
    <3> QED BY <3>1, <3>2
  <2> HIDE DEF Q
  <2>3. Seq(Int) \subseteq Q
    BY <2>1, <2>2, SeqInduction
  <2> QED BY <2>3 DEF Q
<1>2. Seq(Nat) \subseteq {s \in Seq(Nat) : Total(s) \in Nat}
  <2> DEFINE Q == {s \in Seq(Nat) : Total(s) \in Nat}
  <2>1. <<>> \in Q
    BY TotalEmpty, EmptySeq
  <2>2. ASSUME NEW q \in Seq(Nat), q \in Q, NEW x \in Nat PROVE Append(q, x) \in Q
    BY <2>2, TotalAppend, AppendProperties
  <2> HIDE DEF Q
  <2>3. Seq(Nat) \subseteq Q
    BY <2>1, <2>2, SeqInduction
  <2> QED BY <2>3 DEF Q
<1> QED BY <1>1, <1>2

LEMMA TotalTail ==
    ASSUME NEW s \in Seq(Int), s # <<>>
    PROVE  Total(s) = Head(s) + Total(Tail(s))
<1> DEFINE Q == {q \in Seq(Int) : q # <<>> => Total(q) = Head(q) + Total(Tail(q))}
<1>1. <<>> \in Q
  BY EmptySeq
<1>2. ASSUME NEW q \in Seq(Int), q \in Q, NEW x \in Int PROVE Append(q, x) \in Q
  <2>1. Append(q, x) \in Seq(Int) /\ Total(Append(q, x)) = Total(q) + x
    BY TotalAppend, AppendProperties
  <2>2. /\ Head(Append(q, x)) = IF q = <<>> THEN x ELSE Head(q)
        /\ Tail(Append(q, x)) = IF q = <<>> THEN <<>> ELSE Append(Tail(q), x)
    BY HeadTailAppend
  <2>3. CASE q = <<>>
    BY <2>1, <2>2, <2>3, TotalEmpty
  <2>4. CASE q # <<>>
    <3>1. Total(q) = Head(q) + Total(Tail(q))
      BY <1>2, <2>4
    <3>2. Head(q) \in Int /\ Tail(q) \in Seq(Int)
      BY <2>4, HeadTailProperties
    <3>3. Total(Append(Tail(q), x)) = Total(Tail(q)) + x /\ Total(Tail(q)) \in Int
      BY <3>2, TotalAppend, TotalType
    <3>4. Total(Append(q, x)) = (Head(q) + Total(Tail(q))) + x
      BY <2>1, <3>1
    <3>5. Total(Append(q, x)) = Head(q) + (Total(Tail(q)) + x)
      BY <3>2, <3>3, <3>4
    <3> QED BY <2>1, <2>2, <2>4, <3>3, <3>5
  <2> QED BY <2>3, <2>4
<1> HIDE DEF Q
<1>3. Seq(Int) \subseteq Q
  BY <1>1, <1>2, SeqInduction
<1> QED BY <1>3 DEF Q

\* The sum of what a function makes of the elements.
SumOf(f, s) == Total([i \in DOMAIN s |-> f[s[i]]])

LEMMA SumFacts ==
    ASSUME NEW T, NEW f \in [T -> Int], NEW s \in Seq(T)
    PROVE  /\ SumOf(f, s) \in Int
           /\ (\A x \in T : f[x] >= 0) => SumOf(f, s) >= 0
           /\ \A x \in T : SumOf(f, Append(s, x)) = SumOf(f, s) + f[x]
           /\ s # <<>> => SumOf(f, s) = f[Head(s)] + SumOf(f, Tail(s))
<1> DEFINE image(q) == [i \in DOMAIN q |-> f[q[i]]]
<1>1. ASSUME NEW q \in Seq(T)
      PROVE  image(q) \in Seq(Int) /\ Len(image(q)) = Len(q) /\ DOMAIN image(q) = 1 .. Len(q)
  <2>1. Len(q) \in Nat /\ DOMAIN q = 1 .. Len(q) /\ \A i \in 1 .. Len(q) : q[i] \in T
    BY LenProperties, ElementOfSeq
  <2> QED BY <2>1
<1>2. SumOf(f, s) \in Int
  <2> HIDE DEF image
  <2> QED BY <1>1, TotalType DEF SumOf, image
<1>3. (\A x \in T : f[x] >= 0) => SumOf(f, s) >= 0
  <2> SUFFICES ASSUME \A x \in T : f[x] >= 0 PROVE SumOf(f, s) >= 0
    OBVIOUS
  <2>1. Len(s) \in Nat /\ DOMAIN s = 1 .. Len(s) /\ \A i \in 1 .. Len(s) : s[i] \in T
    BY LenProperties, ElementOfSeq
  <2>2. \A i \in 1 .. Len(s) : f[s[i]] \in Nat
    BY <2>1
  <2>3. image(s) \in Seq(Nat)
    BY <2>1, <2>2
  <2> HIDE DEF image
  <2>4. Total(image(s)) \in Nat
    BY <2>3, TotalType
  <2> QED BY <2>4 DEF SumOf, image
<1>4. ASSUME NEW x \in T
      PROVE  SumOf(f, Append(s, x)) = SumOf(f, s) + f[x]
  <2>1. /\ Append(s, x) \in Seq(T) /\ Len(Append(s, x)) = Len(s) + 1 /\ Len(s) \in Nat
        /\ \A i \in 1 .. Len(s) : Append(s, x)[i] = s[i]
        /\ Append(s, x)[Len(s) + 1] = x
        /\ DOMAIN s = 1 .. Len(s) /\ DOMAIN Append(s, x) = 1 .. (Len(s) + 1)
    BY AppendProperties, LenProperties
  <2>2. /\ Append(image(s), f[x]) \in Seq(Int) /\ Len(Append(image(s), f[x])) = Len(s) + 1
        /\ \A i \in 1 .. Len(s) : Append(image(s), f[x])[i] = image(s)[i]
        /\ Append(image(s), f[x])[Len(s) + 1] = f[x]
    <3> HIDE DEF image
    <3> QED BY <1>1, AppendProperties
  <2>3. \A i \in 1 .. Len(s) : image(s)[i] = f[s[i]]
    BY <2>1
  <2>4. \A i \in 1 .. (Len(s) + 1) : image(Append(s, x))[i] = f[Append(s, x)[i]]
    BY <2>1
  <2>5. image(Append(s, x)) \in Seq(Int) /\ Len(image(Append(s, x))) = Len(s) + 1
    <3> HIDE DEF image
    <3> QED BY <1>1, <2>1
  <2> HIDE DEF image
  <2>6. \A i \in 1 .. (Len(s) + 1) : i \in 1 .. Len(s) \/ i = Len(s) + 1
    BY <2>1
  <2>7. image(Append(s, x)) = Append(image(s), f[x])
    <3>1. \A i \in 1 .. (Len(s) + 1) : image(Append(s, x))[i] = Append(image(s), f[x])[i]
      BY <2>1, <2>2, <2>3, <2>4, <2>6
    <3> QED BY <2>2, <2>5, <3>1, SeqEqual
  <2>8. Total(Append(image(s), f[x])) = Total(image(s)) + f[x]
    BY <1>1, TotalAppend
  <2> QED BY <2>7, <2>8 DEF SumOf, image
<1>5. ASSUME s # <<>>
      PROVE  SumOf(f, s) = f[Head(s)] + SumOf(f, Tail(s))
  <2>1. /\ Tail(s) \in Seq(T) /\ Len(Tail(s)) = Len(s) - 1 /\ Head(s) = s[1]
        /\ \A i \in 1 .. Len(Tail(s)) : Tail(s)[i] = s[i + 1]
        /\ Len(s) \in Nat /\ Len(s) > 0
    BY <1>5, HeadTailProperties, LenProperties, EmptySeq
  <2>2. \A q \in Seq(T) : \A i \in 1 .. Len(q) : image(q)[i] = f[q[i]]
    BY LenProperties
  <2>3. image(s) \in Seq(Int) /\ Len(image(s)) = Len(s)
        /\ image(Tail(s)) \in Seq(Int) /\ Len(image(Tail(s))) = Len(Tail(s))
    <3> HIDE DEF image
    <3> QED BY <1>1, <2>1
  <2> HIDE DEF image
  <2>4. image(s) # <<>>
    BY <2>1, <2>3, EmptySeq
  <2>5. /\ Tail(image(s)) \in Seq(Int) /\ Len(Tail(image(s))) = Len(s) - 1
        /\ \A i \in 1 .. Len(Tail(image(s))) : Tail(image(s))[i] = image(s)[i + 1]
        /\ Head(image(s)) = image(s)[1]
    BY <2>3, <2>4, HeadTailProperties
  <2>6. Tail(image(s)) = image(Tail(s))
    <3>1. \A i \in 1 .. (Len(s) - 1) : Tail(image(s))[i] = image(Tail(s))[i]
      <4> SUFFICES ASSUME NEW i \in 1 .. (Len(s) - 1) PROVE Tail(image(s))[i] = image(Tail(s))[i]
        OBVIOUS
      <4>1. i \in 1 .. Len(Tail(s)) /\ i \in 1 .. Len(Tail(image(s))) /\ i + 1 \in 1 .. Len(s)
        BY <2>1, <2>5
      <4>2. Tail(image(s))[i] = f[s[i + 1]]
        BY <2>2, <2>5, <4>1
      <4>3. image(Tail(s))[i] = f[s[i + 1]]
        BY <2>1, <2>2, <4>1
      <4> QED BY <4>2, <4>3
    <3> QED BY <2>1, <2>3, <2>5, <3>1, SeqEqual
  <2>7. Total(image(s)) = Head(image(s)) + Total(Tail(image(s)))
    BY <2>3, <2>4, TotalTail
  <2>8. Head(image(s)) = f[Head(s)]
    <3>1. 1 \in 1 .. Len(s)
      BY <2>1
    <3> QED BY <2>1, <2>2, <2>5, <3>1
  <2> QED BY <2>6, <2>7, <2>8 DEF SumOf, image
<1> QED BY <1>2, <1>3, <1>4, <1>5

LEMMA SumEmpty == \A f : SumOf(f, <<>>) = 0
<1>1. \A f : [i \in DOMAIN <<>> |-> f[(<<>>)[i]]] = <<>>
  OBVIOUS
<1> QED BY <1>1, TotalEmpty DEF SumOf

LEMMA SelectsExist ==
    ASSUME NEW s, NEW S, NEW m \in Nat
    PROVE  \E f : Selects(f, s, S, m)
<1> DEFINE Next1(f, k) == IF k = 0 THEN <<>>
                          ELSE IF s[k] \in S THEN Append(f[k - 1], s[k]) ELSE f[k - 1]
           N == {n \in Nat : \E f : Selects(f, s, S, n)}
<1>1. 0 \in N
  <2>1. Selects([k \in 0 .. 0 |-> <<>>], s, S, 0)
    BY DEF Selects
  <2> QED BY <2>1
<1>2. ASSUME NEW n \in N PROVE n + 1 \in N
  <2>1. n \in Nat
    OBVIOUS
  <2>2. PICK f : Selects(f, s, S, n)
    OBVIOUS
  <2> DEFINE g == [k \in 0 .. (n + 1) |-> Next1(f, k)]
  <2>3. \A k \in 0 .. n : g[k] = f[k]
    <3>1. \A k \in 0 .. n : f[k] = Next1(f, k)
      BY <2>2, Zenon DEF Selects
    <3>2. \A k \in 0 .. n : k \in 0 .. (n + 1)
      BY <2>1
    <3>3. \A k \in 0 .. (n + 1) : g[k] = Next1(f, k)
      BY Zenon
    <3> HIDE DEF g, Next1
    <3> QED BY <3>1, <3>2, <3>3, Zenon
  <2>4. \A k \in 0 .. (n + 1) : k # 0 => g[k - 1] = f[k - 1]
    <3>1. \A k \in 0 .. (n + 1) : k # 0 => k - 1 \in 0 .. n
      BY <2>1
    <3> HIDE DEF g
    <3> QED BY <2>3, <3>1
  <2>5. g = [k \in 0 .. (n + 1) |-> Next1(g, k)]
    BY <2>4
  <2>6. Selects(g, s, S, n + 1)
    BY <2>5 DEF Selects
  <2> QED BY <2>1, <2>6
<1>3. m \in N
  <2>1. N \in SUBSET Nat
    OBVIOUS
  <2> HIDE DEF N
  <2> QED BY <1>1, <1>2, <2>1, Induction
<1> QED BY <1>3

\* What is kept is what such a function has at the end, whichever it is.
LEMMA KeptIs ==
    ASSUME NEW s, NEW S, Len(s) \in Nat,
           NEW f, f[0] = <<>>,
           \A k \in 1 .. Len(s) : f[k] = IF s[k] \in S THEN Append(f[k - 1], s[k]) ELSE f[k - 1]
    PROVE  Kept(s, S) = f[Len(s)]
<1>1. PICK g : Selects(g, s, S, Len(s)) /\ Kept(s, S) = g[Len(s)]
  <2>1. \E g : Selects(g, s, S, Len(s))
    BY SelectsExist
  <2> QED BY <2>1, Zenon DEF Kept, Selects
<1>2. \A k \in 0 .. Len(s) :
          g[k] = IF k = 0 THEN <<>> ELSE IF s[k] \in S THEN Append(g[k - 1], s[k]) ELSE g[k - 1]
  BY <1>1, Zenon DEF Selects
<1> DEFINE N == {n \in Nat : n <= Len(s) => g[n] = f[n]}
<1>3. 0 \in N
  BY <1>2
<1>4. ASSUME NEW n \in N PROVE n + 1 \in N
  <2> SUFFICES ASSUME n + 1 <= Len(s) PROVE g[n + 1] = f[n + 1]
    OBVIOUS
  <2>1. n \in Nat /\ n + 1 \in 0 .. Len(s) /\ n + 1 \in 1 .. Len(s) /\ (n + 1) - 1 = n /\ n + 1 # 0
    OBVIOUS
  <2>2. g[n] = f[n]
    BY <2>1
  <2> QED BY <1>2, <2>1, <2>2
<1>5. Len(s) \in N
  <2>1. N \in SUBSET Nat
    OBVIOUS
  <2> HIDE DEF N
  <2> QED BY <1>3, <1>4, <2>1, Induction
<1> QED BY <1>1, <1>5

LEMMA KeptEmpty == \A S : Kept(<<>>, S) = <<>>
<1> TAKE S
<1> DEFINE f == [k \in {0} |-> <<>>]
<1>1. /\ Len(<<>>) = 0 /\ f[0] = <<>>
      /\ \A k \in 1 .. Len(<<>>) :
            f[k] = IF (<<>>)[k] \in S THEN Append(f[k - 1], (<<>>)[k]) ELSE f[k - 1]
  BY EmptySeq
<1> HIDE DEF f
<1>2. Kept(<<>>, S) = f[Len(<<>>)]
  BY <1>1, KeptIs
<1> QED BY <1>1, <1>2

LEMMA KeptAppend ==
    ASSUME NEW T, NEW s \in Seq(T), NEW x \in T, NEW S
    PROVE  Kept(Append(s, x), S) = IF x \in S THEN Append(Kept(s, S), x) ELSE Kept(s, S)
<1> DEFINE t == Append(s, x)
<1>1. /\ Len(s) \in Nat /\ Len(t) = Len(s) + 1 /\ t[Len(s) + 1] = x
      /\ \A k \in 1 .. Len(s) : t[k] = s[k]
  BY AppendProperties, LenProperties
<1> HIDE DEF t
<1>2. PICK f : Selects(f, t, S, Len(t))
  <2>1. Len(t) \in Nat
    BY <1>1
  <2> QED BY <2>1, SelectsExist
<1>3. \A k \in 0 .. Len(t) :
          f[k] = IF k = 0 THEN <<>> ELSE IF t[k] \in S THEN Append(f[k - 1], t[k]) ELSE f[k - 1]
  BY <1>2, Zenon DEF Selects
<1>4. /\ f[0] = <<>>
      /\ \A k \in 1 .. Len(t) : f[k] = IF t[k] \in S THEN Append(f[k - 1], t[k]) ELSE f[k - 1]
  BY <1>1, <1>3
<1>5. \A k \in 1 .. Len(s) : f[k] = IF s[k] \in S THEN Append(f[k - 1], s[k]) ELSE f[k - 1]
  BY <1>1, <1>4
<1>6. Kept(t, S) = f[Len(t)] /\ Kept(s, S) = f[Len(s)]
  BY <1>1, <1>4, <1>5, KeptIs
<1>7. f[Len(s) + 1] = IF x \in S THEN Append(f[Len(s)], x) ELSE f[Len(s)]
  BY <1>1, <1>4
<1> QED BY <1>1, <1>6, <1>7 DEF t

\* What is kept are elements of the set, and not more of them than there were: a sum
\* over them is no larger.
LEMMA KeptFacts ==
    ASSUME NEW T, NEW s \in Seq(T), NEW S
    PROVE  /\ Kept(s, S) \in Seq(T) /\ Len(Kept(s, S)) <= Len(s)
           /\ \A i \in DOMAIN Kept(s, S) : Kept(s, S)[i] \in S
<1> DEFINE Q == {q \in Seq(T) : /\ Kept(q, S) \in Seq(T) /\ Len(Kept(q, S)) <= Len(q)
                                /\ \A i \in 1 .. Len(Kept(q, S)) : Kept(q, S)[i] \in S}
<1>1. <<>> \in Q
  <2>1. Kept(<<>>, S) = <<>> /\ <<>> \in Seq(T) /\ Len(<<>>) = 0
    BY KeptEmpty, EmptySeq
  <2>2. Len(Kept(<<>>, S)) = 0 /\ Kept(<<>>, S) \in Seq(T)
    BY <2>1, Zenon
  <2>3. \A i \in 1 .. Len(Kept(<<>>, S)) : Kept(<<>>, S)[i] \in S
    BY <2>2
  <2> QED BY <2>1, <2>2, <2>3
<1>2. ASSUME NEW q \in Seq(T), q \in Q, NEW x \in T PROVE Append(q, x) \in Q
  <2> DEFINE r == Kept(q, S)
             t == Append(r, x)
  <2>1. r \in Seq(T) /\ Len(r) <= Len(q) /\ \A i \in 1 .. Len(r) : r[i] \in S
    BY <1>2
  <2>2. Append(q, x) \in Seq(T) /\ Len(Append(q, x)) = Len(q) + 1 /\ Len(q) \in Nat
    BY AppendProperties, LenProperties
  <2>3. Kept(Append(q, x), S) = IF x \in S THEN t ELSE r
    BY KeptAppend
  <2> HIDE DEF r
  <2>4. /\ t \in Seq(T) /\ Len(t) = Len(r) + 1 /\ t[Len(r) + 1] = x /\ Len(r) \in Nat
        /\ \A i \in 1 .. Len(r) : t[i] = r[i]
    BY <2>1, AppendProperties, LenProperties
  <2> HIDE DEF t
  <2>5. \A i \in 1 .. Len(t) : i \in 1 .. Len(r) \/ i = Len(r) + 1
    BY <2>4
  <2>6. x \in S => \A i \in 1 .. Len(t) : t[i] \in S
    BY <2>1, <2>4, <2>5
  <2>7. CASE x \in S
    BY <2>1, <2>2, <2>3, <2>4, <2>6, <2>7
  <2>8. CASE x \notin S
    BY <2>1, <2>2, <2>3, <2>4, <2>8
  <2> QED BY <2>7, <2>8
<1> HIDE DEF Q
<1>3. s \in Q
  BY <1>1, <1>2, SeqInduction
<1> QED BY <1>3, LenProperties DEF Q

LEMMA KeptSum ==
    ASSUME NEW T, NEW f \in [T -> Int], \A x \in T : f[x] >= 0, NEW s \in Seq(T), NEW S
    PROVE  SumOf(f, Kept(s, S)) <= SumOf(f, s)
<1> DEFINE Q == {q \in Seq(T) : SumOf(f, Kept(q, S)) <= SumOf(f, q)}
<1>1. <<>> \in Q
  BY KeptEmpty, SumEmpty, EmptySeq
<1>2. ASSUME NEW q \in Seq(T), q \in Q, NEW x \in T PROVE Append(q, x) \in Q
  <2> DEFINE r == Kept(q, S)
  <2>1. r \in Seq(T) /\ SumOf(f, r) <= SumOf(f, q)
    BY <1>2, KeptFacts
  <2>2. Kept(Append(q, x), S) = IF x \in S THEN Append(r, x) ELSE r
    BY KeptAppend
  <2> HIDE DEF r
  <2>3. /\ SumOf(f, Append(q, x)) = SumOf(f, q) + f[x] /\ SumOf(f, q) \in Int
        /\ SumOf(f, Append(r, x)) = SumOf(f, r) + f[x] /\ SumOf(f, r) \in Int
    BY <2>1, SumFacts
  <2>4. f[x] \in Int /\ f[x] >= 0
    OBVIOUS
  <2>5. Append(q, x) \in Seq(T)
    BY AppendProperties
  <2>6. SumOf(f, Kept(Append(q, x), S)) <= SumOf(f, Append(q, x))
    BY <2>1, <2>2, <2>3, <2>4
  <2> QED BY <2>5, <2>6
<1> HIDE DEF Q
<1>3. s \in Q
  BY <1>1, <1>2, SeqInduction
<1> QED BY <1>3 DEF Q

-----------------------------------------------------------------------------
(* Accounts and orders *)

\* Orders whose entries have a price, and those that are no entries; a close that loses.
Priced == {o \in Order : o.reduce \/ o.price > 0}
Exits == {o \in Order : o.reduce}
Loses(a, o) == o.reduce /\ ~o.market /\ ~(UnitLoss(a, o) <= 0)

LEMMA Numbers ==
    /\ QtyStep \in Nat /\ QtyStep > 0 /\ MinQty \in Nat /\ MinQty > 0 /\ MinCost \in Nat
    /\ TotalPct \in Nat /\ SinglePct \in Nat /\ GridPct \in Nat /\ LossPct \in Nat
    /\ AllowancePct \in Nat /\ UnstuckClose \in Nat /\ Wel \in [Buckets -> Nat]
    /\ \A s \in Symbols : CMult[s] \in Nat /\ CMult[s] > 0
BY LotsPositive, PercentagesNat, ContractsPositive

LEMMA Percent ==
    ASSUME NEW p \in Nat, NEW n \in Int
    PROVE  PercentOf(p, n) \in Int
BY DEF PercentOf

LEMMA CostTyped == \A o \in Order : Cost(o) \in Int
<1> SUFFICES ASSUME NEW o \in Order PROVE Cost(o) \in Int
  OBVIOUS
<1>1. o.qty \in Int /\ o.price \in Int /\ CMult[o.sym] \in Int
  BY Numbers DEF Order
<1> QED BY <1>1 DEF Cost

\* An entry with a price costs what its units cost.
LEMMA CostFacts ==
    ASSUME NEW o \in Priced, ~o.reduce
    PROVE  /\ o.price * CMult[o.sym] \in Nat /\ o.price * CMult[o.sym] > 0
           /\ Cost(o) \in Nat /\ Cost(o) = o.qty * (o.price * CMult[o.sym])
           /\ \A n \in Int : n * o.price * CMult[o.sym] = n * (o.price * CMult[o.sym])
<1>1. /\ o.price \in Nat /\ o.price > 0 /\ o.qty \in Nat
      /\ CMult[o.sym] \in Nat /\ CMult[o.sym] > 0
  BY Numbers DEF Priced, Order
<1>2. /\ o.price * CMult[o.sym] \in Nat /\ o.price * CMult[o.sym] > 0
      /\ \A n \in Int : n * o.price * CMult[o.sym] = n * (o.price * CMult[o.sym])
  BY <1>1
<1> QED BY <1>1, <1>2 DEF Cost

LEMMA Routed ==
    ASSUME NEW a, AccountTyped(a)
    PROVE  /\ \A k \in Keys : /\ k[1] \in Symbols /\ k[2] \in Sides /\ k[3] \in Buckets
                              /\ k = <<k[1], k[2], k[3]>>
                              /\ a.pos[k].size \in Nat /\ a.pos[k].entry \in Nat
           /\ \A o \in Order : /\ <<o.sym, o.side, Bucket(o.src)>> \in Keys
                               /\ At(a, o).size \in Nat /\ At(a, o).entry \in Nat
           /\ a.balance \in Int /\ a.lost \in [Buckets -> Int]
           /\ \A s \in Symbols : a.mark[s] \in Nat /\ a.mark[s] > 0
<1>1. /\ a.pos \in [Keys -> [size : Nat, entry : Nat]] /\ a.mark \in [Symbols -> Nat \ {0}]
      /\ a.balance \in Int /\ a.lost \in [Buckets -> Int]
  BY DEF AccountTyped
<1>2. ASSUME NEW k \in Keys
      PROVE  /\ k[1] \in Symbols /\ k[2] \in Sides /\ k[3] \in Buckets /\ k = <<k[1], k[2], k[3]>>
             /\ a.pos[k].size \in Nat /\ a.pos[k].entry \in Nat
  <2>1. k[1] \in Symbols /\ k[2] \in Sides /\ k[3] \in Buckets /\ k = <<k[1], k[2], k[3]>>
    BY DEF Keys
  <2> QED BY <1>1, <2>1
<1>3. ASSUME NEW o \in Order
      PROVE  <<o.sym, o.side, Bucket(o.src)>> \in Keys
  BY DEF Order, Bucket, Keys, Buckets
<1>4. \A o \in Order : At(a, o).size \in Nat /\ At(a, o).entry \in Nat
  BY <1>2, <1>3 DEF At
<1> QED BY <1>1, <1>2, <1>3, <1>4

LEMMA CapsTyped ==
    ASSUME NEW a, AccountTyped(a)
    PROVE  /\ TotalCap(a) \in Int /\ SingleCap(a) \in Int /\ GridCap(a) \in Int
           /\ LossBudget(a) \in Int /\ \A b \in Buckets : Allowance(a, b) \in Int
<1>1. /\ a.balance \in Int /\ \A b \in Buckets : a.lost[b] \in Int
      /\ "GRID" \in Buckets /\ "TREND" \in Buckets
  BY Routed DEF Buckets
<1>2. \A p \in {TotalPct, SinglePct, GridPct, LossPct, AllowancePct} : PercentOf(p, a.balance) \in Int
  BY <1>1, Numbers, Percent, Zenon
<1>3. TotalCap(a) \in Int /\ SingleCap(a) \in Int /\ GridCap(a) \in Int
  BY <1>2 DEF TotalCap, SingleCap, GridCap
<1>4. LossBudget(a) \in Int
  BY <1>1, <1>2 DEF LossBudget
<1>5. \A b \in Buckets : Allowance(a, b) \in Int
  BY <1>1, <1>2 DEF Allowance
<1> QED BY <1>3, <1>4, <1>5

LEMMA Walks ==
    ASSUME NEW walk, walk \in {PanicWalk, UnstuckWalk}
    PROVE  KeysBy(walk) \in Seq(Keys) /\ Len(KeysBy(walk)) = 4 * Len(Listed)
<1>1. Len(Listed) \in Nat /\ \A i \in 1 .. Len(Listed) : Listed[i] \in Symbols
  BY ListedOnce, LenProperties, ElementOfSeq
<1>2. \A i \in 1 .. 4 : walk[i][1] \in Sides /\ walk[i][2] \in Buckets
  BY DEF PanicWalk, UnstuckWalk, Sides, Buckets
<1>3. ASSUME NEW n \in 1 .. (4 * Len(Listed))
      PROVE  <<Listed[((n - 1) \div 4) + 1], walk[((n - 1) % 4) + 1][1],
               walk[((n - 1) % 4) + 1][2]>> \in Keys
  <2>1. ((n - 1) \div 4) + 1 \in 1 .. Len(Listed) /\ ((n - 1) % 4) + 1 \in 1 .. 4
    BY <1>1
  <2> QED BY <1>1, <1>2, <2>1 DEF Keys
<1>4. 4 * Len(Listed) \in Nat
  BY <1>1
<1> QED BY <1>3, <1>4 DEF KeysBy

LEMMA ExposureTyped ==
    ASSUME NEW a, AccountTyped(a), NEW keys
    PROVE  Exposure(a, keys) \in Int
<1> DEFINE all == KeysBy(PanicWalk)
           cost(k) == IF k \in keys THEN CostAt(a, k) ELSE 0
           costs == [n \in DOMAIN all |-> cost(all[n])]
<1>1. all \in Seq(Keys)
  BY Walks
<1>2. \A k \in Keys : cost(k) \in Int
  <2>1. \A k \in Keys : CostAt(a, k) \in Int
    BY Routed, Numbers DEF CostAt
  <2> QED BY <2>1
<1> HIDE DEF cost
<1>3. Len(all) \in Nat /\ DOMAIN all = 1 .. Len(all) /\ \A n \in 1 .. Len(all) : all[n] \in Keys
  BY <1>1, LenProperties, ElementOfSeq
<1>4. costs \in Seq(Int)
  BY <1>2, <1>3
<1> HIDE DEF costs
<1>5. Total(costs) \in Int
  BY <1>4, TotalType
<1> QED BY <1>5 DEF Exposure, costs, cost

-----------------------------------------------------------------------------
(* One order at the loss gate *)

\* The loss of an order is that of its units, whatever its quantity.
LEMMA LossFacts ==
    ASSUME NEW a, AccountTyped(a), NEW o \in Order
    PROVE  /\ UnitLoss(a, o) \in Int
           /\ ProjectedLoss(a, o) \in Nat /\ ProjectedLoss(a, o) = AtLeastZero(o.qty * UnitLoss(a, o))
           /\ ProjectedLoss(a, o) > 0 =>
                UnitLoss(a, o) > 0 /\ ProjectedLoss(a, o) = o.qty * UnitLoss(a, o)
           /\ \A n \in Nat : /\ UnitLoss(a, [o EXCEPT !.qty = n]) = UnitLoss(a, o)
                            /\ ProjectedLoss(a, [o EXCEPT !.qty = n]) = AtLeastZero(n * UnitLoss(a, o))
<1> DEFINE p == At(a, o)
           gap == IF o.side = "LONG" THEN p.entry - o.price ELSE o.price - p.entry
           u == UnitLoss(a, o)
<1>1. /\ p.entry \in Nat /\ o.price \in Int /\ o.qty \in Nat /\ CMult[o.sym] \in Nat
  BY Routed, Numbers DEF Order
<1>2. u \in Int
  <2>1. u = IF IsOpen(p) /\ p.entry > 0 THEN gap * CMult[o.sym] ELSE 0
    BY DEF UnitLoss
  <2>2. gap \in Int
    BY <1>1
  <2> HIDE DEF gap, u, p
  <2>3. gap * CMult[o.sym] \in Int
    BY <1>1, <2>2
  <2> QED BY <2>1, <2>3
<1>3. ASSUME NEW n \in Nat
      PROVE  /\ UnitLoss(a, [o EXCEPT !.qty = n]) = u
             /\ ProjectedLoss(a, [o EXCEPT !.qty = n]) = AtLeastZero(n * u)
  <2> DEFINE q == [o EXCEPT !.qty = n]
  <2>1. /\ q.qty = n /\ q.side = o.side /\ q.price = o.price /\ q.sym = o.sym /\ q.src = o.src
    BY DEF Order
  <2>2. At(a, q) = p
    BY <2>1 DEF At
  <2> HIDE DEF q, p
  <2>3. UnitLoss(a, q) = u
    BY <2>1, <2>2 DEF UnitLoss, p
  <2>4. ProjectedLoss(a, q) = AtLeastZero(n * u)
    BY <2>1, <2>3 DEF ProjectedLoss
  <2> QED BY <2>3, <2>4 DEF q
<1>4. ProjectedLoss(a, o) = AtLeastZero(o.qty * u)
  BY DEF ProjectedLoss
<1> HIDE DEF p, u
<1>5. o.qty * u \in Int
  BY <1>1, <1>2
<1>6. ProjectedLoss(a, o) \in Nat
  BY <1>4, <1>5 DEF AtLeastZero
<1>7. ASSUME ProjectedLoss(a, o) > 0
      PROVE  u > 0 /\ ProjectedLoss(a, o) = o.qty * u
  <2>1. o.qty * u > 0 /\ ProjectedLoss(a, o) = o.qty * u
    BY <1>4, <1>5, <1>7 DEF AtLeastZero
  <2> QED BY <1>1, <1>2, <2>1
<1> QED BY <1>2, <1>3, <1>4, <1>6, <1>7 DEF u

\* One step of the loss gate: at most one order passes, smaller or as it was, and what it
\* loses comes out of what is left.
GateLossOf(a, o) == IF o.reduce /\ ~o.market THEN ProjectedLoss(a, o) ELSE 0
LEMMA GateFacts ==
    ASSUME NEW a, AccountTyped(a), NEW o \in Order, NEW spare \in Int
    PROVE  LET g == Gated(a, o, spare)
           IN  /\ g.left \in Int
               /\ \/ g.pass = <<>> /\ (Loses(a, o) => LossPct > 0 /\ a.balance > 0)
                  \/ \E q \in Order : /\ g.pass = <<q>> /\ q.reduce = o.reduce /\ q.src = o.src
                                      /\ q = o \/ (Loses(a, o) /\ Loses(a, q))
               /\ ~Loses(a, o) => g.pass = <<o>> /\ g.left = spare
               /\ LossPct > 0 /\ a.balance > 0 =>
                     \/ g.pass = <<>> /\ AtLeastZero(g.left) <= AtLeastZero(spare)
                     \/ \E q \in Order :
                           /\ g.pass = <<q>>
                           /\ GateLossOf(a, q) + AtLeastZero(g.left) <= AtLeastZero(spare)
<1> DEFINE loss == ProjectedLoss(a, o)
           u == UnitLoss(a, o)
           trimmed == (o.qty * spare) \div loss
           q == [o EXCEPT !.qty = trimmed]
           g == Gated(a, o, spare)
<1>1. /\ loss \in Nat /\ o.qty \in Nat /\ a.balance \in Int /\ LossPct \in Nat /\ u \in Int
      /\ loss > 0 => u > 0 /\ loss = o.qty * u
  BY LossFacts, Routed, Numbers DEF Order
<1>2. AtLeastZero(spare) \in Int /\ AtLeastZero(spare) >= 0 /\ AtLeastZero(0) = 0
      /\ AtLeastZero(0) <= AtLeastZero(spare)
  BY DEF AtLeastZero
<1>3. o.reduce /\ ~o.market /\ loss > 0 => Loses(a, o)
  BY <1>1 DEF Loses
<1>4. CASE ~Gates(a, o) \/ loss = 0
  <2>1. g = [pass |-> <<o>>, left |-> spare]
    BY <1>4 DEF Gated
  <2>2. LossPct > 0 /\ a.balance > 0 => GateLossOf(a, o) = 0
    BY <1>4 DEF Gates, GateLossOf
  <2> QED BY <1>2, <2>1, <2>2
<1>5. CASE Gates(a, o) /\ loss > 0
  <2>1. o.reduce /\ ~o.market /\ LossPct > 0 /\ a.balance > 0 /\ Loses(a, o)
    BY <1>3, <1>5 DEF Gates
  <2>2. CASE loss <= spare
    <3>1. g = [pass |-> <<o>>, left |-> spare - loss]
      BY <1>5, <2>2 DEF Gated
    <3>2. spare - loss \in Int /\ loss + AtLeastZero(spare - loss) <= AtLeastZero(spare)
      BY <1>1, <2>2 DEF AtLeastZero
    <3>3. GateLossOf(a, o) = loss
      BY <2>1 DEF GateLossOf
    <3> HIDE DEF loss
    <3>4. /\ g.pass = <<o>> /\ g.left \in Int
          /\ GateLossOf(a, o) + AtLeastZero(g.left) <= AtLeastZero(spare)
      BY <3>1, <3>2, <3>3
    <3> QED BY <2>1, <3>4, Zenon
  <2>3. CASE ~(loss <= spare) /\ spare > 0
    <3>1. g = [pass |-> <<q>>, left |-> 0]
      BY <1>5, <2>3 DEF Gated
    <3>2. trimmed \in Nat /\ trimmed * u <= spare
      <4>1. o.qty * u > 0 /\ loss = o.qty * u
        BY <1>1, <1>5
      <4>2. (o.qty * spare) \div (o.qty * u) \in Int /\ ((o.qty * spare) \div (o.qty * u)) * u <= spare
        BY <1>1, <4>1, Trim
      <4>3. o.qty * spare \in Nat
        BY <1>1, <2>3
      <4> HIDE DEF loss, u
      <4>4. (o.qty * spare) \div loss \in Nat
        <5> DEFINE m == o.qty * spare
        <5>1. m \in Nat /\ loss \in Nat /\ loss > 0
          BY <1>1, <1>5, <4>3
        <5> HIDE DEF m
        <5>2. m \div loss \in Nat
          BY <5>1
        <5> QED BY <5>2 DEF m
      <4> QED BY <4>1, <4>2, <4>4
    <3> HIDE DEF trimmed
    <3>3. q \in Order /\ q.reduce = o.reduce /\ q.market = o.market /\ q.src = o.src
      BY <3>2 DEF Order
    <3>4. ProjectedLoss(a, q) = AtLeastZero(trimmed * u) /\ UnitLoss(a, q) = u
      BY <3>2, LossFacts
    <3>5. ProjectedLoss(a, q) <= spare /\ ProjectedLoss(a, q) \in Int
      <4> HIDE DEF u
      <4>1. trimmed * u \in Int
        BY <1>1, <3>2
      <4> QED BY <2>3, <3>2, <3>4, <4>1 DEF AtLeastZero
    <3>6. Loses(a, q) /\ GateLossOf(a, q) = ProjectedLoss(a, q)
      BY <1>1, <1>5, <2>1, <3>3, <3>4 DEF Loses, GateLossOf
    <3> HIDE DEF q
    <3>7. GateLossOf(a, q) + AtLeastZero(0) <= AtLeastZero(spare)
      BY <2>3, <3>5, <3>6 DEF AtLeastZero
    <3>8. /\ g.pass = <<q>> /\ g.left \in Int
          /\ GateLossOf(a, q) + AtLeastZero(g.left) <= AtLeastZero(spare)
      BY <3>1, <3>7
    <3> QED BY <2>1, <3>3, <3>6, <3>8, Zenon
  <2>4. CASE ~(loss <= spare) /\ ~(spare > 0)
    <3>1. g = [pass |-> <<>>, left |-> 0]
      BY <1>5, <2>4 DEF Gated
    <3>2. /\ g.pass = <<>> /\ g.left \in Int
          /\ AtLeastZero(g.left) <= AtLeastZero(spare)
      BY <1>2, <3>1
    <3> QED BY <2>1, <3>2, Zenon
  <2> QED BY <2>2, <2>3, <2>4
<1> QED BY <1>1, <1>4, <1>5

-----------------------------------------------------------------------------
(* One order at the exposure caps *)

Used == [total : Nat, grid : Nat, side : [Symbols \X Sides -> Nat]]
Tally == [total : Int, grid : Int, side : [Symbols \X Sides -> Int]]

LEMMA RoomFacts ==
    ASSUME NEW a, AccountTyped(a), NEW o \in Order, NEW used0 \in Tally
    PROVE  /\ Room(a, o, used0) \in Int
           /\ Room(a, o, used0) <= TotalCap(a) - Exposure(a, Keys) - used0.total
           /\ Room(a, o, used0) <= SingleCap(a) - Exposure(a, SideKeys(o.sym, o.side))
                                     - used0.side[<<o.sym, o.side>>]
           /\ o.src = "GRID" => Room(a, o, used0) <= GridCap(a) - Exposure(a, GridKeys) - used0.grid
<1> DEFINE t == TotalCap(a) - Exposure(a, Keys) - used0.total
           s == SingleCap(a) - Exposure(a, SideKeys(o.sym, o.side)) - used0.side[<<o.sym, o.side>>]
           g == GridCap(a) - Exposure(a, GridKeys) - used0.grid
           S == {t, s} \cup (IF o.src = "GRID" THEN {g} ELSE {})
<1>1. /\ used0.total \in Int /\ used0.grid \in Int /\ used0.side[<<o.sym, o.side>>] \in Int
  BY DEF Tally, Order
<1>2. t \in Int /\ s \in Int /\ g \in Int
  BY <1>1, CapsTyped, ExposureTyped
<1>3. Room(a, o, used0) = Min(S)
  BY DEF Room
<1> HIDE DEF t, s, g
<1>4. t \in S /\ S \subseteq {t, s, g}
  OBVIOUS
<1>5. Min(S) \in S /\ \A k \in S : Min(S) <= k
  <2> HIDE DEF S
  <2> QED BY <1>2, <1>4, MinOf
<1>6. Min(S) \in Int /\ Min(S) <= t /\ Min(S) <= s /\ (o.src = "GRID" => Min(S) <= g)
  BY <1>2, <1>5
<1> HIDE DEF S
<1> QED BY <1>3, <1>6 DEF t, s, g

\* What passes the caps is an order of the same kind, with or without a price.
Trimmed(o) == {[o EXCEPT !.qty = n] : n \in Nat}

LEMMA CapTyped ==
    ASSUME NEW a, AccountTyped(a), NEW o \in Order, NEW used0 \in Tally
    PROVE  LET c == Capped(a, o, used0)
           IN  /\ c.used \in Tally
               /\ c.pass = <<>> \/ \E q \in Trimmed(o) : c.pass = <<q>>
<1> DEFINE c == Capped(a, o, used0)
           room == Room(a, o, used0)
           n == Fitting(o, room)
           more == n * o.price * CMult[o.sym]
<1>1. /\ o.qty \in Nat /\ o.price \in Int /\ CMult[o.sym] \in Nat /\ o.reduce \in BOOLEAN
      /\ <<o.sym, o.side>> \in Symbols \X Sides /\ room \in Int
  BY Numbers, RoomFacts DEF Order
<1>2. CASE o.reduce
  <2>1. c = [pass |-> <<o>>, used |-> used0]
    BY <1>2 DEF Capped
  <2>2. o = [o EXCEPT !.qty = o.qty]
    BY DEF Order
  <2>3. o \in Trimmed(o)
    BY <1>1, <2>2, Zenon DEF Trimmed
  <2> QED BY <2>1, <2>3
<1>3. CASE ~o.reduce /\ ~Admits(o, room)
  BY <1>3 DEF Capped
<1>4. CASE ~o.reduce /\ Admits(o, room)
  <2>1. c = [pass |-> <<[o EXCEPT !.qty = n]>>, used |-> UsedWith(used0, o, n)]
    BY <1>4 DEF Capped
  <2>2. n \in Nat
    <3>1. CASE Cost(o) <= room
      BY <1>1, <3>1 DEF Fitting
    <3>2. CASE ~(Cost(o) <= room)
      <4> DEFINE d == Cost(o)
                 e == o.qty * room
      <4>1. d \in Int /\ e \in Int
        BY <1>1 DEF Cost
      <4>2. room > 0 /\ n >= MinQty /\ n = Quantized(e \div d)
        BY <1>4, <3>2 DEF Admits, Fitting
      <4> HIDE DEF d, e, n, room
      <4>3. d \in Nat /\ d > 0
        BY <1>1, <3>2, <4>1, <4>2 DEF d, room
      <4>4. e \div d \in Int
        BY <4>1, <4>3
      <4>5. Quantized(e \div d) \in Int
        BY <4>4, Quantum
      <4> QED BY <4>2, <4>5, Numbers
    <3> QED BY <3>1, <3>2
  <2> HIDE DEF n
  <2>3. more \in Int
    BY <1>1, <2>2
  <2>4. UsedWith(used0, o, n) =
           [total |-> used0.total + more, grid |-> used0.grid + (IF o.src = "GRID" THEN more ELSE 0),
            side |-> [used0.side EXCEPT ![<<o.sym, o.side>>] = @ + more]]
    BY DEF UsedWith
  <2> HIDE DEF more
  <2>5. UsedWith(used0, o, n) \in Tally
    BY <1>1, <2>3, <2>4 DEF Tally
  <2>6. [o EXCEPT !.qty = n] \in Trimmed(o)
    BY <2>2, Zenon DEF Trimmed
  <2> QED BY <2>1, <2>5, <2>6
<1> QED BY <1>1, <1>2, <1>3, <1>4

\* What is taken of an entry that has a price fits the room there was.
LEMMA FittingFacts ==
    ASSUME NEW o \in Priced, ~o.reduce, NEW room \in Int, Admits(o, room)
    PROVE  /\ Fitting(o, room) \in Nat
           /\ Fitting(o, room) * (o.price * CMult[o.sym]) <= room
<1> DEFINE c == o.price * CMult[o.sym]
           scaled == (o.qty * room) \div Cost(o)
           trimmed == Quantized(scaled)
<1>1. /\ c \in Nat /\ c > 0 /\ Cost(o) \in Nat /\ Cost(o) = o.qty * c /\ o.qty \in Nat
      /\ MinQty \in Nat /\ MinQty > 0
  BY CostFacts, Numbers DEF Priced, Order
<1>2. room > 0
  BY DEF Admits
<1> HIDE DEF c
<1>3. CASE Cost(o) <= room
  <2>1. Fitting(o, room) = o.qty
    BY <1>3 DEF Fitting
  <2> QED BY <1>1, <1>3, <2>1 DEF c
<1>4. CASE Cost(o) > room
  <2>1. o.qty * c > 0
    BY <1>1, <1>2, <1>4
  <2>2. scaled \in Int /\ scaled * c <= room
    <3>1. (o.qty * room) \div (o.qty * c) \in Int /\ ((o.qty * room) \div (o.qty * c)) * c <= room
      BY <1>1, <1>2, <2>1, Trim
    <3> QED BY <1>1, <3>1
  <2>3. trimmed \in Int /\ trimmed <= scaled
    <3> HIDE DEF scaled
    <3> QED BY <2>2, Quantum
  <2>4. trimmed * c <= room
    <3> HIDE DEF scaled, trimmed
    <3>1. trimmed * c <= scaled * c
      BY <1>1, <2>2, <2>3
    <3>2. trimmed * c \in Int /\ scaled * c \in Int
      BY <1>1, <2>2, <2>3
    <3> QED BY <2>2, <3>1, <3>2
  <2>5. Fitting(o, room) = trimmed /\ Fitting(o, room) >= MinQty
    BY <1>1, <1>4 DEF Fitting, Admits
  <2> HIDE DEF trimmed
  <2> QED BY <1>1, <2>3, <2>4, <2>5 DEF c
<1> QED BY <1>1, <1>3, <1>4

\* What an entry takes of each cap, once it is accepted.
EntryCost(srcs, sides) ==
    [o \in Order |-> IF ~o.reduce /\ o.src \in srcs /\ <<o.sym, o.side>> \in sides THEN Cost(o) ELSE 0]

\* One step of the caps: an exit passes as it is; an entry that passes fits under every
\* cap that binds it, with what was used before.
LEMMA CapFacts ==
    ASSUME NEW a, AccountTyped(a), NEW o \in Priced, NEW used0 \in Used
    PROVE  LET c == Capped(a, o, used0)
           IN  \/ o.reduce /\ c = [pass |-> <<o>>, used |-> used0]
               \/ ~o.reduce /\ c = [pass |-> <<>>, used |-> used0]
               \/ \E q \in Priced :
                     /\ ~o.reduce /\ ~q.reduce
                     /\ c.pass = <<q>> /\ c.used \in Used
                     /\ c.used.total = used0.total + Cost(q)
                     /\ c.used.grid = used0.grid + (IF q.src = "GRID" THEN Cost(q) ELSE 0)
                     /\ \A p \in Symbols \X Sides :
                           c.used.side[p] = used0.side[p] + (IF p = <<q.sym, q.side>> THEN Cost(q) ELSE 0)
                     /\ Exposure(a, Keys) + c.used.total <= TotalCap(a)
                     /\ q.src = "GRID" => Exposure(a, GridKeys) + c.used.grid <= GridCap(a)
                     /\ Exposure(a, SideKeys(q.sym, q.side)) + c.used.side[<<q.sym, q.side>>] <= SingleCap(a)
<1> DEFINE c == Capped(a, o, used0)
           room == Room(a, o, used0)
           n == Fitting(o, room)
           q == [o EXCEPT !.qty = n]
           more == n * o.price * CMult[o.sym]
<1>1. o \in Order /\ o.reduce \in BOOLEAN /\ used0 \in Tally
  BY DEF Priced, Order, Used, Tally
<1>2. CASE o.reduce
  BY <1>2 DEF Capped
<1>3. CASE ~o.reduce /\ ~Admits(o, room)
  BY <1>3 DEF Capped
<1>4. CASE ~o.reduce /\ Admits(o, room)
  <2>1. c = [pass |-> <<q>>, used |-> UsedWith(used0, o, n)]
    BY <1>4 DEF Capped
  <2>2. /\ room \in Int /\ n \in Nat /\ n * (o.price * CMult[o.sym]) <= room
    <3>1. room \in Int
      BY <1>1, RoomFacts
    <3> HIDE DEF room
    <3> QED BY <1>4, <3>1, FittingFacts
  <2>3. /\ room <= TotalCap(a) - Exposure(a, Keys) - used0.total
        /\ room <= SingleCap(a) - Exposure(a, SideKeys(o.sym, o.side)) - used0.side[<<o.sym, o.side>>]
        /\ o.src = "GRID" => room <= GridCap(a) - Exposure(a, GridKeys) - used0.grid
    BY <1>1, RoomFacts
  <2> HIDE DEF n, room
  <2>4. /\ q \in Priced /\ q.qty = n /\ q.price = o.price /\ q.sym = o.sym /\ q.side = o.side
        /\ q.src = o.src /\ q.reduce = o.reduce /\ <<o.sym, o.side>> \in Symbols \X Sides
    BY <1>1, <2>2 DEF Priced, Order
  <2>5. Cost(q) = more /\ more \in Nat /\ more <= room
    <3>1. Cost(q) \in Nat
      BY <1>4, <2>4, CostFacts
    <3>2. Cost(q) = more
      BY <2>4 DEF Cost
    <3>3. more = n * (o.price * CMult[o.sym])
      BY <1>1, <1>4, <2>2, CostFacts
    <3> QED BY <2>2, <3>1, <3>2, <3>3
  <2> HIDE DEF more, q
  <2>6. /\ used0.total \in Nat /\ used0.grid \in Nat /\ used0.side \in [Symbols \X Sides -> Nat]
    BY DEF Used
  <2>7. UsedWith(used0, o, n) =
           [total |-> used0.total + more, grid |-> used0.grid + (IF o.src = "GRID" THEN more ELSE 0),
            side |-> [used0.side EXCEPT ![<<o.sym, o.side>>] = @ + more]]
    BY DEF UsedWith, more
  <2>8. /\ c.used.total = used0.total + more
        /\ c.used.grid = used0.grid + (IF o.src = "GRID" THEN more ELSE 0)
        /\ c.used.side = [used0.side EXCEPT ![<<o.sym, o.side>>] = @ + more]
        /\ c.used = [total |-> c.used.total, grid |-> c.used.grid, side |-> c.used.side]
        /\ c.pass = <<q>>
    BY <2>1, <2>7
  <2> HIDE DEF c
  <2>9. /\ \A p \in Symbols \X Sides :
              c.used.side[p] = used0.side[p] + (IF p = <<o.sym, o.side>> THEN more ELSE 0)
        /\ c.used.side \in [Symbols \X Sides -> Nat]
    BY <2>4, <2>5, <2>6, <2>8
  <2>10. c.used \in Used
    BY <2>5, <2>6, <2>8, <2>9 DEF Used
  <2>11. /\ TotalCap(a) \in Int /\ SingleCap(a) \in Int /\ GridCap(a) \in Int
         /\ Exposure(a, Keys) \in Int /\ Exposure(a, GridKeys) \in Int
         /\ Exposure(a, SideKeys(o.sym, o.side)) \in Int
    BY CapsTyped, ExposureTyped
  <2>12. /\ Exposure(a, Keys) + c.used.total <= TotalCap(a)
         /\ o.src = "GRID" => Exposure(a, GridKeys) + c.used.grid <= GridCap(a)
    BY <2>2, <2>3, <2>5, <2>6, <2>8, <2>11
  <2>13. Exposure(a, SideKeys(o.sym, o.side)) + c.used.side[<<o.sym, o.side>>] <= SingleCap(a)
    <3>1. c.used.side[<<o.sym, o.side>>] = used0.side[<<o.sym, o.side>>] + more
          /\ used0.side[<<o.sym, o.side>>] \in Nat
      BY <2>4, <2>6, <2>9
    <3> QED BY <2>2, <2>3, <2>5, <2>11, <3>1
  <2>14. /\ ~o.reduce /\ ~q.reduce /\ c.pass = <<q>> /\ c.used \in Used
         /\ c.used.total = used0.total + Cost(q)
         /\ c.used.grid = used0.grid + (IF q.src = "GRID" THEN Cost(q) ELSE 0)
         /\ \A p \in Symbols \X Sides :
               c.used.side[p] = used0.side[p] + (IF p = <<q.sym, q.side>> THEN Cost(q) ELSE 0)
         /\ Exposure(a, Keys) + c.used.total <= TotalCap(a)
         /\ q.src = "GRID" => Exposure(a, GridKeys) + c.used.grid <= GridCap(a)
         /\ Exposure(a, SideKeys(q.sym, q.side)) + c.used.side[<<q.sym, q.side>>] <= SingleCap(a)
    BY <1>4, <2>4, <2>5, <2>8, <2>9, <2>10, <2>12, <2>13
  <2> QED BY <2>4, <2>14, Zenon DEF c
<1>5. o.reduce \/ (~o.reduce /\ ~Admits(o, room)) \/ (~o.reduce /\ Admits(o, room))
  OBVIOUS
<1> QED BY <1>2, <1>3, <1>4, <1>5, Zenon

-----------------------------------------------------------------------------
(* The breakers: what is lost and which exits are there *)

LossFn(a) == [o \in Order |-> GateLossOf(a, o)]
\* The exits that nothing may touch.
Safe(a) == {o \in Order : o.reduce /\ (o.market \/ UnitLoss(a, o) <= 0)}

LEMMA LossFnFacts ==
    ASSUME NEW a, AccountTyped(a)
    PROVE  /\ LossFn(a) \in [Order -> Int] /\ \A o \in Order : LossFn(a)[o] >= 0
           /\ \A o \in Order : ~o.reduce => LossFn(a)[o] = 0
<1>1. \A o \in Order : ProjectedLoss(a, o) \in Nat
  BY LossFacts
<1> QED BY <1>1 DEF LossFn, GateLossOf

LEMMA SumSame ==
    ASSUME NEW T, NEW f, NEW s \in Seq(T), NEW t \in Seq(T), Len(t) = Len(s),
           \A i \in 1 .. Len(s) : f[t[i]] = f[s[i]]
    PROVE  SumOf(f, t) = SumOf(f, s)
<1>1. DOMAIN s = 1 .. Len(s) /\ DOMAIN t = 1 .. Len(s)
  BY LenProperties
<1>2. [i \in DOMAIN t |-> f[t[i]]] = [i \in DOMAIN s |-> f[s[i]]]
  BY <1>1
<1> QED BY <1>2 DEF SumOf

\* Two lists that agree wherever either is in the set have the same selection.
LEMMA KeptSame ==
    ASSUME NEW T, NEW s \in Seq(T), NEW t \in Seq(T), Len(t) = Len(s), NEW S,
           \A i \in 1 .. Len(s) : t[i] = s[i] \/ (t[i] \notin S /\ s[i] \notin S)
    PROVE  Kept(t, S) = Kept(s, S)
<1>1. Len(s) \in Nat
  BY LenProperties
<1>2. PICK f : Selects(f, s, S, Len(s))
  BY <1>1, SelectsExist
<1>3. \A k \in 0 .. Len(s) :
          f[k] = IF k = 0 THEN <<>> ELSE IF s[k] \in S THEN Append(f[k - 1], s[k]) ELSE f[k - 1]
  BY <1>2, Zenon DEF Selects
<1>4. /\ f[0] = <<>>
      /\ \A k \in 1 .. Len(s) : f[k] = IF s[k] \in S THEN Append(f[k - 1], s[k]) ELSE f[k - 1]
  BY <1>1, <1>3
<1>5. \A k \in 1 .. Len(t) : f[k] = IF t[k] \in S THEN Append(f[k - 1], t[k]) ELSE f[k - 1]
  BY <1>4, Zenon
<1>6. Kept(s, S) = f[Len(s)] /\ Kept(t, S) = f[Len(t)]
  BY <1>1, <1>4, <1>5, KeptIs
<1> QED BY <1>6

\* What a selection keeps anyway, a selection before it does not change.
LEMMA KeptKept ==
    ASSUME NEW T, NEW s \in Seq(T), NEW S, NEW U, U \cap T \subseteq S
    PROVE  Kept(Kept(s, S), U) = Kept(s, U)
<1> DEFINE Q == {q \in Seq(T) : Kept(Kept(q, S), U) = Kept(q, U)}
<1>1. <<>> \in Q
  <2>1. Kept(<<>>, S) = <<>> /\ Kept(<<>>, U) = <<>>
    BY KeptEmpty
  <2>2. Kept(Kept(<<>>, S), U) = Kept(<<>>, U)
    BY <2>1, Zenon
  <2> QED BY <2>2, EmptySeq
<1>2. ASSUME NEW q \in Seq(T), q \in Q, NEW x \in T PROVE Append(q, x) \in Q
  <2> DEFINE r == Kept(q, S)
  <2>1. r \in Seq(T) /\ Kept(r, U) = Kept(q, U)
    BY <1>2, KeptFacts
  <2>2. /\ Kept(Append(q, x), S) = IF x \in S THEN Append(r, x) ELSE r
        /\ Kept(Append(q, x), U) = IF x \in U THEN Append(Kept(q, U), x) ELSE Kept(q, U)
    BY KeptAppend
  <2> HIDE DEF r
  <2>3. Kept(Append(r, x), U) = IF x \in U THEN Append(Kept(r, U), x) ELSE Kept(r, U)
    <3>1. r \in Seq(T)
      BY <2>1
    <3> QED BY <3>1, KeptAppend, Zenon
  <2>4. Kept(Kept(Append(q, x), S), U) = Kept(Append(q, x), U)
    BY <2>1, <2>2, <2>3
  <2>5. Append(q, x) \in Seq(T)
    BY AppendProperties
  <2> QED BY <2>4, <2>5
<1> HIDE DEF Q
<1>3. s \in Q
  BY <1>1, <1>2, SeqInduction
<1> QED BY <1>3 DEF Q

LEMMA OrderSets ==
    /\ Exits \subseteq Priced /\ Priced \subseteq Order
    /\ Seq(Exits) \subseteq Seq(Priced) /\ Seq(Priced) \subseteq Seq(Order)
<1>1. Exits \subseteq Priced /\ Priced \subseteq Order
  BY DEF Exits, Priced
<1>2. ASSUME NEW A, NEW B, A \subseteq B PROVE Seq(A) \subseteq Seq(B)
  <2> SUFFICES ASSUME NEW s \in Seq(A) PROVE s \in Seq(B)
    OBVIOUS
  <2>1. Len(s) \in Nat /\ s = [i \in 1 .. Len(s) |-> s[i]] /\ \A i \in 1 .. Len(s) : s[i] \in A
    BY LenProperties, ElementOfSeq, SeqDef
  <2>2. \A i \in 1 .. Len(s) : s[i] \in B
    BY <1>2, <2>1
  <2>3. s \in [1 .. Len(s) -> B]
    BY <2>1, <2>2, Zenon
  <2> QED BY <2>1, <2>3, SeqDef
<1> QED BY <1>1, <1>2, Zenon

LEMMA BreakersFacts ==
    ASSUME NEW a, AccountTyped(a), NEW s \in Seq(Priced), NEW t \in Tiers, NEW c \in BOOLEAN
    PROVE  LET r == AfterBreakers(s, a, t, c)
           IN  /\ r \in Seq(Priced)
               /\ (c \/ t = "ORANGE") => r \in Seq(Exits)
               /\ SumOf(LossFn(a), r) <= SumOf(LossFn(a), s)
               /\ Kept(r, Safe(a)) = Kept(s, Safe(a))
<1> DEFINE exitsOnly == c \/ t = "ORANGE"
           halved(o) == IF o.reduce \/ t # "YELLOW" THEN o ELSE [o EXCEPT !.qty = @ \div 2]
           runs(o) == o.reduce \/ (~exitsOnly /\ Bucket(o.src) \notin Paused(a, t))
           S == {o \in Range(s) : runs(o)}
           kept == Kept(s, S)
           r == [i \in DOMAIN kept |-> halved(kept[i])]
<1>1. AfterBreakers(s, a, t, c) = r
  BY Zenon DEF AfterBreakers
<1>2. Len(s) \in Nat /\ DOMAIN s = 1 .. Len(s) /\ \A i \in 1 .. Len(s) : s[i] \in Priced
  BY LenProperties, ElementOfSeq
<1>3. Range(s) \subseteq Priced /\ s \in Seq(Range(s))
  <2>1. Range(s) \subseteq Priced
    BY <1>2 DEF Range
  <2>2. \A i \in 1 .. Len(s) : s[i] \in Range(s)
    BY <1>2 DEF Range
  <2>3. s = [i \in 1 .. Len(s) |-> s[i]]
    BY <1>2, LenProperties
  <2>4. s \in [1 .. Len(s) -> Range(s)]
    BY <2>2, <2>3, Zenon
  <2> QED BY <1>2, <2>1, <2>4, SeqDef
<1>4. /\ kept \in Seq(Priced) /\ \A i \in DOMAIN kept : kept[i] \in S
  <2> HIDE DEF S
  <2> QED BY KeptFacts
<1> HIDE DEF kept
<1>5. Len(kept) \in Nat /\ DOMAIN kept = 1 .. Len(kept) /\ \A i \in 1 .. Len(kept) : kept[i] \in Priced
  BY <1>4, LenProperties, ElementOfSeq
<1>6. ASSUME NEW o \in Priced
      PROVE  /\ halved(o) \in Priced /\ halved(o).reduce = o.reduce
             /\ o.reduce => halved(o) = o
  <2>1. CASE o.reduce \/ t # "YELLOW"
    BY <2>1, OrderSets
  <2>2. CASE ~(o.reduce \/ t # "YELLOW")
    <3>1. o \in Order /\ o.qty \in Nat /\ ~o.reduce /\ o.qty \div 2 \in Nat
      BY <2>2 DEF Priced, Order
    <3>2. [o EXCEPT !.qty = @ \div 2] \in Order
          /\ [o EXCEPT !.qty = @ \div 2].reduce = o.reduce
          /\ [o EXCEPT !.qty = @ \div 2].price = o.price
      BY <3>1 DEF Order
    <3>3. [o EXCEPT !.qty = @ \div 2] \in Priced
      BY <3>2 DEF Priced
    <3> QED BY <2>2, <3>1, <3>2, <3>3
  <2> QED BY <2>1, <2>2
<1> HIDE DEF halved
<1>7. /\ r \in Seq(Priced) /\ Len(r) = Len(kept) /\ \A i \in 1 .. Len(kept) : r[i] = halved(kept[i])
  BY <1>5, <1>6
<1>8. ASSUME exitsOnly PROVE r \in Seq(Exits)
  <2>1. \A i \in 1 .. Len(kept) : kept[i].reduce
    BY <1>4, <1>5, <1>8
  <2>2. \A i \in 1 .. Len(kept) : halved(kept[i]) \in Exits
    BY <1>5, <1>6, <2>1 DEF Exits, Priced
  <2> QED BY <1>5, <2>2
<1> HIDE DEF r
<1>9. SumOf(LossFn(a), r) <= SumOf(LossFn(a), s)
  <2>1. LossFn(a) \in [Order -> Int] /\ \A o \in Order : LossFn(a)[o] >= 0
    BY LossFnFacts
  <2>2. s \in Seq(Order) /\ kept \in Seq(Order) /\ r \in Seq(Order)
    BY <1>4, <1>7, OrderSets
  <2>3. SumOf(LossFn(a), kept) <= SumOf(LossFn(a), s)
    <3> HIDE DEF S
    <3> QED BY <2>1, <2>2, KeptSum DEF kept
  <2>4. \A i \in 1 .. Len(kept) : LossFn(a)[r[i]] = LossFn(a)[kept[i]]
    <3> SUFFICES ASSUME NEW i \in 1 .. Len(kept) PROVE LossFn(a)[r[i]] = LossFn(a)[kept[i]]
      OBVIOUS
    <3>1. r[i] = halved(kept[i]) /\ kept[i] \in Priced
      BY <1>5, <1>7
    <3>2. halved(kept[i]) \in Order /\ kept[i] \in Order
          /\ halved(kept[i]).reduce = kept[i].reduce /\ (kept[i].reduce => halved(kept[i]) = kept[i])
      BY <1>6, <3>1, OrderSets
    <3> QED BY <3>1, <3>2, LossFnFacts
  <2>5. SumOf(LossFn(a), r) = SumOf(LossFn(a), kept)
    BY <1>7, <2>2, <2>4, SumSame
  <2> QED BY <2>3, <2>5
<1>10. Kept(r, Safe(a)) = Kept(s, Safe(a))
  <2>1. Kept(kept, Safe(a)) = Kept(s, Safe(a))
    <3>1. Safe(a) \cap Range(s) \subseteq S
      BY DEF Safe
    <3> HIDE DEF S
    <3> QED BY <1>3, <3>1, KeptKept DEF kept
  <2>2. \A i \in 1 .. Len(kept) : r[i] = kept[i] \/ (r[i] \notin Safe(a) /\ kept[i] \notin Safe(a))
    <3> SUFFICES ASSUME NEW i \in 1 .. Len(kept)
                 PROVE  r[i] = kept[i] \/ (r[i] \notin Safe(a) /\ kept[i] \notin Safe(a))
      OBVIOUS
    <3>1. r[i] = halved(kept[i]) /\ kept[i] \in Priced
      BY <1>5, <1>7
    <3>2. halved(kept[i]).reduce = kept[i].reduce /\ (kept[i].reduce => halved(kept[i]) = kept[i])
      BY <1>6, <3>1
    <3> QED BY <3>1, <3>2 DEF Safe
  <2>3. kept \in Seq(Order) /\ r \in Seq(Order)
    BY <1>4, <1>7, OrderSets
  <2> QED BY <1>7, <2>1, <2>2, <2>3, KeptSame
<1> QED BY <1>1, <1>7, <1>8, <1>9, <1>10

-----------------------------------------------------------------------------
(* The entries, nearest first *)

StrictOrder(P, R) ==
    /\ \A i \in P : <<i, i>> \notin R
    /\ \A i, j \in P : i # j => <<i, j>> \in R \/ <<j, i>> \in R
    /\ \A i, j, k \in P : <<i, j>> \in R /\ <<j, k>> \in R => <<i, k>> \in R
Below(P, R, j) == {i \in P : <<i, j>> \in R}

\* In a finite strict total order there is an element with n below it, for every n that is
\* less than the number of elements.
LEMMA RankOnto ==
    ASSUME NEW P, IsFiniteSet(P), NEW R, StrictOrder(P, R), NEW n \in Nat, n < Cardinality(P)
    PROVE  \E j \in P : Cardinality(Below(P, R, j)) = n
<1> DEFINE below(j) == Below(P, R, j)
           rank == [j \in P |-> Cardinality(below(j))]
           N == Cardinality(P)
<1>1. N \in Nat
  BY FS_CardinalityType
<1>2. ASSUME NEW S \in SUBSET P, NEW T \in SUBSET S, T # S
      PROVE  Cardinality(T) \in Nat /\ Cardinality(T) < Cardinality(S)
  <2>1. IsFiniteSet(S)
    BY FS_Subset
  <2>2. IsFiniteSet(T) /\ Cardinality(T) <= Cardinality(S) /\ Cardinality(S) # Cardinality(T)
    BY <1>2, <2>1, FS_Subset
  <2>3. Cardinality(T) \in Nat /\ Cardinality(S) \in Nat
    BY <2>1, <2>2, FS_CardinalityType
  <2> QED BY <2>2, <2>3
<1>3. \A i, j \in P : <<i, j>> \in R => Cardinality(below(i)) < Cardinality(below(j))
  <2> SUFFICES ASSUME NEW i \in P, NEW j \in P, <<i, j>> \in R
               PROVE  Cardinality(below(i)) < Cardinality(below(j))
    OBVIOUS
  <2>1. below(j) \in SUBSET P /\ below(i) \in SUBSET below(j) /\ i \in below(j) /\ i \notin below(i)
    BY DEF StrictOrder, Below
  <2> HIDE DEF below
  <2> QED BY <1>2, <2>1
<1>4. \A j \in P : Cardinality(below(j)) \in Nat /\ Cardinality(below(j)) < N
  <2> SUFFICES ASSUME NEW j \in P
               PROVE  Cardinality(below(j)) \in Nat /\ Cardinality(below(j)) < N
    OBVIOUS
  <2>1. P \in SUBSET P /\ below(j) \in SUBSET P /\ j \notin below(j)
    BY DEF StrictOrder, Below
  <2> HIDE DEF below
  <2> QED BY <1>2, <2>1
<1> HIDE DEF below
<1>5. rank \in [P -> 0 .. (N - 1)]
  BY <1>1, <1>4
<1>6. \A i, j \in P : rank[i] = rank[j] => i = j
  <2> SUFFICES ASSUME NEW i \in P, NEW j \in P, i # j PROVE rank[i] # rank[j]
    OBVIOUS
  <2>1. Cardinality(below(i)) \in Nat /\ Cardinality(below(j)) \in Nat
    BY <1>4
  <2>2. Cardinality(below(i)) < Cardinality(below(j)) \/ Cardinality(below(j)) < Cardinality(below(i))
    BY <1>3 DEF StrictOrder
  <2> QED BY <2>1, <2>2
<1>7. IsFiniteSet(0 .. (N - 1)) /\ Cardinality(0 .. (N - 1)) = N
  <2>1. N - 1 \in Int /\ 0 \in Int
    BY <1>1
  <2>2. IsFiniteSet(0 .. (N - 1))
        /\ Cardinality(0 .. (N - 1)) = IF 0 > N - 1 THEN 0 ELSE N - 1 - 0 + 1
    BY <2>1, FS_Interval
  <2> QED BY <1>1, <2>2
<1> HIDE DEF N
<1>8. rank \in Injection(P, 0 .. (N - 1))
  <2> HIDE DEF rank
  <2> QED BY <1>5, <1>6 DEF Injection, IsInjective
<1>9. rank \in Surjection(P, 0 .. (N - 1))
  <2>1. Cardinality(P) = Cardinality(0 .. (N - 1))
    BY <1>7 DEF N
  <2> HIDE DEF rank
  <2> QED BY <1>7, <1>8, <2>1, FS_Injection
<1>10. n \in 0 .. (N - 1)
  BY <1>1 DEF N
<1>11. PICK j \in P : rank[j] = n
  <2> HIDE DEF rank
  <2> QED BY <1>9, <1>10 DEF Surjection
<1> QED BY <1>11 DEF below

\* Fractions a/x, b/y and c/z compared crosswise.
LEMMA Crosswise ==
    ASSUME NEW a \in Nat, NEW b \in Nat, NEW c \in Nat,
           NEW x \in Nat, NEW y \in Nat, NEW z \in Nat, x > 0, y > 0, z > 0,
           a * y <= b * x, b * z <= c * y
    PROVE  /\ a * z <= c * x
           /\ (a * y < b * x \/ b * z < c * y) => a * z < c * x
<1> DEFINE p == a * z
           q == c * x
           u == a * y
           v == b * x
           g == b * z
           h == c * y
<1>1. p \in Nat /\ q \in Nat /\ u \in Nat /\ v \in Nat /\ g \in Nat /\ h \in Nat
  OBVIOUS
<1>2. y * p = u * z /\ v * z = g * x /\ h * x = y * q
  OBVIOUS
<1>3. u <= v /\ g <= h
  OBVIOUS
<1> HIDE DEF p, q, u, v, g, h
<1>4. u * z <= v * z /\ g * x <= h * x
  BY <1>1, <1>3
<1>5. (u < v => u * z < v * z) /\ (g < h => g * x < h * x)
  BY <1>1
<1>6. y * p <= y * q /\ (u < v \/ g < h => y * p < y * q)
  <2>1. /\ y * p \in Int /\ y * q \in Int /\ u * z \in Int /\ v * z \in Int
        /\ g * x \in Int /\ h * x \in Int
    BY <1>1
  <2> QED BY <1>2, <1>4, <1>5, <2>1
<1>7. p <= q
  BY <1>1, <1>6
<1>8. y * p < y * q => p < q
  BY <1>1
<1> QED BY <1>6, <1>7, <1>8 DEF p, q, u, v, g, h

LEMMA NearerOrder ==
    ASSUME NEW a, AccountTyped(a), NEW s \in Seq(Order)
    PROVE  /\ \A i \in DOMAIN s : ~Nearer(a, s, i, i)
           /\ \A i, j \in DOMAIN s : i # j => Nearer(a, s, i, j) \/ Nearer(a, s, j, i)
           /\ \A i, j, k \in DOMAIN s : Nearer(a, s, i, j) /\ Nearer(a, s, j, k) => Nearer(a, s, i, k)
<1> DEFINE gap(o) == IF o.price <= 0 THEN 0
                     ELSE IF o.price > a.mark[o.sym] THEN o.price - a.mark[o.sym]
                     ELSE a.mark[o.sym] - o.price
           g(i) == gap(s[i])
           m(i) == a.mark[s[i].sym]
<1>1. Len(s) \in Nat /\ DOMAIN s = 1 .. Len(s) /\ \A i \in DOMAIN s : s[i] \in Order
  BY LenProperties, ElementOfSeq
<1>2. \A i \in DOMAIN s : g(i) \in Nat /\ m(i) \in Nat /\ m(i) > 0 /\ i \in Int
  <2> SUFFICES ASSUME NEW i \in DOMAIN s PROVE g(i) \in Nat /\ m(i) \in Nat /\ m(i) > 0 /\ i \in Int
    OBVIOUS
  <2>1. s[i].price \in Int /\ s[i].sym \in Symbols /\ i \in Int
    BY <1>1 DEF Order
  <2>2. m(i) \in Nat /\ m(i) > 0
    BY <2>1, Routed
  <2> QED BY <2>1, <2>2
<1>3. \A i, j : Nearer(a, s, i, j) <=> g(i) * m(j) < g(j) * m(i) \/ (g(i) * m(j) = g(j) * m(i) /\ i < j)
  BY Zenon DEF Nearer
<1> HIDE DEF g, m
<1>4. \A i, j \in DOMAIN s : g(i) * m(j) \in Int
  BY <1>2
<1>5. \A i \in DOMAIN s : ~Nearer(a, s, i, i)
  BY <1>2, <1>3, <1>4
<1>6. \A i, j \in DOMAIN s : i # j => Nearer(a, s, i, j) \/ Nearer(a, s, j, i)
  <2> SUFFICES ASSUME NEW i \in DOMAIN s, NEW j \in DOMAIN s, i # j
               PROVE  Nearer(a, s, i, j) \/ Nearer(a, s, j, i)
    OBVIOUS
  <2>1. g(i) * m(j) \in Int /\ g(j) * m(i) \in Int /\ i \in Int /\ j \in Int
    BY <1>2, <1>4
  <2>2. /\ Nearer(a, s, i, j) <=> g(i) * m(j) < g(j) * m(i) \/ (g(i) * m(j) = g(j) * m(i) /\ i < j)
        /\ Nearer(a, s, j, i) <=> g(j) * m(i) < g(i) * m(j) \/ (g(j) * m(i) = g(i) * m(j) /\ j < i)
    BY <1>3
  <2> QED BY <2>1, <2>2
<1>7. ASSUME NEW i \in DOMAIN s, NEW j \in DOMAIN s, NEW k \in DOMAIN s,
             Nearer(a, s, i, j), Nearer(a, s, j, k)
      PROVE  Nearer(a, s, i, k)
  <2>1. /\ g(i) * m(j) \in Int /\ g(j) * m(i) \in Int /\ g(j) * m(k) \in Int /\ g(k) * m(j) \in Int
        /\ g(i) * m(k) \in Int /\ g(k) * m(i) \in Int /\ i \in Int /\ j \in Int /\ k \in Int
    BY <1>2, <1>4
  <2>2. /\ g(i) * m(j) < g(j) * m(i) \/ (g(i) * m(j) = g(j) * m(i) /\ i < j)
        /\ g(j) * m(k) < g(k) * m(j) \/ (g(j) * m(k) = g(k) * m(j) /\ j < k)
    BY <1>3, <1>7
  <2>3. g(i) * m(j) <= g(j) * m(i) /\ g(j) * m(k) <= g(k) * m(j)
    BY <2>1, <2>2
  <2>4. /\ g(i) * m(k) <= g(k) * m(i)
        /\ (g(i) * m(j) < g(j) * m(i) \/ g(j) * m(k) < g(k) * m(j)) => g(i) * m(k) < g(k) * m(i)
    BY <1>2, <2>3, Crosswise
  <2>5. g(i) * m(k) < g(k) * m(i) \/ (g(i) * m(k) = g(k) * m(i) /\ i < k)
    BY <2>1, <2>2, <2>4
  <2> QED BY <1>3, <2>5
<1> QED BY <1>5, <1>6, <1>7

\* Every place of an entry gets an entry, and every exit keeps its place.
LEMMA DistanceFacts ==
    ASSUME NEW a, AccountTyped(a), NEW T \in SUBSET Order, NEW s \in Seq(T)
    PROVE  LET r == ByDistance(s, a)
           IN  /\ r \in Seq(T) /\ Len(r) = Len(s)
               /\ \A i \in 1 .. Len(s) : r[i].reduce = s[i].reduce /\ (s[i].reduce => r[i] = s[i])
<1> DEFINE places == {i \in DOMAIN s : ~s[i].reduce}
           before(i) == Cardinality({j \in places : j < i})
           nearer(i) == Cardinality({j \in places : Nearer(a, s, j, i)})
           place(i) == CHOOSE j \in places : nearer(j) = before(i)
           r == [i \in DOMAIN s |-> IF i \in places THEN s[place(i)] ELSE s[i]]
<1>1. ByDistance(s, a) = r
  BY Zenon DEF ByDistance
<1>2. Len(s) \in Nat /\ DOMAIN s = 1 .. Len(s) /\ \A i \in DOMAIN s : s[i] \in T
  BY LenProperties, ElementOfSeq
<1>3. places \in SUBSET (1 .. Len(s)) /\ IsFiniteSet(places)
  <2>1. places \in SUBSET (1 .. Len(s)) /\ 1 \in Int /\ Len(s) \in Int
    BY <1>2
  <2>2. IsFiniteSet(1 .. Len(s))
    BY <2>1, FS_Interval
  <2> HIDE DEF places
  <2> QED BY <2>1, <2>2, FS_Subset
<1>4. ASSUME NEW i \in places PROVE \E j \in places : nearer(j) = before(i)
  <2> DEFINE first == {j \in places : j < i}
             R == {p \in places \X places : Nearer(a, s, p[1], p[2])}
  <2>1. first \in SUBSET places /\ i \notin first
    BY <1>3
  <2>2. before(i) \in Nat /\ before(i) < Cardinality(places)
    <3> HIDE DEF places
    <3>1. IsFiniteSet(first) /\ Cardinality(first) <= Cardinality(places)
          /\ (Cardinality(places) = Cardinality(first) => places = first)
      <4> HIDE DEF first
      <4> QED BY <1>3, <2>1, FS_Subset
    <3>2. Cardinality(first) # Cardinality(places)
      BY <2>1, <3>1
    <3>3. Cardinality(first) \in Nat /\ Cardinality(places) \in Nat
      <4> HIDE DEF first
      <4> QED BY <1>3, <3>1, FS_CardinalityType
    <3>4. before(i) = Cardinality(first)
      OBVIOUS
    <3> HIDE DEF first, before
    <3> QED BY <3>1, <3>2, <3>3, <3>4
  <2>3. StrictOrder(places, R)
    <3>1. s \in Seq(Order) /\ places \subseteq DOMAIN s
      BY <1>2, LenProperties
    <3>2. \A j, k \in places : <<j, k>> \in R <=> Nearer(a, s, j, k)
      OBVIOUS
    <3> HIDE DEF R, places
    <3> QED BY <3>1, <3>2, NearerOrder DEF StrictOrder
  <2>4. \A j \in places : nearer(j) = Cardinality(Below(places, R, j))
    <3> SUFFICES ASSUME NEW j \in places
                 PROVE  {k \in places : Nearer(a, s, k, j)} = Below(places, R, j)
      BY Zenon
    <3> HIDE DEF places
    <3> QED BY DEF Below
  <2> HIDE DEF R, places, before, nearer
  <2>5. \E j \in places : Cardinality(Below(places, R, j)) = before(i)
    BY <1>3, <2>2, <2>3, RankOnto
  <2> QED BY <2>4, <2>5
<1>5. \A i \in places : place(i) \in places
  <2> HIDE DEF places, nearer, before
  <2> QED BY <1>4, Zenon
<1> HIDE DEF place
<1>6. ASSUME NEW i \in 1 .. Len(s)
      PROVE  r[i] \in T /\ r[i].reduce = s[i].reduce /\ (s[i].reduce => r[i] = s[i])
  <2>1. CASE i \in places
    <3>1. r[i] = s[place(i)] /\ place(i) \in places /\ ~s[i].reduce
      BY <1>2, <1>5, <2>1
    <3>2. s[place(i)] \in T /\ ~s[place(i)].reduce /\ s[i] \in T
      BY <1>2, <3>1
    <3>3. s[place(i)].reduce = FALSE /\ s[i].reduce = FALSE
      BY <3>1, <3>2 DEF Order
    <3> HIDE DEF r, places
    <3> QED BY <3>1, <3>2, <3>3
  <2>2. CASE i \notin places
    BY <1>2, <2>2
  <2> QED BY <2>1, <2>2
<1>7. r \in Seq(T) /\ Len(r) = Len(s)
  <2>1. r = [i \in 1 .. Len(s) |-> r[i]]
    BY <1>2
  <2> HIDE DEF r
  <2> QED BY <1>2, <1>6, <2>1
<1> HIDE DEF r
<1> QED BY <1>1, <1>6, <1>7

-----------------------------------------------------------------------------
(* The unstuck order *)

\* The best of the candidates so far, up to a place.
Leads(f, s, a, D) ==
    f = [k \in D |-> IF k = 1 \/ MoreStuck(a, s[k], f[k - 1]) THEN s[k] ELSE f[k - 1]]

LEMMA LeadsExist ==
    ASSUME NEW s, NEW a, NEW m \in Nat
    PROVE  \E f : Leads(f, s, a, 1 .. m)
<1> DEFINE better(f, k) == IF k = 1 \/ MoreStuck(a, s[k], f[k - 1]) THEN s[k] ELSE f[k - 1]
           N == {n \in Nat : \E f : Leads(f, s, a, 1 .. n)}
<1>1. 0 \in N
  <2>1. 1 .. 0 = {}
    OBVIOUS
  <2>2. Leads([k \in {} |-> 0], s, a, {})
    BY DEF Leads
  <2> QED BY <2>1, <2>2
<1>2. ASSUME NEW n \in N PROVE n + 1 \in N
  <2>1. n \in Nat
    OBVIOUS
  <2>2. PICK f : Leads(f, s, a, 1 .. n)
    OBVIOUS
  <2> DEFINE g == [k \in 1 .. (n + 1) |-> better(f, k)]
  <2>3. \A k \in 1 .. n : g[k] = f[k]
    <3>1. \A k \in 1 .. n : f[k] = better(f, k)
      BY <2>2, Zenon DEF Leads
    <3>2. \A k \in 1 .. n : k \in 1 .. (n + 1)
      BY <2>1
    <3>3. \A k \in 1 .. (n + 1) : g[k] = better(f, k)
      BY Zenon
    <3> HIDE DEF g, better
    <3> QED BY <3>1, <3>2, <3>3, Zenon
  <2>4. \A k \in 1 .. (n + 1) : better(g, k) = better(f, k)
    <3>1. \A k \in 1 .. (n + 1) : k # 1 => k - 1 \in 1 .. n
      BY <2>1
    <3> HIDE DEF g
    <3>2. \A k \in 1 .. (n + 1) : k # 1 => g[k - 1] = f[k - 1]
      BY <2>3, <3>1
    <3> QED BY <3>2
  <2>5. g = [k \in 1 .. (n + 1) |-> better(g, k)]
    <3> HIDE DEF better
    <3> QED BY <2>4
  <2>6. Leads(g, s, a, 1 .. (n + 1))
    BY <2>5 DEF Leads
  <2> QED BY <2>1, <2>6
<1>3. m \in N
  <2>1. N \in SUBSET Nat
    OBVIOUS
  <2> HIDE DEF N
  <2> QED BY <1>1, <1>2, <2>1, Induction
<1> QED BY <1>3

\* The most stuck candidate is one of the candidates.
LEMMA UnstuckIs ==
    ASSUME NEW a, AccountTyped(a), UnstuckOrders(a) # <<>>
    PROVE  \E k \in Keys :
              /\ Sheddable(a, k)
              /\ UnstuckOrders(a) = <<Close(k[1], k[2], k[3], a.mark[k[1]], UnstuckQty(a, k), FALSE)>>
<1> DEFINE all == Candidates(a)
           S == {k \in Keys : Sheddable(a, k)}
<1>1. all \in Seq(Keys) /\ \A i \in DOMAIN all : all[i] \in S
  <2>1. KeysBy(UnstuckWalk) \in Seq(Keys)
    BY Walks
  <2> HIDE DEF S
  <2> QED BY <2>1, KeptFacts DEF Candidates, S
<1> HIDE DEF all
<1>2. Len(all) \in Nat /\ DOMAIN all = 1 .. Len(all)
  BY <1>1, LenProperties
<1>3. PICK f : /\ Leads(f, all, a, DOMAIN all)
               /\ UnstuckOrders(a) =
                    IF all = <<>> \/ UnstuckClose = 0 THEN <<>>
                    ELSE <<Close(f[Len(all)][1], f[Len(all)][2], f[Len(all)][3],
                                 a.mark[f[Len(all)][1]], UnstuckQty(a, f[Len(all)]), FALSE)>>
  <2>1. \E f : Leads(f, all, a, DOMAIN all)
    BY <1>2, LeadsExist
  <2> QED BY <2>1, Zenon DEF UnstuckOrders, Leads, all
<1>4. \A k \in DOMAIN all :
          f[k] = IF k = 1 \/ MoreStuck(a, all[k], f[k - 1]) THEN all[k] ELSE f[k - 1]
  BY <1>3, Zenon DEF Leads
<1> DEFINE N == {n \in Nat : n + 1 <= Len(all) => f[n + 1] \in S}
<1>5. 0 \in N
  <2> SUFFICES ASSUME 1 <= Len(all) PROVE f[1] \in S
    OBVIOUS
  <2>1. 1 \in DOMAIN all
    BY <1>2
  <2> HIDE DEF S
  <2> QED BY <1>1, <1>4, <2>1
<1>6. ASSUME NEW n \in N PROVE n + 1 \in N
  <2> SUFFICES ASSUME (n + 1) + 1 <= Len(all) PROVE f[(n + 1) + 1] \in S
    OBVIOUS
  <2>1. n \in Nat /\ (n + 1) + 1 \in DOMAIN all /\ ((n + 1) + 1) - 1 = n + 1 /\ (n + 1) + 1 # 1
    BY <1>2
  <2>2. f[n + 1] \in S
    BY <1>2, <2>1
  <2> HIDE DEF S
  <2> QED BY <1>1, <1>4, <2>1, <2>2
<1>7. N = Nat
  <2>1. N \in SUBSET Nat
    OBVIOUS
  <2> HIDE DEF N
  <2> QED BY <1>5, <1>6, <2>1, Induction
<1>8. all # <<>> /\ ~(all = <<>> \/ UnstuckClose = 0)
  BY <1>3
<1>9. Len(all) - 1 \in Nat /\ (Len(all) - 1) + 1 = Len(all)
  BY <1>1, <1>2, <1>8, EmptySeq
<1>10. f[Len(all)] \in S
  <2>1. \A n \in Nat : n + 1 <= Len(all) => f[n + 1] \in S
    BY <1>7
  <2>2. f[(Len(all) - 1) + 1] \in S
    BY <1>2, <1>9, <2>1
  <2> QED BY <1>9, <2>2
<1> QED BY <1>3, <1>8, <1>10

LEMMA UnstuckFacts ==
    ASSUME NEW a, AccountTyped(a)
    PROVE  /\ UnstuckOrders(a) \in Seq(Exits)
           /\ \A i \in DOMAIN UnstuckOrders(a) :
                 LET o == UnstuckOrders(a)[i]
                 IN  ProjectedLoss(a, o) <= Allowance(a, Bucket(o.src))
<1>1. CASE UnstuckOrders(a) = <<>>
  BY <1>1, EmptySeq
<1>2. CASE UnstuckOrders(a) # <<>>
  <2>1. PICK k \in Keys :
           /\ Sheddable(a, k)
           /\ UnstuckOrders(a) = <<Close(k[1], k[2], k[3], a.mark[k[1]], UnstuckQty(a, k), FALSE)>>
    BY <1>2, UnstuckIs
  <2> DEFINE n == UnstuckQty(a, k)
             o == Close(k[1], k[2], k[3], a.mark[k[1]], n, FALSE)
             loss == LotLoss(a, k)
             spare == Allowance(a, k[3])
             share == (a.balance * Wel[k[3]] * UnstuckClose) \div (10000 * a.mark[k[1]] * CMult[k[1]])
             bearable == IF loss > 0 THEN {spare \div loss} ELSE {}
             S == {share, a.pos[k].size} \cup bearable
  <2>2. /\ k[1] \in Symbols /\ k[2] \in Sides /\ k[3] \in Buckets /\ k = <<k[1], k[2], k[3]>>
        /\ a.pos[k].size \in Nat /\ a.pos[k].entry \in Nat
        /\ a.mark[k[1]] \in Nat /\ a.mark[k[1]] > 0 /\ a.balance \in Int
    BY Routed
  <2>3. CMult[k[1]] \in Nat /\ CMult[k[1]] > 0 /\ Wel[k[3]] \in Nat /\ UnstuckClose \in Nat
        /\ MinQty \in Nat /\ MinQty > 0
    BY <2>2, Numbers
  <2>4. spare \in Int /\ spare > 0
    BY <2>1, <2>2, CapsTyped DEF Sheddable, Stuck
  <2>5. loss \in Int
    BY <2>2, <2>3 DEF LotLoss
  <2>6. share \in Int
    <3>1. a.balance * Wel[k[3]] * UnstuckClose \in Int
      BY <2>2, <2>3
    <3>2. 10000 * a.mark[k[1]] * CMult[k[1]] \in Int /\ 10000 * a.mark[k[1]] * CMult[k[1]] > 0
      <4>1. a.mark[k[1]] * CMult[k[1]] \in Nat /\ a.mark[k[1]] * CMult[k[1]] > 0
        BY <2>2, <2>3
      <4>2. 10000 * a.mark[k[1]] * CMult[k[1]] = 10000 * (a.mark[k[1]] * CMult[k[1]])
        BY <2>2, <2>3
      <4> QED BY <4>1, <4>2
    <3> QED BY <3>1, <3>2
  <2>7. n = Quantized(Min(S))
    BY DEF UnstuckQty
  <2> HIDE DEF loss, spare, share
  <2>8. loss > 0 => spare \div loss \in Int
    BY <2>4, <2>5
  <2>9. Min(S) \in S /\ \A m \in S : Min(S) <= m
    <3>1. CASE loss > 0
      <4>1. share \in S /\ S \subseteq {share, a.pos[k].size, spare \div loss}
        BY <3>1
      <4> HIDE DEF S
      <4> QED BY <2>2, <2>6, <2>8, <3>1, <4>1, MinOf
    <3>2. CASE ~(loss > 0)
      <4>1. share \in S /\ S \subseteq {share, a.pos[k].size, a.pos[k].size}
        BY <3>2
      <4> HIDE DEF S
      <4> QED BY <2>2, <2>6, <4>1, MinOf
    <3> QED BY <3>1, <3>2
  <2>10. Min(S) \in Int /\ (loss > 0 => Min(S) <= spare \div loss)
    <3> DEFINE c == Min(S)
               d == spare \div loss
    <3>1. c \in S /\ \A m \in S : c <= m
      BY <2>9
    <3>2. S = {share, a.pos[k].size} \cup (IF loss > 0 THEN {d} ELSE {})
      OBVIOUS
    <3>3. loss > 0 => d \in Int
      BY <2>8
    <3> HIDE DEF c, d, S
    <3>4. c \in Int
      BY <2>2, <2>6, <3>1, <3>2, <3>3
    <3>5. loss > 0 => d \in S
      BY <3>2
    <3>6. loss > 0 => c <= d
      BY <3>1, <3>5
    <3> QED BY <3>4, <3>6 DEF c, d
  <2>11. n \in Int /\ n <= Min(S) /\ n >= MinQty
    <3>1. n \in Int /\ n <= Min(S)
      <4> HIDE DEF n, S
      <4> QED BY <2>7, <2>10, Quantum
    <3> QED BY <2>1, <3>1 DEF Sheddable
  <2> HIDE DEF n, S
  <2>12. n \in Nat /\ n > 0
    BY <2>3, <2>11
  <2>13. n * loss <= spare
    <3>1. CASE loss > 0
      <4>1. n <= spare \div loss /\ spare \div loss \in Int
        BY <2>8, <2>10, <2>11, <3>1
      <4>2. (spare \div loss) * loss <= spare
        BY <2>4, <2>5, <3>1
      <4>3. n * loss <= (spare \div loss) * loss
        <5> DEFINE d == spare \div loss
        <5>1. d \in Int /\ n <= d
          BY <4>1
        <5> HIDE DEF d
        <5>2. n * loss <= d * loss
          BY <2>5, <2>12, <3>1, <5>1
        <5> QED BY <5>2 DEF d
      <4>4. n * loss \in Int /\ (spare \div loss) * loss \in Int
        BY <2>5, <2>12, <4>1
      <4> QED BY <2>4, <4>2, <4>3, <4>4
    <3>2. CASE ~(loss > 0)
      <4>1. n * loss <= 0 /\ n * loss \in Int
        BY <2>5, <2>12, <3>2
      <4> QED BY <2>4, <4>1
    <3> QED BY <3>1, <3>2
  <2>14. /\ o \in Exits /\ o.sym = k[1] /\ o.side = k[2] /\ o.src = k[3] /\ o.price = a.mark[k[1]]
         /\ o.qty = n /\ o.reduce = TRUE /\ Bucket(o.src) = k[3]
    BY <2>2, <2>12 DEF Close, Exits, Order, Sources, Buckets, Bucket
  <2> HIDE DEF o
  <2>15. At(a, o) = a.pos[k]
    BY <2>2, <2>14 DEF At
  <2>16. ProjectedLoss(a, o) \in {AtLeastZero(n * loss), 0}
    <3> DEFINE gap == IF k[2] = "LONG" THEN a.pos[k].entry - a.mark[k[1]]
                                        ELSE a.mark[k[1]] - a.pos[k].entry
    <3>1. UnitLoss(a, o) =
             IF IsOpen(a.pos[k]) /\ a.pos[k].entry > 0 THEN gap * CMult[k[1]] ELSE 0
      BY <2>14, <2>15 DEF UnitLoss
    <3>2. loss = gap * CMult[k[1]]
      BY DEF loss, LotLoss
    <3>3. ProjectedLoss(a, o) = AtLeastZero(n * UnitLoss(a, o))
      BY <2>14 DEF ProjectedLoss
    <3>4. UnitLoss(a, o) = loss \/ UnitLoss(a, o) = 0
      BY <3>1, <3>2
    <3>5. n * 0 = 0 /\ AtLeastZero(0) = 0
      BY <2>12 DEF AtLeastZero
    <3> QED BY <3>3, <3>4, <3>5
  <2>17. ProjectedLoss(a, o) <= spare
    <3>1. n * loss \in Int
      BY <2>5, <2>12
    <3> QED BY <2>4, <2>13, <2>16, <3>1 DEF AtLeastZero
  <2>18. UnstuckOrders(a) = <<o>>
    BY <2>1 DEF o, n
  <2>19. \A i \in DOMAIN UnstuckOrders(a) : UnstuckOrders(a)[i] = o
    BY <2>18
  <2> QED BY <2>14, <2>17, <2>18, <2>19 DEF spare
<1> QED BY <1>1, <1>2

-----------------------------------------------------------------------------
(* The panic close *)

\* A selection of elements that are all different holds each of the set's once.
LEMMA KeptOnce ==
    ASSUME NEW T, NEW s \in Seq(T), NEW S,
           \A i, j \in DOMAIN s : s[i] = s[j] => i = j
    PROVE  /\ \A i, j \in DOMAIN Kept(s, S) : Kept(s, S)[i] = Kept(s, S)[j] => i = j
           /\ \A i \in DOMAIN s : s[i] \in S => \E j \in DOMAIN Kept(s, S) : Kept(s, S)[j] = s[i]
<1> DEFINE Once(q) == \A i, j \in 1 .. Len(q) : q[i] = q[j] => i = j
           All(q, r) == \A i \in 1 .. Len(q) : q[i] \in S => \E j \in 1 .. Len(r) : r[j] = q[i]
           From(q, r) == \A i \in 1 .. Len(r) : \E j \in 1 .. Len(q) : r[i] = q[j]
           Q == {q \in Seq(T) : Once(q) => Once(Kept(q, S)) /\ All(q, Kept(q, S)) /\ From(q, Kept(q, S))}
<1>1. <<>> \in Q
  <2>1. Kept(<<>>, S) = <<>> /\ <<>> \in Seq(T)
    BY KeptEmpty, EmptySeq
  <2>2. Len(Kept(<<>>, S)) = 0 /\ Len(<<>>) = 0
    BY <2>1, Zenon, EmptySeq
  <2>3. 1 .. 0 = {}
    OBVIOUS
  <2>4. Once(Kept(<<>>, S)) /\ All(<<>>, Kept(<<>>, S)) /\ From(<<>>, Kept(<<>>, S))
    BY <2>2, <2>3
  <2> QED BY <2>1, <2>4
<1>2. ASSUME NEW q \in Seq(T), q \in Q, NEW x \in T PROVE Append(q, x) \in Q
  <2> DEFINE r == Kept(q, S)
             t == Append(q, x)
             u == Append(r, x)
  <2>1. t \in Seq(T)
    BY AppendProperties
  <2> SUFFICES ASSUME Once(t) PROVE Once(Kept(t, S)) /\ All(t, Kept(t, S)) /\ From(t, Kept(t, S))
    BY <2>1
  <2>2. r \in Seq(T)
    BY KeptFacts
  <2>3. Kept(t, S) = IF x \in S THEN u ELSE r
    BY KeptAppend
  <2>4. /\ Len(t) = Len(q) + 1 /\ Len(q) \in Nat /\ t[Len(q) + 1] = x
        /\ \A i \in 1 .. Len(q) : t[i] = q[i]
    BY AppendProperties, LenProperties
  <2>5. Once(q)
    <3> HIDE DEF t
    <3>1. \A i \in 1 .. Len(q) : i \in 1 .. Len(t)
      BY <2>4
    <3> QED BY <2>4, <3>1
  <2>6. Once(r) /\ All(q, r) /\ From(q, r)
    BY <1>2, <2>5
  <2> HIDE DEF r
  <2>7. /\ Len(u) = Len(r) + 1 /\ Len(r) \in Nat /\ u[Len(r) + 1] = x
        /\ \A i \in 1 .. Len(r) : u[i] = r[i]
    BY <2>2, AppendProperties, LenProperties
  <2> HIDE DEF t, u
  <2>8. /\ \A i \in 1 .. Len(t) : i \in 1 .. Len(q) \/ i = Len(q) + 1
        /\ \A i \in 1 .. Len(q) : i \in 1 .. Len(t) /\ i # Len(q) + 1
        /\ Len(q) + 1 \in 1 .. Len(t)
        /\ \A i \in 1 .. Len(u) : i \in 1 .. Len(r) \/ i = Len(r) + 1
        /\ \A i \in 1 .. Len(r) : i \in 1 .. Len(u)
        /\ Len(r) + 1 \in 1 .. Len(u)
    BY <2>4, <2>7
  <2>9. \A i \in 1 .. Len(r) : r[i] # x
    <3> SUFFICES ASSUME NEW i \in 1 .. Len(r), r[i] = x PROVE FALSE
      OBVIOUS
    <3>1. PICK j \in 1 .. Len(q) : r[i] = q[j]
      BY <2>6
    <3>2. t[j] = t[Len(q) + 1] /\ j \in 1 .. Len(t) /\ j # Len(q) + 1
      BY <2>4, <2>8, <3>1
    <3> QED BY <2>8, <3>2
  <2>10. CASE x \in S
    <3>1. Kept(t, S) = u
      BY <2>3, <2>10
    <3>2. Once(u)
      <4> SUFFICES ASSUME NEW i \in 1 .. Len(u), NEW j \in 1 .. Len(u), u[i] = u[j] PROVE i = j
        OBVIOUS
      <4>1. CASE i \in 1 .. Len(r) /\ j \in 1 .. Len(r)
        BY <2>6, <2>7, <4>1
      <4>2. CASE i = Len(r) + 1 /\ j = Len(r) + 1
        BY <4>2
      <4>3. CASE i \in 1 .. Len(r) /\ j = Len(r) + 1
        BY <2>7, <2>9, <4>3
      <4>4. CASE i = Len(r) + 1 /\ j \in 1 .. Len(r)
        BY <2>7, <2>9, <4>4
      <4> QED BY <2>8, <4>1, <4>2, <4>3, <4>4
    <3>3. All(t, u)
      <4> SUFFICES ASSUME NEW i \in 1 .. Len(t), t[i] \in S PROVE \E j \in 1 .. Len(u) : u[j] = t[i]
        OBVIOUS
      <4>1. CASE i \in 1 .. Len(q)
        <5>1. t[i] = q[i] /\ q[i] \in S
          BY <2>4, <4>1
        <5>2. PICK j \in 1 .. Len(r) : r[j] = q[i]
          BY <2>6, <4>1, <5>1
        <5> QED BY <2>7, <2>8, <5>1, <5>2
      <4>2. CASE i = Len(q) + 1
        BY <2>4, <2>7, <2>8, <4>2
      <4> QED BY <2>8, <4>1, <4>2
    <3>4. From(t, u)
      <4> SUFFICES ASSUME NEW i \in 1 .. Len(u) PROVE \E j \in 1 .. Len(t) : u[i] = t[j]
        OBVIOUS
      <4>1. CASE i \in 1 .. Len(r)
        <5>1. PICK j \in 1 .. Len(q) : r[i] = q[j]
          BY <2>6, <4>1
        <5> QED BY <2>4, <2>7, <2>8, <4>1, <5>1
      <4>2. CASE i = Len(r) + 1
        BY <2>4, <2>7, <2>8, <4>2
      <4> QED BY <2>8, <4>1, <4>2
    <3> QED BY <3>1, <3>2, <3>3, <3>4
  <2>11. CASE x \notin S
    <3>1. Kept(t, S) = r
      BY <2>3, <2>11
    <3>2. All(t, r)
      BY <2>4, <2>6, <2>8, <2>11
    <3>3. From(t, r)
      <4> SUFFICES ASSUME NEW i \in 1 .. Len(r) PROVE \E j \in 1 .. Len(t) : r[i] = t[j]
        OBVIOUS
      <4>1. PICK j \in 1 .. Len(q) : r[i] = q[j]
        BY <2>6
      <4> QED BY <2>4, <2>8, <4>1
    <3> QED BY <2>6, <3>1, <3>2, <3>3
  <2> QED BY <2>10, <2>11
<1> HIDE DEF Q
<1>3. s \in Q
  BY <1>1, <1>2, SeqInduction
<1>4. Len(s) \in Nat /\ DOMAIN s = 1 .. Len(s)
  BY LenProperties
<1>5. Once(s)
  BY <1>4
<1>6. Once(Kept(s, S)) /\ All(s, Kept(s, S))
  BY <1>3, <1>5 DEF Q
<1>7. DOMAIN Kept(s, S) = 1 .. Len(Kept(s, S))
  <2>1. Kept(s, S) \in Seq(T)
    BY KeptFacts
  <2> QED BY <2>1, LenProperties
<1> QED BY <1>4, <1>6, <1>7

\* Each bucket of each symbol has one place in the walk.
LEMMA WalkOnce ==
    /\ \A i, j \in DOMAIN KeysBy(PanicWalk) : KeysBy(PanicWalk)[i] = KeysBy(PanicWalk)[j] => i = j
    /\ \A k \in Keys : \E i \in DOMAIN KeysBy(PanicWalk) : KeysBy(PanicWalk)[i] = k
<1> DEFINE N == Len(Listed)
           row(n) == ((n - 1) \div 4) + 1
           col(n) == ((n - 1) % 4) + 1
           key(n) == <<Listed[row(n)], PanicWalk[col(n)][1], PanicWalk[col(n)][2]>>
<1>1. N \in Nat /\ DOMAIN Listed = 1 .. N
  BY ListedOnce, LenProperties
<1>2. DOMAIN KeysBy(PanicWalk) = 1 .. 4 * N /\ \A n \in 1 .. 4 * N : KeysBy(PanicWalk)[n] = key(n)
  BY Zenon DEF KeysBy
<1> HIDE DEF N
<1>3. \A n \in 1 .. 4 * N : row(n) \in 1 .. N /\ col(n) \in 1 .. 4 /\ n = 4 * (row(n) - 1) + col(n)
  BY <1>1
<1>4. \A i, j \in 1 .. 4 :
          PanicWalk[i][1] = PanicWalk[j][1] /\ PanicWalk[i][2] = PanicWalk[j][2] => i = j
  <2>1. \A i \in 1 .. 4 : i = 1 \/ i = 2 \/ i = 3 \/ i = 4
    OBVIOUS
  <2> QED BY <2>1 DEF PanicWalk
<1>5. ASSUME NEW i \in 1 .. 4 * N, NEW j \in 1 .. 4 * N, key(i) = key(j)
      PROVE  i = j
  <2>1. /\ row(i) \in 1 .. N /\ col(i) \in 1 .. 4 /\ i = 4 * (row(i) - 1) + col(i)
        /\ row(j) \in 1 .. N /\ col(j) \in 1 .. 4 /\ j = 4 * (row(j) - 1) + col(j)
    BY <1>3
  <2> HIDE DEF row, col
  <2>2. /\ Listed[row(i)] = Listed[row(j)] /\ PanicWalk[col(i)][1] = PanicWalk[col(j)][1]
        /\ PanicWalk[col(i)][2] = PanicWalk[col(j)][2]
    BY <1>5
  <2>3. row(i) = row(j)
    BY <1>1, <2>1, <2>2, ListedOnce
  <2>4. col(i) = col(j)
    BY <1>4, <2>1, <2>2
  <2> QED BY <2>1, <2>3, <2>4
<1>6. ASSUME NEW k \in Keys
      PROVE  \E n \in 1 .. 4 * N : key(n) = k
  <2>1. k[1] \in Symbols /\ k[2] \in Sides /\ k[3] \in Buckets /\ k = <<k[1], k[2], k[3]>>
    BY DEF Keys
  <2>2. PICK i \in 1 .. N : Listed[i] = k[1]
    BY <1>1, <2>1 DEF Symbols, Range
  <2>3. PICK j \in 1 .. 4 : PanicWalk[j][1] = k[2] /\ PanicWalk[j][2] = k[3]
    <3>1. /\ k[2] = "LONG" \/ k[2] = "SHORT"
          /\ k[3] = "GRID" \/ k[3] = "TREND"
      BY <2>1 DEF Sides, Buckets
    <3>2. /\ PanicWalk[1][1] = "LONG" /\ PanicWalk[1][2] = "GRID"
          /\ PanicWalk[2][1] = "LONG" /\ PanicWalk[2][2] = "TREND"
          /\ PanicWalk[3][1] = "SHORT" /\ PanicWalk[3][2] = "GRID"
          /\ PanicWalk[4][1] = "SHORT" /\ PanicWalk[4][2] = "TREND"
      BY DEF PanicWalk
    <3>3. 1 \in 1 .. 4 /\ 2 \in 1 .. 4 /\ 3 \in 1 .. 4 /\ 4 \in 1 .. 4
      OBVIOUS
    <3> QED BY <3>1, <3>2, <3>3, Zenon
  <2> DEFINE n == 4 * (i - 1) + j
  <2>4. n \in 1 .. 4 * N /\ row(n) = i /\ col(n) = j
    BY <1>1
  <2> HIDE DEF n, row, col
  <2>5. key(n) = k
    BY <2>1, <2>2, <2>3, <2>4
  <2> QED BY <2>4, <2>5
<1> HIDE DEF key
<1> QED BY <1>2, <1>5, <1>6

\* RED closes every open bucket once, whole, at the market.
LEMMA PanicFacts ==
    ASSUME NEW a, AccountTyped(a)
    PROVE  LET r == PanicCloses(a)
               closing(k) == {i \in DOMAIN r : <<r[i].sym, r[i].side, Bucket(r[i].src)>> = k}
           IN  /\ r \in Seq(Exits)
               /\ \A k \in Keys : Cardinality(closing(k)) = IF IsOpen(a.pos[k]) THEN 1 ELSE 0
               /\ \A i \in DOMAIN r : r[i].reduce /\ r[i].market /\ r[i].qty = At(a, r[i]).size
<1> DEFINE S == {k \in Keys : IsOpen(a.pos[k])}
           open == Kept(KeysBy(PanicWalk), S)
           close(k) == Close(k[1], k[2], k[3], a.mark[k[1]], a.pos[k].size, TRUE)
           r == PanicCloses(a)
           closing(k) == {i \in DOMAIN r : <<r[i].sym, r[i].side, Bucket(r[i].src)>> = k}
<1>1. open \in Seq(Keys) /\ \A i \in DOMAIN open : open[i] \in S
  <2>1. KeysBy(PanicWalk) \in Seq(Keys)
    BY Walks
  <2> HIDE DEF S
  <2> QED BY <2>1, KeptFacts
<1>2. /\ \A i, j \in DOMAIN open : open[i] = open[j] => i = j
      /\ \A k \in S : \E i \in DOMAIN open : open[i] = k
  <2>1. KeysBy(PanicWalk) \in Seq(Keys)
    BY Walks
  <2>2. /\ \A i, j \in DOMAIN open : open[i] = open[j] => i = j
        /\ \A i \in DOMAIN KeysBy(PanicWalk) :
              KeysBy(PanicWalk)[i] \in S => \E j \in DOMAIN open : open[j] = KeysBy(PanicWalk)[i]
    <3> HIDE DEF S
    <3> QED BY <2>1, WalkOnce, KeptOnce
  <2>3. \A k \in S : k \in Keys
    OBVIOUS
  <2> HIDE DEF S, open
  <2> QED BY <2>2, <2>3, WalkOnce
<1>3. r = [i \in DOMAIN open |-> close(open[i])]
  BY Zenon DEF PanicCloses
<1> HIDE DEF open
<1>4. Len(open) \in Nat /\ DOMAIN open = 1 .. Len(open)
  BY <1>1, LenProperties
<1>5. ASSUME NEW k \in S
      PROVE  LET o == close(k)
             IN  /\ o \in Exits /\ o.reduce = TRUE /\ o.market = TRUE
                 /\ <<o.sym, o.side, Bucket(o.src)>> = k /\ o.qty = At(a, o).size
  <2> DEFINE o == close(k)
  <2>1. /\ k[1] \in Symbols /\ k[2] \in Sides /\ k[3] \in Buckets /\ k = <<k[1], k[2], k[3]>>
        /\ a.pos[k].size \in Nat /\ a.mark[k[1]] \in Nat /\ a.mark[k[1]] > 0 /\ a.pos[k].size > 0
    BY Routed DEF IsOpen
  <2>2. /\ o \in Exits /\ o.sym = k[1] /\ o.side = k[2] /\ o.src = k[3] /\ o.qty = a.pos[k].size
        /\ o.reduce = TRUE /\ o.market = TRUE /\ Bucket(o.src) = k[3]
    BY <2>1 DEF Close, Exits, Order, Sources, Buckets, Bucket
  <2> HIDE DEF o
  <2>3. <<o.sym, o.side, Bucket(o.src)>> = k
    BY <2>1, <2>2
  <2>4. At(a, o) = a.pos[k]
    BY <2>3 DEF At
  <2> QED BY <2>2, <2>3, <2>4 DEF o
<1> HIDE DEF S, close
<1>6. r \in Seq(Exits) /\ DOMAIN r = DOMAIN open
  <2>1. \A i \in 1 .. Len(open) : close(open[i]) \in Exits
    BY <1>1, <1>4, <1>5
  <2> HIDE DEF r
  <2> QED BY <1>3, <1>4, <2>1
<1>7. \A i \in DOMAIN r : /\ <<r[i].sym, r[i].side, Bucket(r[i].src)>> = open[i]
                          /\ r[i].reduce /\ r[i].market /\ r[i].qty = At(a, r[i]).size
  <2> SUFFICES ASSUME NEW i \in DOMAIN r
               PROVE  /\ <<r[i].sym, r[i].side, Bucket(r[i].src)>> = open[i]
                      /\ r[i].reduce /\ r[i].market /\ r[i].qty = At(a, r[i]).size
    OBVIOUS
  <2>1. r[i] = close(open[i]) /\ open[i] \in S
    BY <1>1, <1>3, <1>6
  <2> HIDE DEF r
  <2> QED BY <1>5, <2>1
<1> HIDE DEF r
<1>8. ASSUME NEW k \in Keys
      PROVE  Cardinality(closing(k)) = IF IsOpen(a.pos[k]) THEN 1 ELSE 0
  <2>1. closing(k) = {i \in DOMAIN open : open[i] = k}
    BY <1>6, <1>7
  <2> HIDE DEF closing
  <2>2. CASE k \in S
    <3>1. PICK i \in DOMAIN open : open[i] = k
      BY <1>2, <2>2
    <3>2. closing(k) = {i}
      BY <1>2, <2>1, <3>1
    <3> QED BY <2>2, <3>2, FS_Singleton DEF S
  <2>3. CASE k \notin S
    <3>1. closing(k) = {}
      BY <1>1, <2>1, <2>3
    <3> QED BY <2>3, <3>1, FS_EmptySet DEF S
  <2> QED BY <2>2, <2>3
<1> QED BY <1>6, <1>7, <1>8 DEF r

\* What a selection has at its head.
LEMMA KeptTail ==
    ASSUME NEW T, NEW s \in Seq(T), s # <<>>, NEW S
    PROVE  Kept(s, S) = IF Head(s) \in S THEN <<Head(s)>> \o Kept(Tail(s), S) ELSE Kept(Tail(s), S)
<1> DEFINE Q == {q \in Seq(T) : q # <<>> =>
                    Kept(q, S) = IF Head(q) \in S THEN <<Head(q)>> \o Kept(Tail(q), S)
                                                  ELSE Kept(Tail(q), S)}
<1>1. <<>> \in Q
  BY EmptySeq
<1>2. ASSUME NEW q \in Seq(T), q \in Q, NEW x \in T PROVE Append(q, x) \in Q
  <2> DEFINE t == Append(q, x)
  <2>1. /\ t \in Seq(T) /\ Kept(t, S) = IF x \in S THEN Append(Kept(q, S), x) ELSE Kept(q, S)
        /\ Kept(q, S) \in Seq(T)
    BY AppendProperties, KeptAppend, KeptFacts
  <2>2. /\ Head(t) = IF q = <<>> THEN x ELSE Head(q)
        /\ Tail(t) = IF q = <<>> THEN <<>> ELSE Append(Tail(q), x)
    BY HeadTailAppend
  <2> HIDE DEF t
  <2>3. CASE q = <<>>
    <3>1. Kept(q, S) = <<>> /\ Kept(Tail(t), S) = <<>> /\ Head(t) = x
      BY <2>2, <2>3, KeptEmpty
    <3>2. Append(<<>>, x) = <<x>> /\ <<x>> \o <<>> = <<x>>
      OBVIOUS
    <3>3. Kept(t, S) = IF Head(t) \in S THEN <<Head(t)>> \o Kept(Tail(t), S) ELSE Kept(Tail(t), S)
      BY <2>1, <3>1, <3>2, Zenon
    <3> QED BY <2>1, <3>3 DEF t
  <2>4. CASE q # <<>>
    <3> DEFINE h == Head(q)
               r == Kept(Tail(q), S)
    <3>1. Kept(q, S) = IF h \in S THEN <<h>> \o r ELSE r
      BY <1>2, <2>4
    <3>2. h \in T /\ Tail(q) \in Seq(T)
      BY <2>4, HeadTailProperties
    <3>3. r \in Seq(T) /\ Kept(Append(Tail(q), x), S) = IF x \in S THEN Append(r, x) ELSE r
      BY <3>2, KeptFacts, KeptAppend
    <3> HIDE DEF r, h
    <3>4. Append(<<h>> \o r, x) = <<h>> \o Append(r, x)
      <4>1. <<h>> \in Seq(T) /\ <<x>> \in Seq(T) /\ <<h>> \o r \in Seq(T)
        BY <3>2, <3>3, ConcatProperties
      <4>2. Append(<<h>> \o r, x) = (<<h>> \o r) \o <<x>> /\ Append(r, x) = r \o <<x>>
        BY <3>3, <4>1, AppendIsConcat
      <4>3. (<<h>> \o r) \o <<x>> = <<h>> \o (r \o <<x>>)
        BY <3>3, <4>1, ConcatAssociative
      <4> QED BY <4>2, <4>3
    <3>5. Head(t) = h /\ Kept(Tail(t), S) = IF x \in S THEN Append(r, x) ELSE r
      BY <2>2, <2>4, <3>3 DEF h
    <3>6. Kept(t, S) = IF Head(t) \in S THEN <<Head(t)>> \o Kept(Tail(t), S) ELSE Kept(Tail(t), S)
      <4>1. CASE x \in S /\ h \in S
        BY <2>1, <3>1, <3>4, <3>5, <4>1, Zenon
      <4>2. CASE x \in S /\ h \notin S
        BY <2>1, <3>1, <3>5, <4>2, Zenon
      <4>3. CASE x \notin S
        BY <2>1, <3>1, <3>5, <4>3, Zenon
      <4> QED BY <4>1, <4>2, <4>3
    <3> QED BY <2>1, <3>6 DEF t
  <2> QED BY <2>3, <2>4
<1> HIDE DEF Q
<1>3. s \in Q
  BY <1>1, <1>2, SeqInduction
<1> QED BY <1>3 DEF Q

\* A list that is walked: what its head gives joins the list of those that passed.
LEMMA WalkSum ==
    ASSUME NEW f \in [Order -> Int], NEW out0 \in Seq(Priced)
    PROVE  /\ out0 \o <<>> = out0
           /\ \A q \in Priced : /\ out0 \o <<q>> \in Seq(Priced)
                                /\ SumOf(f, out0 \o <<q>>) = SumOf(f, out0) + f[q]
                                /\ \A S : Kept(out0 \o <<q>>, S) =
                                             IF q \in S THEN Kept(out0, S) \o <<q>> ELSE Kept(out0, S)
           /\ SumOf(f, out0) \in Int
<1>1. out0 \in Seq(Order) /\ Priced \subseteq Order
  BY OrderSets
<1>2. out0 \o <<>> = out0
  BY ConcatEmptySeq
<1>3. SumOf(f, out0) \in Int
  BY <1>1, SumFacts
<1>4. ASSUME NEW q \in Priced
      PROVE  /\ out0 \o <<q>> \in Seq(Priced)
             /\ SumOf(f, out0 \o <<q>>) = SumOf(f, out0) + f[q]
             /\ \A S : Kept(out0 \o <<q>>, S) =
                          IF q \in S THEN Kept(out0, S) \o <<q>> ELSE Kept(out0, S)
  <2>1. out0 \o <<q>> = Append(out0, q) /\ Append(out0, q) \in Seq(Priced)
    BY AppendIsConcat, AppendProperties
  <2>2. q \in Order
    BY <1>1
  <2>3. SumOf(f, Append(out0, q)) = SumOf(f, out0) + f[q]
    BY <1>1, <2>2, SumFacts
  <2>4. ASSUME NEW S
        PROVE  Kept(Append(out0, q), S) = IF q \in S THEN Kept(out0, S) \o <<q>> ELSE Kept(out0, S)
    <3>1. Kept(out0, S) \in Seq(Priced)
      BY KeptFacts
    <3>2. Append(Kept(out0, S), q) = Kept(out0, S) \o <<q>>
      BY <3>1, AppendIsConcat
    <3>3. Kept(Append(out0, q), S) = IF q \in S THEN Append(Kept(out0, S), q) ELSE Kept(out0, S)
      BY KeptAppend
    <3> QED BY <3>2, <3>3, Zenon
  <2> QED BY <2>1, <2>3, <2>4, Zenon
<1> QED BY <1>2, <1>3, <1>4

-----------------------------------------------------------------------------
(* The inductive invariant *)

\* What kind of list each list is, and where there is one.
Listing ==
    /\ acct \in Accounts /\ tier \in Tiers /\ cooling \in BOOLEAN /\ phase \in Phases
    /\ left \in Int /\ used \in Used
    /\ asked \in Seq(Priced) /\ out \in Seq(Priced) /\ orders \in Seq(Priced)
    /\ phase \in {"losses", "caps"} => tier # "RED"
    /\ phase = "done" /\ tier # "RED" => orders = <<>>

\* The list is being capped, or has been.
Walking == phase = "caps" \/ (phase = "done" /\ tier # "RED")

\* What is booked against the caps is what the accepted entries cost, and it fits.
UsedIsCost ==
    /\ phase \in {"ask", "assess", "losses"} => used = NothingUsed
    /\ Walking =>
          /\ used.total = SumOf(EntryCost(Sources, Symbols \X Sides), out)
          /\ used.grid = SumOf(EntryCost({"GRID"}, Symbols \X Sides), out)
          /\ \A s \in Symbols, d \in Sides :
                used.side[<<s, d>>] = SumOf(EntryCost(Sources, {<<s, d>>}), out)
UsedFits ==
    /\ used.total > 0 => Exposure(acct, Keys) + used.total <= TotalCap(acct)
    /\ used.grid > 0 => Exposure(acct, GridKeys) + used.grid <= GridCap(acct)
    /\ \A s \in Symbols, d \in Sides :
          used.side[<<s, d>>] > 0 =>
              Exposure(acct, SideKeys(s, d)) + used.side[<<s, d>>] <= SingleCap(acct)

\* What the closes lose and what is left make up the budget at most; later, what passed
\* and what is still to pass.
LossesBudgeted ==
    LossPct > 0 /\ acct.balance > 0 =>
        /\ phase = "losses" =>
              SumOf(LossFn(acct), out) + AtLeastZero(left) <= AtLeastZero(LossBudget(acct))
        /\ Walking => SumOf(LossFn(acct), out) + SumOf(LossFn(acct), orders)
                        <= AtLeastZero(LossBudget(acct))

\* The exits that nothing may touch have passed or are still to pass, in their order.
SafeKept ==
    /\ phase = "losses" \/ Walking =>
          Kept(out, Safe(acct)) \o Kept(orders, Safe(acct)) = Kept(asked, Safe(acct))
    /\ phase = "done" /\ tier = "RED" => out = PanicCloses(acct)

IInv == Listing /\ UsedIsCost /\ UsedFits /\ LossesBudgeted /\ SafeKept

LEMMA InvInit == Init => IInv
<1> SUFFICES ASSUME Init PROVE IInv
  OBVIOUS
<1>1. /\ acct \in Accounts /\ tier \in Tiers /\ cooling \in BOOLEAN /\ phase = "ask"
      /\ asked = <<>> /\ orders = <<>> /\ out = <<>> /\ left = 0 /\ used = NothingUsed
  BY DEF Init
<1>2. NothingUsed \in Used
  BY DEF NothingUsed, Used
<1>3. <<>> \in Seq(Priced)
  BY EmptySeq
<1>4. Listing
  BY <1>1, <1>2, <1>3 DEF Listing, Phases
<1>5. UsedIsCost /\ LossesBudgeted /\ SafeKept
  BY <1>1 DEF UsedIsCost, LossesBudgeted, SafeKept, Walking
<1>6. UsedFits
  BY <1>1 DEF UsedFits, NothingUsed
<1> QED BY <1>4, <1>5, <1>6 DEF IInv

LEMMA StepPropose ==
    ASSUME IInv, NEW o \in Wanted, Propose(o)
    PROVE  IInv'
<1>1. Listing /\ UsedIsCost /\ UsedFits
  BY DEF IInv
<1>2. /\ phase = "ask" /\ asked' = Append(asked, o)
      /\ UNCHANGED <<acct, tier, cooling, phase, orders, out, left, used>>
  BY DEF Propose
<1>3. o \in Priced /\ Append(asked, o) \in Seq(Priced)
  <2>1. o \in Priced
    BY WantedTyped DEF Priced
  <2> QED BY <1>1, <2>1, AppendProperties DEF Listing
<1>4. Listing'
  BY <1>1, <1>2, <1>3 DEF Listing
<1>5. (UsedIsCost /\ LossesBudgeted /\ SafeKept)'
  BY <1>1, <1>2 DEF UsedIsCost, LossesBudgeted, SafeKept, Walking
<1>6. UsedFits'
  BY <1>1, <1>2 DEF UsedFits
<1> QED BY <1>4, <1>5, <1>6 DEF IInv

LEMMA StepUnstick ==
    ASSUME IInv, Unstick
    PROVE  IInv'
<1>1. Listing /\ UsedIsCost /\ UsedFits
  BY DEF IInv
<1>2. /\ phase = "ask" /\ phase' = "assess" /\ asked' = asked \o UnstuckOrders(acct)
      /\ UNCHANGED <<acct, tier, cooling, orders, out, left, used>>
  BY DEF Unstick
<1>3. asked \o UnstuckOrders(acct) \in Seq(Priced)
  <2>1. UnstuckOrders(acct) \in Seq(Priced) /\ asked \in Seq(Priced)
    BY AccountsTyped, <1>1, UnstuckFacts, OrderSets DEF Listing
  <2> QED BY <2>1, ConcatProperties
<1>4. Listing'
  BY <1>1, <1>2, <1>3 DEF Listing, Phases
<1>5. (UsedIsCost /\ LossesBudgeted /\ SafeKept)'
  BY <1>1, <1>2 DEF UsedIsCost, LossesBudgeted, SafeKept, Walking
<1>6. UsedFits'
  BY <1>1, <1>2 DEF UsedFits
<1> QED BY <1>4, <1>5, <1>6 DEF IInv

LEMMA StepPanic ==
    ASSUME IInv, Panic
    PROVE  IInv'
<1>1. Listing /\ UsedIsCost /\ UsedFits
  BY DEF IInv
<1>2. /\ phase = "assess" /\ tier = "RED" /\ phase' = "done" /\ out' = PanicCloses(acct)
      /\ cooling' = TRUE
      /\ UNCHANGED <<acct, tier, asked, orders, left, used>>
  BY DEF Panic
<1>3. PanicCloses(acct) \in Seq(Priced)
  BY AccountsTyped, <1>1, PanicFacts, OrderSets DEF Listing
<1>4. Listing'
  BY <1>1, <1>2, <1>3 DEF Listing, Phases
<1>5. (UsedIsCost /\ LossesBudgeted /\ SafeKept)'
  BY <1>1, <1>2 DEF UsedIsCost, LossesBudgeted, SafeKept, Walking
<1>6. UsedFits'
  BY <1>1, <1>2 DEF UsedFits
<1> QED BY <1>4, <1>5, <1>6 DEF IInv

LEMMA StepAssess ==
    ASSUME IInv, Assess
    PROVE  IInv'
<1>1. Listing /\ UsedIsCost /\ UsedFits
  BY DEF IInv
<1>2. /\ phase = "assess" /\ tier # "RED" /\ phase' = "losses" /\ orders' = asked /\ out' = <<>>
      /\ left' = LossBudget(acct)
      /\ UNCHANGED <<acct, tier, cooling, asked, used>>
  BY DEF Assess
<1>3. /\ asked \in Seq(Priced) /\ LossBudget(acct) \in Int
      /\ <<>> \in Seq(Priced)
  BY AccountsTyped, <1>1, OrderSets, CapsTyped, EmptySeq DEF Listing
<1>4. Listing'
  BY <1>1, <1>2, <1>3 DEF Listing, Phases
<1>5. UsedIsCost'
  BY <1>1, <1>2 DEF UsedIsCost, Walking
<1>6. UsedFits'
  BY <1>1, <1>2 DEF UsedFits
<1>7. LossesBudgeted'
  <2>1. SumOf(LossFn(acct'), out') = 0
    BY <1>2, SumEmpty, Zenon
  <2>2. AtLeastZero(LossBudget(acct)) \in Int
    BY <1>3 DEF AtLeastZero
  <2>3. SumOf(LossFn(acct'), out') + AtLeastZero(left') <= AtLeastZero(LossBudget(acct'))
    BY <1>2, <2>1, <2>2
  <2> QED BY <1>2, <2>3 DEF LossesBudgeted, Walking
<1>8. SafeKept'
  <2>1. Kept(asked, Safe(acct)) \in Seq(Priced)
    BY <1>3, KeptFacts
  <2>2. Kept(<<>>, Safe(acct)) \o Kept(asked, Safe(acct)) = Kept(asked, Safe(acct))
    <3>1. Kept(<<>>, Safe(acct)) = <<>>
      BY KeptEmpty
    <3>2. <<>> \o Kept(asked, Safe(acct)) = Kept(asked, Safe(acct))
      BY <2>1, ConcatEmptySeq
    <3> QED BY <3>1, <3>2, Zenon
  <2>3. Kept(out', Safe(acct')) \o Kept(orders', Safe(acct')) = Kept(asked', Safe(acct'))
    BY <1>2, <2>2, Zenon
  <2> QED BY <1>2, <2>3 DEF SafeKept, Walking
<1> QED BY <1>4, <1>5, <1>6, <1>7, <1>8 DEF IInv

\* The head of the list passes, as it is or as another order that is no safe exit, or
\* does not pass: the safe exits are where they were.
LEMMA SafeStep ==
    ASSUME NEW U, NEW out0 \in Seq(Priced), NEW rest \in Seq(Priced), rest # <<>>,
           NEW pass,
           \/ pass = <<>> /\ Head(rest) \notin U
           \/ \E q \in Priced : pass = <<q>> /\ (q = Head(rest) \/ (q \notin U /\ Head(rest) \notin U))
    PROVE  Kept(out0 \o pass, U) \o Kept(Tail(rest), U) = Kept(out0, U) \o Kept(rest, U)
<1> DEFINE h == Head(rest)
           A == Kept(out0, U)
           B == Kept(Tail(rest), U)
<1>1. Kept(rest, U) = IF h \in U THEN <<h>> \o B ELSE B
  BY KeptTail
<1>2. h \in Priced /\ Tail(rest) \in Seq(Priced)
  BY HeadTailProperties
<1>3. A \in Seq(Priced) /\ B \in Seq(Priced)
  <2>1. out0 \in Seq(Priced)
    BY OrderSets
  <2> QED BY <1>2, <2>1, KeptFacts
<1>4. CASE pass = <<>> /\ h \notin U
  <2>1. out0 \o pass = out0
    BY <1>4, ConcatEmptySeq
  <2> QED BY <1>1, <1>4, <2>1, Zenon
<1>5. CASE \E q \in Priced : pass = <<q>> /\ (q = h \/ (q \notin U /\ h \notin U))
  <2>1. PICK q \in Priced : pass = <<q>> /\ (q = h \/ (q \notin U /\ h \notin U))
    BY <1>5
  <2>2. Kept(out0 \o <<q>>, U) = IF q \in U THEN A \o <<q>> ELSE A
    <3>1. out0 \o <<q>> = Append(out0, q)
      BY AppendIsConcat
    <3>2. A \in Seq(Priced)
      BY KeptFacts
    <3>3. Append(A, q) = A \o <<q>>
      BY <3>2, AppendIsConcat
    <3>4. Kept(Append(out0, q), U) = IF q \in U THEN Append(A, q) ELSE A
      BY KeptAppend
    <3> QED BY <3>1, <3>3, <3>4, Zenon
  <2> HIDE DEF A, B, h
  <2>3. CASE q \in U
    <3>1. q = h /\ h \in U
      BY <2>1, <2>3
    <3>2. <<h>> \in Seq(Priced)
      BY <1>2
    <3>3. (A \o <<h>>) \o B = A \o (<<h>> \o B)
      <4>1. ASSUME NEW s \in Seq(Priced), NEW t \in Seq(Priced), NEW u \in Seq(Priced)
            PROVE  (s \o t) \o u = s \o (t \o u)
        BY ConcatAssociative, SMTT(30)
      <4>2. A \in Seq(Priced)
        BY <1>3
      <4>3. B \in Seq(Priced)
        BY <1>3
      <4> QED BY <3>2, <4>1, <4>2, <4>3
    <3> QED BY <1>1, <2>1, <2>2, <3>1, <3>3, Zenon DEF A, B
  <2>4. CASE q \notin U
    <3>1. h \notin U
      BY <2>1, <2>4
    <3> QED BY <1>1, <2>1, <2>2, <2>4, <3>1, Zenon DEF A, B
  <2> QED BY <2>3, <2>4
<1> QED BY <1>4, <1>5

LEMMA StepGateLoss ==
    ASSUME IInv, GateLoss
    PROVE  IInv'
<1> DEFINE h == Head(orders)
           g == Gated(acct, h, left)
           f == LossFn(acct)
<1>1. Listing /\ UsedIsCost /\ UsedFits /\ LossesBudgeted /\ SafeKept
  BY DEF IInv
<1>2. /\ phase = "losses" /\ orders # <<>> /\ out' = out \o g.pass /\ left' = g.left
      /\ orders' = Tail(orders)
      /\ UNCHANGED <<acct, tier, cooling, phase, asked, used>>
  BY DEF GateLoss
<1>3. /\ acct \in Accounts /\ left \in Int /\ orders \in Seq(Priced) /\ out \in Seq(Priced)
      /\ tier # "RED"
  BY <1>1, <1>2 DEF Listing
<1>4. h \in Priced /\ h \in Order /\ Tail(orders) \in Seq(Priced)
  <2>1. h \in Priced /\ Tail(orders) \in Seq(Priced)
    BY <1>2, <1>3, HeadTailProperties
  <2> QED BY <2>1, OrderSets
<1> HIDE DEF h
<1>5. /\ g.left \in Int
      /\ \/ g.pass = <<>> /\ (Loses(acct, h) => LossPct > 0 /\ acct.balance > 0)
         \/ \E q \in Priced : /\ g.pass = <<q>> /\ q.reduce = h.reduce
                              /\ q = h \/ (Loses(acct, h) /\ Loses(acct, q))
      /\ ~Loses(acct, h) => g.pass = <<h>> /\ g.left = left
      /\ LossPct > 0 /\ acct.balance > 0 =>
            \/ g.pass = <<>> /\ AtLeastZero(g.left) <= AtLeastZero(left)
            \/ \E q \in Priced :
                  /\ g.pass = <<q>>
                  /\ GateLossOf(acct, q) + AtLeastZero(g.left)
                       <= AtLeastZero(left)
  <2>1. AccountTyped(acct)
    BY AccountsTyped, <1>3
  <2>2. /\ g.left \in Int
        /\ \/ g.pass = <<>> /\ (Loses(acct, h) => LossPct > 0 /\ acct.balance > 0)
           \/ \E q \in Order : /\ g.pass = <<q>> /\ q.reduce = h.reduce /\ q.src = h.src
                               /\ q = h \/ (Loses(acct, h) /\ Loses(acct, q))
        /\ ~Loses(acct, h) => g.pass = <<h>> /\ g.left = left
        /\ LossPct > 0 /\ acct.balance > 0 =>
              \/ g.pass = <<>> /\ AtLeastZero(g.left) <= AtLeastZero(left)
              \/ \E q \in Order :
                    /\ g.pass = <<q>>
                    /\ GateLossOf(acct, q) + AtLeastZero(g.left) <= AtLeastZero(left)
    BY <1>3, <1>4, <2>1, GateFacts, Zenon
  <2> HIDE DEF g
  <2>3. CASE g.pass = <<>>
    <3>1. \A q : g.pass # <<q>>
      BY <2>3
    <3> QED BY <2>2, <2>3, <3>1
  <2>4. CASE \E q \in Order : /\ g.pass = <<q>> /\ q.reduce = h.reduce /\ q.src = h.src
                              /\ q = h \/ (Loses(acct, h) /\ Loses(acct, q))
    <3>1. PICK q \in Order : /\ g.pass = <<q>> /\ q.reduce = h.reduce /\ q.src = h.src
                             /\ q = h \/ (Loses(acct, h) /\ Loses(acct, q))
      BY <2>4
    <3>2. q \in Priced
      BY <1>4, <3>1 DEF Priced, Loses
    <3>3. ASSUME NEW p, g.pass = <<p>> PROVE p = q
      <4>1. <<p>>[1] = p /\ <<q>>[1] = q
        OBVIOUS
      <4>2. <<p>> = <<q>>
        BY <3>1, <3>3
      <4> QED BY <4>1, <4>2, Zenon
    <3>6. g.pass # <<>>
      <4>1. <<q>> # <<>>
        OBVIOUS
      <4> QED BY <3>1, <4>1, Zenon
    <3>4. \E p \in Priced : /\ g.pass = <<p>> /\ p.reduce = h.reduce
                            /\ p = h \/ (Loses(acct, h) /\ Loses(acct, p))
      BY <3>1, <3>2, Zenon
    <3>5. ASSUME LossPct > 0, acct.balance > 0
          PROVE  \E p \in Priced :
                    /\ g.pass = <<p>>
                    /\ GateLossOf(acct, p) + AtLeastZero(g.left) <= AtLeastZero(left)
      <4>1. PICK p \in Order :
                    /\ g.pass = <<p>>
                    /\ GateLossOf(acct, p) + AtLeastZero(g.left) <= AtLeastZero(left)
        BY <2>2, <3>5, <3>6, Zenon
      <4>2. p = q
        BY <3>3, <4>1
      <4> QED BY <3>2, <4>1, <4>2, Zenon
    <3> QED BY <2>2, <3>4, <3>5, Zenon
  <2> QED BY <2>2, <2>3, <2>4
<1> HIDE DEF g
<1>6. /\ f \in [Order -> Int] /\ SumOf(f, out) \in Int /\ out \o <<>> = out
      /\ \A q \in Priced : /\ out \o <<q>> \in Seq(Priced)
                           /\ SumOf(f, out \o <<q>>) = SumOf(f, out) + f[q]
  <2>1. f \in [Order -> Int]
    BY AccountsTyped, <1>3, LossFnFacts
  <2> HIDE DEF f
  <2> QED BY <1>3, <2>1, WalkSum
<1>7. Listing'
  <2>1. out \o g.pass \in Seq(Priced)
    BY <1>3, <1>5, <1>6
  <2>2. left' \in Int
    BY <1>2, <1>5
  <2> QED BY <1>1, <1>2, <1>4, <2>1, <2>2 DEF Listing
<1>8. UsedIsCost'
  BY <1>1, <1>2 DEF UsedIsCost, Walking
<1>9. UsedFits'
  BY <1>1, <1>2 DEF UsedFits
<1>10. LossesBudgeted'
  <2> SUFFICES ASSUME LossPct > 0 /\ acct.balance > 0
               PROVE  SumOf(LossFn(acct'), out') + AtLeastZero(left') <= AtLeastZero(LossBudget(acct'))
    BY <1>2 DEF LossesBudgeted, Walking
  <2> DEFINE budget == AtLeastZero(LossBudget(acct))
  <2>1. SumOf(f, out) + AtLeastZero(left) <= budget
    BY <1>1, <1>2 DEF LossesBudgeted
  <2>2. AtLeastZero(left) \in Int /\ AtLeastZero(g.left) \in Int /\ budget \in Int
    BY AccountsTyped, <1>3, <1>5, CapsTyped DEF AtLeastZero
  <2> HIDE DEF f, budget
  <2>3. SumOf(f, out \o g.pass) + AtLeastZero(g.left) <= budget
    <3>1. CASE g.pass = <<>> /\ AtLeastZero(g.left) <= AtLeastZero(left)
      <4>1. out \o g.pass = out
        BY <1>6, <3>1
      <4> QED BY <1>6, <2>1, <2>2, <3>1, <4>1
    <3>2. CASE \E q \in Priced :
                  /\ g.pass = <<q>>
                  /\ GateLossOf(acct, q) + AtLeastZero(g.left)
                       <= AtLeastZero(left)
      <4>1. PICK q \in Priced :
               /\ g.pass = <<q>>
               /\ GateLossOf(acct, q) + AtLeastZero(g.left)
                    <= AtLeastZero(left)
        BY <3>2
      <4>2. q \in Order
        BY OrderSets
      <4>3. f[q] = GateLossOf(acct, q) /\ f[q] \in Int
        BY <1>6, <4>2 DEF f, LossFn
      <4>4. SumOf(f, out \o g.pass) = SumOf(f, out) + f[q]
        BY <1>6, <4>1
      <4> QED BY <1>6, <2>1, <2>2, <4>1, <4>3, <4>4
    <3> QED BY <1>5, <3>1, <3>2
  <2> QED BY <1>2, <2>3 DEF f, budget
<1>11. SafeKept'
  <2> DEFINE U == Safe(acct)
  <2>1. \/ g.pass = <<>> /\ h \notin U
        \/ \E q \in Priced : g.pass = <<q>> /\ (q = h \/ (q \notin U /\ h \notin U))
    <3>1. h \in U => ~Loses(acct, h)
      BY DEF Safe, Loses
    <3>2. CASE h \in U
      BY <1>4, <1>5, <3>1, <3>2
    <3>3. CASE h \notin U
      <4>1. \A q : Loses(acct, q) => q \notin U
        BY DEF Safe, Loses
      <4> QED BY <1>5, <3>3, <4>1, Zenon
    <3> QED BY <3>2, <3>3
  <2> HIDE DEF U
  <2>2. orders \in Seq(Priced)
    BY <1>1 DEF Listing
  <2>3. Kept(out \o g.pass, U) \o Kept(Tail(orders), U) = Kept(out, U) \o Kept(orders, U)
    BY <1>2, <1>3, <2>1, <2>2, SafeStep DEF h
  <2>4. Kept(out, U) \o Kept(orders, U) = Kept(asked, U)
    BY <1>1, <1>2 DEF SafeKept, U
  <2>5. Kept(out', Safe(acct')) \o Kept(orders', Safe(acct')) = Kept(asked', Safe(acct'))
    BY <1>2, <2>3, <2>4, Zenon DEF U
  <2> QED BY <1>2, <2>5 DEF SafeKept, Walking
<1> QED BY <1>7, <1>8, <1>9, <1>10, <1>11 DEF IInv

\* Sorting the entries moves no loss and no safe exit.
LEMMA DistanceKeeps ==
    ASSUME NEW a, AccountTyped(a), NEW s \in Seq(Priced)
    PROVE  LET r == ByDistance(s, a)
           IN  /\ r \in Seq(Priced)
               /\ SumOf(LossFn(a), r) = SumOf(LossFn(a), s)
               /\ Kept(r, Safe(a)) = Kept(s, Safe(a))
<1> DEFINE r == ByDistance(s, a)
<1>1. /\ r \in Seq(Priced) /\ Len(r) = Len(s)
      /\ \A i \in 1 .. Len(s) : r[i].reduce = s[i].reduce /\ (s[i].reduce => r[i] = s[i])
  <2>1. Priced \in SUBSET Order
    BY OrderSets
  <2> QED BY <2>1, DistanceFacts
<1> HIDE DEF r
<1>2. r \in Seq(Order) /\ s \in Seq(Order)
  BY <1>1, OrderSets
<1>3. \A i \in 1 .. Len(s) : r[i] \in Order /\ s[i] \in Order
  BY <1>1, <1>2, ElementOfSeq
<1>4. \A i \in 1 .. Len(s) : LossFn(a)[r[i]] = LossFn(a)[s[i]]
  <2> SUFFICES ASSUME NEW i \in 1 .. Len(s) PROVE LossFn(a)[r[i]] = LossFn(a)[s[i]]
    OBVIOUS
  <2>1. r[i].reduce = s[i].reduce /\ (s[i].reduce => r[i] = s[i]) /\ r[i] \in Order /\ s[i] \in Order
    BY <1>1, <1>3
  <2> QED BY <2>1, LossFnFacts
<1>5. SumOf(LossFn(a), r) = SumOf(LossFn(a), s)
  BY <1>1, <1>2, <1>4, SumSame
<1>6. \A i \in 1 .. Len(s) : r[i] = s[i] \/ (r[i] \notin Safe(a) /\ s[i] \notin Safe(a))
  BY <1>1 DEF Safe
<1>7. Kept(r, Safe(a)) = Kept(s, Safe(a))
  BY <1>1, <1>2, <1>6, KeptSame
<1> QED BY <1>1, <1>5, <1>7 DEF r

LEMMA EntryCostFacts ==
    ASSUME NEW srcs, NEW sides
    PROVE  /\ EntryCost(srcs, sides) \in [Order -> Int]
           /\ \A s \in Seq(Exits) : SumOf(EntryCost(srcs, sides), s) = 0
<1> DEFINE f == EntryCost(srcs, sides)
           Q == {q \in Seq(Exits) : SumOf(f, q) = 0}
<1>1. f \in [Order -> Int] /\ \A o \in Order : o.reduce => f[o] = 0
  BY CostTyped DEF EntryCost
<1> HIDE DEF f
<1>2. <<>> \in Q
  BY SumEmpty, EmptySeq
<1>3. ASSUME NEW q \in Seq(Exits), q \in Q, NEW x \in Exits PROVE Append(q, x) \in Q
  <2>1. x \in Order /\ x.reduce /\ q \in Seq(Order) /\ Append(q, x) \in Seq(Exits)
    BY OrderSets, AppendProperties DEF Exits
  <2>2. SumOf(f, Append(q, x)) = SumOf(f, q) + f[x] /\ f[x] = 0 /\ SumOf(f, q) = 0
    BY <1>1, <1>3, <2>1, SumFacts
  <2> QED BY <2>1, <2>2
<1> HIDE DEF Q
<1>4. Seq(Exits) \subseteq Q
  BY <1>2, <1>3, SeqInduction
<1> QED BY <1>1, <1>4 DEF f, Q

LEMMA StepExitsOnly ==
    ASSUME IInv, ExitsOnly
    PROVE  IInv'
<1> DEFINE r == AfterBreakers(out, acct, tier, cooling)
           f == LossFn(acct)
<1>1. Listing /\ UsedIsCost /\ UsedFits /\ LossesBudgeted /\ SafeKept
  BY DEF IInv
<1>2. /\ phase = "losses" /\ orders = <<>> /\ (cooling \/ tier = "ORANGE")
      /\ out' = r /\ phase' = "done"
      /\ UNCHANGED <<acct, tier, cooling, asked, orders, left, used>>
  BY DEF ExitsOnly
<1>3. /\ acct \in Accounts /\ left \in Int /\ out \in Seq(Priced) /\ tier # "RED"
      /\ tier \in Tiers /\ cooling \in BOOLEAN
  BY <1>1, <1>2 DEF Listing
<1>4. /\ r \in Seq(Exits)
      /\ SumOf(f, r) <= SumOf(f, out) /\ Kept(r, Safe(acct)) = Kept(out, Safe(acct))
  BY AccountsTyped, <1>2, <1>3, BreakersFacts
<1> HIDE DEF r
<1>5. Listing'
  <2>1. r \in Seq(Priced)
    BY <1>4, OrderSets
  <2> QED BY <1>1, <1>2, <2>1 DEF Listing, Phases
<1>6. UsedIsCost'
  <2>1. \A srcs, sides : SumOf(EntryCost(srcs, sides), out') = 0
    BY <1>2, <1>4, EntryCostFacts
  <2>2. used' = NothingUsed
    BY <1>1, <1>2 DEF UsedIsCost
  <2>3. /\ used'.total = 0 /\ used'.grid = 0
        /\ \A s \in Symbols, d \in Sides : used'.side[<<s, d>>] = 0
    BY <2>2 DEF NothingUsed
  <2> QED BY <1>2, <2>1, <2>3 DEF UsedIsCost
<1>7. UsedFits'
  BY <1>1, <1>2 DEF UsedFits
<1>8. LossesBudgeted'
  <2> SUFFICES ASSUME LossPct > 0 /\ acct.balance > 0
               PROVE  SumOf(LossFn(acct'), out') + SumOf(LossFn(acct'), orders')
                        <= AtLeastZero(LossBudget(acct'))
    BY <1>2 DEF LossesBudgeted
  <2>1. SumOf(f, out) + AtLeastZero(left) <= AtLeastZero(LossBudget(acct))
    BY <1>1, <1>2 DEF LossesBudgeted
  <2>2. /\ AtLeastZero(left) \in Int /\ AtLeastZero(left) >= 0
        /\ AtLeastZero(LossBudget(acct)) \in Int
    BY AccountsTyped, <1>3, CapsTyped DEF AtLeastZero
  <2>3. SumOf(f, out) \in Int /\ SumOf(f, r) \in Int
    <3>1. f \in [Order -> Int] /\ out \in Seq(Order) /\ r \in Seq(Order)
      BY AccountsTyped, <1>3, <1>4, LossFnFacts, OrderSets
    <3> HIDE DEF f
    <3> QED BY <3>1, SumFacts
  <2>4. SumOf(f, orders) = 0
    BY <1>2, SumEmpty, Zenon
  <2> HIDE DEF f
  <2>5. SumOf(f, r) + SumOf(f, orders) <= AtLeastZero(LossBudget(acct))
    BY <1>4, <2>1, <2>2, <2>3, <2>4
  <2> QED BY <1>2, <2>5 DEF f
<1>9. SafeKept'
  <2>1. Kept(out, Safe(acct)) \o Kept(orders, Safe(acct)) = Kept(asked, Safe(acct))
    BY <1>1, <1>2 DEF SafeKept
  <2>2. Kept(out', Safe(acct')) \o Kept(orders', Safe(acct')) = Kept(asked', Safe(acct'))
    BY <1>2, <1>4, <2>1, Zenon
  <2> QED BY <1>2, <1>3, <2>2 DEF SafeKept, Walking
<1> QED BY <1>5, <1>6, <1>7, <1>8, <1>9 DEF IInv

LEMMA StepBreak ==
    ASSUME IInv, Break
    PROVE  IInv'
<1> DEFINE b == AfterBreakers(out, acct, tier, cooling)
           r == ByDistance(b, acct)
           f == LossFn(acct)
           U == Safe(acct)
<1>1. Listing /\ UsedIsCost /\ UsedFits /\ LossesBudgeted /\ SafeKept
  BY DEF IInv
<1>2. /\ phase = "losses" /\ orders = <<>> /\ orders' = r /\ out' = <<>> /\ phase' = "caps"
      /\ UNCHANGED <<acct, tier, cooling, asked, left, used>>
  BY DEF Break
<1>3. /\ acct \in Accounts /\ left \in Int /\ out \in Seq(Priced) /\ tier # "RED"
      /\ tier \in Tiers /\ cooling \in BOOLEAN
  BY <1>1, <1>2 DEF Listing
<1>4. b \in Seq(Priced) /\ SumOf(f, b) <= SumOf(f, out) /\ Kept(b, U) = Kept(out, U)
  BY AccountsTyped, <1>3, BreakersFacts
<1> HIDE DEF b
<1>5. r \in Seq(Priced) /\ SumOf(f, r) = SumOf(f, b) /\ Kept(r, U) = Kept(b, U)
  BY AccountsTyped, <1>3, <1>4, DistanceKeeps
<1> HIDE DEF r
<1>6. Listing'
  <2>1. <<>> \in Seq(Priced)
    BY EmptySeq
  <2> QED BY <1>1, <1>2, <1>3, <1>5, <2>1 DEF Listing, Phases
<1>7. UsedIsCost'
  <2>1. \A g : SumOf(g, out') = 0
    BY <1>2, SumEmpty, Zenon
  <2>2. used' = NothingUsed
    BY <1>1, <1>2 DEF UsedIsCost
  <2>3. /\ used'.total = 0 /\ used'.grid = 0
        /\ \A s \in Symbols, d \in Sides : used'.side[<<s, d>>] = 0
    BY <2>2 DEF NothingUsed
  <2> QED BY <1>2, <2>1, <2>3 DEF UsedIsCost
<1>8. UsedFits'
  BY <1>1, <1>2 DEF UsedFits
<1>9. LossesBudgeted'
  <2> SUFFICES ASSUME LossPct > 0 /\ acct.balance > 0
               PROVE  SumOf(LossFn(acct'), out') + SumOf(LossFn(acct'), orders')
                        <= AtLeastZero(LossBudget(acct'))
    BY <1>2 DEF LossesBudgeted
  <2>1. SumOf(f, out) + AtLeastZero(left) <= AtLeastZero(LossBudget(acct))
    BY <1>1, <1>2 DEF LossesBudgeted
  <2>2. /\ AtLeastZero(left) \in Int /\ AtLeastZero(left) >= 0
        /\ AtLeastZero(LossBudget(acct)) \in Int
    BY AccountsTyped, <1>3, CapsTyped DEF AtLeastZero
  <2>3. SumOf(f, out) \in Int /\ SumOf(f, r) \in Int
    <3>1. f \in [Order -> Int] /\ out \in Seq(Order) /\ r \in Seq(Order)
      BY AccountsTyped, <1>3, <1>5, LossFnFacts, OrderSets
    <3> HIDE DEF f
    <3> QED BY <3>1, SumFacts
  <2>4. SumOf(f, out') = 0
    BY <1>2, SumEmpty, Zenon
  <2> HIDE DEF f
  <2>5. SumOf(f, out') + SumOf(f, r) <= AtLeastZero(LossBudget(acct))
    BY <1>4, <1>5, <2>1, <2>2, <2>3, <2>4
  <2> QED BY <1>2, <2>5 DEF f
<1>10. SafeKept'
  <2>1. Kept(out, U) \o Kept(<<>>, U) = Kept(asked, U)
    BY <1>1, <1>2 DEF SafeKept
  <2>2. Kept(out, U) \in Seq(Priced) /\ Kept(<<>>, U) = <<>>
    BY <1>3, KeptFacts, KeptEmpty
  <2>3. Kept(out, U) \o <<>> = Kept(out, U) /\ <<>> \o Kept(out, U) = Kept(out, U)
    BY <2>2, ConcatEmptySeq
  <2>4. Kept(<<>>, U) \o Kept(r, U) = Kept(asked, U)
    BY <1>4, <1>5, <2>1, <2>2, <2>3, Zenon
  <2>5. Kept(out', Safe(acct')) \o Kept(orders', Safe(acct')) = Kept(asked', Safe(acct'))
    BY <1>2, <2>4, Zenon
  <2> QED BY <1>2, <2>5 DEF SafeKept, Walking
<1> QED BY <1>6, <1>7, <1>8, <1>9, <1>10 DEF IInv

LEMMA EntryCostOf ==
    ASSUME NEW q \in Order
    PROVE  /\ EntryCost(Sources, Symbols \X Sides)[q] = IF q.reduce THEN 0 ELSE Cost(q)
           /\ EntryCost({"GRID"}, Symbols \X Sides)[q] =
                 IF ~q.reduce /\ q.src = "GRID" THEN Cost(q) ELSE 0
           /\ \A s \in Symbols, d \in Sides :
                 EntryCost(Sources, {<<s, d>>})[q] =
                    IF ~q.reduce /\ <<s, d>> = <<q.sym, q.side>> THEN Cost(q) ELSE 0
<1>1. q.src \in Sources /\ <<q.sym, q.side>> \in Symbols \X Sides
  BY DEF Order
<1> QED BY <1>1 DEF EntryCost

LEMMA StepCap ==
    ASSUME IInv, Cap
    PROVE  IInv'
<1> DEFINE h == Head(orders)
           c == Capped(acct, h, used)
           f == LossFn(acct)
<1>1. Listing /\ UsedIsCost /\ UsedFits /\ LossesBudgeted /\ SafeKept
  BY DEF IInv
<1>2. /\ phase = "caps" /\ orders # <<>> /\ out' = out \o c.pass /\ used' = c.used
      /\ orders' = Tail(orders)
      /\ UNCHANGED <<acct, tier, cooling, phase, asked, left>>
  BY DEF Cap
<1>3. /\ acct \in Accounts /\ used \in Used /\ orders \in Seq(Priced) /\ out \in Seq(Priced)
      /\ tier # "RED"
  BY <1>1, <1>2 DEF Listing
<1>4. h \in Priced /\ h \in Order /\ Tail(orders) \in Seq(Priced)
  <2>1. h \in Priced /\ Tail(orders) \in Seq(Priced)
    BY <1>2, <1>3, HeadTailProperties
  <2> QED BY <2>1, OrderSets
<1> HIDE DEF h
<1> DEFINE Passes(q) ==
               /\ ~h.reduce /\ ~q.reduce
               /\ c.pass = <<q>> /\ c.used \in Used
               /\ c.used.total = used.total + Cost(q)
               /\ c.used.grid = used.grid + (IF q.src = "GRID" THEN Cost(q) ELSE 0)
               /\ \A p \in Symbols \X Sides :
                     c.used.side[p] = used.side[p] + (IF p = <<q.sym, q.side>> THEN Cost(q) ELSE 0)
               /\ Exposure(acct, Keys) + c.used.total <= TotalCap(acct)
               /\ q.src = "GRID" => Exposure(acct, GridKeys) + c.used.grid <= GridCap(acct)
               /\ Exposure(acct, SideKeys(q.sym, q.side)) + c.used.side[<<q.sym, q.side>>]
                    <= SingleCap(acct)
<1>5. \/ h.reduce /\ c = [pass |-> <<h>>, used |-> used]
      \/ ~h.reduce /\ c = [pass |-> <<>>, used |-> used]
      \/ \E q \in Priced : Passes(q)
  BY AccountsTyped, <1>3, <1>4, CapFacts, Zenon
<1> HIDE DEF c, Passes
<1>7. \/ c.pass = <<>> /\ c.used = used /\ ~h.reduce
      \/ \E q \in Priced : c.pass = <<q>> /\ ((q = h /\ q.reduce /\ c.used = used) \/ Passes(q))
  <2>1. CASE h.reduce /\ c = [pass |-> <<h>>, used |-> used]
    BY <1>4, <2>1
  <2>2. CASE ~h.reduce /\ c = [pass |-> <<>>, used |-> used]
    BY <2>2
  <2>3. CASE \E q \in Priced : Passes(q)
    BY <2>3 DEF Passes
  <2> QED BY <1>5, <2>1, <2>2, <2>3
<1>8. out \o <<>> = out /\ \A q \in Priced : out \o <<q>> \in Seq(Priced)
  <2>1. \A q \in Priced : out \o <<q>> = Append(out, q)
    BY <1>3, AppendIsConcat
  <2>2. \A q \in Priced : Append(out, q) \in Seq(Priced)
    BY <1>3, AppendProperties
  <2> QED BY <1>3, <2>1, <2>2, ConcatEmptySeq
<1>9. ASSUME NEW g \in [Order -> Int]
      PROVE  /\ SumOf(g, out) \in Int
             /\ \A q \in Priced : SumOf(g, out \o <<q>>) = SumOf(g, out) + g[q]
  BY <1>3, <1>9, WalkSum
<1>10. Listing'
  <2>1. out \o c.pass \in Seq(Priced) /\ c.used \in Used
    BY <1>3, <1>7, <1>8 DEF Passes
  <2> QED BY <1>1, <1>2, <1>4, <2>1 DEF Listing
<1>11. UsedIsCost'
  <2> DEFINE T == EntryCost(Sources, Symbols \X Sides)
             G == EntryCost({"GRID"}, Symbols \X Sides)
             D(s, d) == EntryCost(Sources, {<<s, d>>})
  <2>1. /\ T \in [Order -> Int] /\ G \in [Order -> Int]
        /\ \A s, d : D(s, d) \in [Order -> Int]
    BY EntryCostFacts
  <2>2. /\ used.total = SumOf(T, out) /\ used.grid = SumOf(G, out)
        /\ \A s \in Symbols, d \in Sides : used.side[<<s, d>>] = SumOf(D(s, d), out)
    BY <1>1, <1>2 DEF UsedIsCost, Walking
  <2>3. \A q \in Order :
           /\ T[q] = IF q.reduce THEN 0 ELSE Cost(q)
           /\ G[q] = IF ~q.reduce /\ q.src = "GRID" THEN Cost(q) ELSE 0
           /\ \A s \in Symbols, d \in Sides :
                 D(s, d)[q] = IF ~q.reduce /\ <<s, d>> = <<q.sym, q.side>> THEN Cost(q) ELSE 0
    BY EntryCostOf
  <2> HIDE DEF T, G, D
  <2>4. /\ c.used.total = SumOf(T, out \o c.pass) /\ c.used.grid = SumOf(G, out \o c.pass)
        /\ \A s \in Symbols, d \in Sides : c.used.side[<<s, d>>] = SumOf(D(s, d), out \o c.pass)
    <3>1. CASE c.pass = <<>> /\ c.used = used
      <4>1. out \o c.pass = out
        BY <1>8, <3>1
      <4> QED BY <2>2, <3>1, <4>1
    <3>2. ASSUME NEW q \in Priced, c.pass = <<q>>, (q = h /\ q.reduce /\ c.used = used) \/ Passes(q)
          PROVE  /\ c.used.total = SumOf(T, out \o c.pass) /\ c.used.grid = SumOf(G, out \o c.pass)
                 /\ \A s \in Symbols, d \in Sides :
                       c.used.side[<<s, d>>] = SumOf(D(s, d), out \o c.pass)
      <4>1. q \in Order
        BY OrderSets
      <4>2. /\ SumOf(T, out \o c.pass) = used.total + T[q]
            /\ SumOf(G, out \o c.pass) = used.grid + G[q]
        BY <1>9, <2>1, <2>2, <3>2
      <4>3. \A s \in Symbols, d \in Sides :
                SumOf(D(s, d), out \o c.pass) = used.side[<<s, d>>] + D(s, d)[q]
        <5> SUFFICES ASSUME NEW s \in Symbols, NEW d \in Sides
                     PROVE  SumOf(D(s, d), out \o c.pass) = used.side[<<s, d>>] + D(s, d)[q]
          OBVIOUS
        <5>1. D(s, d) \in [Order -> Int]
          BY <2>1
        <5>2. SumOf(D(s, d), out \o <<q>>) = SumOf(D(s, d), out) + D(s, d)[q]
          BY <1>9, <5>1
        <5> QED BY <2>2, <3>2, <5>2
      <4>4. used.total \in Nat /\ used.grid \in Nat /\ used.side \in [Symbols \X Sides -> Nat]
        BY <1>3 DEF Used
      <4>5. \A s \in Symbols, d \in Sides : used.side[<<s, d>>] \in Nat
        BY <4>4
      <4>6. CASE q = h /\ q.reduce /\ c.used = used
        <5>1. /\ T[q] = 0 /\ G[q] = 0 /\ \A s \in Symbols, d \in Sides : D(s, d)[q] = 0
          BY <2>3, <4>1, <4>6
        <5> QED BY <4>2, <4>3, <4>4, <4>5, <4>6, <5>1
      <4>7. CASE Passes(q)
        <5>1. /\ ~q.reduce /\ c.used.total = used.total + Cost(q)
              /\ c.used.grid = used.grid + (IF q.src = "GRID" THEN Cost(q) ELSE 0)
              /\ \A p \in Symbols \X Sides :
                    c.used.side[p] = used.side[p] + (IF p = <<q.sym, q.side>> THEN Cost(q) ELSE 0)
          BY <4>7 DEF Passes
        <5>6. Cost(q) \in Nat
          BY <4>1, <5>1, CostFacts
        <5>2. T[q] = Cost(q) /\ G[q] = (IF q.src = "GRID" THEN Cost(q) ELSE 0)
          BY <2>3, <4>1, <5>1
        <5>3. \A s \in Symbols, d \in Sides :
                  D(s, d)[q] = (IF <<s, d>> = <<q.sym, q.side>> THEN Cost(q) ELSE 0)
          BY <2>3, <4>1, <5>1
        <5>4. \A s \in Symbols, d \in Sides : <<s, d>> \in Symbols \X Sides
          OBVIOUS
        <5>5. \A s \in Symbols, d \in Sides :
                  c.used.side[<<s, d>>] = used.side[<<s, d>>] + D(s, d)[q]
          BY <5>1, <5>3, <5>4
        <5> QED BY <4>2, <4>3, <5>1, <5>2, <5>5
      <4> QED BY <3>2, <4>6, <4>7
    <3> QED BY <1>7, <3>1, <3>2
  <2> QED BY <1>2, <2>4 DEF UsedIsCost, Walking, T, G, D
<1>12. UsedFits'
  <2>1. /\ c.used.total > 0 => Exposure(acct, Keys) + c.used.total <= TotalCap(acct)
        /\ c.used.grid > 0 => Exposure(acct, GridKeys) + c.used.grid <= GridCap(acct)
        /\ \A s \in Symbols, d \in Sides :
              c.used.side[<<s, d>>] > 0 =>
                  Exposure(acct, SideKeys(s, d)) + c.used.side[<<s, d>>] <= SingleCap(acct)
    <3>1. CASE c.used = used
      BY <1>1, <3>1 DEF UsedFits
    <3>2. ASSUME NEW q \in Priced, Passes(q)
          PROVE  /\ c.used.total > 0 => Exposure(acct, Keys) + c.used.total <= TotalCap(acct)
                 /\ c.used.grid > 0 => Exposure(acct, GridKeys) + c.used.grid <= GridCap(acct)
                 /\ \A s \in Symbols, d \in Sides :
                       c.used.side[<<s, d>>] > 0 =>
                          Exposure(acct, SideKeys(s, d)) + c.used.side[<<s, d>>] <= SingleCap(acct)
      <4>1. used.grid \in Nat /\ used.side \in [Symbols \X Sides -> Nat]
        BY <1>3 DEF Used
      <4>2. Exposure(acct, Keys) + c.used.total <= TotalCap(acct)
        BY <3>2 DEF Passes
      <4>3. c.used.grid > 0 => Exposure(acct, GridKeys) + c.used.grid <= GridCap(acct)
        <5>1. CASE q.src = "GRID"
          BY <3>2, <5>1 DEF Passes
        <5>2. CASE q.src # "GRID"
          <6>1. c.used.grid = used.grid
            BY <3>2, <4>1, <5>2 DEF Passes
          <6> QED BY <1>1, <6>1 DEF UsedFits
        <5> QED BY <5>1, <5>2
      <4>4. ASSUME NEW s \in Symbols, NEW d \in Sides, c.used.side[<<s, d>>] > 0
            PROVE  Exposure(acct, SideKeys(s, d)) + c.used.side[<<s, d>>] <= SingleCap(acct)
        <5>1. CASE <<s, d>> = <<q.sym, q.side>>
          <6>1. s = q.sym /\ d = q.side
            BY <5>1
          <6> QED BY <3>2, <6>1 DEF Passes
        <5>2. CASE <<s, d>> # <<q.sym, q.side>>
          <6>1. <<s, d>> \in Symbols \X Sides /\ used.side[<<s, d>>] \in Nat
            BY <4>1
          <6>2. c.used.side[<<s, d>>] = used.side[<<s, d>>]
            BY <3>2, <5>2, <6>1 DEF Passes
          <6> QED BY <1>1, <4>4, <6>2 DEF UsedFits
        <5> QED BY <5>1, <5>2
      <4> QED BY <4>2, <4>3, <4>4
    <3> QED BY <1>7, <3>1, <3>2
  <2> QED BY <1>2, <2>1 DEF UsedFits
<1>13. LossesBudgeted'
  <2> SUFFICES ASSUME LossPct > 0 /\ acct.balance > 0
               PROVE  SumOf(LossFn(acct'), out') + SumOf(LossFn(acct'), orders')
                        <= AtLeastZero(LossBudget(acct'))
    BY <1>2 DEF LossesBudgeted, Walking
  <2>1. SumOf(f, out) + SumOf(f, orders) <= AtLeastZero(LossBudget(acct))
    BY <1>1, <1>2 DEF LossesBudgeted, Walking
  <2>2. /\ f \in [Order -> Int] /\ \A o \in Order : f[o] >= 0
        /\ \A o \in Order : ~o.reduce => f[o] = 0
    BY AccountsTyped, <1>3, LossFnFacts
  <2> HIDE DEF f
  <2>3. /\ SumOf(f, orders) = f[h] + SumOf(f, Tail(orders))
        /\ SumOf(f, Tail(orders)) \in Int
    <3>1. orders \in Seq(Order) /\ Tail(orders) \in Seq(Order)
      BY <1>3, <1>4, OrderSets
    <3> QED BY <1>2, <2>2, <3>1, SumFacts DEF h
  <2>4. f[h] \in Int /\ f[h] >= 0
    BY <1>4, <2>2
  <2>5. SumOf(f, out \o c.pass) \in Int /\ SumOf(f, out) \in Int
        /\ SumOf(f, out \o c.pass) <= SumOf(f, out) + f[h]
    <3>1. SumOf(f, out) \in Int
      BY <1>9, <2>2
    <3>2. CASE c.pass = <<>>
      <4>1. out \o c.pass = out
        BY <1>8, <3>2
      <4> QED BY <2>4, <3>1, <4>1
    <3>3. ASSUME NEW q \in Priced, c.pass = <<q>>, (q = h /\ q.reduce /\ c.used = used) \/ Passes(q)
          PROVE  /\ SumOf(f, out \o c.pass) \in Int
                 /\ SumOf(f, out \o c.pass) <= SumOf(f, out) + f[h]
      <4>1. q \in Order
        BY OrderSets
      <4>2. SumOf(f, out \o c.pass) = SumOf(f, out) + f[q]
        BY <1>9, <2>2, <3>3
      <4>3. q = h \/ f[q] = 0
        BY <2>2, <3>3, <4>1 DEF Passes
      <4> QED BY <2>4, <3>1, <4>2, <4>3
    <3> QED BY <1>7, <3>1, <3>2, <3>3
  <2>6. AtLeastZero(LossBudget(acct)) \in Int
    BY AccountsTyped, <1>3, CapsTyped DEF AtLeastZero
  <2>7. SumOf(f, out \o c.pass) + SumOf(f, Tail(orders)) <= AtLeastZero(LossBudget(acct))
    BY <2>1, <2>3, <2>4, <2>5, <2>6
  <2> QED BY <1>2, <2>7 DEF f
<1>14. SafeKept'
  <2> DEFINE U == Safe(acct)
  <2>1. \/ c.pass = <<>> /\ h \notin U
        \/ \E q \in Priced : c.pass = <<q>> /\ (q = h \/ (q \notin U /\ h \notin U))
    <3>1. \A q : ~q.reduce => q \notin U
      BY DEF Safe
    <3> HIDE DEF U
    <3> QED BY <1>7, <3>1 DEF Passes
  <2> HIDE DEF U
  <2>2. Kept(out \o c.pass, U) \o Kept(Tail(orders), U) = Kept(out, U) \o Kept(orders, U)
    BY <1>2, <1>3, <2>1, SafeStep DEF h
  <2>3. Kept(out, U) \o Kept(orders, U) = Kept(asked, U)
    BY <1>1, <1>2 DEF SafeKept, U, Walking
  <2>4. Kept(out', Safe(acct')) \o Kept(orders', Safe(acct')) = Kept(asked', Safe(acct'))
    BY <1>2, <2>2, <2>3, Zenon DEF U
  <2> QED BY <1>2, <2>4 DEF SafeKept, Walking
<1> QED BY <1>10, <1>11, <1>12, <1>13, <1>14 DEF IInv

LEMMA StepReturn ==
    ASSUME IInv, Return
    PROVE  IInv'
<1>1. Listing /\ UsedIsCost /\ UsedFits /\ LossesBudgeted /\ SafeKept
  BY DEF IInv
<1>2. /\ phase = "caps" /\ orders = <<>> /\ phase' = "done"
      /\ UNCHANGED <<acct, tier, cooling, asked, orders, out, left, used>>
  BY DEF Return
<1>3. Listing'
  BY <1>1, <1>2 DEF Listing, Phases
<1>4. (UsedIsCost /\ LossesBudgeted /\ SafeKept)'
  BY <1>1, <1>2 DEF Listing, UsedIsCost, LossesBudgeted, SafeKept, Walking
<1>5. UsedFits'
  BY <1>1, <1>2 DEF UsedFits
<1> QED BY <1>3, <1>4, <1>5 DEF IInv

LEMMA StepStutter ==
    ASSUME IInv, UNCHANGED vars
    PROVE  IInv'
<1>1. UNCHANGED <<acct, tier, cooling, phase, asked, orders, out, left, used>>
  BY DEF vars
<1>2. (Listing /\ UsedIsCost /\ UsedFits /\ LossesBudgeted /\ SafeKept)'
  BY <1>1 DEF IInv, Listing, UsedIsCost, UsedFits, LossesBudgeted, SafeKept, Walking
<1> QED BY <1>2 DEF IInv

LEMMA InvStep == IInv /\ [Next]_vars => IInv'
<1> SUFFICES ASSUME IInv, [Next]_vars PROVE IInv'
  OBVIOUS
<1>1. CASE \E o \in Wanted : Propose(o)
  BY <1>1, StepPropose
<1>2. CASE Unstick
  BY <1>2, StepUnstick
<1>3. CASE Panic
  BY <1>3, StepPanic
<1>4. CASE Assess
  BY <1>4, StepAssess
<1>5. CASE GateLoss
  BY <1>5, StepGateLoss
<1>6. CASE ExitsOnly
  BY <1>6, StepExitsOnly
<1>7. CASE Break
  BY <1>7, StepBreak
<1>8. CASE Cap
  BY <1>8, StepCap
<1>9. CASE Return
  BY <1>9, StepReturn
<1>10. CASE UNCHANGED vars
  BY <1>10, StepStutter
<1> QED BY <1>1, <1>2, <1>3, <1>4, <1>5, <1>6, <1>7, <1>8, <1>9, <1>10 DEF Next

LEMMA Invariance == Spec => []IInv
BY InvInit, InvStep, PTL DEF Spec

-----------------------------------------------------------------------------
(* The theorems *)

LEMMA OutListed ==
    ASSUME IInv
    PROVE  /\ acct \in Accounts /\ out \in Seq(Priced) /\ out \in Seq(Order)
           /\ \A i \in DOMAIN out : out[i] \in Order
<1>1. acct \in Accounts /\ out \in Seq(Priced) /\ out \in Seq(Order)
  BY OrderSets DEF IInv, Listing
<1>2. \A i \in DOMAIN out : out[i] \in Order
  BY <1>1, LenProperties, ElementOfSeq
<1> QED BY <1>1, <1>2

\* Orders stay orders through every pass: no trim makes a quantity negative
\* (RiskManager.filter_orders).
THEOREM FilterTypes == Spec => []TypeOK
<1>1. IInv => TypeOK
  <2> SUFFICES ASSUME IInv PROVE TypeOK
    OBVIOUS
  <2>1. Listing
    BY DEF IInv
  <2>2. asked \in Seq(Order) /\ orders \in Seq(Order) /\ out \in Seq(Order)
    BY <2>1, OrderSets DEF Listing
  <2>3. ASSUME NEW s \in Seq(Order) PROVE \A i \in DOMAIN s : s[i] \in Order
    BY LenProperties, ElementOfSeq
  <2>4. \A s \in {asked, orders, out} : \A i \in DOMAIN s : s[i] \in Order
    BY <2>2, <2>3
  <2> QED BY <2>1, <2>4 DEF Listing, TypeOK, Used
<1> QED BY <1>1, Invariance, PTL

\* The entries that pass fit under the account's cap, the cap of their side of the symbol
\* and the grid's, all of them together (RiskManager._enforce_exposure_limits).
THEOREM FilterCapsHold == Spec => []CapsHold
<1>1. IInv => CapsHold
  <2> SUFFICES ASSUME IInv, Walking PROVE CapsHold
    BY DEF CapsHold, Walking
  <2>1. UsedIsCost /\ UsedFits
    BY DEF IInv
  <2>2. ASSUME NEW srcs, NEW sides
        PROVE  EntriesCost(srcs, sides) = SumOf(EntryCost(srcs, sides), out)
    <3>1. \A i \in DOMAIN out :
              EntryCost(srcs, sides)[out[i]] =
                 IF ~out[i].reduce /\ out[i].src \in srcs /\ <<out[i].sym, out[i].side>> \in sides
                 THEN Cost(out[i]) ELSE 0
      BY OutListed DEF EntryCost
    <3>2. [i \in DOMAIN out |-> EntryCost(srcs, sides)[out[i]]] =
             [i \in DOMAIN out |->
                 IF ~out[i].reduce /\ out[i].src \in srcs /\ <<out[i].sym, out[i].side>> \in sides
                 THEN Cost(out[i]) ELSE 0]
      BY <3>1
    <3> QED BY <3>2, Zenon DEF EntriesCost, SumOf
  <2>3. /\ used.total = EntriesCost(Sources, Symbols \X Sides)
        /\ used.grid = EntriesCost({"GRID"}, Symbols \X Sides)
        /\ \A s \in Symbols, d \in Sides : used.side[<<s, d>>] = EntriesCost(Sources, {<<s, d>>})
    BY <2>1, <2>2 DEF UsedIsCost
  <2> QED BY <2>1, <2>3 DEF CapsHold, UsedFits
<1> QED BY <1>1, Invariance, PTL

\* The limit closes that pass lose no more than what is left of the budget, together, and
\* the unstuck order no more than its bucket's allowance (_enforce_realized_loss_gate,
\* _unstuck_for_bucket).
THEOREM FilterLossBudgetHeld == Spec => []LossBudgetHeld
<1>1. IInv => LossBudgetHeld
  <2> SUFFICES ASSUME IInv PROVE LossBudgetHeld
    OBVIOUS
  <2>1. Listing /\ LossesBudgeted
    BY DEF IInv
  <2>2. ASSUME phase = "done", tier # "RED", LossPct > 0, acct.balance > 0
        PROVE  Lost(out) <= AtLeastZero(LossBudget(acct))
    <3>1. SumOf(LossFn(acct), out) + SumOf(LossFn(acct), orders) <= AtLeastZero(LossBudget(acct))
      BY <2>1, <2>2 DEF LossesBudgeted, Walking
    <3>2. SumOf(LossFn(acct), orders) = 0
      <4>1. orders = <<>>
        BY <2>1, <2>2 DEF Listing
      <4> QED BY <4>1, SumEmpty, Zenon
    <3>3. \A i \in DOMAIN out : LossFn(acct)[out[i]] = LossOf(out[i])
      BY OutListed DEF LossFn, LossOf, GateLossOf
    <3>4. [i \in DOMAIN out |-> LossFn(acct)[out[i]]] = [i \in DOMAIN out |-> LossOf(out[i])]
      BY <3>3
    <3>5. Lost(out) = SumOf(LossFn(acct), out)
      BY <3>4, Zenon DEF Lost, SumOf
    <3>6. SumOf(LossFn(acct), out) \in Int
      BY AccountsTyped, OutListed, LossFnFacts, SumFacts
    <3> QED BY <3>1, <3>2, <3>5, <3>6
  <2>3. \A i \in DOMAIN UnstuckOrders(acct) :
            LET o == UnstuckOrders(acct)[i]
            IN  ProjectedLoss(acct, o) <= Allowance(acct, Bucket(o.src))
    BY AccountsTyped, OutListed, UnstuckFacts
  <2> QED BY <2>2, <2>3, Zenon DEF LossBudgetHeld
<1> QED BY <1>1, Invariance, PTL

\* Forced exits and closes in profit come out as they went in, in their order, and RED
\* closes every open bucket once, whole (RiskManager.filter_orders).
THEOREM FilterExitsSurvive == Spec => []ExitsSurvive
<1>1. IInv => ExitsSurvive
  <2> SUFFICES ASSUME IInv, phase = "done" PROVE ExitsSurvive
    BY DEF ExitsSurvive
  <2>1. Listing /\ SafeKept
    BY DEF IInv
  <2>2. CASE tier = "RED"
    <3>1. out = PanicCloses(acct)
      BY <2>1, <2>2 DEF SafeKept
    <3>2. /\ \A k \in Keys :
                Cardinality({i \in DOMAIN out : <<out[i].sym, out[i].side, Bucket(out[i].src)>> = k})
                   = IF IsOpen(acct.pos[k]) THEN 1 ELSE 0
          /\ \A i \in DOMAIN out : out[i].reduce /\ out[i].market /\ out[i].qty = At(acct, out[i]).size
      <4>1. AccountTyped(acct)
        BY OutListed, AccountsTyped
      <4> DEFINE r == PanicCloses(acct)
      <4>2. /\ \A k \in Keys :
                  Cardinality({i \in DOMAIN r : <<r[i].sym, r[i].side, Bucket(r[i].src)>> = k})
                     = IF IsOpen(acct.pos[k]) THEN 1 ELSE 0
            /\ \A i \in DOMAIN r : r[i].reduce /\ r[i].market /\ r[i].qty = At(acct, r[i]).size
        BY <4>1, PanicFacts, Zenon
      <4>3. out = r
        BY <3>1
      <4> QED BY <4>2, <4>3, Zenon
    <3> QED BY <2>2, <3>2, Zenon DEF ExitsSurvive
  <2>3. CASE tier # "RED"
    <3>1. Kept(out, Safe(acct)) \o Kept(orders, Safe(acct)) = Kept(asked, Safe(acct))
      BY <2>1, <2>3 DEF SafeKept, Walking
    <3>2. orders = <<>>
      BY <2>1, <2>3 DEF Listing
    <3>3. Kept(orders, Safe(acct)) = <<>>
      BY <3>2, KeptEmpty, Zenon
    <3>4. Kept(out, Safe(acct)) \in Seq(Priced)
      BY OutListed, KeptFacts
    <3>5. Kept(out, Safe(acct)) \o <<>> = Kept(out, Safe(acct))
      BY <3>4, ConcatEmptySeq
    <3>6. Kept(out, Safe(acct)) = Kept(asked, Safe(acct))
      BY <3>1, <3>3, <3>5, Zenon
    <3> QED BY <2>3, <3>6 DEF ExitsSurvive, Safe
  <2> QED BY <2>2, <2>3
<1> QED BY <1>1, Invariance, PTL

-----------------------------------------------------------------------------
(* Recursive functions over the steps of a walk *)

\* A walk of m steps through a set, from a start.
Follows(f, S, step, start, m) ==
    f \in [0 .. m -> S] /\ f[0] = start /\ \A k \in 1 .. m : f[k] = step[<<f[k - 1], k>>]

\* A function that is defined by steps that stay in a set exists.
LEMMA Recursion ==
    ASSUME NEW S, NEW step \in [S \X Nat -> S], NEW start \in S, NEW m \in Nat
    PROVE  \E f : Follows(f, S, step, start, m)
<1> DEFINE Fits(f, n) == f = [k \in 0 .. n |-> IF k = 0 THEN start ELSE step[<<f[k - 1], k>>]]
           R == {n \in Nat : \E f \in [0 .. n -> S] : Fits(f, n)}
<1>1. 0 \in R
  <2> DEFINE f == [k \in 0 .. 0 |-> start]
  <2>1. f \in [0 .. 0 -> S]
    OBVIOUS
  <2>3. \A k \in 0 .. 0 : k = 0
    OBVIOUS
  <2>2. Fits(f, 0)
    BY <2>3, Zenon
  <2> HIDE DEF f, Fits
  <2> QED BY <2>1, <2>2
<1>2. ASSUME NEW n \in R PROVE n + 1 \in R
  <2>1. n \in Nat
    OBVIOUS
  <2>2. PICK f \in [0 .. n -> S] : Fits(f, n)
    OBVIOUS
  <2> DEFINE g == [k \in 0 .. (n + 1) |-> IF k = 0 THEN start ELSE step[<<f[k - 1], k>>]]
  <2>3. \A k \in 0 .. n : g[k] = f[k]
    <3>1. \A k \in 0 .. n : f[k] = IF k = 0 THEN start ELSE step[<<f[k - 1], k>>]
      BY <2>2, Zenon
    <3>2. \A k \in 0 .. n : k \in 0 .. (n + 1)
      BY <2>1
    <3>3. \A k \in 0 .. (n + 1) : g[k] = IF k = 0 THEN start ELSE step[<<f[k - 1], k>>]
      BY Zenon
    <3> HIDE DEF g, Fits
    <3> QED BY <3>1, <3>2, <3>3, Zenon
  <2>4. \A k \in 0 .. (n + 1) : k # 0 => k - 1 \in 0 .. n /\ k \in Nat
    BY <2>1
  <2>5. \A k \in 0 .. (n + 1) : k # 0 => g[k - 1] = f[k - 1]
    <3> HIDE DEF g, Fits
    <3> QED BY <2>3, <2>4
  <2>6. Fits(g, n + 1)
    BY <2>5
  <2>7. \A k \in 0 .. (n + 1) : k # 0 => step[<<f[k - 1], k>>] \in S
    <3> SUFFICES ASSUME NEW k \in 0 .. (n + 1), k # 0 PROVE step[<<f[k - 1], k>>] \in S
      OBVIOUS
    <3>1. <<f[k - 1], k>> \in S \X Nat
      BY <2>2, <2>4
    <3> QED BY <3>1
  <2>8. g \in [0 .. (n + 1) -> S]
    BY <2>7
  <2> HIDE DEF g, Fits
  <2>9. n + 1 \in Nat
    BY <2>1
  <2> QED BY <2>6, <2>8, <2>9
<1>3. m \in R
  <2>1. R \in SUBSET Nat
    OBVIOUS
  <2> HIDE DEF R
  <2> QED BY <1>1, <1>2, <2>1, Induction
<1>4. PICK f \in [0 .. m -> S] : Fits(f, m)
  BY <1>3
<1>5. \A k \in 0 .. m : f[k] = IF k = 0 THEN start ELSE step[<<f[k - 1], k>>]
  BY <1>4, Zenon
<1>6. 0 \in 0 .. m /\ \A k \in 1 .. m : k \in 0 .. m /\ k # 0
  OBVIOUS
<1> HIDE DEF Fits, R
<1>7. f[0] = start
  BY <1>5, <1>6, Zenon
<1>8. \A k \in 1 .. m : f[k] = step[<<f[k - 1], k>>]
  BY <1>5, <1>6, Zenon
<1> QED BY <1>4, <1>7, <1>8 DEF Follows

\* A walk that starts in a set and never leaves it is in it everywhere.
LEMMA Stays ==
    ASSUME NEW S, NEW m \in Nat, NEW f, f[0] \in S, \A k \in 1 .. m : f[k - 1] \in S => f[k] \in S
    PROVE  \A k \in 0 .. m : f[k] \in S
<1> DEFINE R == {n \in Nat : n <= m => f[n] \in S}
<1>1. 0 \in R
  OBVIOUS
<1>2. ASSUME NEW n \in R PROVE n + 1 \in R
  <2> SUFFICES ASSUME n + 1 <= m PROVE f[n + 1] \in S
    OBVIOUS
  <2>1. n \in Nat /\ n + 1 \in 1 .. m /\ (n + 1) - 1 = n /\ f[n] \in S
    OBVIOUS
  <2> QED BY <2>1
<1>3. R = Nat
  <2>1. R \in SUBSET Nat
    OBVIOUS
  <2> HIDE DEF R
  <2> QED BY <1>1, <1>2, <2>1, Induction
<1> QED BY <1>3

-----------------------------------------------------------------------------
(* The engines propose orders *)

\* Orders whose entries come from some sources only.
From(N) == {o \in Order : o.reduce \/ o.src \in N}
Grids == From({"GRID"})

LEMMA Figures ==
    /\ PriceStep \in Nat /\ PriceStep > 0 /\ CloseQtyPct \in Nat /\ CloseQtyPct > 0
    /\ MaxLevels \in Nat /\ InitDist \in Nat /\ InitDist < 10000 /\ InitPct \in Nat
    /\ Spacing \in Nat /\ WeWeight \in Nat
    /\ DoubleDown \in Nat /\ AggressiveDoubleDown \in Nat /\ Compression \in Nat
    /\ MarkupStart \in Nat /\ MarkupEnd \in Nat
    /\ TrailAt \in Nat /\ TrailBack \in Nat /\ TrailDouble \in Nat
    /\ OverlaySizing \in Nat /\ EntryPct \in Nat /\ WeakAggr \in Nat /\ StrongAggr \in Nat
    /\ KellyWindow \in Nat /\ KellyWindow > 0 /\ KellyMin \in Nat /\ KellyMin > 0 /\ KellyPart \in Nat
BY GridNumbersNat, StepsPositive, RegimeNumbersNat, KellyNat

LEMMA MaxOf ==
    ASSUME NEW a \in Int, NEW b \in Int
    PROVE  Max({a, b}) \in {a, b} /\ Max({a, b}) >= a /\ Max({a, b}) >= b
<1>1. \E m \in {a, b} : \A k \in {a, b} : m >= k
  <2>1. CASE a >= b
    BY <2>1
  <2>2. CASE b >= a
    BY <2>2
  <2> QED BY <2>1, <2>2
<1> QED BY <1>1 DEF Max

LEMMA MinTwo ==
    ASSUME NEW a \in Int, NEW b \in Int
    PROVE  Min({a, b}) \in {a, b} /\ Min({a, b}) <= a /\ Min({a, b}) <= b
<1>1. Min({a, b}) \in {a, b} /\ \A k \in {a, b} : Min({a, b}) <= k
  BY MinOf
<1> QED BY <1>1

LEMMA Stepping ==
    ASSUME NEW price \in Int, NEW bp \in Int, NEW side
    PROVE  Worse(side, price, bp) \in Int /\ Better(side, price, bp) \in Int
<1>1. \A b \in Int, up \in BOOLEAN : Stepped(price, b, up) \in Int
  <2> SUFFICES ASSUME NEW b \in Int, NEW up \in BOOLEAN PROVE Stepped(price, b, up) \in Int
    OBVIOUS
  <2>1. 10000 * PriceStep \in Nat /\ 10000 * PriceStep > 0 /\ PriceStep \in Int
    BY Figures
  <2>2. price * (10000 + b) \in Int /\ -price * (10000 + b) \in Int
    OBVIOUS
  <2>3. /\ (price * (10000 + b)) \div (10000 * PriceStep) \in Int
        /\ (-price * (10000 + b)) \div (10000 * PriceStep) \in Int
    BY <2>1, <2>2
  <2> DEFINE x == (price * (10000 + b)) \div (10000 * PriceStep)
             y == (-price * (10000 + b)) \div (10000 * PriceStep)
  <2>4. Stepped(price, b, up) = IF up THEN -y * PriceStep ELSE x * PriceStep
    BY DEF Stepped
  <2> HIDE DEF x, y
  <2>5. x \in Int /\ y \in Int
    BY <2>3 DEF x, y
  <2>6. y * PriceStep \in Int /\ x * PriceStep \in Int
    BY <2>1, <2>5
  <2>7. -y * PriceStep \in Int
    BY <2>1, <2>5
  <2> QED BY <2>4, <2>6, <2>7
<1>2. /\ (IF side = "LONG" THEN -bp ELSE bp) \in Int /\ (IF side = "LONG" THEN bp ELSE -bp) \in Int
      /\ (side = "SHORT") \in BOOLEAN /\ (side = "LONG") \in BOOLEAN
  OBVIOUS
<1> QED BY <1>1, <1>2, Zenon DEF Worse, Better

LEMMA Hung ==
    ASSUME NEW sym \in Symbols, NEW side \in Sides, NEW reduce \in BOOLEAN, NEW price \in Int,
           NEW qty \in Nat, reduce => qty > 0
    PROVE  GridOrder(sym, side, reduce, price, qty) \in Grids
BY DEF GridOrder, Grids, From, Order, Sources

\* The states of the walk down the ladder.
Ladder == [done : BOOLEAN, out : Seq(Grids), price : Int, qty : Int, size : Nat]

LEMMA LimitTyped ==
    ASSUME NEW a, AccountTyped(a)
    PROVE  /\ \A b \in Buckets : PercentOf(Wel[b], a.balance) \in Int
           /\ GridLimit(a) \in Int
<1>1. a.balance \in Int /\ \A b \in Buckets : Wel[b] \in Nat
  BY Routed, Numbers
<1>2. \A b \in Buckets : PercentOf(Wel[b], a.balance) \in Int
  BY <1>1, Percent
<1> QED BY <1>2 DEF GridLimit, Buckets

LEMMA SpacingTyped ==
    ASSUME NEW a, AccountTyped(a), NEW sym \in Symbols, NEW size \in Nat, NEW price \in Int
    PROVE  SpacingAt(a, sym, size, price) \in Int
<1> DEFINE limit == GridLimit(a)
           share == (100 * size * price * CMult[sym]) \div limit
<1>1. limit \in Int /\ CMult[sym] \in Int /\ Spacing \in Int /\ WeWeight \in Int
  BY LimitTyped, Numbers, Figures
<1>2. 100 * size * price * CMult[sym] \in Int
  BY <1>1
<1> HIDE DEF limit
<1>3. limit > 0 => share \in Int
  BY <1>1, <1>2
<1> HIDE DEF share
<1>4. limit > 0 => (Spacing * WeWeight * share) \div 10000 \in Int
  BY <1>1, <1>3
<1> QED BY <1>1, <1>4 DEF SpacingAt, limit, share

LEMMA LevelTyped ==
    ASSUME NEW a, AccountTyped(a), NEW sym \in Symbols, NEW side \in Sides, NEW mode,
           NEW st \in Ladder
    PROVE  Level(a, sym, side, mode, st) \in Ladder
<1> DEFINE cost(n) == n * st.price * CMult[sym]
           capped == Quantized((GridLimit(a) - cost(st.size)) \div (st.price * CMult[sym]))
           hang(n) == Append(st.out, GridOrder(sym, side, FALSE, st.price, n))
           spacing == SpacingAt(a, sym, st.size + st.qty, st.price)
           off == IF mode = "AGGRESSIVE" THEN PercentOf(Compression, spacing) ELSE spacing
           next == Quantized(PercentOf(IF mode = "AGGRESSIVE" THEN AggressiveDoubleDown
                                                              ELSE DoubleDown, st.qty))
           stops == st.done \/ st.qty < MinQty \/ st.price <= 0 \/ cost(st.qty) < MinCost
           meets == a.balance > 0 /\ cost(st.size + st.qty) > GridLimit(a)
<1>1. /\ st.done \in BOOLEAN /\ st.out \in Seq(Grids) /\ st.price \in Int /\ st.qty \in Int
      /\ st.size \in Nat /\ CMult[sym] \in Nat /\ CMult[sym] > 0 /\ GridLimit(a) \in Int
      /\ MinQty \in Nat /\ MinQty > 0
  BY LimitTyped, Numbers DEF Ladder
<1>2. Level(a, sym, side, mode, st) =
        IF stops THEN [st EXCEPT !.done = TRUE]
        ELSE IF meets
        THEN [st EXCEPT !.done = TRUE, !.out = IF capped >= MinQty THEN hang(capped) ELSE @]
        ELSE [done |-> FALSE, out |-> hang(st.qty), size |-> st.size + st.qty,
              price |-> Worse(side, st.price, off), qty |-> next]
  BY Zenon DEF Level
<1>3. CASE stops
  <2>1. [st EXCEPT !.done = TRUE] \in Ladder
    BY DEF Ladder
  <2> QED BY <1>2, <1>3, <2>1
<1>4. \A n \in Nat : hang(n) \in Seq(Grids)
  BY <1>1, Hung, AppendProperties
<1>5. ASSUME ~stops PROVE st.price > 0 /\ st.qty >= MinQty /\ st.qty \in Nat
  BY <1>1, <1>5
<1>6. CASE ~stops /\ meets
  <2>1. capped \in Int
    <3>1. st.price * CMult[sym] > 0 /\ st.price * CMult[sym] \in Int
      BY <1>1, <1>5, <1>6
    <3>2. GridLimit(a) - cost(st.size) \in Int
      BY <1>1
    <3>3. (GridLimit(a) - cost(st.size)) \div (st.price * CMult[sym]) \in Int
      BY <3>1, <3>2
    <3> QED BY <3>3, Quantum
  <2> HIDE DEF capped
  <2>2. (IF capped >= MinQty THEN hang(capped) ELSE st.out) \in Seq(Grids)
    <3>1. capped >= MinQty => capped \in Nat
      BY <1>1, <2>1
    <3> HIDE DEF hang
    <3> QED BY <1>1, <1>4, <3>1
  <2> HIDE DEF hang, stops, meets
  <2>3. [st EXCEPT !.done = TRUE, !.out = IF capped >= MinQty THEN hang(capped) ELSE @] \in Ladder
    BY <2>2 DEF Ladder
  <2> QED BY <1>2, <1>6, <2>3
<1>7. CASE ~stops /\ ~meets
  <2>1. st.size + st.qty \in Nat /\ hang(st.qty) \in Seq(Grids)
    <3>1. st.qty \in Nat
      BY <1>5, <1>7
    <3>2. hang(st.qty) \in Seq(Grids)
      BY <1>4, <3>1
    <3>3. st.size + st.qty \in Nat
      BY <1>1, <3>1
    <3> QED BY <3>2, <3>3
  <2>2. spacing \in Int
    BY <1>1, <2>1, SpacingTyped
  <2> HIDE DEF spacing
  <2>3. off \in Int
    BY <2>2, Figures, Percent
  <2> HIDE DEF off
  <2>4. Worse(side, st.price, off) \in Int
    BY <1>1, <2>3, Stepping
  <2>5. next \in Int
    <3>1. AggressiveDoubleDown \in Nat /\ DoubleDown \in Nat /\ st.qty \in Int
      BY <1>1, Figures
    <3>2. PercentOf(AggressiveDoubleDown, st.qty) \in Int
      BY <3>1, Percent
    <3>3. PercentOf(DoubleDown, st.qty) \in Int
      BY <3>1, Percent
    <3> QED BY <3>2, <3>3, Quantum
  <2> HIDE DEF next, hang, stops, meets
  <2>6. [done |-> FALSE, out |-> hang(st.qty), size |-> st.size + st.qty,
         price |-> Worse(side, st.price, off), qty |-> next] \in Ladder
    BY <2>1, <2>4, <2>5 DEF Ladder
  <2> QED BY <1>2, <1>7, <2>6
<1> HIDE DEF stops, meets
<1> QED BY <1>3, <1>6, <1>7

Bands == [Symbols -> [lower : Nat \ {0}, upper : Nat \ {0}]]

LEMMA FirstTyped ==
    ASSUME NEW a, AccountTyped(a), a.ema \in Bands, NEW sym \in Symbols, NEW side \in Sides
    PROVE  FirstLevel(a, sym, side) \in Ladder
<1> DEFINE band == IF side = "LONG" THEN a.ema[sym].lower ELSE a.ema[sym].upper
           off == 10000 + (IF side = "LONG" THEN -InitDist ELSE InitDist)
           wanted == 10000 * PercentOf(InitPct, GridLimit(a))
           raw == wanted \div (band * off * CMult[sym])
           qty == Max({Quantized(raw), MinQty})
           size == a.pos[<<sym, side, "GRID">>].size
<1>1. band \in Nat /\ band > 0
  BY DEF Bands
<1>2. /\ off \in Nat /\ off > 0 /\ CMult[sym] \in Nat /\ CMult[sym] > 0 /\ InitDist \in Int
      /\ InitPct \in Nat /\ GridLimit(a) \in Int /\ MinQty \in Nat
  BY LimitTyped, Numbers, Figures
<1>3. size \in Nat
  BY Routed DEF Keys, Buckets
<1>4. FirstLevel(a, sym, side) =
        [done |-> band <= 0, out |-> <<>>, price |-> Worse(side, band, InitDist), qty |-> qty,
         size |-> size]
  BY DEF FirstLevel
<1> HIDE DEF band, off, size
<1>5. raw \in Int
  <2>1. wanted \in Int
    BY <1>2, Percent
  <2>2. band * off \in Nat /\ band * off > 0
    BY <1>1, <1>2
  <2>3. band * off * CMult[sym] \in Nat /\ band * off * CMult[sym] > 0
    BY <1>2, <2>2
  <2> HIDE DEF wanted
  <2> QED BY <2>1, <2>3
<1> HIDE DEF raw
<1>6. qty \in Int
  <2>1. Quantized(raw) \in Int /\ MinQty \in Int
    BY <1>2, <1>5, Quantum
  <2>2. qty \in {Quantized(raw), MinQty}
    BY <2>1, MaxOf
  <2> QED BY <2>1, <2>2
<1> HIDE DEF qty
<1>7. Worse(side, band, InitDist) \in Int /\ (band <= 0) \in BOOLEAN /\ <<>> \in Seq(Grids)
  BY <1>1, <1>2, Stepping, EmptySeq
<1> QED BY <1>3, <1>4, <1>6, <1>7 DEF Ladder

\* What is hung below the band is a sequence of orders.
LEMMA EntriesTyped ==
    ASSUME NEW a, AccountTyped(a), a.ema \in Bands, NEW sym \in Symbols, NEW side \in Sides, NEW mode
    PROVE  GridEntries(a, sym, side, mode) \in Seq(Grids)
<1> DEFINE start == FirstLevel(a, sym, side)
           step == [p \in Ladder \X Nat |-> Level(a, sym, side, mode, p[1])]
           Climbs(f) == f = [n \in 0 .. MaxLevels |->
                               IF n = 0 THEN start ELSE Level(a, sym, side, mode, f[n - 1])]
<1>1. start \in Ladder /\ MaxLevels \in Nat
  BY FirstTyped, Figures
<1>2. step \in [Ladder \X Nat -> Ladder]
  BY LevelTyped
<1>3. \E f : Climbs(f)
  <2> HIDE DEF start
  <2>5. PICK f : Follows(f, Ladder, step, start, MaxLevels)
    <3> HIDE DEF step
    <3> QED BY <1>1, <1>2, Recursion
  <2>1. /\ f \in [0 .. MaxLevels -> Ladder] /\ f[0] = start
        /\ \A n \in 1 .. MaxLevels : f[n] = step[<<f[n - 1], n>>]
    <3> HIDE DEF step
    <3> QED BY <2>5, Zenon DEF Follows
  <2>2. \A n \in 0 .. MaxLevels : n # 0 => step[<<f[n - 1], n>>] = Level(a, sym, side, mode, f[n - 1])
    <3> SUFFICES ASSUME NEW n \in 0 .. MaxLevels, n # 0
                 PROVE  step[<<f[n - 1], n>>] = Level(a, sym, side, mode, f[n - 1])
      OBVIOUS
    <3>1. n - 1 \in 0 .. MaxLevels /\ n \in Nat
      BY <1>1
    <3>2. <<f[n - 1], n>> \in Ladder \X Nat
      BY <2>1, <3>1
    <3> QED BY <3>2
  <2> HIDE DEF step
  <2>3. \A n \in 0 .. MaxLevels : f[n] = IF n = 0 THEN start ELSE Level(a, sym, side, mode, f[n - 1])
    <3>1. \A n \in 0 .. MaxLevels : n = 0 \/ n \in 1 .. MaxLevels
      BY <1>1
    <3> QED BY <2>1, <2>2, <3>1
  <2>4. Climbs(f)
    BY <2>1, <2>3
  <2> QED BY <2>4
<1>4. PICK g : Climbs(g) /\ GridEntries(a, sym, side, mode) = g[MaxLevels].out
  BY <1>3, Zenon DEF GridEntries
<1>5. \A n \in 0 .. MaxLevels : g[n] = IF n = 0 THEN start ELSE Level(a, sym, side, mode, g[n - 1])
  BY <1>4, Zenon
<1> HIDE DEF start, Climbs
<1>6. \A n \in 0 .. MaxLevels : g[n] \in Ladder
  <2>1. g[0] \in Ladder
    BY <1>1, <1>5
  <2>2. ASSUME NEW n \in 1 .. MaxLevels, g[n - 1] \in Ladder PROVE g[n] \in Ladder
    <3>1. n \in 0 .. MaxLevels /\ n # 0
      BY <1>1
    <3>2. g[n] = Level(a, sym, side, mode, g[n - 1])
      BY <1>5, <3>1
    <3> QED BY <2>2, <3>2, LevelTyped
  <2> QED BY <1>1, <2>1, <2>2, Stays
<1>7. g[MaxLevels] \in Ladder
  BY <1>1, <1>6
<1> QED BY <1>4, <1>7 DEF Ladder

\* The states of the walk over the close levels.
Shares == [rest : Int, out : Seq(Grids)]

LEMMA CloseLevelTyped ==
    ASSUME NEW a, AccountTyped(a), NEW sym \in Symbols, NEW side \in Sides, NEW markup \in Int,
           NEW st \in Shares, NEW i
    PROVE  CloseLevel(a, sym, side, markup, st, i) \in Shares
<1> DEFINE p == a.pos[<<sym, side, "GRID">>]
           part == Quantized(PercentOf(CloseQtyPct, p.size))
           share == IF i = CloseLevels THEN Quantized(st.rest) ELSE Min({part, st.rest})
           order == GridOrder(sym, side, TRUE, Better(side, p.entry, markup), share)
<1>1. /\ st.rest \in Int /\ st.out \in Seq(Grids) /\ p.size \in Nat /\ p.entry \in Nat
      /\ CloseQtyPct \in Nat /\ MinQty \in Nat /\ MinQty > 0
  BY Routed, Numbers, Figures DEF Shares, Keys, Buckets
<1>2. CloseLevel(a, sym, side, markup, st, i) =
        IF share < MinQty THEN st ELSE [rest |-> st.rest - share, out |-> Append(st.out, order)]
  BY Zenon DEF CloseLevel
<1> HIDE DEF p
<1>3. share \in Int
  <2>4. CloseQtyPct \in Nat /\ p.size \in Int
    BY <1>1
  <2>1. PercentOf(CloseQtyPct, p.size) \in Int
    BY <2>4, Percent
  <2>2. part \in Int /\ Quantized(st.rest) \in Int
    BY <1>1, <2>1, Quantum
  <2> HIDE DEF part
  <2>3. Min({part, st.rest}) \in {part, st.rest}
    BY <1>1, <2>2, MinOf
  <2> QED BY <1>1, <2>2, <2>3
<1> HIDE DEF share
<1>4. CASE share < MinQty
  BY <1>2, <1>4
<1>5. CASE ~(share < MinQty)
  <2>1. share \in Nat /\ share > 0
    BY <1>1, <1>3, <1>5
  <2>2. Better(side, p.entry, markup) \in Int
    BY <1>1, Stepping
  <2>3. order \in Grids
    BY <2>1, <2>2, Hung
  <2> HIDE DEF order
  <2>4. Append(st.out, order) \in Seq(Grids) /\ st.rest - share \in Int
    BY <1>1, <1>3, <2>3, AppendProperties
  <2> QED BY <1>2, <1>5, <2>4 DEF Shares
<1> QED BY <1>4, <1>5

LEMMA MarkupTyped ==
    ASSUME NEW mode, NEW aggr \in Nat, NEW i \in Nat
    PROVE  Markup(mode, aggr, i) \in Int /\ CloseLevels \in Nat /\ CloseLevels > 0
<1> DEFINE half == IF mode = "GRACEFUL_STOP" THEN 50 ELSE 100
           first == (MarkupStart * aggr * half) \div 10000
           last == (MarkupEnd * aggr * half) \div 10000
           rise == ((last - first) * (i - 1)) \div (CloseLevels - 1)
<1>1. MarkupStart \in Nat /\ MarkupEnd \in Nat /\ half \in Nat /\ CloseQtyPct \in Nat /\ CloseQtyPct > 0
  BY Figures
<1>2. CloseLevels \in Nat /\ CloseLevels > 0
  BY <1>1 DEF CloseLevels
<1>3. Markup(mode, aggr, i) = first + (IF CloseLevels = 1 THEN 0 ELSE rise)
  BY DEF Markup
<1> HIDE DEF half
<1>4. MarkupStart * aggr * half \in Int /\ MarkupEnd * aggr * half \in Int
  BY <1>1
<1>5. first \in Int /\ last \in Int
  BY <1>4
<1> HIDE DEF first, last
<1>6. CloseLevels # 1 => rise \in Int
  <2>1. (last - first) * (i - 1) \in Int
    BY <1>5
  <2>2. CloseLevels # 1 => CloseLevels - 1 \in Nat /\ CloseLevels - 1 > 0
    BY <1>2
  <2> QED BY <2>1, <2>2
<1> HIDE DEF rise
<1> QED BY <1>2, <1>3, <1>5, <1>6

LEMMA ClosesTyped ==
    ASSUME NEW a, AccountTyped(a), NEW sym \in Symbols, NEW side \in Sides, NEW mode, NEW aggr \in Nat
    PROVE  GridCloses(a, sym, side, mode, aggr) \in Seq(Grids)
<1> DEFINE start == [rest |-> a.pos[<<sym, side, "GRID">>].size, out |-> <<>>]
           level(st, n) == CloseLevel(a, sym, side, Markup(mode, aggr, n), st, n)
           step == [p \in Shares \X Nat |-> level(p[1], p[2])]
           Climbs(f) == f = [n \in 0 .. CloseLevels |-> IF n = 0 THEN start ELSE level(f[n - 1], n)]
<1>1. CloseLevels \in Nat
  BY MarkupTyped
<1>2. start \in Shares
  <2>1. a.pos[<<sym, side, "GRID">>].size \in Int
    BY Routed DEF Keys, Buckets
  <2> QED BY <2>1, EmptySeq DEF Shares
<1>3. \A st \in Shares, n \in Nat : level(st, n) \in Shares
  BY MarkupTyped, CloseLevelTyped
<1>4. GridCloses(a, sym, side, mode, aggr) =
        (CHOOSE f : Climbs(f))[CloseLevels].out
  BY Zenon DEF GridCloses
<1> HIDE DEF start, level
<1>5. step \in [Shares \X Nat -> Shares]
  BY <1>3
<1>6. \E f : Climbs(f)
  <2>5. PICK f : Follows(f, Shares, step, start, CloseLevels)
    <3> HIDE DEF step
    <3> QED BY <1>1, <1>2, <1>5, Recursion
  <2>1. /\ f \in [0 .. CloseLevels -> Shares] /\ f[0] = start
        /\ \A n \in 1 .. CloseLevels : f[n] = step[<<f[n - 1], n>>]
    <3> HIDE DEF step
    <3> QED BY <2>5, Zenon DEF Follows
  <2>2. \A n \in 0 .. CloseLevels : n # 0 => step[<<f[n - 1], n>>] = level(f[n - 1], n)
    <3> SUFFICES ASSUME NEW n \in 0 .. CloseLevels, n # 0
                 PROVE  step[<<f[n - 1], n>>] = level(f[n - 1], n)
      OBVIOUS
    <3>1. n - 1 \in 0 .. CloseLevels /\ n \in Nat
      BY <1>1
    <3>2. <<f[n - 1], n>> \in Shares \X Nat
      BY <2>1, <3>1
    <3> QED BY <3>2
  <2> HIDE DEF step
  <2>3. \A n \in 0 .. CloseLevels : f[n] = IF n = 0 THEN start ELSE level(f[n - 1], n)
    <3>1. \A n \in 0 .. CloseLevels : n = 0 \/ n \in 1 .. CloseLevels
      BY <1>1
    <3> QED BY <2>1, <2>2, <3>1
  <2>4. Climbs(f)
    BY <2>1, <2>3
  <2> QED BY <2>4
<1>7. PICK g : Climbs(g) /\ GridCloses(a, sym, side, mode, aggr) = g[CloseLevels].out
  <2> HIDE DEF Climbs
  <2> QED BY <1>4, <1>6, Zenon
<1>8. \A n \in 0 .. CloseLevels : g[n] = IF n = 0 THEN start ELSE level(g[n - 1], n)
  BY <1>7, Zenon
<1> HIDE DEF Climbs
<1>9. \A n \in 0 .. CloseLevels : g[n] \in Shares
  <2>1. g[0] \in Shares
    BY <1>1, <1>2, <1>8
  <2>2. ASSUME NEW n \in 1 .. CloseLevels, g[n - 1] \in Shares PROVE g[n] \in Shares
    <3>1. n \in 0 .. CloseLevels /\ n # 0 /\ n \in Nat
      BY <1>1
    <3>2. g[n] = level(g[n - 1], n)
      BY <1>8, <3>1
    <3> QED BY <1>3, <2>2, <3>1, <3>2
  <2> QED BY <1>1, <2>1, <2>2, Stays
<1>10. g[CloseLevels] \in Shares
  BY <1>1, <1>9
<1> QED BY <1>7, <1>10 DEF Shares

LEMMA Closing ==
    ASSUME NEW sym \in Symbols, NEW side \in Sides, NEW src \in Sources, NEW price \in Int,
           NEW qty \in Nat, qty > 0, NEW now \in BOOLEAN
    PROVE  Close(sym, side, src, price, qty, now) \in Exits
               /\ Close(sym, side, src, price, qty, now) \in Grids
BY DEF Close, Grids, Exits, From, Order, Sources

LEMMA PairSeq == ASSUME NEW S, NEW x \in S PROVE <<x>> \in Seq(S) /\ <<>> \in Seq(S)
OBVIOUS

\* A side of a symbol gets a sequence of orders from the grid.
LEMMA ComputeTyped ==
    ASSUME NEW a, AccountTyped(a), a.ema \in Bands, NEW sym \in Symbols, NEW side \in Sides,
           NEW mode, NEW aggr \in Nat
    PROVE  ComputeOrders(a, sym, side, mode, aggr) \in Seq(Grids)
<1> DEFINE p == a.pos[<<sym, side, "GRID">>]
           closes == IF IsOpen(p) THEN GridCloses(a, sym, side, mode, aggr) ELSE <<>>
           entries == IF mode \in Entering THEN GridEntries(a, sym, side, mode) ELSE <<>>
<1>1. p.size \in Nat /\ a.mark[sym] \in Int
  BY Routed DEF Keys, Buckets
<1>2. PanicClose(a, sym, side) \in Seq(Grids)
  <2>1. CASE IsOpen(p)
    <3>1. p.size > 0
      BY <2>1 DEF IsOpen
    <3>2. Close(sym, side, "RISK", a.mark[sym], p.size, TRUE) \in Grids
      BY <1>1, <3>1, Closing DEF Sources
    <3>3. PanicClose(a, sym, side) = <<Close(sym, side, "RISK", a.mark[sym], p.size, TRUE)>>
      BY <2>1 DEF PanicClose
    <3> QED BY <3>2, <3>3, PairSeq
  <2>2. CASE ~IsOpen(p)
    <3>1. PanicClose(a, sym, side) = <<>>
      BY <2>2 DEF PanicClose
    <3> QED BY <3>1, EmptySeq
  <2> QED BY <2>1, <2>2
<1>3. closes \in Seq(Grids)
  BY ClosesTyped, EmptySeq
<1>4. entries \in Seq(Grids)
  BY EntriesTyped, EmptySeq
<1>5. ComputeOrders(a, sym, side, mode, aggr) =
        IF mode = "PANIC" THEN PanicClose(a, sym, side) ELSE closes \o entries
  BY DEF ComputeOrders
<1> HIDE DEF closes, entries
<1>6. closes \o entries \in Seq(Grids)
  BY <1>3, <1>4, ConcatProperties
<1> QED BY <1>2, <1>5, <1>6

LEMMA TrailingTyped ==
    ASSUME NEW a, AccountTyped(a), NEW sym \in Symbols, NEW side \in Sides, NEW mode, NEW t
    PROVE  TrailingEntry(a, sym, side, mode, t) \in Seq(Grids)
<1> DEFINE p == a.pos[<<sym, side, "GRID">>]
           gap == TrailAt - TrailBack
           level == (p.entry * (10000 + (IF side = "LONG" THEN -gap ELSE gap))) \div 10000
           price == IF side = "LONG" THEN Min({a.mark[sym], level}) ELSE Max({a.mark[sym], level})
           wanted == Quantized(Max({PercentOf(TrailDouble, p.size), MinQty}))
           room == GridLimit(a) - p.size * p.entry * CMult[sym]
           fits == wanted * price * CMult[sym] <= room
           cut == Quantized(room \div (price * CMult[sym]))
           qty == IF fits THEN wanted ELSE cut
           order == GridOrder(sym, side, FALSE, price, qty)
           turned == /\ TrailAt > 0 /\ TrailBack > 0
                     /\ IsOpen(p) /\ t.on /\ mode \in Entering /\ a.balance > 0
                     /\ 1000 * CostAt(a, <<sym, side, "GRID">>) < 999 * GridLimit(a)
                     /\ Turned(t, side, p.entry)
           sizes == wanted > 0 /\ room > 0 /\ (fits \/ qty >= MinQty) /\ qty * price * CMult[sym] >= MinCost
<1>1. /\ p.size \in Nat /\ p.entry \in Nat /\ a.mark[sym] \in Int
      /\ CMult[sym] \in Nat /\ CMult[sym] > 0 /\ MinQty \in Nat /\ MinQty > 0
      /\ TrailAt \in Int /\ TrailBack \in Int /\ GridLimit(a) \in Int
  <2>1. p.size \in Nat /\ p.entry \in Nat /\ a.mark[sym] \in Int
    BY Routed DEF Keys, Buckets
  <2> QED BY <2>1, LimitTyped, Numbers, Figures
<1>2. TrailingEntry(a, sym, side, mode, t) = IF turned /\ sizes THEN <<order>> ELSE <<>>
  BY DEF TrailingEntry
<1> HIDE DEF turned
<1>3. level \in Int
  <2>1. p.entry * (10000 + (IF side = "LONG" THEN -gap ELSE gap)) \in Int
    BY <1>1
  <2> QED BY <2>1
<1>4. wanted \in Int
  <2>1. TrailDouble \in Nat /\ p.size \in Int /\ MinQty \in Int
    BY <1>1, Figures
  <2>2. PercentOf(TrailDouble, p.size) \in Int
    BY <2>1, Percent
  <2>3. Max({PercentOf(TrailDouble, p.size), MinQty}) \in {PercentOf(TrailDouble, p.size), MinQty}
    BY <2>1, <2>2, MaxOf
  <2>4. Max({PercentOf(TrailDouble, p.size), MinQty}) \in Int
    BY <2>1, <2>2, <2>3
  <2> QED BY <2>4, Quantum
<1>5. room \in Int
  BY <1>1
<1> HIDE DEF level, wanted, room
<1>6. price \in Int
  <2>1. Min({a.mark[sym], level}) \in {a.mark[sym], level}
    BY <1>1, <1>3, MinOf
  <2>2. Max({a.mark[sym], level}) \in {a.mark[sym], level}
    BY <1>1, <1>3, MaxOf
  <2> QED BY <1>1, <1>3, <2>1, <2>2
<1> HIDE DEF price, p
<1>7. ASSUME wanted > 0, room > 0, fits \/ qty >= MinQty PROVE qty \in Nat
  <2>1. CASE fits
    BY <1>4, <1>7, <2>1
  <2>2. CASE ~fits
    <3>1. price * CMult[sym] > 0
      <4>1. SUFFICES ASSUME price <= 0 PROVE FALSE
        BY <1>1, <1>6
      <4>2. wanted * price <= 0 /\ wanted * price \in Int
        BY <1>4, <1>6, <1>7, <4>1
      <4>3. wanted * price * CMult[sym] <= 0 /\ wanted * price * CMult[sym] \in Int
        BY <1>1, <4>2
      <4>4. ~(wanted * price * CMult[sym] <= room)
        BY <2>2
      <4> HIDE DEF fits
      <4> QED BY <1>5, <1>7, <4>3, <4>4
    <3>2. price * CMult[sym] \in Int
      BY <1>1, <1>6
    <3>3. room \div (price * CMult[sym]) \in Int
      BY <1>5, <3>1, <3>2
    <3>4. cut \in Int
      BY <3>3, Quantum
    <3> HIDE DEF cut, fits
    <3> QED BY <1>1, <1>7, <2>2, <3>4
  <2> QED BY <2>1, <2>2
<1> HIDE DEF qty, fits
<1>8. ASSUME qty \in Nat PROVE order \in Grids
  BY <1>6, <1>8, Hung
<1>9. ASSUME sizes PROVE <<order>> \in Seq(Grids)
  <2>1. wanted > 0 /\ room > 0 /\ (fits \/ qty >= MinQty)
    BY <1>9
  <2> HIDE DEF order, sizes
  <2> QED BY <1>7, <1>8, <2>1, PairSeq
<1> HIDE DEF order, sizes
<1> QED BY <1>2, <1>9, EmptySeq

LEMMA ExitsTyped ==
    ASSUME NEW a, AccountTyped(a), NEW sym \in Symbols, NEW side \in Sides,
           NEW c, c.close \in Int
    PROVE  TrendExits(a, sym, side, c) \in Seq(Exits)
<1> DEFINE p == a.pos[<<sym, side, "TREND">>]
           order == Close(sym, side, "TREND", c.close, p.size, TRUE)
<1>1. p.size \in Nat
  BY Routed DEF Keys, Buckets
<1>2. \/ TrendExits(a, sym, side, c) = <<>>
      \/ IsOpen(p) /\ TrendExits(a, sym, side, c) = <<order>>
  BY DEF TrendExits
<1>3. ASSUME IsOpen(p) PROVE order \in Exits
  <2>1. p.size > 0
    BY <1>3 DEF IsOpen
  <2> QED BY <1>1, <2>1, Closing DEF Sources, Exits
<1>4. IsOpen(p) => <<order>> \in Seq(Exits)
  <2> HIDE DEF order
  <2> QED BY <1>3
<1> HIDE DEF order, p
<1> QED BY <1>2, <1>4, EmptySeq

LEMMA KellyTyped ==
    ASSUME NEW s \in Seq(Int)
    PROVE  KellyPct(s) \in Int
<1> DEFINE n == Len(s)
           sum == Total(s)
           off(i) == n * s[i] - sum
           squares == [i \in DOMAIN s |-> off(i) * off(i)]
           spread == Total(squares)
           share == (sum * n * n * 1000 * KellyPart) \div spread
<1>1. n \in Nat /\ DOMAIN s = 1 .. n /\ \A i \in 1 .. n : s[i] \in Int
  BY LenProperties, ElementOfSeq
<1>2. sum \in Int
  BY TotalType
<1> HIDE DEF n, sum
<1>3. squares \in Seq(Nat)
  <2>1. ASSUME NEW i \in 1 .. n PROVE off(i) * off(i) \in Nat
    <3>1. off(i) \in Int
      BY <1>1, <1>2
    <3> HIDE DEF off
    <3> QED BY <3>1
  <2> HIDE DEF off
  <2> QED BY <1>1, <2>1
<1> HIDE DEF squares
<1>4. spread \in Nat
  BY <1>3, TotalType
<1> HIDE DEF spread
<1>5. spread # 0 => share \in Int
  <2>1. sum * n * n * 1000 * KellyPart \in Int
    BY <1>1, <1>2, Figures
  <2> QED BY <1>4, <2>1
<1> HIDE DEF share
<1>6. spread # 0 => Min({100, share}) \in Int
  <2>1. spread # 0 => Min({100, share}) \in {100, share}
    <3>1. 100 \in Int
      OBVIOUS
    <3> QED BY <1>5, <3>1, MinTwo
  <2> QED BY <1>5, <2>1
<1>7. KellyPct(s) = IF n < KellyMin THEN 100
                    ELSE IF sum <= 0 THEN 0
                    ELSE IF spread = 0 THEN 100 ELSE Min({100, share})
  BY DEF KellyPct, n, sum, spread, squares, off, share
<1> QED BY <1>6, <1>7

LEMMA OverlayFacts ==
    ASSUME NEW v \in Views, NEW rate
    PROVE  LET o == Overlay(v, rate) IN o.side # "none" => o.side \in Sides /\ o.scale \in Int
<1> DEFINE bySignal == {d \in Sides : /\ v.regime = Strong(d) /\ ScaleOf(v.conviction) > 0
                                      /\ ~Vetoed(d, rate) /\ d \notin v.exit}
           byStrategy == {d \in Sides : Promotes(v, d) /\ ~Vetoed(d, rate)}
           first == CHOOSE d \in bySignal : TRUE
<1>1. ScaleOf(v.conviction) \in Int
  <2>1. v.conviction \in Int /\ OverlaySizing \in Nat
    BY Figures DEF Views
  <2>2. PercentOf(OverlaySizing, v.conviction) \in Int
    BY <2>1, Percent
  <2>3. Min({100, PercentOf(OverlaySizing, v.conviction)}) \in {100, PercentOf(OverlaySizing, v.conviction)}
    <3>1. 100 \in Int
      OBVIOUS
    <3> QED BY <2>2, <3>1, MinTwo
  <2> QED BY <2>2, <2>3 DEF ScaleOf
<1>2. \/ Overlay(v, rate) = [side |-> first, scale |-> ScaleOf(v.conviction)] /\ bySignal # {}
      \/ Overlay(v, rate) = [side |-> IF "LONG" \in byStrategy THEN "LONG" ELSE "SHORT", scale |-> 50]
      \/ Overlay(v, rate) = NoOverlay
  BY DEF Overlay
<1>3. bySignal # {} => first \in Sides
  <2>1. bySignal \subseteq Sides
    OBVIOUS
  <2> HIDE DEF bySignal
  <2> QED BY <2>1
<1> HIDE DEF bySignal, byStrategy, first
<1>4. "LONG" \in Sides /\ "SHORT" \in Sides
  BY DEF Sides
<1> QED BY <1>1, <1>2, <1>3, <1>4 DEF NoOverlay

LEMMA OverlayTyped ==
    ASSUME NEW a, AccountTyped(a), NEW sym \in Symbols, NEW v \in Views, NEW rate, NEW s \in Seq(Int)
    PROVE  /\ OverlayEntry(a, sym, v, rate, s) \in Seq(From({"TREND"}))
           /\ KellyPct(s) = 0 => OverlayEntry(a, sym, v, rate, s) = <<>>
<1> DEFINE o == Overlay(v, rate)
           price == a.mark[sym]
           budget == PercentOf(Wel["TREND"], a.balance)
           scale == PercentOf(o.scale, KellyPct(s))
           lots == PercentOf(scale, PercentOf(EntryPct, budget)) \div (price * CMult[sym])
           qty == Max({lots, MinQty})
           cost == qty * price * CMult[sym]
           order == [sym |-> sym, side |-> o.side, src |-> "TREND", reduce |-> FALSE,
                     market |-> TRUE, price |-> price, qty |-> qty]
           stays == \/ o.side = "none" \/ scale <= 0
                    \/ IsOpen(a.pos[<<sym, o.side, "TREND">>])
                    \/ cost > budget \/ cost < MinCost
<1>1. OverlayEntry(a, sym, v, rate, s) = IF stays THEN <<>> ELSE <<order>>
  BY DEF OverlayEntry
<1>2. o.side # "none" => o.side \in Sides /\ o.scale \in Int
  BY OverlayFacts
<1>3. /\ price \in Int /\ price > 0 /\ CMult[sym] \in Int /\ CMult[sym] > 0 /\ budget \in Int
      /\ MinQty \in Int /\ MinQty > 0 /\ KellyPct(s) \in Int /\ EntryPct \in Nat
  <2>1. price \in Int /\ price > 0
    BY Routed
  <2>2. budget \in Int
    BY LimitTyped DEF Buckets
  <2> HIDE DEF price, budget
  <2> QED BY <2>1, <2>2, Numbers, KellyTyped, Figures
<1>4. ASSUME ~stays PROVE o.side \in Sides /\ o.scale \in Int
  BY <1>2, <1>4
<1>7. ASSUME KellyPct(s) = 0, o.side # "none" PROVE scale <= 0
  <2>1. o.scale * 0 = 0
    BY <1>2, <1>7
  <2> QED BY <1>7, <2>1 DEF PercentOf
<1>8. KellyPct(s) = 0 => stays
  BY <1>7
<1> HIDE DEF budget, o, price, stays
<1>5. ASSUME o.scale \in Int PROVE qty \in Nat /\ qty > 0
  <2>1. scale \in Int
    <3>1. o.scale * KellyPct(s) \in Int
      BY <1>3, <1>5
    <3> QED BY <3>1 DEF PercentOf
  <2> HIDE DEF scale
  <2>2. PercentOf(EntryPct, budget) \in Int
    BY <1>3, Percent
  <2>3. PercentOf(scale, PercentOf(EntryPct, budget)) \in Int
    <3>1. scale * PercentOf(EntryPct, budget) \in Int
      BY <2>1, <2>2
    <3> QED BY <3>1 DEF PercentOf
  <2>4. price * CMult[sym] > 0 /\ price * CMult[sym] \in Int
    BY <1>3
  <2>5. lots \in Int
    BY <2>3, <2>4
  <2> HIDE DEF lots
  <2>6. Max({lots, MinQty}) \in {lots, MinQty} /\ Max({lots, MinQty}) >= MinQty
    BY <1>3, <2>5, MaxOf
  <2> QED BY <1>3, <2>5, <2>6
<1> HIDE DEF qty
<1>6. ASSUME ~stays PROVE order \in From({"TREND"})
  BY <1>3, <1>4, <1>5, <1>6 DEF From, Order, Sources
<1> HIDE DEF order
<1>9. ~stays => <<order>> \in Seq(From({"TREND"}))
  BY <1>6, PairSeq
<1>10. <<>> \in Seq(From({"TREND"}))
  BY EmptySeq
<1> QED BY <1>1, <1>8, <1>9, <1>10

LEMMA AggrTyped == \A v : CloseAggr(v) \in Nat
BY Figures DEF CloseAggr

-----------------------------------------------------------------------------
(* The strategy adjusts what is proposed *)

LEMMA Repriced ==
    ASSUME NEW N, NEW o \in From(N), NEW p \in Int
    PROVE  [o EXCEPT !.price = p] \in From(N)
<1>1. o \in Order /\ (o.reduce \/ o.src \in N)
  BY DEF From
<1>2. /\ [o EXCEPT !.price = p] \in Order
      /\ [o EXCEPT !.price = p].reduce = o.reduce /\ [o EXCEPT !.price = p].src = o.src
  BY <1>1 DEF Order
<1> QED BY <1>1, <1>2 DEF From

LEMMA Resized ==
    ASSUME NEW N, NEW o \in From(N), NEW n \in Nat
    PROVE  [o EXCEPT !.qty = n] \in From(N)
<1>1. o \in Order /\ (o.reduce \/ o.src \in N)
  BY DEF From
<1>2. /\ [o EXCEPT !.qty = n] \in Order
      /\ [o EXCEPT !.qty = n].reduce = o.reduce /\ [o EXCEPT !.qty = n].src = o.src
  BY <1>1 DEF Order
<1> QED BY <1>1, <1>2 DEF From

\* Whatever stake and price a strategy answers, an entry is an entry.
LEMMA EntriesFiltered ==
    ASSUME NEW h \in Hooks, NEW N, NEW s \in Seq(From(N)), NEW last \in Nat
    PROVE  FilterEntries(h, s, last) \in Seq(From(N))
<1> DEFINE entered(o) ==
              IF o.reduce THEN o
              ELSE IF o.market THEN [o EXCEPT !.qty = StakedQty(h, o, last)]
              ELSE [o EXCEPT !.price = @ + h.shift, !.qty = StakedQty(h, o, o.price + h.shift)]
<1>1. \A o \in Order, final \in Int : StakedQty(h, o, final) \in Nat
  <2> SUFFICES ASSUME NEW o \in Order, NEW final \in Int PROVE StakedQty(h, o, final) \in Nat
    OBVIOUS
  <2> DEFINE unit == final * CMult[o.sym]
             worth == PercentOf(h.stake, o.qty * unit)
  <2>1. h.stake \in Nat /\ o.qty \in Nat /\ CMult[o.sym] \in Nat
    BY Numbers DEF Hooks, Order
  <2>2. unit \in Int
    BY <2>1
  <2> HIDE DEF unit
  <2>3. unit > 0 => h.stake * (o.qty * unit) \in Nat
    <3>1. unit > 0 => o.qty * unit \in Nat
      BY <2>1, <2>2
    <3> QED BY <2>1, <3>1
  <2>4. unit > 0 => worth \in Nat
    BY <2>3 DEF PercentOf
  <2> HIDE DEF worth
  <2>5. unit > 0 => worth \div unit \in Nat
    BY <2>2, <2>4
  <2> QED BY <2>1, <2>5 DEF StakedQty, unit, worth
<1>2. \A o \in Order : o.price + h.shift \in Int
  BY DEF Hooks, Order
<1>3. ASSUME NEW o \in From(N) PROVE entered(o) \in From(N)
  <2>0. o \in Order
    BY DEF From
  <2>1. CASE o.reduce
    BY <2>1
  <2>2. CASE ~o.reduce /\ o.market
    <3>1. StakedQty(h, o, last) \in Nat
      BY <1>1, <2>0
    <3>2. [o EXCEPT !.qty = StakedQty(h, o, last)] \in From(N)
      BY <3>1, Resized
    <3> QED BY <2>2, <3>2
  <2>3. CASE ~o.reduce /\ ~o.market
    <3> DEFINE p == o.price + h.shift
               n == StakedQty(h, o, p)
    <3>1. p \in Int /\ n \in Nat
      BY <1>1, <1>2, <2>0
    <3> HIDE DEF p, n
    <3>2. [o EXCEPT !.price = p, !.qty = n] \in From(N)
      <4> DEFINE q == [o EXCEPT !.price = p]
      <4>1. q \in From(N) /\ [o EXCEPT !.price = p, !.qty = n] = [q EXCEPT !.qty = n]
        BY <3>1, Repriced
      <4> HIDE DEF q
      <4> QED BY <3>1, <4>1, Resized
    <3>3. entered(o) = [o EXCEPT !.price = p, !.qty = n]
      BY <2>3 DEF p, n
    <3> QED BY <3>2, <3>3
  <2> QED BY <2>1, <2>2, <2>3
<1>4. FilterEntries(h, s, last) = [i \in DOMAIN s |-> entered(s[i])]
  BY Zenon DEF FilterEntries
<1> HIDE DEF entered
<1>5. DOMAIN s = 1 .. Len(s) /\ Len(s) \in Nat /\ \A i \in 1 .. Len(s) : s[i] \in From(N)
  BY LenProperties, ElementOfSeq
<1> QED BY <1>3, <1>4, <1>5

LEMMA ExitsFiltered ==
    ASSUME NEW h \in Hooks, NEW N, NEW s \in Seq(From(N))
    PROVE  FilterExits(h, s) \in Seq(From(N))
<1>1. DOMAIN s = 1 .. Len(s) /\ Len(s) \in Nat /\ \A i \in 1 .. Len(s) : s[i] \in From(N)
  BY LenProperties, ElementOfSeq
<1>2. ASSUME NEW o \in From(N)
      PROVE  (IF o.reduce /\ ~o.market THEN [o EXCEPT !.price = @ + h.shift] ELSE o) \in From(N)
  <2>1. o.price + h.shift \in Int
    BY DEF Hooks, From, Order
  <2>2. [o EXCEPT !.price = o.price + h.shift] \in From(N)
    BY <2>1, Repriced
  <2> QED BY <2>2
<1> QED BY <1>1, <1>2 DEF FilterExits

LEMMA BucketTyped ==
    ASSUME NEW h \in Hooks, NEW a, AccountTyped(a), NEW k \in Keys, NEW N,
           IsOpen(a.pos[k]) => k[3] \in N
    PROVE  BucketOrders(h, a, k) \in Seq(From(N))
<1>1. /\ k[1] \in Symbols /\ k[2] \in Sides /\ k[3] \in Sources /\ a.pos[k].size \in Nat
      /\ a.mark[k[1]] \in Nat /\ a.mark[k[1]] > 0
  BY Routed DEF Buckets, Sources
<1>2. CustomExit(h, a, k) \in Seq(From(N))
  <2>1. \/ CustomExit(h, a, k) = <<>>
        \/ /\ IsOpen(a.pos[k])
           /\ \E p \in {a.mark[k[1]], StopPrice(h, a, k)} : CustomExit(h, a, k) = <<CloseOrder(a, k, p)>>
    BY DEF CustomExit
  <2>2. StopPrice(h, a, k) \in Int
    <3>1. h.stop \in Nat /\ a.pos[k].entry \in Nat
      BY Routed DEF Hooks
    <3>2. (100 - h.stop) * a.pos[k].entry \in Int /\ (100 + h.stop) * a.pos[k].entry \in Int
      BY <3>1
    <3> QED BY <3>2 DEF StopPrice, PercentOf
  <2>3. ASSUME IsOpen(a.pos[k]), NEW p \in Int PROVE <<CloseOrder(a, k, p)>> \in Seq(From(N))
    <3>1. a.pos[k].size > 0
      BY <2>3 DEF IsOpen
    <3> DEFINE src == IF k[3] = "TREND" THEN "TREND" ELSE "RISK"
               q == Close(k[1], k[2], src, p, a.pos[k].size, TRUE)
    <3>2. src \in Sources
      BY DEF Sources
    <3>3. CloseOrder(a, k, p) = q
      BY DEF CloseOrder
    <3> HIDE DEF src
    <3>4. q \in Exits
      BY <1>1, <3>1, <3>2, Closing
    <3> HIDE DEF q
    <3>5. q \in From(N)
      BY <3>4 DEF From, Exits
    <3>6. <<q>> \in Seq(From(N))
      BY <3>5
    <3> QED BY <3>3, <3>6
  <2>4. a.mark[k[1]] \in Int
    BY <1>1
  <2> QED BY <2>1, <2>2, <2>3, <2>4, EmptySeq
<1>3. PositionAdjustment(h, a, k) \in Seq(From(N))
  <2> DEFINE trims == (k[2] = "LONG" /\ h.adjust < 0) \/ (k[2] = "SHORT" /\ h.adjust > 0)
             lots == IF h.adjust < 0 THEN -h.adjust ELSE h.adjust
             order == [sym |-> k[1], side |-> k[2], src |-> k[3], reduce |-> trims, market |-> FALSE,
                       price |-> a.mark[k[1]], qty |-> lots]
  <2>1. PositionAdjustment(h, a, k) = IF ~IsOpen(a.pos[k]) \/ h.adjust = 0 THEN <<>> ELSE <<order>>
    BY DEF PositionAdjustment
  <2>2. h.adjust \in Int
    BY DEF Hooks
  <2>3. h.adjust # 0 => lots \in Nat /\ lots > 0
    BY <2>2
  <2>4. trims \in BOOLEAN
    OBVIOUS
  <2> HIDE DEF trims, lots
  <2>5. h.adjust # 0 /\ IsOpen(a.pos[k]) => order \in From(N)
    BY <1>1, <2>3, <2>4 DEF From, Order
  <2> HIDE DEF order
  <2>6. h.adjust # 0 /\ IsOpen(a.pos[k]) => <<order>> \in Seq(From(N))
    BY <2>5
  <2> QED BY <2>1, <2>6, EmptySeq
<1>4. FilterEntries(h, PositionAdjustment(h, a, k), a.mark[k[1]]) \in Seq(From(N))
  BY <1>1, <1>3, EntriesFiltered
<1>5. CustomExit(h, a, k) \o FilterEntries(h, PositionAdjustment(h, a, k), a.mark[k[1]]) \in Seq(From(N))
  BY <1>2, <1>4, ConcatProperties
<1> QED BY <1>5, ExitsFiltered DEF BucketOrders

-----------------------------------------------------------------------------
(* The filter as one function *)

\* A kind of orders that trimming keeps, and that all exits are of.
Trims(T) ==
    /\ T \subseteq Order /\ Exits \subseteq T
    /\ \A o \in T, n \in Nat : [o EXCEPT !.qty = n] \in T

LEMMA KindsTrim == Trims(Priced) /\ \A N : Trims(From(N))
<1>1. \A o \in Order, n \in Nat : /\ [o EXCEPT !.qty = n] \in Order
                                 /\ [o EXCEPT !.qty = n].reduce = o.reduce
                                 /\ [o EXCEPT !.qty = n].price = o.price
  BY DEF Order
<1>2. Trims(Priced)
  BY <1>1, OrderSets DEF Trims, Priced
<1>3. ASSUME NEW N PROVE Trims(From(N))
  BY Resized DEF Trims, From, Exits
<1> QED BY <1>2, <1>3

LEMMA GatedTyped ==
    ASSUME NEW a, AccountTyped(a), NEW T, Trims(T), NEW o \in T, NEW spare \in Int
    PROVE  LET g == Gated(a, o, spare)
           IN  g.left \in Int /\ (g.pass = <<>> \/ \E q \in T : g.pass = <<q>>)
<1>0. o \in Order
  BY DEF Trims
<1> DEFINE g == Gated(a, o, spare)
<1>1. /\ g.left \in Int
      /\ \/ g.pass = <<>> /\ (Loses(a, o) => LossPct > 0 /\ a.balance > 0)
         \/ \E q \in Order : /\ g.pass = <<q>> /\ q.reduce = o.reduce /\ q.src = o.src
                             /\ q = o \/ (Loses(a, o) /\ Loses(a, q))
  BY <1>0, GateFacts, Zenon
<1> HIDE DEF g
<1>2. \A q \in Order : q = o \/ Loses(a, q) => q \in T
  BY DEF Trims, Exits, Loses
<1>3. g.left \in Int /\ (g.pass = <<>> \/ \E q \in T : g.pass = <<q>>)
  BY <1>1, <1>2
<1> QED BY <1>3 DEF g

LEMMA PassedTyped ==
    ASSUME NEW a, AccountTyped(a), NEW T, Trims(T), NEW s \in Seq(T)
    PROVE  Passed(a, s) \in Seq(T)
<1> DEFINE S == [out : Seq(T), left : Int]
           start == [out |-> <<>>, left |-> LossBudget(a)]
           m == Len(s)
           step == [p \in S \X Nat |-> IF p[2] \in 1 .. m THEN PassNext(a, p[1], s[p[2]]) ELSE p[1]]
           Goes(f) == f = [n \in 0 .. Len(s) |-> IF n = 0 THEN start ELSE PassNext(a, f[n - 1], s[n])]
<1>1. m \in Nat /\ start \in S
  <2>1. LossBudget(a) \in Int /\ <<>> \in Seq(T)
    BY CapsTyped, EmptySeq
  <2> QED BY <2>1, LenProperties
<1>2. ASSUME NEW st \in S, NEW n \in 1 .. m PROVE PassNext(a, st, s[n]) \in S
  <2> DEFINE g == Gated(a, s[n], st.left)
  <2>1. s[n] \in T
    BY ElementOfSeq
  <2>2. g.left \in Int /\ (g.pass = <<>> \/ \E q \in T : g.pass = <<q>>)
    BY <2>1, GatedTyped
  <2>3. PassNext(a, st, s[n]) = [out |-> st.out \o g.pass, left |-> g.left]
    BY DEF PassNext
  <2> HIDE DEF g
  <2>4. g.pass \in Seq(T)
    <3>1. \A q \in T : <<q>> \in Seq(T)
      BY PairSeq
    <3> QED BY <2>2, <3>1, EmptySeq
  <2>5. st.out \o g.pass \in Seq(T)
    BY <2>4, ConcatProperties
  <2> QED BY <2>2, <2>3, <2>5
<1>3. Passed(a, s) = (CHOOSE f : Goes(f))[Len(s)].out
  BY Zenon DEF Passed
<1> HIDE DEF S, start, m
<1>4. step \in [S \X Nat -> S]
  BY <1>2
<1>5. \E f : Goes(f)
  <2>1. PICK f : Follows(f, S, step, start, m)
    <3> HIDE DEF step
    <3> QED BY <1>1, <1>4, Recursion
  <2>2. f \in [0 .. m -> S] /\ f[0] = start /\ \A n \in 1 .. m : f[n] = step[<<f[n - 1], n>>]
    <3> HIDE DEF step
    <3> QED BY <2>1, Zenon DEF Follows
  <2>3. ASSUME NEW n \in 1 .. m PROVE step[<<f[n - 1], n>>] = PassNext(a, f[n - 1], s[n])
    <3>1. n - 1 \in 0 .. m /\ n \in Nat
      BY <1>1
    <3>2. <<f[n - 1], n>> \in S \X Nat
      BY <2>2, <3>1
    <3> QED BY <3>2
  <2> HIDE DEF step
  <2>4. \A n \in 0 .. m : f[n] = IF n = 0 THEN start ELSE PassNext(a, f[n - 1], s[n])
    <3>1. \A n \in 0 .. m : n = 0 \/ n \in 1 .. m
      BY <1>1
    <3> QED BY <2>2, <2>3, <3>1
  <2>5. Goes(f)
    BY <1>1, <2>2, <2>4 DEF m
  <2> QED BY <2>5
<1>6. PICK g : Goes(g) /\ Passed(a, s) = g[m].out
  <2> HIDE DEF Goes
  <2> QED BY <1>3, <1>5, Zenon DEF m
<1>7. \A n \in 0 .. m : g[n] = IF n = 0 THEN start ELSE PassNext(a, g[n - 1], s[n])
  BY <1>6, Zenon DEF m
<1> HIDE DEF Goes
<1>8. \A n \in 0 .. m : g[n] \in S
  <2>1. g[0] \in S
    BY <1>1, <1>7
  <2>2. ASSUME NEW n \in 1 .. m, g[n - 1] \in S PROVE g[n] \in S
    <3>1. n \in 0 .. m /\ n # 0
      BY <1>1
    <3>2. g[n] = PassNext(a, g[n - 1], s[n])
      BY <1>7, <3>1
    <3> QED BY <1>2, <2>2, <3>2
  <2> QED BY <1>1, <2>1, <2>2, Stays
<1>9. g[m] \in S
  BY <1>1, <1>8
<1> QED BY <1>6, <1>9 DEF S

\* A breaker drops or halves entries and nothing else.
LEMMA BreakersTyped ==
    ASSUME NEW a, NEW T, Trims(T), NEW s \in Seq(T), NEW t, NEW c
    PROVE  AfterBreakers(s, a, t, c) \in Seq(T)
<1> DEFINE exitsOnly == c \/ t = "ORANGE"
           halved(o) == IF o.reduce \/ t # "YELLOW" THEN o ELSE [o EXCEPT !.qty = @ \div 2]
           runs(o) == o.reduce \/ (~exitsOnly /\ Bucket(o.src) \notin Paused(a, t))
           S == {o \in Range(s) : runs(o)}
           kept == Kept(s, S)
<1>1. AfterBreakers(s, a, t, c) = [i \in DOMAIN kept |-> halved(kept[i])]
  BY Zenon DEF AfterBreakers
<1>2. kept \in Seq(T)
  <2> HIDE DEF S
  <2> QED BY KeptFacts
<1> HIDE DEF kept
<1>3. Len(kept) \in Nat /\ DOMAIN kept = 1 .. Len(kept) /\ \A i \in 1 .. Len(kept) : kept[i] \in T
  BY <1>2, LenProperties, ElementOfSeq
<1>4. ASSUME NEW o \in T PROVE halved(o) \in T
  <2>1. o.qty \div 2 \in Nat
    BY DEF Trims, Order
  <2>2. [o EXCEPT !.qty = o.qty \div 2] \in T
    BY <2>1 DEF Trims
  <2> QED BY <2>2
<1> HIDE DEF halved
<1> QED BY <1>1, <1>3, <1>4

\* What the walk through the caps keeps to, step by step, it ends in.
LEMMA AdmittedIn ==
    ASSUME NEW a, NEW T, NEW s \in Seq(T), NEW S, [out |-> <<>>, used |-> NothingUsed] \in S,
           \A st \in S, o \in T : AdmitNext(a, st, o) \in S
    PROVE  \E st \in S : Admitted(a, s) = st.out
<1> DEFINE start == [out |-> <<>>, used |-> NothingUsed]
           m == Len(s)
           step == [p \in S \X Nat |-> IF p[2] \in 1 .. m THEN AdmitNext(a, p[1], s[p[2]]) ELSE p[1]]
           Goes(f) == f = [n \in 0 .. Len(s) |-> IF n = 0 THEN start ELSE AdmitNext(a, f[n - 1], s[n])]
<1>1. m \in Nat /\ start \in S
  BY LenProperties
<1>2. ASSUME NEW st \in S, NEW n \in 1 .. m PROVE AdmitNext(a, st, s[n]) \in S
  <2>1. s[n] \in T
    BY ElementOfSeq
  <2> QED BY <2>1
<1>3. Admitted(a, s) = (CHOOSE f : Goes(f))[Len(s)].out
  BY Zenon DEF Admitted
<1> HIDE DEF start, m
<1>4. step \in [S \X Nat -> S]
  BY <1>2
<1>5. \E f : Goes(f)
  <2>1. PICK f : Follows(f, S, step, start, m)
    <3> HIDE DEF step
    <3> QED BY <1>1, <1>4, Recursion
  <2>2. f \in [0 .. m -> S] /\ f[0] = start /\ \A n \in 1 .. m : f[n] = step[<<f[n - 1], n>>]
    <3> HIDE DEF step
    <3> QED BY <2>1, Zenon DEF Follows
  <2>3. ASSUME NEW n \in 1 .. m PROVE step[<<f[n - 1], n>>] = AdmitNext(a, f[n - 1], s[n])
    <3>1. n - 1 \in 0 .. m /\ n \in Nat
      BY <1>1
    <3>2. <<f[n - 1], n>> \in S \X Nat
      BY <2>2, <3>1
    <3> QED BY <3>2
  <2> HIDE DEF step
  <2>4. \A n \in 0 .. m : f[n] = IF n = 0 THEN start ELSE AdmitNext(a, f[n - 1], s[n])
    <3>1. \A n \in 0 .. m : n = 0 \/ n \in 1 .. m
      BY <1>1
    <3> QED BY <2>2, <2>3, <3>1
  <2>5. Goes(f)
    BY <1>1, <2>2, <2>4 DEF m
  <2> QED BY <2>5
<1>6. PICK w : Goes(w) /\ Admitted(a, s) = w[m].out
  <2> HIDE DEF Goes
  <2> QED BY <1>3, <1>5, Zenon DEF m
<1>7. \A n \in 0 .. m : w[n] = IF n = 0 THEN start ELSE AdmitNext(a, w[n - 1], s[n])
  BY <1>6, Zenon DEF m
<1> HIDE DEF Goes
<1>8. \A n \in 0 .. m : w[n] \in S
  <2>1. w[0] \in S
    BY <1>1, <1>7
  <2>2. ASSUME NEW n \in 1 .. m, w[n - 1] \in S PROVE w[n] \in S
    <3>1. n \in 0 .. m /\ n # 0
      BY <1>1
    <3>2. w[n] = AdmitNext(a, w[n - 1], s[n])
      BY <1>7, <3>1
    <3> QED BY <1>2, <2>2, <3>2
  <2> QED BY <1>1, <2>1, <2>2, Stays
<1>9. w[m] \in S
  BY <1>1, <1>8
<1> QED BY <1>6, <1>9

\* What passes is of the kind of what is put in.
LEMMA AdmittedTyped ==
    ASSUME NEW a, AccountTyped(a), NEW T, Trims(T), NEW s \in Seq(T)
    PROVE  Admitted(a, s) \in Seq(T)
<1> DEFINE S == [out : Seq(T), used : Tally]
<1>1. [out |-> <<>>, used |-> NothingUsed] \in S
  <2>1. NothingUsed \in Tally
    BY DEF NothingUsed, Tally
  <2> QED BY <2>1, EmptySeq
<1>2. ASSUME NEW st \in S, NEW o \in T PROVE AdmitNext(a, st, o) \in S
  <2> DEFINE c == Capped(a, o, st.used)
  <2>0. st.used \in Tally /\ st.out \in Seq(T)
    OBVIOUS
  <2>1. o \in Order
    BY DEF Trims
  <2>2. c.used \in Tally /\ (c.pass = <<>> \/ \E q \in Trimmed(o) : c.pass = <<q>>)
    BY <2>0, <2>1, CapTyped
  <2>3. AdmitNext(a, st, o) = [out |-> st.out \o c.pass, used |-> c.used]
    BY DEF AdmitNext
  <2> HIDE DEF c
  <2>4. c.pass \in Seq(T)
    <3>1. Trimmed(o) \subseteq T
      BY DEF Trims, Trimmed
    <3>2. \A q \in T : <<q>> \in Seq(T)
      BY PairSeq
    <3> QED BY <2>2, <3>1, <3>2, EmptySeq
  <2>5. st.out \o c.pass \in Seq(T)
    BY <2>0, <2>4, ConcatProperties
  <2> QED BY <2>2, <2>3, <2>5
<1> HIDE DEF S
<1>3. \E st \in S : Admitted(a, s) = st.out
  BY <1>1, <1>2, AdmittedIn
<1> QED BY <1>3 DEF S

\* A sum of what is not negative where the sequence comes from.
LEMMA SumOver ==
    ASSUME NEW U, NEW f \in [U -> Int], NEW T \in SUBSET U, \A x \in T : f[x] >= 0, NEW s \in Seq(T)
    PROVE  /\ SumOf(f, s) \in Int /\ SumOf(f, s) >= 0
           /\ \A S : Kept(s, S) \in Seq(T) /\ SumOf(f, Kept(s, S)) <= SumOf(f, s)
<1> DEFINE F == [x \in T |-> f[x]]
<1>1. F \in [T -> Int] /\ \A x \in T : F[x] >= 0
  OBVIOUS
<1>2. ASSUME NEW q \in Seq(T) PROVE SumOf(F, q) = SumOf(f, q)
  <2>1. \A i \in DOMAIN q : q[i] \in T
    BY LenProperties, ElementOfSeq
  <2>2. [i \in DOMAIN q |-> F[q[i]]] = [i \in DOMAIN q |-> f[q[i]]]
    BY <2>1
  <2> QED BY <2>2 DEF SumOf
<1> HIDE DEF F
<1>3. SumOf(F, s) \in Int /\ SumOf(F, s) >= 0
  BY <1>1, SumFacts
<1>4. ASSUME NEW S PROVE Kept(s, S) \in Seq(T) /\ SumOf(F, Kept(s, S)) <= SumOf(F, s)
  BY <1>1, KeptFacts, KeptSum
<1> QED BY <1>2, <1>3, <1>4

\* Whatever is proposed, the filter and the last gate let through what is of its kind.
LEMMA FilterTyped ==
    ASSUME NEW a, AccountTyped(a), NEW T, Trims(T), NEW s \in Seq(T), NEW t, NEW c, NEW h
    PROVE  FilterOrders(a, s, t, c) \in Seq(T) /\ FinalConfirm(h, FilterOrders(a, s, t, c)) \in Seq(T)
<1> DEFINE passed == FilterOrders(a, s, t, c)
           S == {o \in Range(passed) : h.answer = "yes" \/ (h.answer = "raise" /\ o.reduce)}
<1>1. passed \in Seq(T)
  <2>1. CASE t = "RED"
    <3>1. passed = PanicCloses(a)
      BY <2>1 DEF FilterOrders
    <3>2. PanicCloses(a) \in Seq(Exits)
      BY PanicFacts
    <3> HIDE DEF passed
    <3> QED BY <3>1, <3>2 DEF Trims
  <2>2. CASE t # "RED"
    <3> DEFINE q == AfterBreakers(Passed(a, s), a, t, c)
               d == ByDistance(q, a)
    <3>1. passed = Admitted(a, d)
      BY <2>2 DEF FilterOrders
    <3>2. q \in Seq(T)
      BY PassedTyped, BreakersTyped
    <3> HIDE DEF q
    <3>3. T \in SUBSET Order
      BY DEF Trims
    <3>4. d \in Seq(T)
      BY <3>2, <3>3, DistanceFacts
    <3> HIDE DEF d, passed
    <3> QED BY <3>1, <3>4, AdmittedTyped
  <2> QED BY <2>1, <2>2
<1>2. FinalConfirm(h, FilterOrders(a, s, t, c)) = Kept(passed, S)
  BY Zenon DEF FinalConfirm
<1> HIDE DEF passed, S
<1>3. Kept(passed, S) \in Seq(T)
  BY <1>1, KeptFacts
<1> QED BY <1>1, <1>2, <1>3 DEF passed

-----------------------------------------------------------------------------
(* The caps of the account and of a side *)

\* The account and the sides are gauged: what they hold, what entries take of them,
\* and what caps them.
Gauges == {"total"} \cup Sides
GaugeKeys(g) == IF g = "total" THEN Keys ELSE SideKeys(Sym, g)
GaugeCost(g) == EntryCost(Sources, IF g = "total" THEN Symbols \X Sides ELSE {<<Sym, g>>})
GaugeCap(a, g) == IF g = "total" THEN TotalCap(a) ELSE SingleCap(a)
GaugeUsed(u, g) == IF g = "total" THEN u.total ELSE u.side[<<Sym, g>>]

LEMMA SymListed == Sym \in Symbols /\ Symbols = {Sym} /\ Listed[1] = Sym /\ Len(Listed) = 1
<1>1. Len(Listed) = 1 /\ DOMAIN Listed = 1 .. Len(Listed)
  BY OneSymbol, ListedOnce, LenProperties
<1>2. Symbols = {Listed[i] : i \in 1 .. 1}
  BY <1>1 DEF Symbols, Range
<1> QED BY <1>1, <1>2 DEF Sym

LEMMA GaugeFacts ==
    ASSUME NEW g \in Gauges
    PROVE  /\ GaugeCost(g) \in [Order -> Int] /\ \A o \in Priced : GaugeCost(g)[o] >= 0
           /\ \A o \in Order : GaugeCost(g)[o] =
                 IF ~o.reduce /\ (g = "total" \/ g = o.side) THEN Cost(o) ELSE 0
           /\ \A s \in Seq(Exits) : SumOf(GaugeCost(g), s) = 0
<1>1. g \in Sides \/ g = "total"
  BY DEF Gauges
<1>2. "total" \notin Sides
  BY DEF Sides
<1>3. GaugeCost(g) \in [Order -> Int] /\ \A s \in Seq(Exits) : SumOf(GaugeCost(g), s) = 0
  BY EntryCostFacts DEF GaugeCost
<1>4. ASSUME NEW o \in Order
      PROVE  GaugeCost(g)[o] = IF ~o.reduce /\ (g = "total" \/ g = o.side) THEN Cost(o) ELSE 0
  <2>1. CASE g = "total"
    BY <2>1, EntryCostOf DEF GaugeCost
  <2>2. CASE g # "total"
    <3>1. g \in Sides /\ Sym \in Symbols /\ GaugeCost(g) = EntryCost(Sources, {<<Sym, g>>})
      BY <1>1, <2>2, SymListed DEF GaugeCost
    <3>2. EntryCost(Sources, {<<Sym, g>>})[o] =
             IF ~o.reduce /\ <<Sym, g>> = <<o.sym, o.side>> THEN Cost(o) ELSE 0
      BY <3>1, EntryCostOf
    <3>3. o.sym = Sym
      BY SymListed DEF Order
    <3> QED BY <2>2, <3>1, <3>2, <3>3
  <2> QED BY <2>1, <2>2
<1>5. \A o \in Priced : ~o.reduce => Cost(o) >= 0
  BY CostFacts
<1> QED BY <1>3, <1>4, <1>5, OrderSets

\* What one order of the walk adds to a gauge, and that it fits.
LEMMA CapGauge ==
    ASSUME NEW a, AccountTyped(a), NEW o \in Priced, NEW u \in Used, NEW g \in Gauges
    PROVE  LET c == Capped(a, o, u)
           IN  /\ c.used \in Used
               /\ \/ c.pass = <<>> /\ c.used = u
                  \/ \E q \in Priced :
                        /\ c.pass = <<q>>
                        /\ GaugeUsed(c.used, g) = GaugeUsed(u, g) + GaugeCost(g)[q]
                        /\ \/ GaugeUsed(c.used, g) = GaugeUsed(u, g)
                           \/ Exposure(a, GaugeKeys(g)) + GaugeUsed(c.used, g) <= GaugeCap(a, g)
<1> DEFINE c == Capped(a, o, u)
           Enters(q) ==
              /\ ~o.reduce /\ ~q.reduce
              /\ c.pass = <<q>> /\ c.used \in Used
              /\ c.used.total = u.total + Cost(q)
              /\ c.used.grid = u.grid + (IF q.src = "GRID" THEN Cost(q) ELSE 0)
              /\ \A p \in Symbols \X Sides :
                    c.used.side[p] = u.side[p] + (IF p = <<q.sym, q.side>> THEN Cost(q) ELSE 0)
              /\ Exposure(a, Keys) + c.used.total <= TotalCap(a)
              /\ q.src = "GRID" => Exposure(a, GridKeys) + c.used.grid <= GridCap(a)
              /\ Exposure(a, SideKeys(q.sym, q.side)) + c.used.side[<<q.sym, q.side>>] <= SingleCap(a)
           Adds(q) ==
              /\ c.pass = <<q>>
              /\ GaugeUsed(c.used, g) = GaugeUsed(u, g) + GaugeCost(g)[q]
              /\ \/ GaugeUsed(c.used, g) = GaugeUsed(u, g)
                 \/ Exposure(a, GaugeKeys(g)) + GaugeUsed(c.used, g) <= GaugeCap(a, g)
<1>1. o \in Order
  BY OrderSets
<1>2. \/ o.reduce /\ c = [pass |-> <<o>>, used |-> u]
      \/ ~o.reduce /\ c = [pass |-> <<>>, used |-> u]
      \/ \E q \in Priced : Enters(q)
  BY <1>1, CapFacts, Zenon
<1>3. GaugeUsed(u, g) \in Int
  <2>1. g # "total" => <<Sym, g>> \in Symbols \X Sides
    BY SymListed DEF Gauges
  <2> QED BY <2>1 DEF GaugeUsed, Used
<1> HIDE DEF c
<1>4. CASE o.reduce /\ c = [pass |-> <<o>>, used |-> u]
  <2>1. GaugeCost(g)[o] = 0
    BY <1>1, <1>4, GaugeFacts
  <2>2. Adds(o)
    BY <1>3, <1>4, <2>1
  <2> HIDE DEF Adds
  <2>3. c.used \in Used /\ \E q \in Priced : Adds(q)
    BY <1>1, <1>4, <2>2
  <2> QED BY <2>3 DEF c, Adds
<1>5. CASE ~o.reduce /\ c = [pass |-> <<>>, used |-> u]
  <2>1. c.used \in Used /\ c.pass = <<>> /\ c.used = u
    BY <1>5
  <2> QED BY <2>1 DEF c
<1>6. ASSUME NEW q \in Priced, Enters(q) PROVE Adds(q)
  <2>1. q \in Order /\ ~q.reduce /\ q.sym = Sym /\ q.side \in Sides
    BY <1>6, OrderSets, SymListed DEF Order
  <2>2. c.pass = <<q>>
    BY <1>6
  <2>3. GaugeCost(g)[q] = IF g = "total" \/ g = q.side THEN Cost(q) ELSE 0
    BY <2>1, GaugeFacts
  <2>4. CASE g = "total"
    <3>1. GaugeUsed(c.used, g) = u.total + Cost(q) /\ GaugeUsed(u, g) = u.total
      BY <1>6, <2>4 DEF GaugeUsed
    <3>2. Exposure(a, GaugeKeys(g)) + GaugeUsed(c.used, g) <= GaugeCap(a, g)
      BY <1>6, <2>4 DEF GaugeUsed, GaugeKeys, GaugeCap
    <3> QED BY <2>2, <2>3, <2>4, <3>1, <3>2
  <2>5. CASE g # "total"
    <3>1. g \in Sides /\ <<Sym, g>> \in Symbols \X Sides
      BY <2>5, SymListed DEF Gauges
    <3>2. /\ GaugeUsed(c.used, g) = c.used.side[<<Sym, g>>]
          /\ GaugeUsed(u, g) = u.side[<<Sym, g>>]
          /\ GaugeKeys(g) = SideKeys(Sym, g) /\ GaugeCap(a, g) = SingleCap(a)
      BY <2>5 DEF GaugeUsed, GaugeKeys, GaugeCap
    <3>3. c.used.side[<<Sym, g>>] = u.side[<<Sym, g>>]
                + (IF <<Sym, g>> = <<q.sym, q.side>> THEN Cost(q) ELSE 0)
      BY <1>6, <3>1
    <3>4. CASE g = q.side
      <4>1. Exposure(a, SideKeys(Sym, g)) + c.used.side[<<Sym, g>>] <= SingleCap(a)
        BY <1>6, <2>1, <3>4
      <4> QED BY <2>1, <2>2, <2>3, <3>2, <3>3, <3>4, <4>1
    <3>5. CASE g # q.side
      <4>1. c.used.side[<<Sym, g>>] = u.side[<<Sym, g>>] + 0
        BY <3>3, <3>5
      <4>2. u.side[<<Sym, g>>] \in Int
        BY <1>3, <3>2
      <4> QED BY <2>2, <2>3, <2>5, <3>2, <3>5, <4>1, <4>2
    <3> QED BY <3>4, <3>5
  <2> QED BY <2>4, <2>5
<1>7. CASE \E q \in Priced : Enters(q)
  <2>1. PICK q \in Priced : Enters(q)
    BY <1>7
  <2>2. c.used \in Used /\ Adds(q)
    BY <1>6, <2>1
  <2> HIDE DEF Adds, Enters
  <2>3. c.used \in Used /\ \E r \in Priced : Adds(r)
    BY <2>2
  <2> QED BY <2>3 DEF c, Adds
<1> QED BY <1>2, <1>4, <1>5, <1>7

\* What has been admitted is booked on the gauge, and fits under its cap.
Booked(a, g) ==
    {st \in [out : Seq(Priced), used : Used] :
        /\ GaugeUsed(st.used, g) = SumOf(GaugeCost(g), st.out)
        /\ \/ GaugeUsed(st.used, g) = 0
           \/ Exposure(a, GaugeKeys(g)) + GaugeUsed(st.used, g) <= GaugeCap(a, g)}

LEMMA AdmitStep ==
    ASSUME NEW a, AccountTyped(a), NEW g \in Gauges,
           NEW st \in Booked(a, g), NEW o \in Priced
    PROVE  AdmitNext(a, st, o) \in Booked(a, g)
<1> DEFINE c == Capped(a, o, st.used)
           F == GaugeCost(g)
           next == [out |-> st.out \o c.pass, used |-> c.used]
<1>1. /\ st.out \in Seq(Priced) /\ st.used \in Used /\ GaugeUsed(st.used, g) = SumOf(F, st.out)
      /\ \/ GaugeUsed(st.used, g) = 0
         \/ Exposure(a, GaugeKeys(g)) + GaugeUsed(st.used, g) <= GaugeCap(a, g)
  BY DEF Booked
<1>2. /\ c.used \in Used
      /\ \/ c.pass = <<>> /\ c.used = st.used
         \/ \E q \in Priced :
               /\ c.pass = <<q>>
               /\ GaugeUsed(c.used, g) = GaugeUsed(st.used, g) + F[q]
               /\ \/ GaugeUsed(c.used, g) = GaugeUsed(st.used, g)
                  \/ Exposure(a, GaugeKeys(g)) + GaugeUsed(c.used, g) <= GaugeCap(a, g)
  BY <1>1, CapGauge
<1>3. F \in [Order -> Int]
  BY GaugeFacts
<1>4. AdmitNext(a, st, o) = next
  BY DEF AdmitNext
<1> HIDE DEF c, F
<1>5. CASE c.pass = <<>> /\ c.used = st.used
  <2>1. st.out \o c.pass = st.out
    BY <1>1, <1>5, ConcatEmptySeq
  <2>2. next \in Booked(a, g)
    BY <1>1, <1>5, <2>1 DEF Booked, F
  <2> QED BY <1>4, <2>2
<1>6. ASSUME NEW q \in Priced, c.pass = <<q>>,
             GaugeUsed(c.used, g) = GaugeUsed(st.used, g) + F[q],
             \/ GaugeUsed(c.used, g) = GaugeUsed(st.used, g)
             \/ Exposure(a, GaugeKeys(g)) + GaugeUsed(c.used, g) <= GaugeCap(a, g)
      PROVE  AdmitNext(a, st, o) \in Booked(a, g)
  <2>1. SumOf(F, st.out \o <<q>>) = SumOf(F, st.out) + F[q]
    BY <1>1, <1>3, WalkSum
  <2>6. st.out \o <<q>> \in Seq(Priced)
    BY <1>1, <1>6
  <2>2. GaugeUsed(next.used, g) = SumOf(F, next.out)
    BY <1>1, <1>6, <2>1
  <2>3. next \in [out : Seq(Priced), used : Used]
    BY <1>2, <1>6, <2>6
  <2>4. \/ GaugeUsed(next.used, g) = 0
        \/ Exposure(a, GaugeKeys(g)) + GaugeUsed(next.used, g) <= GaugeCap(a, g)
    BY <1>1, <1>6
  <2> HIDE DEF next
  <2>5. next \in Booked(a, g)
    BY <2>2, <2>3, <2>4 DEF Booked, F
  <2> QED BY <1>4, <2>5
<1> QED BY <1>2, <1>5, <1>6

LEMMA AdmittedFits ==
    ASSUME NEW a, AccountTyped(a), NEW s \in Seq(Priced), NEW g \in Gauges
    PROVE  \/ SumOf(GaugeCost(g), Admitted(a, s)) = 0
           \/ Exposure(a, GaugeKeys(g)) + SumOf(GaugeCost(g), Admitted(a, s)) <= GaugeCap(a, g)
<1> DEFINE S == Booked(a, g)
<1>1. [out |-> <<>>, used |-> NothingUsed] \in S
  <2>1. NothingUsed \in Used
    BY DEF NothingUsed, Used
  <2>2. GaugeUsed(NothingUsed, g) = 0
    <3>1. g # "total" => <<Sym, g>> \in Symbols \X Sides
      BY SymListed DEF Gauges
    <3> QED BY <3>1 DEF GaugeUsed, NothingUsed
  <2>3. SumOf(GaugeCost(g), <<>>) = 0 /\ <<>> \in Seq(Priced)
    BY SumEmpty, EmptySeq
  <2> QED BY <2>1, <2>2, <2>3 DEF Booked
<1>2. \A st \in S, o \in Priced : AdmitNext(a, st, o) \in S
  BY AdmitStep
<1> HIDE DEF S
<1>3. PICK st \in S : Admitted(a, s) = st.out
  BY <1>1, <1>2, AdmittedIn
<1>4. /\ GaugeUsed(st.used, g) = SumOf(GaugeCost(g), st.out)
      /\ \/ GaugeUsed(st.used, g) = 0
         \/ Exposure(a, GaugeKeys(g)) + GaugeUsed(st.used, g) <= GaugeCap(a, g)
  BY DEF S, Booked
<1> QED BY <1>3, <1>4

\* When the entries proposed have prices, what the filter and the last gate let through
\* leaves every gauge under its cap, or where it is.
LEMMA FilterFits ==
    ASSUME NEW a, AccountTyped(a), NEW s \in Seq(Priced), NEW t, NEW c, NEW h, NEW g \in Gauges
    PROVE  LET r == FinalConfirm(h, FilterOrders(a, s, t, c))
           IN  \/ SumOf(GaugeCost(g), r) = 0
               \/ Exposure(a, GaugeKeys(g)) + SumOf(GaugeCost(g), r) <= GaugeCap(a, g)
<1> DEFINE F == GaugeCost(g)
           passed == FilterOrders(a, s, t, c)
           S == {o \in Range(passed) : h.answer = "yes" \/ (h.answer = "raise" /\ o.reduce)}
           r == Kept(passed, S)
<1>0. passed \in Seq(Priced)
  BY KindsTrim, FilterTyped
<1>1. \/ SumOf(F, passed) = 0
      \/ Exposure(a, GaugeKeys(g)) + SumOf(F, passed) <= GaugeCap(a, g)
  <2>1. CASE t = "RED"
    <3>1. passed = PanicCloses(a)
      BY <2>1 DEF FilterOrders
    <3>2. PanicCloses(a) \in Seq(Exits)
      BY PanicFacts
    <3> HIDE DEF passed
    <3> QED BY <3>1, <3>2, GaugeFacts
  <2>2. CASE t # "RED"
    <3> DEFINE q == AfterBreakers(Passed(a, s), a, t, c)
               d == ByDistance(q, a)
    <3>1. passed = Admitted(a, d)
      BY <2>2 DEF FilterOrders
    <3>2. q \in Seq(Priced)
      BY KindsTrim, PassedTyped, BreakersTyped
    <3> HIDE DEF q
    <3>3. Priced \in SUBSET Order
      BY OrderSets
    <3>4. d \in Seq(Priced)
      BY <3>2, <3>3, DistanceFacts
    <3> HIDE DEF d, passed
    <3> QED BY <3>1, <3>4, AdmittedFits
  <2> QED BY <2>1, <2>2
<1>2. FinalConfirm(h, FilterOrders(a, s, t, c)) = r
  BY Zenon DEF FinalConfirm
<1>3. F \in [Order -> Int] /\ Priced \in SUBSET Order /\ \A o \in Priced : F[o] >= 0
  BY GaugeFacts, OrderSets
<1> HIDE DEF passed, S, F
<1>5. r \in Seq(Priced) /\ SumOf(F, r) <= SumOf(F, passed)
  BY <1>0, <1>3, SumOver
<1>7. SumOf(F, passed) \in Int
  BY <1>0, <1>3, SumOver
<1> HIDE DEF r
<1>9. SumOf(F, r) \in Int /\ SumOf(F, r) >= 0
  BY <1>3, <1>5, SumOver
<1>10. Exposure(a, GaugeKeys(g)) \in Int /\ GaugeCap(a, g) \in Int
  <2>1. TotalCap(a) \in Int /\ SingleCap(a) \in Int
    BY CapsTyped
  <2> QED BY <2>1, ExposureTyped DEF GaugeCap
<1>11. \/ SumOf(F, r) = 0
       \/ Exposure(a, GaugeKeys(g)) + SumOf(F, r) <= GaugeCap(a, g)
  BY <1>1, <1>5, <1>7, <1>9, <1>10
<1> QED BY <1>2, <1>11 DEF F

-----------------------------------------------------------------------------
(* The four buckets of the symbol *)

LEMMA FourKeys ==
    /\ KeysBy(PanicWalk) = <<<<Sym, "LONG", "GRID">>, <<Sym, "LONG", "TREND">>,
                             <<Sym, "SHORT", "GRID">>, <<Sym, "SHORT", "TREND">>>>
    /\ Keys = {<<Sym, "LONG", "GRID">>, <<Sym, "LONG", "TREND">>,
               <<Sym, "SHORT", "GRID">>, <<Sym, "SHORT", "TREND">>}
<1> DEFINE w == KeysBy(PanicWalk)
<1>1. w = [n \in 1 .. 4 |-> <<Listed[((n - 1) \div 4) + 1], PanicWalk[((n - 1) % 4) + 1][1],
                             PanicWalk[((n - 1) % 4) + 1][2]>>]
  BY SymListed DEF KeysBy
<1>2. /\ ((1 - 1) \div 4) + 1 = 1 /\ ((2 - 1) \div 4) + 1 = 1
      /\ ((3 - 1) \div 4) + 1 = 1 /\ ((4 - 1) \div 4) + 1 = 1
      /\ ((1 - 1) % 4) + 1 = 1 /\ ((2 - 1) % 4) + 1 = 2
      /\ ((3 - 1) % 4) + 1 = 3 /\ ((4 - 1) % 4) + 1 = 4
  OBVIOUS
<1>3. /\ PanicWalk[1] = <<"LONG", "GRID">> /\ PanicWalk[2] = <<"LONG", "TREND">>
      /\ PanicWalk[3] = <<"SHORT", "GRID">> /\ PanicWalk[4] = <<"SHORT", "TREND">>
  BY DEF PanicWalk
<1>4. 1 \in 1 .. 4 /\ 2 \in 1 .. 4 /\ 3 \in 1 .. 4 /\ 4 \in 1 .. 4
  OBVIOUS
<1> HIDE DEF w
<1>5. w[1] = <<Sym, "LONG", "GRID">>
  BY <1>1, <1>2, <1>3, <1>4, SymListed
<1>6. w[2] = <<Sym, "LONG", "TREND">>
  BY <1>1, <1>2, <1>3, <1>4, SymListed
<1>7. w[3] = <<Sym, "SHORT", "GRID">>
  BY <1>1, <1>2, <1>3, <1>4, SymListed
<1>8. w[4] = <<Sym, "SHORT", "TREND">>
  BY <1>1, <1>2, <1>3, <1>4, SymListed
<1>9. w = <<w[1], w[2], w[3], w[4]>>
  <2>1. \A n \in 1 .. 4 : n = 1 \/ n = 2 \/ n = 3 \/ n = 4
    OBVIOUS
  <2>2. w = [n \in 1 .. 4 |-> w[n]]
    BY <1>1
  <2>3. <<w[1], w[2], w[3], w[4]>> = [n \in 1 .. 4 |-> <<w[1], w[2], w[3], w[4]>>[n]]
    OBVIOUS
  <2>4. \A n \in 1 .. 4 : w[n] = <<w[1], w[2], w[3], w[4]>>[n]
    BY <2>1
  <2> QED BY <2>2, <2>3, <2>4
<1>10. Keys = {<<Sym, "LONG", "GRID">>, <<Sym, "LONG", "TREND">>,
               <<Sym, "SHORT", "GRID">>, <<Sym, "SHORT", "TREND">>}
  BY SymListed DEF Keys, Sides, Buckets
<1> QED BY <1>5, <1>6, <1>7, <1>8, <1>9, <1>10 DEF w

LEMMA FourSum ==
    ASSUME NEW f, \A k \in Keys : f[k] \in Int
    PROVE  /\ AllBuckets(f) = f[<<Sym, "LONG", "GRID">>] + f[<<Sym, "LONG", "TREND">>]
                                + f[<<Sym, "SHORT", "GRID">>] + f[<<Sym, "SHORT", "TREND">>]
           /\ AllBuckets(f) \in Int
<1> DEFINE w == KeysBy(PanicWalk)
           a == f[<<Sym, "LONG", "GRID">>]
           b == f[<<Sym, "LONG", "TREND">>]
           c == f[<<Sym, "SHORT", "GRID">>]
           d == f[<<Sym, "SHORT", "TREND">>]
           s == [n \in DOMAIN w |-> f[w[n]]]
           g == [i \in 0 .. 4 |-> IF i = 0 THEN 0 ELSE IF i = 1 THEN a ELSE IF i = 2 THEN a + b
                                  ELSE IF i = 3 THEN a + b + c ELSE a + b + c + d]
<1>1. a \in Int /\ b \in Int /\ c \in Int /\ d \in Int
  BY FourKeys
<1>2. DOMAIN w = 1 .. 4 /\ f[w[1]] = a /\ f[w[2]] = b /\ f[w[3]] = c /\ f[w[4]] = d
  BY FourKeys
<1> HIDE DEF w, a, b, c, d
<1>3. Len(s) = 4 /\ s[1] = a /\ s[2] = b /\ s[3] = c /\ s[4] = d
  BY <1>2
<1> HIDE DEF s
<1>4. g[0] = 0 /\ g[1] = a /\ g[2] = a + b /\ g[3] = a + b + c /\ g[4] = a + b + c + d
  OBVIOUS
<1> HIDE DEF g
<1>5. \A k \in 1 .. Len(s) : g[k] = g[k - 1] + s[k]
  <2>1. \A k \in 1 .. 4 : k = 1 \/ k = 2 \/ k = 3 \/ k = 4
    OBVIOUS
  <2>2. g[1] = g[1 - 1] + s[1] /\ g[2] = g[2 - 1] + s[2] /\ g[3] = g[3 - 1] + s[3] /\ g[4] = g[4 - 1] + s[4]
    BY <1>1, <1>3, <1>4
  <2> QED BY <1>3, <2>1, <2>2
<1>6. Total(s) = g[4]
  <2>1. Len(s) \in Nat
    BY <1>3
  <2>2. Total(s) = g[Len(s)]
    BY <1>4, <1>5, <2>1, TotalIs
  <2> QED BY <1>3, <2>2
<1>7. AllBuckets(f) = Total(s)
  BY DEF AllBuckets, s, w
<1> QED BY <1>1, <1>4, <1>6, <1>7 DEF a, b, c, d

\* What happens to one bucket is what happens to the sum.
LEMMA Changed ==
    ASSUME NEW f, \A j \in Keys : f[j] \in Int, NEW g, \A j \in Keys : g[j] \in Int,
           NEW k \in Keys, \A j \in Keys : j # k => g[j] = f[j]
    PROVE  AllBuckets(g) = AllBuckets(f) + (g[k] - f[k])
<1> DEFINE k1 == <<Sym, "LONG", "GRID">>
           k2 == <<Sym, "LONG", "TREND">>
           k3 == <<Sym, "SHORT", "GRID">>
           k4 == <<Sym, "SHORT", "TREND">>
<1>1. Keys = {k1, k2, k3, k4} /\ k1 # k2 /\ k1 # k3 /\ k1 # k4 /\ k2 # k3 /\ k2 # k4 /\ k3 # k4
  BY FourKeys
<1>2. /\ AllBuckets(f) = f[k1] + f[k2] + f[k3] + f[k4]
      /\ AllBuckets(g) = g[k1] + g[k2] + g[k3] + g[k4]
  BY FourSum
<1> HIDE DEF k1, k2, k3, k4
<1>3. /\ f[k1] \in Int /\ f[k2] \in Int /\ f[k3] \in Int /\ f[k4] \in Int
      /\ g[k1] \in Int /\ g[k2] \in Int /\ g[k3] \in Int /\ g[k4] \in Int
  BY <1>1
<1>4. k = k1 \/ k = k2 \/ k = k3 \/ k = k4
  BY <1>1
<1>5. CASE k = k1
  <2>1. g[k2] = f[k2] /\ g[k3] = f[k3] /\ g[k4] = f[k4]
    BY <1>1, <1>5
  <2> QED BY <1>2, <1>3, <1>5, <2>1
<1>6. CASE k = k2
  <2>1. g[k1] = f[k1] /\ g[k3] = f[k3] /\ g[k4] = f[k4]
    BY <1>1, <1>6
  <2> QED BY <1>2, <1>3, <1>6, <2>1
<1>7. CASE k = k3
  <2>1. g[k1] = f[k1] /\ g[k2] = f[k2] /\ g[k4] = f[k4]
    BY <1>1, <1>7
  <2> QED BY <1>2, <1>3, <1>7, <2>1
<1>8. CASE k = k4
  <2>1. g[k1] = f[k1] /\ g[k2] = f[k2] /\ g[k3] = f[k3]
    BY <1>1, <1>8
  <2> QED BY <1>2, <1>3, <1>8, <2>1
<1> QED BY <1>4, <1>5, <1>6, <1>7, <1>8

LEMMA SumConcat ==
    ASSUME NEW T, NEW f \in [T -> Int], NEW s \in Seq(T), NEW t \in Seq(T)
    PROVE  SumOf(f, s \o t) = SumOf(f, s) + SumOf(f, t)
<1> DEFINE Q == {q \in Seq(T) : SumOf(f, s \o q) = SumOf(f, s) + SumOf(f, q)}
<1>1. SumOf(f, s) \in Int
  BY SumFacts
<1>2. <<>> \in Q
  <2>1. s \o <<>> = s /\ <<>> \in Seq(T)
    BY ConcatEmptySeq, EmptySeq
  <2> QED BY <1>1, <2>1, SumEmpty
<1>3. ASSUME NEW q \in Seq(T), q \in Q, NEW x \in T PROVE Append(q, x) \in Q
  <2>1. s \o q \in Seq(T) /\ Append(q, x) \in Seq(T)
    BY ConcatProperties, AppendProperties
  <2>2. s \o Append(q, x) = Append(s \o q, x)
    <3>1. Append(q, x) = q \o <<x>>
      BY AppendIsConcat
    <3>2. Append(s \o q, x) = (s \o q) \o <<x>>
      BY <2>1, AppendIsConcat
    <3>3. <<x>> \in Seq(T)
      OBVIOUS
    <3>4. (s \o q) \o <<x>> = s \o (q \o <<x>>)
      BY <3>3, ConcatAssociative, SMTT(30)
    <3> QED BY <3>1, <3>2, <3>4
  <2>3. /\ SumOf(f, Append(s \o q, x)) = SumOf(f, s \o q) + f[x]
        /\ SumOf(f, Append(q, x)) = SumOf(f, q) + f[x]
        /\ SumOf(f, q) \in Int /\ f[x] \in Int
    BY <2>1, SumFacts
  <2>4. SumOf(f, s \o q) = SumOf(f, s) + SumOf(f, q)
    BY <1>3
  <2>5. SumOf(f, Append(s \o q, x)) = SumOf(f, s) + SumOf(f, Append(q, x))
    BY <1>1, <2>3, <2>4
  <2>6. SumOf(f, s \o Append(q, x)) = SumOf(f, s) + SumOf(f, Append(q, x))
    BY <2>2, <2>5, Zenon
  <2> QED BY <2>1, <2>6
<1>4. Seq(T) \subseteq Q
  <2> HIDE DEF Q
  <2> QED BY <1>2, <1>3, SeqInduction
<1> QED BY <1>4

-----------------------------------------------------------------------------
(* The account of a bar *)

LEMMA CandleFacts ==
    ASSUME NEW c \in Candles
    PROVE  /\ c.low \in Nat /\ c.low > 0 /\ c.high \in Nat /\ c.high > 0
           /\ c.close \in Nat /\ c.close > 0 /\ c.funding \in Int
           /\ PercentOf(100 - Slippage, c.close) > 0
BY CandlesTyped

LEMMA Rates ==
    /\ Start \in Nat /\ MakerFee \in Nat /\ TakerFee \in Nat /\ Slippage \in Nat
    /\ CooldownBars \in Nat /\ BarHours \in Nat /\ BarHours > 0
    /\ FundingHours \in Nat /\ FundingHours > 0 /\ MaxBars \in Nat /\ MaxBars > 0
BY RatesNat, BarsPositive

LEMMA AcctTyped ==
    ASSUME RunTypeOK
    PROVE  AccountTyped(Acct) /\ Acct.ema \in Bands /\ Acct.pos = pos
<1>1. /\ bar \in 0 .. MaxBars /\ candle \in Candles /\ ema \in [fast : Nat \ {0}, slow : Nat \ {0}]
      /\ pos \in [Keys -> [size : Nat, entry : Nat]] /\ balance \in Int
      /\ losses \in [Buckets -> [0 .. MaxBars -> Nat]]
  BY DEF RunTypeOK
<1>2. Acct.mark \in [Symbols -> Nat \ {0}]
  <2>1. candle.close \in Nat \ {0}
    BY <1>1, CandleFacts
  <2>2. Acct.mark = [s \in Symbols |-> candle.close]
    BY DEF Acct
  <2> QED BY <2>1, <2>2
<1>3. Acct.ema \in Bands
  <2> DEFINE x == ema.fast
             y == ema.slow
  <2>1. x \in Nat /\ x > 0 /\ y \in Nat /\ y > 0
    BY <1>1
  <2>2. Acct.ema = [s \in Symbols |-> [lower |-> Min({x, y}), upper |-> Max({x, y})]]
    BY DEF Acct
  <2> HIDE DEF x, y
  <2>3. Min({x, y}) \in {x, y} /\ Max({x, y}) \in {x, y}
    BY <2>1, MinTwo, MaxOf
  <2>4. Min({x, y}) \in Nat \ {0} /\ Max({x, y}) \in Nat \ {0}
    BY <2>1, <2>3
  <2> QED BY <2>2, <2>4 DEF Bands
<1>4. Acct.lost \in [Buckets -> Int]
  <2> DEFINE days(b) == [n \in 1 .. bar + 1 |-> IF (bar + 1 - n) * BarHours <= 24 THEN losses[b][n - 1] ELSE 0]
  <2>1. ASSUME NEW b \in Buckets PROVE days(b) \in Seq(Int)
    <3>1. ASSUME NEW n \in 1 .. bar + 1 PROVE losses[b][n - 1] \in Int
      <4>1. n - 1 \in 0 .. MaxBars /\ losses[b] \in [0 .. MaxBars -> Nat]
        BY <1>1, Rates
      <4>2. losses[b][n - 1] \in Nat
        BY <4>1
      <4> QED BY <4>2
    <3>2. \A n \in 1 .. bar + 1 : (IF (bar + 1 - n) * BarHours <= 24 THEN losses[b][n - 1] ELSE 0) \in Int
      BY <3>1
    <3>3. bar + 1 \in Nat
      BY <1>1
    <3> QED BY <3>2, <3>3
  <2>2. Acct.lost = [b \in Buckets |-> Total(days(b))]
    BY DEF Acct
  <2> HIDE DEF days
  <2>3. \A b \in Buckets : Total(days(b)) \in Int
    BY <2>1, TotalType
  <2> QED BY <2>2, <2>3
<1>5. Acct.pos = pos /\ Acct.balance = balance
  BY DEF Acct
<1> QED BY <1>1, <1>2, <1>3, <1>4, <1>5 DEF AccountTyped

\* The overlay is shut out: the throttle is at nothing, and the trend buckets are closed.
TrendIdle == KellyPct(samples) = 0 /\ \A d \in Sides : ~IsOpen(pos[<<Sym, d, "TREND">>])

\* Whatever the bar, the signal and the strategy say, what is proposed are orders; their
\* entries are all of the grid when the overlay is shut out.
LEMMA ProposedTyped ==
    ASSUME RunTypeOK, NEW v \in Views, NEW h \in Hooks, NEW N, "GRID" \in N,
           "TREND" \in N \/ TrendIdle
    PROVE  Proposed(v, h) \in Seq(From(N)) /\ UnstuckOrders(Acct) \in Seq(Exits)
<1> DEFINE a == Acct
           last == candle.close
           grid(d) == GridBook(v, h, d)
           trailing(d) == Trailing(v, h, d)
           overlay == FilterEntries(h, OverlayEntry(a, Sym, v, candle.funding, samples), last)
           exits(d) == TrendExits(a, Sym, d, candle)
           bucket(d, b) == BucketOrders(h, a, <<Sym, d, b>>)
<1>1. AccountTyped(a) /\ a.ema \in Bands /\ Sym \in Symbols /\ samples \in Seq(Int)
  BY AcctTyped, SymListed DEF RunTypeOK
<1>2. last \in Nat /\ last \in Int
  BY CandleFacts DEF RunTypeOK
<1>3. "LONG" \in Sides /\ "SHORT" \in Sides /\ "GRID" \in Buckets /\ "TREND" \in Buckets
  BY DEF Sides, Buckets
<1>15. From({"GRID"}) \subseteq From(N) /\ Exits \subseteq From(N)
  BY DEF From, Exits
<1>16. \A d \in Sides, b \in Buckets : IsOpen(a.pos[<<Sym, d, b>>]) => b \in N
  <2>1. a.pos = pos
    BY AcctTyped
  <2> HIDE DEF a
  <2> QED BY <2>1 DEF TrendIdle, Buckets
<1> HIDE DEF a
<1>4. \A d \in Sides : grid(d) \in Seq(From(N))
  <2> SUFFICES ASSUME NEW d \in Sides PROVE grid(d) \in Seq(From(N))
    OBVIOUS
  <2> DEFINE raw == ComputeOrders(a, Sym, d, SideMode(v, d), CloseAggr(v))
  <2>1. raw \in Seq(From({"GRID"}))
    BY <1>1, AggrTyped, ComputeTyped DEF Grids
  <2>2. grid(d) = FilterExits(h, FilterEntries(h, raw, last))
    BY DEF GridBook, a
  <2> HIDE DEF raw, grid, last
  <2>3. FilterEntries(h, raw, last) \in Seq(From({"GRID"}))
    BY <1>2, <2>1, EntriesFiltered
  <2>4. grid(d) \in Seq(From({"GRID"}))
    BY <2>2, <2>3, ExitsFiltered
  <2> QED BY <1>15, <2>4
<1>5. \A d \in Sides : trailing(d) \in Seq(From(N))
  <2> SUFFICES ASSUME NEW d \in Sides PROVE trailing(d) \in Seq(From(N))
    OBVIOUS
  <2> DEFINE raw == TrailingEntry(a, Sym, d, SideMode(v, d), trail[d])
  <2>1. raw \in Seq(From({"GRID"}))
    BY <1>1, TrailingTyped DEF Grids
  <2>2. trailing(d) = FilterEntries(h, raw, last)
    BY DEF Trailing, a
  <2> HIDE DEF raw, trailing, last
  <2>3. trailing(d) \in Seq(From({"GRID"}))
    BY <1>2, <2>1, <2>2, EntriesFiltered
  <2> QED BY <1>15, <2>3
<1>6. overlay \in Seq(From(N))
  <2> DEFINE raw == OverlayEntry(a, Sym, v, candle.funding, samples)
  <2>1. raw \in Seq(From({"TREND"})) /\ (KellyPct(samples) = 0 => raw = <<>>)
    BY <1>1, OverlayTyped
  <2> HIDE DEF last, raw
  <2>2. raw \in Seq(From(N))
    <3>1. CASE "TREND" \in N
      <4>1. From({"TREND"}) \subseteq From(N)
        BY <3>1 DEF From
      <4> QED BY <2>1, <4>1
    <3>2. CASE "TREND" \notin N
      BY <2>1, <3>2, EmptySeq DEF TrendIdle
    <3> QED BY <3>1, <3>2
  <2>3. FilterEntries(h, raw, last) \in Seq(From(N))
    BY <1>2, <2>2, EntriesFiltered
  <2> QED BY <2>3 DEF raw, last
<1>7. \A d \in Sides : exits(d) \in Seq(From(N))
  <2>1. \A d \in Sides : exits(d) \in Seq(Exits)
    BY <1>1, <1>2, ExitsTyped
  <2> QED BY <1>15, <2>1
<1>8. \A d \in Sides, b \in Buckets : bucket(d, b) \in Seq(From(N))
  <2>1. \A d \in Sides, b \in Buckets : <<Sym, d, b>> \in Keys
    BY <1>1 DEF Keys
  <2> SUFFICES ASSUME NEW d \in Sides, NEW b \in Buckets PROVE bucket(d, b) \in Seq(From(N))
    OBVIOUS
  <2> DEFINE k == <<Sym, d, b>>
  <2>2. k \in Keys /\ (IsOpen(a.pos[k]) => k[3] \in N)
    BY <1>16, <2>1
  <2> HIDE DEF k
  <2>3. BucketOrders(h, a, k) \in Seq(From(N))
    BY <1>1, <2>2, BucketTyped
  <2> QED BY <2>3 DEF k
<1>9. UnstuckOrders(a) \in Seq(Exits)
  BY <1>1, UnstuckFacts
<1>10. Proposed(v, h) =
          grid("LONG") \o grid("SHORT") \o trailing("LONG") \o trailing("SHORT") \o overlay
          \o exits("LONG") \o exits("SHORT")
          \o bucket("LONG", "GRID") \o bucket("SHORT", "GRID")
          \o bucket("LONG", "TREND") \o bucket("SHORT", "TREND")
  BY DEF Proposed, a
<1> HIDE DEF grid, trailing, overlay, exits, bucket
<1>11. \A s, t \in Seq(From(N)) : s \o t \in Seq(From(N))
  BY ConcatProperties
<1>12. grid("LONG") \o grid("SHORT") \o trailing("LONG") \o trailing("SHORT") \in Seq(From(N))
  BY <1>3, <1>4, <1>5, <1>11, Zenon
<1>13. grid("LONG") \o grid("SHORT") \o trailing("LONG") \o trailing("SHORT") \o overlay
          \o exits("LONG") \o exits("SHORT") \in Seq(From(N))
  BY <1>3, <1>6, <1>7, <1>11, <1>12, Zenon
<1>14. Proposed(v, h) \in Seq(From(N))
  BY <1>3, <1>8, <1>10, <1>11, <1>13, Zenon
<1> QED BY <1>9, <1>14, Zenon DEF a

\* What a position takes of a gauge, and what the positions cost.
Held(p, g) ==
    AllBuckets([k \in Keys |-> IF k \in GaugeKeys(g) THEN p[k].size * p[k].entry * CMult[k[1]] ELSE 0])
Stock(p) == AllBuckets([k \in Keys |-> Sign(k[2]) * p[k].size * p[k].entry * CMult[Sym]])

LEMMA HeldIs ==
    ASSUME NEW a, NEW g
    PROVE  Exposure(a, GaugeKeys(g)) = Held(a.pos, g)
<1> DEFINE w == KeysBy(PanicWalk)
           F == [k \in Keys |-> IF k \in GaugeKeys(g) THEN a.pos[k].size * a.pos[k].entry * CMult[k[1]] ELSE 0]
<1>1. \A n \in DOMAIN w : w[n] \in Keys
  BY FourKeys
<1>2. Exposure(a, GaugeKeys(g)) =
        Total([n \in DOMAIN w |-> IF w[n] \in GaugeKeys(g) THEN CostAt(a, w[n]) ELSE 0])
  BY Zenon DEF Exposure
<1> HIDE DEF w
<1>3. ASSUME NEW n \in DOMAIN w
      PROVE  F[w[n]] = IF w[n] \in GaugeKeys(g) THEN CostAt(a, w[n]) ELSE 0
  BY <1>1 DEF CostAt
<1>4. Held(a.pos, g) = Total([n \in DOMAIN w |-> F[w[n]]])
  BY DEF Held, AllBuckets, w
<1> HIDE DEF F
<1>5. [n \in DOMAIN w |-> F[w[n]]] = [n \in DOMAIN w |-> IF w[n] \in GaugeKeys(g) THEN CostAt(a, w[n]) ELSE 0]
  BY <1>3
<1> QED BY <1>2, <1>4, <1>5

\* What is decided are orders, of the kinds of what is proposed; if the entries proposed
\* have prices, it takes no gauge above its cap.
Decent(v, h) == \A o \in Range(Proposed(v, h)) : o.reduce \/ o.price > 0

LEMMA DecidedFits ==
    ASSUME RunTypeOK, NEW v \in Views, NEW h \in Hooks
    PROVE  /\ Decided(v, h) \in Seq(Order)
           /\ TrendIdle => Decided(v, h) \in Seq(From({"GRID"}))
           /\ Decent(v, h) =>
                 /\ Decided(v, h) \in Seq(Priced)
                 /\ \A g \in Gauges : \/ SumOf(GaugeCost(g), Decided(v, h)) = 0
                                      \/ Held(pos, g) + SumOf(GaugeCost(g), Decided(v, h)) <= GaugeCap(Acct, g)
<1> DEFINE p == Proposed(v, h)
           x == UnstuckOrders(Acct)
           a == Acct
           r == FinalConfirm(h, FilterOrders(a, p \o x, Tier, bar < coolUntil))
<1>1. AccountTyped(a) /\ a.pos = pos
  BY AcctTyped
<1>2. Decided(v, h) = r
  BY DEF Decided
<1>3. p \in Seq(From(Sources)) /\ (TrendIdle => p \in Seq(From({"GRID"}))) /\ x \in Seq(Exits)
  BY ProposedTyped DEF Sources
<1>4. Decent(v, h) => p \in Seq(Priced)
  <2>1. SUFFICES ASSUME Decent(v, h) PROVE p \in Seq(Priced)
    OBVIOUS
  <2>2. Len(p) \in Nat /\ DOMAIN p = 1 .. Len(p) /\ p = [i \in 1 .. Len(p) |-> p[i]]
        /\ \A i \in 1 .. Len(p) : p[i] \in From(Sources)
    <3> HIDE DEF p
    <3> QED BY <1>3, LenProperties, ElementOfSeq
  <2>3. \A i \in 1 .. Len(p) : p[i].reduce \/ p[i].price > 0
    BY <2>1, <2>2 DEF Decent, Range
  <2> HIDE DEF p
  <2>4. \A i \in 1 .. Len(p) : p[i] \in Priced
    BY <2>2, <2>3 DEF Priced, From
  <2> QED BY <2>2, <2>4
<1> HIDE DEF a, p, x
<1>5. ASSUME NEW T, Trims(T), p \in Seq(T) PROVE p \o x \in Seq(T) /\ r \in Seq(T)
  <2>1. x \in Seq(T)
    BY <1>3, <1>5 DEF Trims
  <2>2. p \o x \in Seq(T)
    BY <1>5, <2>1, ConcatProperties
  <2> DEFINE s == p \o x
  <2> HIDE DEF s
  <2>3. FinalConfirm(h, FilterOrders(a, s, Tier, bar < coolUntil)) \in Seq(T)
    BY <1>1, <1>5, <2>2, FilterTyped DEF s
  <2> QED BY <2>2, <2>3 DEF s
<1>6. Trims(From(Sources)) /\ Trims(From({"GRID"})) /\ Trims(Priced)
  BY KindsTrim
<1>7. From(Sources) \subseteq Order
  BY DEF From
<1>8. r \in Seq(From(Sources)) /\ (TrendIdle => r \in Seq(From({"GRID"})))
  <2> HIDE DEF r
  <2> QED BY <1>3, <1>5, <1>6
<1>9. ASSUME Decent(v, h), NEW g \in Gauges
      PROVE  /\ r \in Seq(Priced)
             /\ \/ SumOf(GaugeCost(g), r) = 0
                \/ Held(pos, g) + SumOf(GaugeCost(g), r) <= GaugeCap(a, g)
  <2> DEFINE s == p \o x
  <2>1. s \in Seq(Priced) /\ r \in Seq(Priced)
    <3> HIDE DEF r
    <3> QED BY <1>4, <1>5, <1>6, <1>9
  <2>2. r = FinalConfirm(h, FilterOrders(a, s, Tier, bar < coolUntil))
    OBVIOUS
  <2>3. Exposure(a, GaugeKeys(g)) = Held(pos, g)
    BY <1>1, HeldIs
  <2> HIDE DEF s, r
  <2>4. \/ SumOf(GaugeCost(g), r) = 0
        \/ Exposure(a, GaugeKeys(g)) + SumOf(GaugeCost(g), r) <= GaugeCap(a, g)
    BY <1>1, <2>1, <2>2, FilterFits
  <2> QED BY <2>1, <2>3, <2>4
<1>10. "total" \in Gauges
  BY DEF Gauges
<1>11. r \in Seq(Order)
  <2> HIDE DEF r
  <2> QED BY <1>7, <1>8
<1> HIDE DEF r
<1>12. Decent(v, h) => r \in Seq(Priced)
  BY <1>9, <1>10
<1> QED BY <1>2, <1>8, <1>9, <1>11, <1>12 DEF a

-----------------------------------------------------------------------------
(* One fill *)

LEMMA Averaged ==
    ASSUME NEW p \in [size : Nat, entry : Nat], (p.size = 0) = (p.entry = 0),
           NEW q \in Nat, q > 0, NEW price \in Nat, price > 0
    PROVE  LET n == Added(p, q, price)
               r == Remainder(p, q, price)
           IN  /\ n \in [size : Nat, entry : Nat] /\ n.size > 0 /\ n.entry > 0 /\ n.size = p.size + q
               /\ r \in Nat /\ n.size * n.entry = p.size * p.entry + q * price - r
<1> DEFINE d == p.size + q
           c == p.size * p.entry + q * price
           e == c \div d
           r == c % d
<1>1. p.size \in Nat /\ p.entry \in Nat
  OBVIOUS
<1>2. d \in Nat /\ d > 0
  BY <1>1
<1>3. c \in Nat /\ c >= d
  <2>1. p.size * p.entry \in Nat /\ q * price \in Nat
    BY <1>1
  <2>2. p.size * p.entry >= p.size
    <3>1. CASE p.size = 0
      BY <1>1, <3>1
    <3>2. CASE p.size # 0
      <4>1. p.entry >= 1
        BY <1>1, <3>2
      <4> QED BY <1>1, <4>1
    <3> QED BY <3>1, <3>2
  <2>3. q * price >= q
    OBVIOUS
  <2> QED BY <1>1, <2>1, <2>2, <2>3
<1>4. Added(p, q, price) = [size |-> d, entry |-> e] /\ Remainder(p, q, price) = r
  BY DEF Added, Remainder
<1>5. e \in Nat /\ r \in Nat /\ c = d * e + r /\ r < d
  <2> HIDE DEF c, d
  <2> QED BY <1>2, <1>3
<1>6. c = p.size * p.entry + q * price
  OBVIOUS
<1>7. e > 0
  <2> SUFFICES ASSUME e = 0 PROVE FALSE
    BY <1>5
  <2> HIDE DEF c, d, r, e
  <2>1. d * e = 0
    BY <1>2
  <2> QED BY <1>2, <1>3, <1>5, <2>1
<1>9. d = p.size + q
  OBVIOUS
<1> HIDE DEF c, d, e, r
<1>8. d * e = c - r
  BY <1>2, <1>3, <1>5
<1> QED BY <1>2, <1>4, <1>5, <1>6, <1>7, <1>8, <1>9

LEMMA Lessened ==
    ASSUME NEW p \in [size : Nat, entry : Nat], (p.size = 0) = (p.entry = 0), NEW q \in Nat
    PROVE  LET n == Reduced(p, q)
               m == Min({q, p.size})
           IN  /\ n \in [size : Nat, entry : Nat] /\ (n.size = 0) = (n.entry = 0)
               /\ m \in {q, p.size} /\ n.size = p.size - m
               /\ n.entry = p.entry \/ (n.size = 0 /\ n.entry = 0)
<1> DEFINE m == Min({q, p.size})
<1>1. p.size \in Nat /\ p.entry \in Nat
  OBVIOUS
<1>2. m \in {q, p.size} /\ m <= q /\ m <= p.size
  <2>1. q \in Int /\ p.size \in Int
    BY <1>1
  <2> QED BY <2>1, MinTwo
<1> HIDE DEF m
<1>3. CASE p.size <= q
  <2>1. Reduced(p, q) = [size |-> 0, entry |-> 0] /\ m = p.size
    BY <1>1, <1>2, <1>3 DEF Reduced, Flat
  <2> QED BY <1>1, <2>1 DEF m
<1>4. CASE ~(p.size <= q)
  <2>1. Reduced(p, q) = [p EXCEPT !.size = p.size - q] /\ m = q
    BY <1>1, <1>2, <1>4 DEF Reduced
  <2>2. [p EXCEPT !.size = p.size - q] = [size |-> p.size - q, entry |-> p.entry]
    OBVIOUS
  <2>3. p.size - q \in Nat /\ p.size - q # 0 /\ p.size # 0
    BY <1>1, <1>4
  <2> QED BY <1>1, <2>1, <2>2, <2>3 DEF m
<1> QED BY <1>3, <1>4

\* The order that fills, and what it fills with.
LEMMA FillFacts ==
    ASSUME RunTypeOK, Fill
    PROVE  LET o == Head(pending)
               f == FillOf(o)
               k == <<Sym, o.side, Bucket(o.src)>>
           IN  /\ o \in Order /\ (o.reduce \/ o.price > 0) /\ o.sym = Sym /\ o.side \in Sides /\ o.src \in Sources
               /\ pending \in Seq(Order) /\ pending # <<>> /\ Tail(pending) \in Seq(Order)
               /\ k \in Keys /\ k[1] = Sym /\ k[2] = o.side /\ k[3] = Bucket(o.src) /\ k[3] \in Buckets
               /\ pos[k] \in [size : Nat, entry : Nat] /\ (pos[k].size = 0) = (pos[k].entry = 0)
               /\ f.qty \in Nat /\ f.qty > 0 /\ f.qty <= o.qty /\ f.qty % QtyStep = 0
               /\ f.price \in Int /\ f.fee \in Int
               /\ f.src = o.src /\ f.pnl \in Int /\ f.moved \in Nat
               /\ ~o.reduce => f.price > 0 /\ f.moved = f.qty /\ f.pnl = 0
               /\ o.reduce => /\ f.moved = Min({f.qty, pos[k].size}) /\ pos[k].size > 0
                              /\ f.pnl = Sign(o.side) * f.moved * (f.price - pos[k].entry) * CMult[Sym]
<1> DEFINE o == Head(pending)
           f == FillOf(o)
           k == <<Sym, o.side, Bucket(o.src)>>
           p == pos[k]
           q == Quantized(o.qty)
           price == FillPrice(o)
           moved == IF o.reduce THEN Min({q, p.size}) ELSE q
           fee == PercentOf(IF o.market THEN TakerFee ELSE MakerFee, q * price * CMult[Sym])
           pnl == IF o.reduce THEN Sign(o.side) * moved * (price - p.entry) * CMult[Sym] ELSE 0
<1>1. /\ pending # <<>> /\ Fills(o)
      /\ pending \in Seq(Order) /\ pos \in [Keys -> [size : Nat, entry : Nat]]
      /\ \A j \in Keys : (pos[j].size = 0) = (pos[j].entry = 0)
  BY DEF Fill, RunTypeOK
<1>2. o \in Order /\ Tail(pending) \in Seq(Order)
  BY <1>1, HeadTailProperties
<1> HIDE DEF o
<1>3. /\ o.sym = Sym /\ o.side \in Sides /\ o.src \in Sources /\ o.qty \in Nat /\ o.price \in Int
      /\ o.reduce \in BOOLEAN /\ o.market \in BOOLEAN
  BY <1>2, SymListed DEF Order
<1>4. k \in Keys /\ Bucket(o.src) \in Buckets
  BY <1>3, SymListed DEF Keys, Bucket, Buckets
<1>5. p \in [size : Nat, entry : Nat] /\ (p.size = 0) = (p.entry = 0)
  BY <1>1, <1>4
<1>6. Sendable(o) /\ (o.reduce => IsOpen(p))
  BY <1>1 DEF Fills
<1>7. q \in Nat /\ q > 0 /\ q <= o.qty /\ q % QtyStep = 0 /\ o.price > 0
  <2>1. q \in Int /\ q <= o.qty
    BY <1>3, Quantum
  <2>2. q >= MinQty /\ q * o.price * CMult[Sym] >= MinCost
    BY <1>3, <1>6 DEF Sendable
  <2>3. q \in Nat /\ q > 0 /\ q <= o.qty
    BY <1>3, <2>1, <2>2, Numbers
  <2>4. q % QtyStep = 0
    BY <1>3, WholeLots
  <2> HIDE DEF q
  <2>5. o.price > 0
    <3> SUFFICES ASSUME o.price <= 0 PROVE FALSE
      BY <1>3
    <3>1. MinCost \in Nat /\ MinCost > 0 /\ CMult[Sym] \in Nat
      BY CostsSomething, LotsPositive, SymListed, Numbers
    <3>2. q * o.price <= 0 /\ q * o.price \in Int
      BY <1>3, <2>3
    <3>3. q * o.price * CMult[Sym] <= 0
      BY <3>1, <3>2
    <3> QED BY <2>2, <3>1, <3>2, <3>3
  <2> QED BY <2>3, <2>4, <2>5
<1>8. price \in Int /\ (~o.reduce => price > 0)
  <2> DEFINE c == candle.close
  <2>1. c \in Nat /\ c > 0 /\ Slippage \in Nat /\ PercentOf(100 - Slippage, c) > 0
    BY CandleFacts, Rates DEF RunTypeOK
  <2> HIDE DEF c
  <2>2. (100 + Slippage) * c \in Int /\ (100 - Slippage) * c \in Int /\ (100 + Slippage) * c >= 100 * c
    BY <2>1
  <2>3. PercentOf(100 + Slippage, c) \in Int /\ PercentOf(100 - Slippage, c) \in Int
    BY <2>2 DEF PercentOf
  <2>4. PercentOf(100 + Slippage, c) > 0
    BY <2>1, <2>2 DEF PercentOf
  <2>5. 100 + -Slippage = 100 - Slippage
    BY <2>1
  <2>6. price = IF o.market THEN PercentOf(100 + (IF Buys(o) THEN Slippage ELSE -Slippage), c) ELSE o.price
    BY DEF FillPrice, c
  <2> HIDE DEF price
  <2>7. PercentOf(100 + (IF Buys(o) THEN Slippage ELSE -Slippage), c) =
            IF Buys(o) THEN PercentOf(100 + Slippage, c) ELSE PercentOf(100 - Slippage, c)
    BY <2>5
  <2> QED BY <1>3, <1>7, <2>1, <2>3, <2>4, <2>6, <2>7
<1>9. f = [src |-> o.src, side |-> o.side, reduce |-> o.reduce, qty |-> q, price |-> price,
           moved |-> moved, fee |-> fee, pnl |-> pnl]
  BY DEF FillOf
<1>10. CMult[Sym] \in Int
  BY SymListed, Numbers
<1> HIDE DEF f, p, q, price
<1>11. fee \in Int
  <2>1. q * price * CMult[Sym] \in Int
    BY <1>7, <1>8, <1>10
  <2>2. (IF o.market THEN TakerFee ELSE MakerFee) \in Nat
    BY Rates
  <2> QED BY <2>1, <2>2, Percent
<1> HIDE DEF fee
<1>12. p.size \in Nat /\ p.entry \in Nat
  BY <1>5
<1>13. moved \in Nat
  <2>2. q \in Int /\ p.size \in Int
    BY <1>7, <1>12
  <2>1. Min({q, p.size}) \in {q, p.size}
    BY <2>2, MinTwo
  <2> QED BY <1>7, <1>12, <2>1
<1>14. pnl \in Int
  <2>1. Sign(o.side) \in Int
    BY DEF Sign
  <2> HIDE DEF moved
  <2>2. Sign(o.side) * moved * (price - p.entry) * CMult[Sym] \in Int
    BY <1>8, <1>10, <1>12, <1>13, <2>1
  <2> QED BY <2>2
<1>15. o.reduce => p.size > 0
  BY <1>6 DEF IsOpen
<1>16. /\ f.qty = q /\ f.price = price /\ f.fee = fee /\ f.src = o.src /\ f.pnl = pnl /\ f.moved = moved
       /\ ~o.reduce => moved = q /\ pnl = 0
       /\ o.reduce => moved = Min({q, p.size})
                      /\ pnl = Sign(o.side) * moved * (price - p.entry) * CMult[Sym]
  <2> HIDE DEF fee
  <2> QED BY <1>9
<1> HIDE DEF moved, pnl
<1>17. /\ f.qty \in Nat /\ f.qty > 0 /\ f.qty <= o.qty /\ f.qty % QtyStep = 0
       /\ f.price \in Int /\ f.fee \in Int
       /\ f.src = o.src /\ f.pnl \in Int /\ f.moved \in Nat
       /\ ~o.reduce => f.price > 0 /\ f.moved = f.qty /\ f.pnl = 0
       /\ o.reduce => /\ f.moved = Min({f.qty, p.size}) /\ p.size > 0
                      /\ f.pnl = Sign(o.side) * f.moved * (f.price - p.entry) * CMult[Sym]
  BY <1>7, <1>8, <1>11, <1>13, <1>14, <1>15, <1>16
<1> QED BY <1>1, <1>2, <1>3, <1>4, <1>5, <1>7, <1>17 DEF o, f, k, p

-----------------------------------------------------------------------------
(* Types *)

\* Sorting the closes to the front adds nothing, when the entries have prices.
LEMMA ClosesFirstFacts ==
    ASSUME NEW T \in SUBSET Order, NEW s \in Seq(T)
    PROVE  /\ ClosesFirst(s) \in Seq(T)
           /\ T \subseteq Priced =>
                 \A g \in Gauges : SumOf(GaugeCost(g), ClosesFirst(s)) <= SumOf(GaugeCost(g), s)
<1> DEFINE closes == {o \in Range(s) : o.reduce}
           c == Kept(s, closes)
           e == Kept(s, Range(s) \ closes)
<1>1. ClosesFirst(s) = c \o e
  BY DEF ClosesFirst
<1>2. c \in Seq(T) /\ e \in Seq(T) /\ \A i \in DOMAIN c : c[i] \in closes
  <2> HIDE DEF closes
  <2> QED BY KeptFacts
<1>3. \A i \in DOMAIN c : c[i].reduce
  BY <1>2
<1>5. ASSUME T \subseteq Priced, NEW g \in Gauges PROVE SumOf(GaugeCost(g), e) <= SumOf(GaugeCost(g), s)
  <2> DEFINE F == GaugeCost(g)
  <2>1. F \in [Order -> Int] /\ T \in SUBSET Order /\ \A o \in T : F[o] >= 0
    BY <1>5, GaugeFacts
  <2> HIDE DEF F
  <2>2. SumOf(F, e) <= SumOf(F, s)
    BY <2>1, SumOver
  <2> QED BY <2>2 DEF F
<1> HIDE DEF c, e, closes
<1>6. c \in Seq(Exits)
  <2>1. Len(c) \in Nat /\ DOMAIN c = 1 .. Len(c) /\ \A i \in 1 .. Len(c) : c[i] \in T
    BY <1>2, LenProperties, ElementOfSeq
  <2>2. \A i \in 1 .. Len(c) : c[i] \in Exits
    BY <1>3, <2>1 DEF Exits
  <2>3. c = [i \in 1 .. Len(c) |-> c[i]]
    BY <1>2, LenProperties
  <2> QED BY <2>1, <2>2, <2>3
<1>7. c \in Seq(Order) /\ e \in Seq(Order)
  BY <1>2
<1>8. ASSUME T \subseteq Priced, NEW g \in Gauges PROVE SumOf(GaugeCost(g), c \o e) <= SumOf(GaugeCost(g), s)
  <2> DEFINE F == GaugeCost(g)
  <2>1. F \in [Order -> Int] /\ SumOf(F, c) = 0
    BY <1>6, GaugeFacts
  <2>2. SumOf(F, e) <= SumOf(F, s)
    BY <1>5, <1>8
  <2> HIDE DEF F
  <2>3. SumOf(F, c \o e) = SumOf(F, c) + SumOf(F, e) /\ SumOf(F, e) \in Int
    BY <1>7, <2>1, SumConcat, SumFacts
  <2>4. SumOf(F, c \o e) <= SumOf(F, s)
    BY <2>1, <2>2, <2>3
  <2> QED BY <2>4 DEF F
<1>9. c \o e \in Seq(T)
  BY <1>2, ConcatProperties
<1> QED BY <1>1, <1>8, <1>9

Trails == {t \in [on : BOOLEAN, extreme : Nat, recovery : Nat] :
              t.on => t.extreme > 0 /\ t.recovery > 0}

LEMMA TrailedTyped ==
    ASSUME NEW t \in Trails, NEW side \in Sides, NEW c \in Candles
    PROVE  Trailed(t, side, c) \in Trails
<1> DEFINE deeper == IF side = "LONG" THEN c.low < t.extreme ELSE c.high > t.extreme
           end == IF side = "LONG" THEN c.low ELSE c.high
           back == IF side = "LONG" THEN Max({t.recovery, c.high}) ELSE Min({t.recovery, c.low})
<1>1. /\ c.low \in Int /\ c.low > 0 /\ c.high \in Int /\ c.high > 0
      /\ t \in [on : BOOLEAN, extreme : Nat, recovery : Nat] /\ t.recovery \in Int
      /\ t.on => t.extreme > 0 /\ t.recovery > 0
  BY CandleFacts DEF Trails
<1>2. Trailed(t, side, c) = IF ~t.on THEN t
                            ELSE IF deeper THEN [t EXCEPT !.extreme = end, !.recovery = end]
                            ELSE [t EXCEPT !.recovery = back]
  BY Zenon DEF Trailed
<1>3. end \in Nat /\ end > 0
  BY <1>1
<1>4. t.on => back \in Nat /\ back > 0
  <2>1. Max({t.recovery, c.high}) \in {t.recovery, c.high}
    BY <1>1, MaxOf
  <2>2. Min({t.recovery, c.low}) \in {t.recovery, c.low}
    BY <1>1, MinTwo
  <2> QED BY <1>1, <2>1, <2>2
<1> HIDE DEF deeper, end, back
<1>5. [t EXCEPT !.extreme = end, !.recovery = end] \in Trails
  BY <1>1, <1>3 DEF Trails
<1>6. t.on => [t EXCEPT !.recovery = back] \in Trails
  BY <1>1, <1>4 DEF Trails
<1> QED BY <1>2, <1>5, <1>6

LEMMA TrailsTyped ==
    /\ trail \in [Sides -> Trails] <=>
          /\ trail \in [Sides -> [on : BOOLEAN, extreme : Nat, recovery : Nat]]
          /\ \A d \in Sides : trail[d].on => trail[d].extreme > 0 /\ trail[d].recovery > 0
    /\ trail' \in [Sides -> Trails] <=>
          /\ trail' \in [Sides -> [on : BOOLEAN, extreme : Nat, recovery : Nat]]
          /\ \A d \in Sides : trail'[d].on => trail'[d].extreme > 0 /\ trail'[d].recovery > 0
BY DEF Trails

LEMMA TypesInit == RunInit => RunTypeOK
<1> SUFFICES ASSUME RunInit PROVE RunTypeOK
  OBVIOUS
<1>1. candle \in Candles /\ candle.close \in Nat \ {0}
  BY CandleFacts DEF RunInit
<1>2. bar \in 0 .. MaxBars /\ stage \in Stages /\ (stage # "over" => bar < MaxBars)
  BY Rates DEF RunInit, Stages
<1>3. ema \in [fast : Nat \ {0}, slow : Nat \ {0}]
  BY <1>1 DEF RunInit
<1>4. /\ pos \in [Keys -> [size : Nat, entry : Nat]]
      /\ \A k \in Keys : (pos[k].size = 0) = (pos[k].entry = 0) /\ pos[k].size % QtyStep = 0
  <2>1. 0 % QtyStep = 0
    BY LotsPositive
  <2> QED BY <2>1 DEF RunInit, Flat
<1>5. /\ trail \in [Sides -> [on : BOOLEAN, extreme : Nat, recovery : Nat]]
      /\ \A d \in Sides : trail[d].on => trail[d].extreme > 0 /\ trail[d].recovery > 0
  BY DEF RunInit, NotTrailing
<1>6. /\ {balance, equity, peak, funded, cash, rounded} \subseteq Int
      /\ {charged, coolUntil, overpaid} \subseteq Nat
  BY Rates DEF RunInit
<1>7. realized \in [Buckets -> Int] /\ sourcePeak \in [Buckets -> Nat]
  BY DEF RunInit
<1>8. losses \in [Buckets -> [0 .. MaxBars -> Nat]]
  BY DEF RunInit, NoLosses
<1>9. samples \in Seq(Int) /\ Len(samples) <= KellyWindow
  BY Figures DEF RunInit
<1>10. pending \in Seq(Order)
  BY DEF RunInit
<1>11. ceiling \in [{"total"} \cup Sides -> Int] /\ priced \in BOOLEAN
  BY DEF RunInit
<1> QED BY <1>1, <1>2, <1>3, <1>4, <1>5, <1>6, <1>7, <1>8, <1>9, <1>10, <1>11 DEF RunTypeOK

LEMMA TypesMark ==
    ASSUME RunTypeOK, NEW c \in Candles, Mark(c)
    PROVE  RunTypeOK'
<1>1. /\ stage = "mark" /\ stage' = "fill" /\ overpaid' = 0 /\ pending' = ClosesFirst(pending)
      /\ candle' = c
      /\ trail' = [d \in Sides |-> IF IsOpen(pos[<<Sym, d, "GRID">>])
                                   THEN Trailed(trail[d], d, c) ELSE trail[d]]
      /\ ema' = IF bar = 0 THEN ema ELSE [fast |-> c.close, slow |-> (c.close + ema.slow) \div 2]
      /\ UNCHANGED <<bar, pos, balance, realized, losses, samples, marks, coolUntil,
                     cash, ceiling, priced, rounded>>
  BY DEF Mark, PricesUpdated, EmasUpdated
<1>2. bar' \in 0 .. MaxBars /\ stage' \in Stages /\ (stage' # "over" => bar' < MaxBars)
  BY <1>1 DEF RunTypeOK, Stages
<1>3. candle' \in Candles /\ ema' \in [fast : Nat \ {0}, slow : Nat \ {0}]
  <2>1. ema \in [fast : Nat \ {0}, slow : Nat \ {0}]
    BY DEF RunTypeOK
  <2>2. c.close \in Nat /\ c.close > 0 /\ ema.slow \in Nat /\ ema.slow > 0
    BY <2>1, CandleFacts
  <2>3. (c.close + ema.slow) \div 2 \in Nat \ {0} /\ c.close \in Nat \ {0}
    BY <2>2
  <2> QED BY <1>1, <2>1, <2>3
<1>4. /\ trail' \in [Sides -> [on : BOOLEAN, extreme : Nat, recovery : Nat]]
      /\ \A d \in Sides : trail'[d].on => trail'[d].extreme > 0 /\ trail'[d].recovery > 0
  <2>1. trail \in [Sides -> Trails]
    BY TrailsTyped DEF RunTypeOK
  <2>2. \A d \in Sides : Trailed(trail[d], d, c) \in Trails
    BY <2>1, TrailedTyped
  <2>3. trail' \in [Sides -> Trails]
    BY <1>1, <2>1, <2>2
  <2> QED BY <2>3, TrailsTyped
<1>5. pending' \in Seq(Order)
  <2>1. pending \in Seq(Order)
    BY DEF RunTypeOK
  <2> QED BY <1>1, <2>1, ClosesFirstFacts
<1>6. /\ {balance', equity', peak', funded', cash', rounded'} \subseteq Int
      /\ {charged', coolUntil', overpaid'} \subseteq Nat
  BY <1>1 DEF RunTypeOK, marks
<1>7. /\ pos' \in [Keys -> [size : Nat, entry : Nat]]
      /\ \A k \in Keys : (pos'[k].size = 0) = (pos'[k].entry = 0) /\ pos'[k].size % QtyStep = 0
      /\ realized' \in [Buckets -> Int] /\ sourcePeak' \in [Buckets -> Nat]
      /\ losses' \in [Buckets -> [0 .. MaxBars -> Nat]]
      /\ samples' \in Seq(Int) /\ Len(samples') <= KellyWindow
      /\ ceiling' \in [{"total"} \cup Sides -> Int] /\ priced' \in BOOLEAN
  BY <1>1 DEF RunTypeOK, marks
<1> QED BY <1>2, <1>3, <1>4, <1>5, <1>6, <1>7 DEF RunTypeOK

LEMMA TypesExpire ==
    ASSUME RunTypeOK, Expire
    PROVE  RunTypeOK'
<1>1. /\ pending # <<>> /\ pending' = Tail(pending)
      /\ UNCHANGED <<market, account, marks, coolUntil, history>>
  BY DEF Expire
<1>2. pending' \in Seq(Order)
  <2>1. pending \in Seq(Order)
    BY DEF RunTypeOK
  <2> QED BY <1>1, <2>1, HeadTailProperties
<1> QED BY <1>1, <1>2 DEF RunTypeOK, market, account, marks, history

LEMMA RecordedTyped ==
    ASSUME NEW s \in Seq(Int), Len(s) <= KellyWindow, NEW f,
           f.pnl \in Int, f.fee \in Int, f.qty \in Int, f.price \in Int
    PROVE  Recorded(s, f) \in Seq(Int) /\ Len(Recorded(s, f)) <= KellyWindow
<1> DEFINE net == f.pnl - f.fee
           notional == Notional(f)
           all == Append(s, (1000 * net) \div notional)
           from == Max({1, Len(all) - KellyWindow + 1})
           stays == net = 0 \/ notional <= 0 \/ f.src # "TREND"
<1>1. Recorded(s, f) = IF stays THEN s ELSE SubSeq(all, from, Len(all))
  BY DEF Recorded
<1>2. net \in Int /\ notional \in Int /\ KellyWindow \in Nat /\ KellyWindow > 0
  <2>1. f.qty * f.price \in Int
    OBVIOUS
  <2>2. notional \in Int
    BY <2>1 DEF Notional, AtLeastZero
  <2> QED BY <2>2, Figures
<1>3. ASSUME ~stays PROVE /\ SubSeq(all, from, Len(all)) \in Seq(Int)
                          /\ Len(SubSeq(all, from, Len(all))) <= KellyWindow
  <2>1. notional > 0
    BY <1>2, <1>3
  <2> HIDE DEF net, notional
  <2>2. (1000 * net) \div notional \in Int
    BY <1>2, <2>1
  <2>3. all \in Seq(Int) /\ Len(all) = Len(s) + 1 /\ Len(s) \in Nat
    BY <2>2, AppendProperties, LenProperties
  <2> HIDE DEF all
  <2>4. Len(all) \in Nat /\ Len(all) > 0
    BY <2>3
  <2>5. 1 \in Int /\ Len(all) - KellyWindow + 1 \in Int
    BY <1>2, <2>4
  <2>6. /\ from \in {1, Len(all) - KellyWindow + 1}
        /\ from >= 1 /\ from >= Len(all) - KellyWindow + 1
    BY <2>5, MaxOf
  <2> HIDE DEF from
  <2>7. from \in 1 .. Len(all) + 1
    BY <1>2, <2>4, <2>6
  <2>8. /\ SubSeq(all, from, Len(all)) \in Seq(Int)
        /\ Len(SubSeq(all, from, Len(all))) =
              IF from <= Len(all) THEN Len(all) - from + 1 ELSE 0
    <3>1. \A i \in from .. Len(all) : i \in 1 .. Len(all)
      BY <2>4, <2>7
    <3>2. \A i \in from .. Len(all) : all[i] \in Int
      BY <2>3, <3>1, ElementOfSeq
    <3>3. from \in Int /\ Len(all) \in Int
      BY <2>4, <2>7
    <3> QED BY <2>3, <2>4, <2>7, <3>2, SubSeqProperties
  <2> QED BY <1>2, <2>4, <2>6, <2>7, <2>8
<1> HIDE DEF stays, all, from
<1>4. CASE stays
  <2>1. Recorded(s, f) = s
    BY <1>1, <1>4
  <2> QED BY <2>1
<1>5. CASE ~stays
  <2>1. Recorded(s, f) = SubSeq(all, from, Len(all))
    BY <1>1, <1>5
  <2> QED BY <1>3, <1>5, <2>1
<1> QED BY <1>4, <1>5

\* What the bucket of the order becomes.
LEMMA Moved ==
    ASSUME RunTypeOK, Fill
    PROVE  LET o == Head(pending)
               f == FillOf(o)
               k == <<Sym, o.side, Bucket(o.src)>>
           IN  /\ \A j \in Keys : j # k => pos'[j] = pos[j]
               /\ pos'[k] \in [size : Nat, entry : Nat] /\ (pos'[k].size = 0) = (pos'[k].entry = 0)
               /\ pos'[k].size % QtyStep = 0
               /\ pos' \in [Keys -> [size : Nat, entry : Nat]]
               /\ ~o.reduce => /\ Remainder(pos[k], f.qty, f.price) \in Nat
                               /\ pos'[k].size * pos'[k].entry =
                                     pos[k].size * pos[k].entry + f.qty * f.price
                                        - Remainder(pos[k], f.qty, f.price)
               /\ o.reduce => /\ pos'[k].size = pos[k].size - f.moved
                              /\ pos'[k].entry = pos[k].entry
                                    \/ (pos'[k].size = 0 /\ pos'[k].entry = 0)
<1> DEFINE o == Head(pending)
           f == FillOf(o)
           k == <<Sym, o.side, Bucket(o.src)>>
           p == pos[k]
           added == Added(p, f.qty, f.price)
           remains == Reduced(p, f.qty)
           n == IF o.reduce THEN remains ELSE added
<1>1. /\ k \in Keys /\ p \in [size : Nat, entry : Nat] /\ (p.size = 0) = (p.entry = 0)
      /\ f.qty \in Nat /\ f.qty > 0 /\ f.qty % QtyStep = 0 /\ f.price \in Int
      /\ ~o.reduce => f.price > 0
      /\ o.reduce => f.moved = Min({f.qty, p.size})
  BY FillFacts, Zenon
<1>2. pos' = [pos EXCEPT ![k] = n] /\ pos \in [Keys -> [size : Nat, entry : Nat]]
  BY DEF Fill, RunTypeOK
<1>10. p.size % QtyStep = 0
  <2>1. \A j \in Keys : pos[j].size % QtyStep = 0
    BY DEF RunTypeOK
  <2>2. k \in Keys
    BY <1>1
  <2> HIDE DEF k
  <2> QED BY <2>1, <2>2
<1> HIDE DEF o, f, k, p, added, remains
<1>3. ~o.reduce => LET r == Remainder(p, f.qty, f.price)
                   IN  /\ added \in [size : Nat, entry : Nat] /\ added.size > 0 /\ added.entry > 0
                       /\ r \in Nat /\ added.size = p.size + f.qty
                       /\ added.size * added.entry = p.size * p.entry + f.qty * f.price - r
  <2> SUFFICES ASSUME ~o.reduce
               PROVE  LET r == Remainder(p, f.qty, f.price)
                      IN  /\ added \in [size : Nat, entry : Nat] /\ added.size > 0 /\ added.entry > 0
                          /\ r \in Nat /\ added.size = p.size + f.qty
                          /\ added.size * added.entry = p.size * p.entry + f.qty * f.price - r
    OBVIOUS
  <2>1. f.price \in Nat /\ f.price > 0
    BY <1>1
  <2> QED BY <1>1, <2>1, Averaged DEF added
<1>4. /\ remains \in [size : Nat, entry : Nat] /\ (remains.size = 0) = (remains.entry = 0)
      /\ Min({f.qty, p.size}) \in {f.qty, p.size} /\ remains.size = p.size - Min({f.qty, p.size})
      /\ remains.entry = p.entry \/ (remains.size = 0 /\ remains.entry = 0)
  BY <1>1, Lessened DEF remains
<1>5. n \in [size : Nat, entry : Nat] /\ (n.size = 0) = (n.entry = 0)
  BY <1>3, <1>4
<1>11. n.size % QtyStep = 0
  <2>1. p.size \in Int /\ f.qty \in Int
    BY <1>1
  <2>2. (p.size + f.qty) % QtyStep = 0 /\ (p.size - f.qty) % QtyStep = 0 /\ (p.size - p.size) % QtyStep = 0
    BY <1>1, <1>10, <2>1, WholeLots
  <2>3. remains.size \in {p.size - f.qty, p.size - p.size}
    BY <1>4
  <2>4. remains.size % QtyStep = 0
    BY <2>2, <2>3
  <2>5. ~o.reduce => added.size % QtyStep = 0
    BY <1>3, <2>2
  <2> QED BY <2>4, <2>5
<1>6. pos'[k] = n /\ \A j \in Keys : j # k => pos'[j] = pos[j]
  BY <1>1, <1>2
<1>7. pos' \in [Keys -> [size : Nat, entry : Nat]]
  <2> HIDE DEF n
  <2> QED BY <1>2, <1>5
<1>8. ~o.reduce => /\ Remainder(p, f.qty, f.price) \in Nat
                   /\ pos'[k].size * pos'[k].entry = p.size * p.entry + f.qty * f.price
                                                       - Remainder(p, f.qty, f.price)
  BY <1>3, <1>6
<1>9. o.reduce => /\ pos'[k].size = p.size - f.moved
                  /\ pos'[k].entry = p.entry \/ (pos'[k].size = 0 /\ pos'[k].entry = 0)
  BY <1>1, <1>4, <1>6
<1> HIDE DEF n
<1> QED BY <1>5, <1>6, <1>7, <1>8, <1>9, <1>11 DEF o, f, k, p

LEMMA TypesFill ==
    ASSUME RunTypeOK, Fill
    PROVE  RunTypeOK'
<1> DEFINE o == Head(pending)
           f == FillOf(o)
           k == <<Sym, o.side, Bucket(o.src)>>
           net == f.pnl - f.fee
           r == Remainder(pos[k], f.qty, f.price)
<1>1. /\ stage = "fill" /\ pending # <<>> /\ pending' = Tail(pending)
      /\ trail' = IF ~o.reduce /\ k[3] = "GRID" /\ ~IsOpen(pos[k])
                  THEN [trail EXCEPT ![o.side] = TrailFrom(f.price)] ELSE trail
      /\ balance' = balance + net
      /\ realized' = [realized EXCEPT ![k[3]] = @ + net]
      /\ losses' = [losses EXCEPT ![k[3]][bar] = @ + AtLeastZero(-net)]
      /\ samples' = Recorded(samples, f)
      /\ cash' = cash - f.fee + (IF Buys(o) THEN -1 ELSE 1) * f.moved * f.price * CMult[Sym]
      /\ overpaid' = overpaid
            + (IF o.reduce THEN 0 ELSE AtLeastZero(f.price - o.price) * f.moved * CMult[Sym])
      /\ rounded' = rounded + (IF o.reduce THEN 0 ELSE Sign(o.side) * r * CMult[Sym])
      /\ UNCHANGED <<market, marks, coolUntil, ceiling, priced>>
  BY Zenon DEF Fill
<1>2. /\ o \in Order /\ o.side \in Sides /\ k[3] \in Buckets /\ k[2] = o.side
      /\ f.price \in Int /\ f.fee \in Int /\ f.pnl \in Int /\ f.qty \in Nat /\ f.moved \in Nat
      /\ ~o.reduce => f.price > 0
  BY FillFacts, Zenon
<1>3. /\ pos' \in [Keys -> [size : Nat, entry : Nat]]
      /\ pos'[k] \in [size : Nat, entry : Nat] /\ (pos'[k].size = 0) = (pos'[k].entry = 0)
      /\ pos'[k].size % QtyStep = 0
      /\ \A j \in Keys : j # k => pos'[j] = pos[j]
      /\ ~o.reduce => r \in Nat
  BY Moved, Zenon
<1>4. \A j \in Keys : (pos'[j].size = 0) = (pos'[j].entry = 0) /\ pos'[j].size % QtyStep = 0
  <2>1. \A j \in Keys : (pos[j].size = 0) = (pos[j].entry = 0) /\ pos[j].size % QtyStep = 0
    BY DEF RunTypeOK
  <2> HIDE DEF k
  <2> QED BY <1>3, <2>1
<1>5. o.price \in Int /\ CMult[Sym] \in Nat
  BY <1>2, SymListed, Numbers DEF Order
<1> HIDE DEF o, f, k, r
<1>6. net \in Int
  BY <1>2
<1> HIDE DEF net
<1>7. pending' \in Seq(Order)
  <2>1. pending \in Seq(Order)
    BY DEF RunTypeOK
  <2> QED BY <1>1, <2>1, HeadTailProperties
<1>8. /\ trail' \in [Sides -> [on : BOOLEAN, extreme : Nat, recovery : Nat]]
      /\ \A d \in Sides : trail'[d].on => trail'[d].extreme > 0 /\ trail'[d].recovery > 0
  <2>1. trail \in [Sides -> Trails]
    BY TrailsTyped DEF RunTypeOK
  <2>2. ~o.reduce => TrailFrom(f.price) \in Trails
    BY <1>2 DEF TrailFrom, Trails
  <2>3. trail' \in [Sides -> Trails]
    BY <1>1, <1>2, <2>1, <2>2
  <2> QED BY <2>3, TrailsTyped
<1>9. balance' \in Int /\ cash' \in Int /\ rounded' \in Int
  <2>1. balance \in Int /\ cash \in Int /\ rounded \in Int
    BY DEF RunTypeOK
  <2>2. f.moved * f.price * CMult[Sym] \in Int
    BY <1>2, <1>5
  <2>3. (IF Buys(o) THEN -1 ELSE 1) * f.moved * f.price * CMult[Sym] \in Int
    <3> DEFINE w == IF Buys(o) THEN -1 ELSE 1
    <3>1. w \in Int
      OBVIOUS
    <3> HIDE DEF w
    <3>2. w * f.moved * f.price * CMult[Sym] \in Int
      BY <1>2, <1>5, <3>1
    <3> QED BY <3>2 DEF w
  <2>4. ~o.reduce => Sign(o.side) * r * CMult[Sym] \in Int
    <3>1. Sign(o.side) \in Int
      BY DEF Sign
    <3> QED BY <1>3, <1>5, <3>1
  <2> DEFINE paid == (IF Buys(o) THEN -1 ELSE 1) * f.moved * f.price * CMult[Sym]
             even == Sign(o.side) * r * CMult[Sym]
  <2>5. balance' = balance + net /\ cash' = cash - f.fee + paid
        /\ rounded' = rounded + (IF o.reduce THEN 0 ELSE even)
    BY <1>1, Zenon
  <2> HIDE DEF paid, even
  <2>6. paid \in Int /\ (~o.reduce => even \in Int)
    BY <2>3, <2>4 DEF paid, even
  <2> QED BY <1>2, <1>6, <2>1, <2>5, <2>6
<1>10. overpaid' \in Nat
  <2>1. overpaid \in Nat
    BY DEF RunTypeOK
  <2>2. AtLeastZero(f.price - o.price) \in Nat
    BY <1>2, <1>5 DEF AtLeastZero
  <2>3. AtLeastZero(f.price - o.price) * f.moved * CMult[Sym] \in Nat
    <3>1. AtLeastZero(f.price - o.price) * f.moved \in Nat
      BY <1>2, <2>2
    <3> QED BY <1>5, <3>1
  <2> QED BY <1>1, <2>1, <2>3
<1>11. realized' \in [Buckets -> Int]
  <2>1. realized \in [Buckets -> Int]
    BY DEF RunTypeOK
  <2>2. realized[k[3]] + net \in Int
    BY <1>2, <1>6, <2>1
  <2> QED BY <1>1, <2>1, <2>2
<1>12. losses' \in [Buckets -> [0 .. MaxBars -> Nat]]
  <2>1. losses \in [Buckets -> [0 .. MaxBars -> Nat]] /\ bar \in 0 .. MaxBars
    BY DEF RunTypeOK
  <2>2. AtLeastZero(-net) \in Nat
    BY <1>6 DEF AtLeastZero
  <2>3. losses[k[3]][bar] + AtLeastZero(-net) \in Nat
    <3>1. losses[k[3]][bar] \in Nat
      BY <1>2, <2>1
    <3> QED BY <2>2, <3>1
  <2>4. [losses[k[3]] EXCEPT ![bar] = @ + AtLeastZero(-net)] \in [0 .. MaxBars -> Nat]
    BY <1>2, <2>1, <2>3
  <2>5. losses' = [losses EXCEPT ![k[3]] = [losses[k[3]] EXCEPT ![bar] = @ + AtLeastZero(-net)]]
    BY <1>1, Zenon
  <2> QED BY <2>1, <2>4, <2>5
<1>13. samples' \in Seq(Int) /\ Len(samples') <= KellyWindow
  <2>1. samples \in Seq(Int) /\ Len(samples) <= KellyWindow
    BY DEF RunTypeOK
  <2>2. f.qty \in Int
    BY <1>2
  <2> QED BY <1>1, <1>2, <2>1, <2>2, RecordedTyped
<1>14. /\ bar' \in 0 .. MaxBars /\ stage' \in Stages /\ (stage' # "over" => bar' < MaxBars)
       /\ candle' \in Candles /\ ema' \in [fast : Nat \ {0}, slow : Nat \ {0}]
       /\ {equity', peak', funded'} \subseteq Int /\ {charged', coolUntil'} \subseteq Nat
       /\ sourcePeak' \in [Buckets -> Nat] /\ ceiling' \in [{"total"} \cup Sides -> Int]
       /\ priced' \in BOOLEAN
  BY <1>1 DEF RunTypeOK, market, marks
<1> QED BY <1>3, <1>4, <1>7, <1>8, <1>9, <1>10, <1>11, <1>12, <1>13, <1>14 DEF RunTypeOK

\* The money of a bar: funding, what the positions are worth, what they have not realized.
LEMMA MoneyTyped ==
    ASSUME RunTypeOK
    PROVE  /\ Funding \in Int /\ Charge \in Int /\ Inventory \in Int
           /\ \A b \in Buckets : Unrealized(b) \in Int
<1> DEFINE c == candle.close
           w == CMult[Sym]
           r == candle.funding
           paid == [k \in Keys |-> Sign(k[2]) * ((pos[k].size * c * w * r) \div 1000)]
           worth == [k \in Keys |-> Sign(k[2]) * pos[k].size * c * w]
           open(b) == [k \in Keys |->
              IF k[3] = b THEN Sign(k[2]) * pos[k].size * (c - pos[k].entry) * w ELSE 0]
<1>1. c \in Int /\ w \in Int /\ r \in Int
  <2>1. candle.close \in Nat /\ candle.funding \in Int
    BY CandleFacts DEF RunTypeOK
  <2>2. CMult[Sym] \in Nat
    BY SymListed, Numbers
  <2> QED BY <2>1, <2>2
<1>2. \A k \in Keys : pos[k].size \in Int /\ pos[k].entry \in Int /\ Sign(k[2]) \in Int
  BY DEF RunTypeOK, Sign
<1>3. /\ Funding = AllBuckets(paid) /\ Inventory = AllBuckets(worth)
      /\ \A b : Unrealized(b) = AllBuckets(open(b))
  BY DEF Funding, Inventory, Unrealized
<1> HIDE DEF c, w, r
<1>4. ASSUME NEW k \in Keys
      PROVE  /\ paid[k] \in Int /\ worth[k] \in Int /\ \A b : open(b)[k] \in Int
  <2> DEFINE n == pos[k].size
             e == pos[k].entry
             g == Sign(k[2])
  <2>1. n \in Int /\ e \in Int /\ g \in Int
    BY <1>2
  <2>2. paid[k] = g * ((n * c * w * r) \div 1000) /\ worth[k] = g * n * c * w
        /\ \A b : open(b)[k] = IF k[3] = b THEN g * n * (c - e) * w ELSE 0
    OBVIOUS
  <2> HIDE DEF n, e, g, paid, worth, open
  <2>3. n * c * w * r \in Int /\ g * n * c * w \in Int /\ g * n * (c - e) * w \in Int
    BY <1>1, <2>1
  <2>4. (n * c * w * r) \div 1000 \in Int
    BY <2>3
  <2>5. g * ((n * c * w * r) \div 1000) \in Int
    BY <2>1, <2>4
  <2> QED BY <2>2, <2>3, <2>5
<1> HIDE DEF paid, worth, open
<1>5. Funding \in Int /\ Inventory \in Int
  BY <1>3, <1>4, FourSum
<1>6. \A b \in Buckets : Unrealized(b) \in Int
  <2> SUFFICES ASSUME NEW b \in Buckets PROVE Unrealized(b) \in Int
    OBVIOUS
  <2>1. \A k \in Keys : open(b)[k] \in Int
    BY <1>4
  <2>2. AllBuckets(open(b)) \in Int
    BY <2>1, FourSum
  <2> QED BY <1>3, <2>2
<1> QED BY <1>5, <1>6 DEF Charge

\* What settling a bar does to the account.
LEMMA SettleFacts ==
    ASSUME Settle
    PROVE  /\ stage = "fill" /\ pending = <<>>
           /\ balance' = balance - Charge /\ funded' = funded + Charge /\ cash' = cash - Charge
           /\ charged' = Max({charged, Intervals})
           /\ equity' = balance' + Unrealized("GRID") + Unrealized("TREND")
           /\ peak' = Max({peak, equity'})
           /\ sourcePeak' = [b \in Buckets |-> Max({sourcePeak[b], realized[b] + Unrealized(b)})]
           /\ stage' \in {"over", "decide"}
           /\ UNCHANGED <<bar, candle, ema, pos, trail, realized, losses, samples, coolUntil,
                          pending, ceiling, priced, overpaid, rounded>>
BY DEF Settle

LEMMA TypesSettle ==
    ASSUME RunTypeOK, Settle
    PROVE  RunTypeOK'
<1>1. bar' \in 0 .. MaxBars /\ stage' \in Stages /\ (stage' # "over" => bar' < MaxBars)
  BY SettleFacts DEF RunTypeOK, Stages
<1>2. balance' \in Int /\ funded' \in Int /\ cash' \in Int /\ equity' \in Int
  <2>1. balance \in Int /\ funded \in Int /\ cash \in Int
    BY DEF RunTypeOK
  <2>2. Charge \in Int /\ Unrealized("GRID") \in Int /\ Unrealized("TREND") \in Int
    BY MoneyTyped DEF Buckets
  <2> QED BY <2>1, <2>2, SettleFacts
<1>3. peak' \in Int
  <2>1. peak \in Int /\ peak' = Max({peak, equity'})
    BY SettleFacts DEF RunTypeOK
  <2>2. peak' \in {peak, equity'}
    BY <1>2, <2>1, MaxOf
  <2> QED BY <1>2, <2>1, <2>2
<1>4. charged' \in Nat
  <2>1. Intervals \in Nat
    <3>1. bar \in Nat /\ BarHours \in Nat /\ FundingHours \in Nat /\ FundingHours > 0
      BY Rates DEF RunTypeOK
    <3>2. (bar + 1) * BarHours \in Nat
      BY <3>1
    <3> QED BY <3>1, <3>2 DEF Intervals
  <2>2. charged \in Nat /\ charged' = Max({charged, Intervals})
    BY SettleFacts DEF RunTypeOK
  <2>3. charged \in Int /\ Intervals \in Int
    BY <2>1, <2>2
  <2>4. charged' \in {charged, Intervals}
    BY <2>2, <2>3, MaxOf
  <2> QED BY <2>1, <2>2, <2>4
<1>5. sourcePeak' \in [Buckets -> Nat]
  <2>1. sourcePeak \in [Buckets -> Nat] /\ realized \in [Buckets -> Int]
    BY DEF RunTypeOK
  <2>2. ASSUME NEW b \in Buckets
        PROVE  Max({sourcePeak[b], realized[b] + Unrealized(b)}) \in Nat
    <3> DEFINE x == sourcePeak[b]
               y == realized[b] + Unrealized(b)
    <3>1. x \in Nat /\ x \in Int
      BY <2>1
    <3>2. y \in Int
      BY <2>1, MoneyTyped
    <3> HIDE DEF x, y
    <3>3. Max({x, y}) \in {x, y} /\ Max({x, y}) >= x
      BY <3>1, <3>2, MaxOf
    <3>4. Max({x, y}) \in Nat
      BY <3>1, <3>2, <3>3
    <3> QED BY <3>4 DEF x, y
  <2>3. sourcePeak' = [b \in Buckets |-> Max({sourcePeak[b], realized[b] + Unrealized(b)})]
    BY SettleFacts
  <2> QED BY <2>2, <2>3
<1>6. UNCHANGED <<bar, candle, ema, pos, trail, realized, losses, samples, coolUntil,
                  pending, ceiling, priced, overpaid, rounded>>
  BY SettleFacts
<1> QED BY <1>1, <1>2, <1>3, <1>4, <1>5, <1>6 DEF RunTypeOK

LEMMA TypesDecide ==
    ASSUME RunTypeOK, NEW m \in Moods, Decide(m.view, m.hook)
    PROVE  RunTypeOK'
<1> DEFINE v == m.view
           h == m.hook
<1>1. v \in Views /\ h \in Hooks
  BY MoodsTyped
<1>2. /\ stage = "decide" /\ pending' = Decided(v, h)
      /\ coolUntil' = IF Tier = "RED" THEN bar + CooldownBars ELSE coolUntil
      /\ ceiling' = [k \in {"total"} \cup Sides |->
                        IF k = "total" THEN Max({Exposure(Acct, Keys), TotalCap(Acct)})
                        ELSE Max({Exposure(Acct, SideKeys(Sym, k)), SingleCap(Acct)})]
      /\ priced' \in BOOLEAN
      /\ bar' = bar + 1 /\ stage' = IF bar + 1 = MaxBars THEN "over" ELSE "mark"
      /\ UNCHANGED <<candle, ema, account, marks, cash, overpaid, rounded>>
  BY DEF Decide
<1> HIDE DEF v, h
<1>3. bar' \in 0 .. MaxBars /\ stage' \in Stages /\ (stage' # "over" => bar' < MaxBars)
  <2>1. bar \in 0 .. MaxBars /\ bar < MaxBars
    BY <1>2 DEF RunTypeOK
  <2> QED BY <1>2, <2>1, Rates DEF Stages
<1>4. coolUntil' \in Nat
  BY <1>2, Rates DEF RunTypeOK
<1>5. pending' \in Seq(Order)
  BY <1>1, <1>2, DecidedFits
<1>6. ceiling' \in [{"total"} \cup Sides -> Int]
  <2>1. AccountTyped(Acct)
    BY AcctTyped
  <2>2. TotalCap(Acct) \in Int /\ SingleCap(Acct) \in Int
    BY <2>1, CapsTyped
  <2>3. \A keys : Exposure(Acct, keys) \in Int
    BY <2>1, ExposureTyped
  <2>4. \A x, y \in Int : Max({x, y}) \in Int
    <3> SUFFICES ASSUME NEW x \in Int, NEW y \in Int PROVE Max({x, y}) \in Int
      OBVIOUS
    <3>1. Max({x, y}) \in {x, y}
      BY MaxOf
    <3> QED BY <3>1
  <2> QED BY <1>2, <2>2, <2>3, <2>4
<1> QED BY <1>2, <1>3, <1>4, <1>5, <1>6 DEF RunTypeOK, account, marks

LEMMA TypesStutter ==
    ASSUME RunTypeOK, UNCHANGED runVars
    PROVE  RunTypeOK'
BY DEF RunTypeOK, runVars, market, account, marks, history

LEMMA RunTypesStep == RunTypeOK /\ [RunNext]_runVars => RunTypeOK'
<1> SUFFICES ASSUME RunTypeOK, [RunNext]_runVars
             PROVE  RunTypeOK'
  OBVIOUS
<1>1. ASSUME NEW c \in Candles, Mark(c) PROVE RunTypeOK'
  BY <1>1, TypesMark
<1>2. CASE Fill
  BY <1>2, TypesFill
<1>3. CASE Expire
  BY <1>3, TypesExpire
<1>4. CASE Settle
  BY <1>4, TypesSettle
<1>5. ASSUME NEW m \in Moods, Decide(m.view, m.hook) PROVE RunTypeOK'
  BY <1>5, TypesDecide
<1>6. CASE UNCHANGED runVars
  BY <1>6, TypesStutter
<1> QED BY <1>1, <1>2, <1>3, <1>4, <1>5, <1>6 DEF RunNext

\* Sizes are never negative whatever the fills (backtest.py _reduce_position, 1204-1207)
\* and always whole lots, though a strategy may stake any part of an order, ask for
\* nothing and name any price, and the filter passes parts of a lot on
\* (backtest.py:1085-1107); a bucket has an entry price exactly while it is open.
THEOREM RunTypes == RunSpec => []RunTypeOK
<1>1. RunInit => RunTypeOK
  BY TypesInit
<1>2. RunTypeOK /\ [RunNext]_runVars => RunTypeOK'
  BY RunTypesStep
<1> QED BY <1>1, <1>2, PTL DEF RunSpec

-----------------------------------------------------------------------------
(* The books *)

\* What an entry pays becomes stock, but for what the average price leaves out.
LEMMA EntryMoney ==
    ASSUME NEW g \in {1, -1}, NEW n \in Int, NEW e \in Int, NEW m \in Int, NEW f \in Int,
           NEW q \in Int, NEW price \in Int, NEW r \in Int, NEW c \in Int,
           m * f = n * e + q * price - r
    PROVE  (-g) * q * price * c + (g * m * f * c - g * n * e * c) + g * r * c = 0
<1> DEFINE x == n * e
           y == m * f
           z == q * price
<1>1. x \in Int /\ y \in Int /\ z \in Int /\ y = x + z - r
  OBVIOUS
<1>2. g * m * f * c = g * y * c /\ g * n * e * c = g * x * c /\ (-g) * q * price * c = -(g * z * c)
  OBVIOUS
<1> HIDE DEF x, y, z
<1>3. (z + r) * c = z * c + r * c /\ (x + z - r) * c = x * c + z * c - r * c
  BY <1>1
<1>4. z * c \in Int /\ r * c \in Int /\ x * c \in Int
  BY <1>1
<1>5. y * c = x * c + z * c - r * c
  BY <1>1, <1>3
<1>6. g * y * c = g * (y * c) /\ g * x * c = g * (x * c) /\ g * z * c = g * (z * c)
      /\ g * r * c = g * (r * c)
  BY <1>1
<1>7. CASE g = 1
  BY <1>1, <1>2, <1>4, <1>5, <1>7
<1>8. CASE g = -1
  BY <1>1, <1>2, <1>4, <1>5, <1>8
<1> QED BY <1>7, <1>8

\* What a close pays is the stock it takes, and its result.
LEMMA CloseMoney ==
    ASSUME NEW g \in {1, -1}, NEW n \in Int, NEW e \in Int, NEW m \in Int, NEW price \in Int,
           NEW c \in Int, NEW f \in Int, f = e \/ n - m = 0
    PROVE  g * m * price * c + (g * (n - m) * f * c - g * n * e * c) = g * m * (price - e) * c
<1>1. (n - m) * f = (n - m) * e
  <2>1. CASE f = e
    BY <2>1
  <2>2. CASE n - m = 0
    <3>1. 0 * f = 0 /\ 0 * e = 0
      OBVIOUS
    <3> QED BY <2>2, <3>1
  <2> QED BY <2>1, <2>2
<1> DEFINE x == n * e
           z == m * e
           t == m * price
<1>2. x \in Int /\ z \in Int /\ t \in Int
  OBVIOUS
<1>3. (n - m) * e = x - z /\ m * (price - e) = t - z
  OBVIOUS
<1> DEFINE d == (n - m) * f
           u == m * (price - e)
<1>4. /\ g * (n - m) * f * c = g * (d * c) /\ g * n * e * c = g * (x * c)
      /\ g * m * price * c = g * (t * c) /\ g * m * (price - e) * c = g * (u * c)
  OBVIOUS
<1>5. d = x - z /\ u = t - z
  BY <1>1, <1>3
<1> HIDE DEF x, z, t, d, u
<1>6. d * c = x * c - z * c /\ u * c = t * c - z * c
  BY <1>2, <1>5
<1>7. x * c \in Int /\ z * c \in Int /\ t * c \in Int
  BY <1>2
<1>8. CASE g = 1
  BY <1>4, <1>6, <1>7, <1>8
<1>9. CASE g = -1
  BY <1>4, <1>6, <1>7, <1>9
<1> QED BY <1>8, <1>9

\* The balance is the cash, the stock and what was rounded away; it is what it started
\* with plus the results of both buckets less funding; and the equity of a bar that is
\* marked is the cash, the inventory and what was rounded away.
BooksInv ==
    /\ balance = cash + Stock(pos) + rounded
    /\ balance = Start + realized["GRID"] + realized["TREND"] - funded
    /\ stage = "decide" => equity = cash + Inventory + rounded

LEMMA StockTyped ==
    ASSUME NEW p \in [Keys -> [size : Nat, entry : Nat]]
    PROVE  /\ Stock(p) \in Int
           /\ \A k \in Keys : Sign(k[2]) * p[k].size * p[k].entry * CMult[Sym] \in Int
<1>1. ASSUME NEW k \in Keys PROVE Sign(k[2]) * p[k].size * p[k].entry * CMult[Sym] \in Int
  <2>1. Sign(k[2]) \in Int /\ CMult[Sym] \in Nat /\ p[k].size \in Nat /\ p[k].entry \in Nat
    BY SymListed, Numbers DEF Sign
  <2> QED BY <2>1
<1> DEFINE F == [k \in Keys |-> Sign(k[2]) * p[k].size * p[k].entry * CMult[Sym]]
<1>2. \A k \in Keys : F[k] \in Int
  BY <1>1
<1>3. Stock(p) = AllBuckets(F)
  BY DEF Stock
<1> HIDE DEF F
<1> QED BY <1>1, <1>2, <1>3, FourSum

\* One bucket moves, and the stock with it.
LEMMA StockStep ==
    ASSUME NEW p \in [Keys -> [size : Nat, entry : Nat]], NEW n \in [Keys -> [size : Nat, entry : Nat]],
           NEW k \in Keys, \A j \in Keys : j # k => n[j] = p[j]
    PROVE  Stock(n) = Stock(p) + (Sign(k[2]) * n[k].size * n[k].entry * CMult[Sym]
                                  - Sign(k[2]) * p[k].size * p[k].entry * CMult[Sym])
<1> DEFINE F == [j \in Keys |-> Sign(j[2]) * p[j].size * p[j].entry * CMult[Sym]]
           G == [j \in Keys |-> Sign(j[2]) * n[j].size * n[j].entry * CMult[Sym]]
<1>1. \A j \in Keys : F[j] \in Int /\ G[j] \in Int
  BY StockTyped
<1>2. \A j \in Keys : j # k => G[j] = F[j]
  OBVIOUS
<1>3. Stock(p) = AllBuckets(F) /\ Stock(n) = AllBuckets(G)
  BY DEF Stock
<1>4. /\ F[k] = Sign(k[2]) * p[k].size * p[k].entry * CMult[Sym]
      /\ G[k] = Sign(k[2]) * n[k].size * n[k].entry * CMult[Sym]
  OBVIOUS
<1> HIDE DEF F, G
<1>5. AllBuckets(G) = AllBuckets(F) + (G[k] - F[k])
  BY <1>1, <1>2, Changed
<1> QED BY <1>3, <1>4, <1>5

LEMMA BooksInit == RunInit => BooksInv
<1> SUFFICES ASSUME RunInit PROVE BooksInv
  OBVIOUS
<1> DEFINE F == [k \in Keys |-> Sign(k[2]) * pos[k].size * pos[k].entry * CMult[Sym]]
<1>1. /\ balance = Start /\ cash = Start /\ rounded = 0 /\ funded = 0 /\ stage = "mark"
      /\ realized = [b \in Buckets |-> 0] /\ pos = [k \in Keys |-> [size |-> 0, entry |-> 0]]
  BY DEF RunInit, Flat
<1>2. ASSUME NEW k \in Keys PROVE F[k] = 0
  <2>1. Sign(k[2]) \in Int /\ CMult[Sym] \in Nat /\ pos[k].size = 0 /\ pos[k].entry = 0
    BY <1>1, SymListed, Numbers DEF Sign
  <2>2. F[k] = Sign(k[2]) * 0 * 0 * CMult[Sym]
    BY <2>1
  <2> QED BY <2>1, <2>2
<1>3. Stock(pos) = AllBuckets(F)
  BY DEF Stock
<1> HIDE DEF F
<1>4. Stock(pos) = 0
  <2>1. \A k \in Keys : F[k] \in Int
    BY <1>2
  <2>2. /\ F[<<Sym, "LONG", "GRID">>] = 0 /\ F[<<Sym, "LONG", "TREND">>] = 0
        /\ F[<<Sym, "SHORT", "GRID">>] = 0 /\ F[<<Sym, "SHORT", "TREND">>] = 0
    BY <1>2, FourKeys
  <2> QED BY <1>3, <2>1, <2>2, FourSum
<1>5. realized["GRID"] = 0 /\ realized["TREND"] = 0
  BY <1>1 DEF Buckets
<1> QED BY <1>1, <1>4, <1>5, Rates DEF BooksInv

\* The two results move with the balance.
LEMMA ResultsFill ==
    ASSUME RunTypeOK, NEW b \in Buckets, NEW net \in Int,
           realized' = [realized EXCEPT ![b] = @ + net]
    PROVE  realized'["GRID"] + realized'["TREND"] = realized["GRID"] + realized["TREND"] + net
<1>1. realized \in [Buckets -> Int]
  BY DEF RunTypeOK
<1>2. realized["GRID"] \in Int /\ realized["TREND"] \in Int
  BY <1>1 DEF Buckets
<1>3. CASE b = "GRID"
  <2>1. realized'["GRID"] = realized["GRID"] + net /\ realized'["TREND"] = realized["TREND"]
    BY <1>1, <1>3 DEF Buckets
  <2> QED BY <1>2, <2>1
<1>4. CASE b = "TREND"
  <2>1. realized'["TREND"] = realized["TREND"] + net /\ realized'["GRID"] = realized["GRID"]
    BY <1>1, <1>4 DEF Buckets
  <2> QED BY <1>2, <2>1
<1> QED BY <1>3, <1>4 DEF Buckets

LEMMA BooksFill ==
    ASSUME RunTypeOK, BooksInv, Fill
    PROVE  BooksInv'
<1> DEFINE o == Head(pending)
           f == FillOf(o)
           k == <<Sym, o.side, Bucket(o.src)>>
           net == f.pnl - f.fee
           r == Remainder(pos[k], f.qty, f.price)
           c == CMult[Sym]
           g == Sign(o.side)
           paid == (IF Buys(o) THEN -1 ELSE 1) * f.moved * f.price * c
           before == Sign(k[2]) * pos[k].size * pos[k].entry * c
           after == Sign(k[2]) * pos'[k].size * pos'[k].entry * c
           even == g * r * c
<1>1. /\ stage = "fill"
      /\ balance' = balance + net
      /\ realized' = [realized EXCEPT ![k[3]] = @ + net]
      /\ cash' = cash - f.fee + paid
      /\ rounded' = rounded + (IF o.reduce THEN 0 ELSE even)
      /\ UNCHANGED <<market, marks, coolUntil, ceiling>>
  BY Zenon DEF Fill
<1>2. /\ o.side \in Sides /\ k \in Keys /\ k[3] \in Buckets /\ k[2] = o.side
      /\ pos[k] \in [size : Nat, entry : Nat]
      /\ f.price \in Int /\ f.fee \in Int /\ f.pnl \in Int /\ f.qty \in Nat /\ f.moved \in Nat
      /\ ~o.reduce => f.price > 0 /\ f.moved = f.qty /\ f.pnl = 0
      /\ o.reduce => f.pnl = g * f.moved * (f.price - pos[k].entry) * c
  BY FillFacts, Zenon
<1>3. /\ pos' \in [Keys -> [size : Nat, entry : Nat]]
      /\ \A j \in Keys : j # k => pos'[j] = pos[j]
      /\ ~o.reduce => /\ r \in Nat
                      /\ pos'[k].size * pos'[k].entry =
                            pos[k].size * pos[k].entry + f.qty * f.price - r
      /\ o.reduce => /\ pos'[k].size = pos[k].size - f.moved
                     /\ pos'[k].entry = pos[k].entry \/ (pos'[k].size = 0 /\ pos'[k].entry = 0)
  BY Moved, Zenon
<1>4. pos \in [Keys -> [size : Nat, entry : Nat]] /\ c \in Int /\ g \in {1, -1}
  <2>1. CMult[Sym] \in Nat
    BY SymListed, Numbers
  <2> QED BY <2>1 DEF RunTypeOK, Sign
<1>5. o.reduce \in BOOLEAN /\ Buys(o) = ((o.side = "LONG") # o.reduce)
  <2>1. o \in Order
    BY FillFacts, Zenon
  <2> QED BY <2>1 DEF Order, Buys
<1>6. Stock(pos') = Stock(pos) + (after - before)
  <2> HIDE DEF k
  <2> QED BY <1>2, <1>3, <1>4, StockStep
<1>7. /\ pos[k].size \in Int /\ pos[k].entry \in Int
      /\ pos'[k].size \in Int /\ pos'[k].entry \in Int /\ f.moved \in Int /\ f.qty \in Int
  <2> HIDE DEF k
  <2> QED BY <1>2, <1>3
<1>8. (IF Buys(o) THEN -1 ELSE 1) = IF o.reduce THEN g ELSE -g
  <2>1. g = IF o.side = "LONG" THEN 1 ELSE -1
    BY DEF Sign
  <2> HIDE DEF g, o
  <2>2. CASE o.reduce
    BY <1>5, <2>1, <2>2
  <2>3. CASE ~o.reduce
    <3>1. Buys(o) = (o.side = "LONG")
      BY <1>5, <2>3
    <3>2. CASE o.side = "LONG"
      <4>1. g = 1 /\ Buys(o)
        BY <2>1, <3>1, <3>2
      <4> QED BY <2>3, <4>1
    <3>3. CASE o.side # "LONG"
      <4>1. g = -1 /\ ~Buys(o)
        BY <2>1, <3>1, <3>3
      <4>2. -g = 1
        <5>1. g = 0 - 1 /\ \A n \in Int : -n = 0 - n
          BY <4>1
        <5>2. g \in Int /\ 0 - g = 1
          BY <5>1
        <5> QED BY <5>1, <5>2
      <4> QED BY <2>3, <4>1, <4>2
    <3> QED BY <3>2, <3>3
  <2> QED BY <2>2, <2>3
<1>9. /\ before = g * pos[k].size * pos[k].entry * c
      /\ after = g * pos'[k].size * pos'[k].entry * c
  BY <1>2
<1> HIDE DEF o, f, k, r, c, g
<1>10. paid - f.pnl + (after - before) + (IF o.reduce THEN 0 ELSE even) = 0
  <2>1. CASE o.reduce
    <3>1. paid = g * f.moved * f.price * c
      BY <1>8, <2>1
    <3>2. after = g * (pos[k].size - f.moved) * pos'[k].entry * c
      BY <1>3, <1>9, <2>1
    <3>3. pos'[k].entry = pos[k].entry \/ pos[k].size - f.moved = 0
      BY <1>3, <2>1
    <3>4. g * f.moved * f.price * c
             + (g * (pos[k].size - f.moved) * pos'[k].entry * c - g * pos[k].size * pos[k].entry * c)
          = g * f.moved * (f.price - pos[k].entry) * c
      <4> DEFINE n == pos[k].size
                 e == pos[k].entry
                 x == pos'[k].entry
                 m == f.moved
                 price == f.price
      <4>1. n \in Int /\ e \in Int /\ x \in Int /\ m \in Int /\ price \in Int
        BY <1>2, <1>7
      <4>2. x = e \/ n - m = 0
        BY <3>3
      <4> HIDE DEF n, e, x, m, price
      <4>3. g * m * price * c + (g * (n - m) * x * c - g * n * e * c) = g * m * (price - e) * c
        BY <1>4, <4>1, <4>2, CloseMoney
      <4> QED BY <4>3 DEF n, e, x, m, price
    <3>5. paid + (after - before) = f.pnl
      BY <1>2, <1>9, <2>1, <3>1, <3>2, <3>4
    <3>6. after \in Int /\ before \in Int /\ paid \in Int
      <4>0. g \in Int
        BY <1>4
      <4>1. /\ g * pos[k].size * pos[k].entry * c \in Int
            /\ g * pos'[k].size * pos'[k].entry * c \in Int
            /\ g * f.moved * f.price * c \in Int
        BY <1>2, <1>4, <1>7, <4>0
      <4> QED BY <1>9, <3>1, <4>1
    <3> HIDE DEF paid, after, before, even
    <3> QED BY <1>2, <2>1, <3>5, <3>6
  <2>2. CASE ~o.reduce
    <3>1. paid = (-g) * f.qty * f.price * c
      BY <1>2, <1>8, <2>2
    <3>2. (-g) * f.qty * f.price * c
             + (g * pos'[k].size * pos'[k].entry * c - g * pos[k].size * pos[k].entry * c)
             + g * r * c = 0
      <4> DEFINE n == pos[k].size
                 e == pos[k].entry
                 m == pos'[k].size
                 x == pos'[k].entry
                 q == f.qty
                 price == f.price
      <4>1. /\ n \in Int /\ e \in Int /\ m \in Int /\ x \in Int /\ q \in Int /\ price \in Int
            /\ r \in Int /\ m * x = n * e + q * price - r
        BY <1>2, <1>3, <1>7, <2>2
      <4> HIDE DEF n, e, m, x, q, price
      <4>2. (-g) * q * price * c + (g * m * x * c - g * n * e * c) + g * r * c = 0
        BY <1>4, <4>1, EntryMoney
      <4> QED BY <4>2 DEF n, e, m, x, q, price
    <3>3. paid + (after - before) + even = 0 /\ f.pnl = 0
      BY <1>2, <1>9, <2>2, <3>1, <3>2
    <3>4. after \in Int /\ before \in Int /\ paid \in Int
      <4>0. g \in Int /\ -g \in Int
        BY <1>4
      <4>1. /\ g * pos[k].size * pos[k].entry * c \in Int
            /\ g * pos'[k].size * pos'[k].entry * c \in Int
            /\ (-g) * f.qty * f.price * c \in Int
        BY <1>2, <1>4, <1>7, <4>0
      <4> QED BY <1>9, <3>1, <4>1
    <3> HIDE DEF paid, after, before, even
    <3> QED BY <2>2, <3>3, <3>4
  <2> QED BY <2>1, <2>2
<1>11. paid \in Int /\ after \in Int /\ before \in Int /\ (~o.reduce => even \in Int)
  <2>1. g \in Int
    BY <1>4
  <2>2. /\ g * pos[k].size * pos[k].entry * c \in Int
        /\ g * pos'[k].size * pos'[k].entry * c \in Int
    BY <1>2, <1>4, <1>7, <2>1
  <2>3. ~o.reduce => g * r * c \in Int
    BY <1>3, <1>4, <2>1
  <2> DEFINE w == IF Buys(o) THEN -1 ELSE 1
  <2>4. w \in Int
    OBVIOUS
  <2>5. w * f.moved * f.price * c \in Int
    <3> HIDE DEF w
    <3> QED BY <1>2, <1>4, <1>7, <2>4
  <2> QED BY <1>9, <2>2, <2>3, <2>5
<1> HIDE DEF paid, after, before, even
<1>12. /\ balance \in Int /\ cash \in Int /\ rounded \in Int /\ funded \in Int /\ Start \in Int
       /\ Stock(pos) \in Int
       /\ realized["GRID"] \in Int /\ realized["TREND"] \in Int
  <2>1. Stock(pos) \in Int
    BY <1>4, StockTyped
  <2> QED BY <2>1, Rates DEF RunTypeOK, Buckets
<1>13. net \in Int
  BY <1>2
<1>14. balance' = cash' + Stock(pos') + rounded'
  <2>1. balance = cash + Stock(pos) + rounded
    BY DEF BooksInv
  <2> DEFINE drop == IF o.reduce THEN 0 ELSE even
  <2>2. drop \in Int
    BY <1>5, <1>11
  <2>3. rounded' = rounded + drop /\ paid - f.pnl + (after - before) + drop = 0
    BY <1>1, <1>10
  <2> HIDE DEF drop
  <2> DEFINE x == Stock(pos)
             y == Stock(pos')
             z == f.pnl
             w == f.fee
  <2>4. /\ balance' = balance + (z - w) /\ cash' = cash - w + paid /\ rounded' = rounded + drop
        /\ y = x + (after - before) /\ paid - z + (after - before) + drop = 0
        /\ balance = cash + x + rounded
    BY <1>1, <1>6, <2>1, <2>3
  <2>5. x \in Int /\ z \in Int /\ w \in Int
    BY <1>2, <1>12
  <2> HIDE DEF x, y, z, w
  <2>6. balance' = cash' + y + rounded'
    BY <1>11, <1>12, <2>2, <2>4, <2>5
  <2> QED BY <2>6 DEF y
<1>15. balance' = Start + realized'["GRID"] + realized'["TREND"] - funded'
  <2>1. balance = Start + realized["GRID"] + realized["TREND"] - funded /\ funded' = funded
    BY <1>1 DEF BooksInv, marks
  <2> HIDE DEF net
  <2>2. realized'["GRID"] + realized'["TREND"] = realized["GRID"] + realized["TREND"] + net
    BY <1>1, <1>2, <1>13, ResultsFill
  <2>3. realized'["GRID"] \in Int /\ realized'["TREND"] \in Int
    <3>1. realized' \in [Buckets -> Int]
      <4>1. RunTypeOK'
        BY TypesFill
      <4> QED BY <4>1 DEF RunTypeOK
    <3> QED BY <3>1 DEF Buckets
  <2> QED BY <1>1, <1>12, <1>13, <2>1, <2>2, <2>3
<1>16. stage' # "decide"
  BY <1>1 DEF market
<1> QED BY <1>14, <1>15, <1>16 DEF BooksInv

\* The inventory is the stock and what it has not realized.
LEMMA InventoryIs ==
    ASSUME RunTypeOK
    PROVE  Inventory = Stock(pos) + Unrealized("GRID") + Unrealized("TREND")
<1> DEFINE c == candle.close
           w == CMult[Sym]
           worth == [k \in Keys |-> Sign(k[2]) * pos[k].size * c * w]
           cost == [k \in Keys |-> Sign(k[2]) * pos[k].size * pos[k].entry * w]
           open(b) == [k \in Keys |->
              IF k[3] = b THEN Sign(k[2]) * pos[k].size * (c - pos[k].entry) * w ELSE 0]
           grid == open("GRID")
           trend == open("TREND")
<1>1. c \in Int /\ w \in Int
  <2>1. candle.close \in Nat
    BY CandleFacts DEF RunTypeOK
  <2>2. CMult[Sym] \in Nat
    BY SymListed, Numbers
  <2> QED BY <2>1, <2>2
<1>2. \A k \in Keys : pos[k].size \in Int /\ pos[k].entry \in Int /\ Sign(k[2]) \in Int /\ k[3] \in Buckets
  <2>1. \A k \in Keys : k[3] \in Buckets
    BY DEF Keys
  <2>2. pos \in [Keys -> [size : Nat, entry : Nat]]
    BY DEF RunTypeOK
  <2> QED BY <2>1, <2>2 DEF Sign
<1>3. /\ Inventory = AllBuckets(worth) /\ Stock(pos) = AllBuckets(cost)
      /\ Unrealized("GRID") = AllBuckets(grid) /\ Unrealized("TREND") = AllBuckets(trend)
  BY DEF Inventory, Stock, Unrealized
<1> HIDE DEF c, w
<1>4. ASSUME NEW k \in Keys
      PROVE  /\ worth[k] \in Int /\ cost[k] \in Int /\ grid[k] \in Int /\ trend[k] \in Int
             /\ worth[k] = cost[k] + grid[k] + trend[k]
  <2> DEFINE n == pos[k].size
             e == pos[k].entry
             g == Sign(k[2])
  <2>1. n \in Int /\ e \in Int /\ g \in Int /\ k[3] \in {"GRID", "TREND"}
    BY <1>2 DEF Buckets
  <2>2. /\ worth[k] = g * n * c * w /\ cost[k] = g * n * e * w
        /\ grid[k] = IF k[3] = "GRID" THEN g * n * (c - e) * w ELSE 0
        /\ trend[k] = IF k[3] = "TREND" THEN g * n * (c - e) * w ELSE 0
    OBVIOUS
  <2> HIDE DEF n, e, g, worth, cost, open, grid, trend
  <2> DEFINE x == g * n
  <2>3. x \in Int /\ g * n * c * w = x * c * w /\ g * n * e * w = x * e * w
        /\ g * n * (c - e) * w = x * (c - e) * w
    BY <2>1
  <2> HIDE DEF x
  <2>4. x * (c - e) * w = x * c * w - x * e * w
    BY <1>1, <2>1, <2>3
  <2>5. x * c * w \in Int /\ x * e * w \in Int /\ x * (c - e) * w \in Int
    BY <1>1, <2>1, <2>3
  <2> QED BY <2>1, <2>2, <2>3, <2>4, <2>5
<1> HIDE DEF worth, cost, open, grid, trend
<1> DEFINE k1 == <<Sym, "LONG", "GRID">>
           k2 == <<Sym, "LONG", "TREND">>
           k3 == <<Sym, "SHORT", "GRID">>
           k4 == <<Sym, "SHORT", "TREND">>
<1>5. k1 \in Keys /\ k2 \in Keys /\ k3 \in Keys /\ k4 \in Keys
  BY FourKeys
<1>6. AllBuckets(worth) = worth[k1] + worth[k2] + worth[k3] + worth[k4]
  BY <1>4, FourSum
<1>7. AllBuckets(cost) = cost[k1] + cost[k2] + cost[k3] + cost[k4]
  BY <1>4, FourSum
<1>8. AllBuckets(grid) = grid[k1] + grid[k2] + grid[k3] + grid[k4]
  BY <1>4, FourSum
<1>9. AllBuckets(trend) = trend[k1] + trend[k2] + trend[k3] + trend[k4]
  BY <1>4, FourSum
<1> HIDE DEF k1, k2, k3, k4
<1>10. /\ worth[k1] = cost[k1] + grid[k1] + trend[k1] /\ worth[k2] = cost[k2] + grid[k2] + trend[k2]
       /\ worth[k3] = cost[k3] + grid[k3] + trend[k3] /\ worth[k4] = cost[k4] + grid[k4] + trend[k4]
  BY <1>4, <1>5
<1>11. /\ cost[k1] \in Int /\ cost[k2] \in Int /\ cost[k3] \in Int /\ cost[k4] \in Int
       /\ grid[k1] \in Int /\ grid[k2] \in Int /\ grid[k3] \in Int /\ grid[k4] \in Int
       /\ trend[k1] \in Int /\ trend[k2] \in Int /\ trend[k3] \in Int /\ trend[k4] \in Int
  BY <1>4, <1>5
<1> QED BY <1>3, <1>6, <1>7, <1>8, <1>9, <1>10, <1>11

LEMMA BooksSettle ==
    ASSUME RunTypeOK, BooksInv, Settle
    PROVE  BooksInv'
<1> DEFINE s == Stock(pos)
           g == Unrealized("GRID")
           t == Unrealized("TREND")
           c == Charge
           b1 == realized["GRID"]
           b2 == realized["TREND"]
           i == Inventory
<1>1. /\ balance' = balance - c /\ funded' = funded + c /\ cash' = cash - c
      /\ equity' = balance' + g + t /\ rounded' = rounded
      /\ realized' = realized /\ pos' = pos /\ candle' = candle
  BY SettleFacts
<1>2. Stock(pos') = s /\ Inventory' = i
  BY <1>1 DEF Inventory, AllBuckets
<1>3. i = s + g + t
  BY InventoryIs
<1>4. /\ balance \in Int /\ cash \in Int /\ rounded \in Int /\ funded \in Int /\ Start \in Int
      /\ c \in Int /\ g \in Int /\ t \in Int /\ s \in Int /\ b1 \in Int /\ b2 \in Int
  <2>1. s \in Int
    BY StockTyped DEF RunTypeOK
  <2>2. c \in Int /\ g \in Int /\ t \in Int
    BY MoneyTyped DEF Buckets
  <2>3. balance \in Int /\ cash \in Int /\ rounded \in Int /\ funded \in Int /\ b1 \in Int /\ b2 \in Int
    BY DEF RunTypeOK, Buckets
  <2> QED BY <2>1, <2>2, <2>3, Rates
<1>5. balance = cash + s + rounded /\ balance = Start + b1 + b2 - funded
  BY DEF BooksInv
<1>6. realized'["GRID"] = b1 /\ realized'["TREND"] = b2
  BY <1>1
<1> HIDE DEF s, g, t, c, b1, b2, i
<1>7. balance' = cash' + s + rounded' /\ balance' = Start + b1 + b2 - funded'
  BY <1>1, <1>4, <1>5
<1>8. equity' = cash' + i + rounded'
  BY <1>1, <1>3, <1>4, <1>5
<1> QED BY <1>2, <1>6, <1>7, <1>8 DEF BooksInv

LEMMA BooksStay ==
    ASSUME BooksInv, UNCHANGED <<balance, cash, pos, rounded, realized, funded>>, stage' # "decide"
    PROVE  BooksInv'
BY DEF BooksInv

LEMMA BooksStep == RunTypeOK /\ BooksInv /\ [RunNext]_runVars => BooksInv'
<1> SUFFICES ASSUME RunTypeOK, BooksInv, [RunNext]_runVars
             PROVE  BooksInv'
  OBVIOUS
<1>1. ASSUME NEW c \in Candles, Mark(c) PROVE BooksInv'
  <2>1. /\ UNCHANGED <<balance, cash, pos, rounded, realized, marks>> /\ stage' = "fill"
    BY <1>1 DEF Mark
  <2> QED BY <2>1, BooksStay DEF marks
<1>2. CASE Fill
  BY <1>2, BooksFill
<1>3. CASE Expire
  <2>1. stage = "fill" /\ UNCHANGED <<market, account, marks, history>>
    BY <1>3 DEF Expire
  <2> QED BY <2>1, BooksStay DEF market, account, marks, history
<1>4. CASE Settle
  BY <1>4, BooksSettle
<1>5. ASSUME NEW m \in Moods, Decide(m.view, m.hook) PROVE BooksInv'
  <2>1. /\ UNCHANGED <<account, marks, cash, rounded>> /\ stage' \in {"over", "mark"}
    BY <1>5 DEF Decide
  <2> QED BY <2>1, BooksStay DEF account, marks
<1>6. CASE UNCHANGED runVars
  BY <1>6 DEF BooksInv, runVars, market, account, marks, history, Inventory, AllBuckets
<1> QED BY <1>1, <1>2, <1>3, <1>4, <1>5, <1>6 DEF RunNext

\* The books close on every bar: equity is the money that changed hands plus what the
\* inventory is worth, and the balance is the start plus both results less funding,
\* whatever was averaged, clipped, charged or sent as RISK (backtest.py 1121-1230).
THEOREM RunBooksAgree == RunSpec => []BooksAgree
<1>1. RunInit => BooksInv
  BY BooksInit
<1>2. RunTypeOK /\ BooksInv /\ [RunNext]_runVars => BooksInv'
  BY BooksStep
<1>3. BooksInv => BooksAgree
  BY DEF BooksInv, BooksAgree
<1> QED BY <1>1, <1>2, <1>3, RunTypes, PTL DEF RunSpec

-----------------------------------------------------------------------------
(* The caps *)

\* What is held and what is pending stay within the ceiling, but for what market
\* entries of the bar cost above their price, if the entries proposed had prices.
Within(extra) == \A g \in Gauges : Held(pos, g) + SumOf(GaugeCost(g), pending) <= ceiling[g] + extra
CapsInv ==
    priced => /\ pending \in Seq(Priced)
              /\ stage = "mark" => Within(0)
              /\ stage \in {"fill", "decide"} => Within(overpaid)

LEMMA HeldTyped ==
    ASSUME NEW p \in [Keys -> [size : Nat, entry : Nat]], NEW g
    PROVE  /\ Held(p, g) \in Int
           /\ \A k \in Keys : /\ p[k].size * p[k].entry * CMult[k[1]] \in Int
                              /\ k[1] = Sym
<1>1. ASSUME NEW k \in Keys PROVE p[k].size * p[k].entry * CMult[k[1]] \in Int /\ k[1] = Sym
  <2>1. k[1] \in Symbols
    BY DEF Keys
  <2>2. CMult[k[1]] \in Nat /\ p[k].size \in Nat /\ p[k].entry \in Nat /\ k[1] = Sym
    BY <2>1, SymListed, Numbers
  <2> QED BY <2>2
<1> DEFINE F == [k \in Keys |-> IF k \in GaugeKeys(g) THEN p[k].size * p[k].entry * CMult[k[1]] ELSE 0]
<1>2. \A k \in Keys : F[k] \in Int
  BY <1>1
<1>3. Held(p, g) = AllBuckets(F)
  BY DEF Held
<1> HIDE DEF F
<1> QED BY <1>1, <1>2, <1>3, FourSum

\* One bucket moves, and with it what its gauges hold.
LEMMA HeldStep ==
    ASSUME NEW p \in [Keys -> [size : Nat, entry : Nat]], NEW n \in [Keys -> [size : Nat, entry : Nat]],
           NEW k \in Keys, \A j \in Keys : j # k => n[j] = p[j], NEW g
    PROVE  Held(n, g) = Held(p, g) + (IF k \in GaugeKeys(g)
                                      THEN n[k].size * n[k].entry * CMult[Sym]
                                           - p[k].size * p[k].entry * CMult[Sym]
                                      ELSE 0)
<1> DEFINE F == [j \in Keys |-> IF j \in GaugeKeys(g) THEN p[j].size * p[j].entry * CMult[j[1]] ELSE 0]
           G == [j \in Keys |-> IF j \in GaugeKeys(g) THEN n[j].size * n[j].entry * CMult[j[1]] ELSE 0]
<1>1. \A j \in Keys : F[j] \in Int /\ G[j] \in Int
  <2>1. \A j \in Keys : p[j].size * p[j].entry * CMult[j[1]] \in Int
    BY HeldTyped
  <2>2. \A j \in Keys : n[j].size * n[j].entry * CMult[j[1]] \in Int
    BY HeldTyped
  <2> QED BY <2>1, <2>2
<1>2. \A j \in Keys : j # k => G[j] = F[j]
  OBVIOUS
<1>3. Held(p, g) = AllBuckets(F) /\ Held(n, g) = AllBuckets(G)
  BY DEF Held
<1>4. k[1] = Sym
  BY HeldTyped
<1>5. G[k] - F[k] = IF k \in GaugeKeys(g) THEN n[k].size * n[k].entry * CMult[Sym]
                                               - p[k].size * p[k].entry * CMult[Sym] ELSE 0
  BY <1>4
<1> HIDE DEF F, G
<1>6. AllBuckets(G) = AllBuckets(F) + (G[k] - F[k])
  BY <1>1, <1>2, Changed
<1> QED BY <1>3, <1>5, <1>6

\* What an entry adds is what it paid, less what rounding leaves out: at most what its
\* order asked for and what its price slipped.
LEMMA EntryHeld ==
    ASSUME NEW a \in Int, NEW b \in Int, NEW q \in Nat, NEW wanted \in Nat, q <= wanted,
           NEW price \in Int, price > 0, NEW limit \in Int, limit > 0, NEW r \in Nat, NEW c \in Nat,
           b = a + q * price - r
    PROVE  b * c - a * c <= wanted * limit * c + AtLeastZero(price - limit) * q * c
<1> DEFINE s == AtLeastZero(price - limit)
<1>1. s \in Nat /\ price <= limit + s
  BY DEF AtLeastZero
<1> HIDE DEF s
<1>2. q * price <= q * limit + s * q
  <2>1. q * price <= q * (limit + s)
    BY <1>1
  <2>2. q * (limit + s) = q * limit + s * q
    BY <1>1
  <2>3. q * price \in Int /\ q * limit \in Int /\ s * q \in Int
    BY <1>1
  <2> QED BY <2>1, <2>2, <2>3
<1>3. q * limit <= wanted * limit
  <2>1. (wanted - q) * limit >= 0
    OBVIOUS
  <2>2. (wanted - q) * limit = wanted * limit - q * limit
    OBVIOUS
  <2>3. wanted * limit \in Int /\ q * limit \in Int
    OBVIOUS
  <2> QED BY <2>1, <2>2, <2>3
<1> DEFINE u == q * price
           v == q * limit
           w == s * q
           t == wanted * limit
           d == b - a
<1>4. u \in Int /\ v \in Int /\ w \in Int /\ t \in Int /\ d \in Int /\ d = u - r
  BY <1>1
<1>5. wanted * limit * c = t * c /\ s * q * c = w * c /\ b * c - a * c = d * c
  BY <1>4
<1>6. u <= v + w /\ v <= t
  BY <1>2, <1>3
<1> HIDE DEF u, v, w, t, d
<1>7. d <= t + w
  BY <1>4, <1>6
<1>8. (t + w - d) * c >= 0
  BY <1>4, <1>7
<1>9. (t + w - d) * c = t * c + w * c - d * c
  BY <1>4
<1>10. t * c \in Int /\ w * c \in Int /\ d * c \in Int
  BY <1>4
<1>11. d * c <= t * c + w * c
  BY <1>8, <1>9, <1>10
<1> QED BY <1>5, <1>11 DEF s

\* What a close leaves is no more than there was.
LEMMA CloseHeld ==
    ASSUME NEW n \in Int, NEW m \in Nat, NEW e \in Nat, NEW x \in Int, NEW c \in Nat,
           x = e \/ n - m = 0, n >= 0
    PROVE  (n - m) * x * c - n * e * c <= 0
<1>1. (n - m) * x = (n - m) * e
  <2>1. CASE x = e
    BY <2>1
  <2>2. CASE n - m = 0
    <3>1. 0 * x = 0 /\ 0 * e = 0
      OBVIOUS
    <3> QED BY <2>2, <3>1
  <2> QED BY <2>1, <2>2
<1> DEFINE d == (n - m) * x
           t == n * e
           u == m * e
<1>2. d \in Int /\ t \in Int /\ u \in Nat
  OBVIOUS
<1>3. d = t - u
  <2>1. (n - m) * e = n * e - m * e
    OBVIOUS
  <2> QED BY <1>1, <2>1
<1>4. (n - m) * x * c = d * c /\ n * e * c = t * c
  OBVIOUS
<1> HIDE DEF d, t, u
<1>5. d * c = t * c - u * c /\ u * c \in Nat /\ t * c \in Int
  BY <1>2, <1>3
<1> QED BY <1>4, <1>5

LEMMA CapsFill ==
    ASSUME RunTypeOK, CapsInv, Fill
    PROVE  CapsInv'
<1> DEFINE o == Head(pending)
           f == FillOf(o)
           k == <<Sym, o.side, Bucket(o.src)>>
           r == Remainder(pos[k], f.qty, f.price)
           c == CMult[Sym]
           slip == AtLeastZero(f.price - o.price) * f.moved * c
           before == pos[k].size * pos[k].entry * c
           after == pos'[k].size * pos'[k].entry * c
<1>1. /\ stage = "fill" /\ pending' = Tail(pending)
      /\ overpaid' = overpaid + (IF o.reduce THEN 0 ELSE slip)
      /\ UNCHANGED <<market, ceiling, priced>>
  BY Zenon DEF Fill
<1>0. SUFFICES ASSUME priced
               PROVE  pending' \in Seq(Priced) /\ stage' = "fill" /\ Within(overpaid)'
  BY <1>1 DEF CapsInv
<1>2. /\ o \in Order /\ (o.reduce \/ o.price > 0) /\ o.sym = Sym /\ o.side \in Sides /\ k \in Keys
      /\ pending # <<>> /\ k[1] = Sym /\ k[2] = o.side
      /\ pos[k] \in [size : Nat, entry : Nat]
      /\ f.qty \in Nat /\ f.qty > 0 /\ f.qty <= o.qty /\ f.price \in Int /\ f.moved \in Nat
      /\ ~o.reduce => f.price > 0 /\ f.moved = f.qty
  BY FillFacts, Zenon
<1>3. /\ pos' \in [Keys -> [size : Nat, entry : Nat]]
      /\ \A j \in Keys : j # k => pos'[j] = pos[j]
      /\ ~o.reduce => /\ r \in Nat
                      /\ pos'[k].size * pos'[k].entry =
                            pos[k].size * pos[k].entry + f.qty * f.price - r
      /\ o.reduce => /\ pos'[k].size = pos[k].size - f.moved
                     /\ pos'[k].entry = pos[k].entry \/ (pos'[k].size = 0 /\ pos'[k].entry = 0)
  BY Moved, Zenon
<1>4. pos \in [Keys -> [size : Nat, entry : Nat]] /\ c \in Nat /\ pending \in Seq(Order)
      /\ pending \in Seq(Priced) /\ overpaid \in Nat /\ ceiling \in [Gauges -> Int]
  <2>1. pending \in Seq(Order)
    BY DEF RunTypeOK
  <2>2. CMult[Sym] \in Nat
    BY SymListed, Numbers
  <2>3. pending \in Seq(Priced)
    BY <1>0 DEF CapsInv
  <2> QED BY <2>1, <2>2, <2>3 DEF RunTypeOK, Gauges
<1>5. o.reduce \in BOOLEAN /\ o.qty \in Nat /\ o.price \in Int /\ (o.reduce \/ o.price > 0)
      /\ Cost(o) = o.qty * o.price * c /\ o \in Order
  BY <1>2 DEF Order, Cost
<1> HIDE DEF o, f, k, r, c
<1>6. pos[k].size \in Nat /\ pos[k].entry \in Nat /\ pos'[k].size \in Int /\ pos'[k].entry \in Int
  BY <1>2, <1>3
<1>7. before \in Int /\ after \in Int /\ slip \in Nat
  <2>1. before \in Int /\ after \in Int
    <3>1. pos[k].size * pos[k].entry \in Int /\ pos'[k].size * pos'[k].entry \in Int /\ c \in Int
      BY <1>4, <1>6
    <3> QED BY <3>1
  <2>2. AtLeastZero(f.price - o.price) \in Nat
    BY <1>2, <1>5 DEF AtLeastZero
  <2>3. AtLeastZero(f.price - o.price) * f.moved \in Nat
    BY <1>2, <2>2
  <2> QED BY <1>4, <2>1, <2>3
<1>8. o.reduce => after - before <= 0
  <2> SUFFICES ASSUME o.reduce PROVE after - before <= 0
    OBVIOUS
  <2> DEFINE n == pos[k].size
             e == pos[k].entry
             x == pos'[k].entry
             m == f.moved
  <2>1. n \in Int /\ n >= 0 /\ e \in Nat /\ x \in Int /\ m \in Nat
    BY <1>2, <1>6
  <2>2. pos'[k].size = n - m /\ (x = e \/ n - m = 0)
    BY <1>3
  <2>3. after = (n - m) * x * c /\ before = n * e * c
    BY <2>2
  <2> HIDE DEF n, e, x, m, after, before
  <2>4. (n - m) * x * c - n * e * c <= 0
    BY <1>4, <2>1, <2>2, CloseHeld
  <2> QED BY <2>3, <2>4
<1>9. ~o.reduce => after - before <= Cost(o) + slip
  <2> SUFFICES ASSUME ~o.reduce PROVE after - before <= Cost(o) + slip
    OBVIOUS
  <2> DEFINE a == pos[k].size * pos[k].entry
             b == pos'[k].size * pos'[k].entry
             q == f.qty
             wanted == o.qty
             price == f.price
             limit == o.price
  <2>0. a \in Int /\ b \in Int
    BY <1>6
  <2>1. /\ q \in Nat /\ wanted \in Nat /\ q <= wanted
        /\ price \in Int /\ price > 0 /\ limit \in Int /\ limit > 0 /\ r \in Nat
        /\ b = a + q * price - r
    BY <1>2, <1>3, <1>5
  <2>2. after = b * c /\ before = a * c /\ Cost(o) = wanted * limit * c
        /\ slip = AtLeastZero(price - limit) * q * c
    BY <1>2, <1>5
  <2> HIDE DEF a, b, q, wanted, price, limit, after, before, slip
  <2>3. b * c - a * c <= wanted * limit * c + AtLeastZero(price - limit) * q * c
    BY <1>4, <2>0, <2>1, EntryHeld
  <2> QED BY <2>2, <2>3
<1> HIDE DEF slip, before, after
<1>10. ASSUME NEW g \in Gauges
       PROVE  Held(pos', g) + SumOf(GaugeCost(g), pending') <= ceiling'[g] + overpaid'
  <2> DEFINE cost == GaugeCost(g)[o]
             now == Held(pos, g)
             then == Held(pos', g)
             remains == SumOf(GaugeCost(g), Tail(pending))
             rest == SumOf(GaugeCost(g), pending)
  <2>1. then = now + (IF k \in GaugeKeys(g) THEN after - before ELSE 0)
    <3>1. then = now + (IF k \in GaugeKeys(g) THEN pos'[k].size * pos'[k].entry * CMult[Sym]
                                                    - pos[k].size * pos[k].entry * CMult[Sym]
                        ELSE 0)
      <4> DEFINE n == pos'
      <4>1. /\ k \in Keys /\ n \in [Keys -> [size : Nat, entry : Nat]]
            /\ \A j \in Keys : j # k => n[j] = pos[j]
        BY <1>2, <1>3
      <4>2. pos \in [Keys -> [size : Nat, entry : Nat]]
        BY <1>4
      <4> HIDE DEF n
      <4>3. Held(n, g) = Held(pos, g) + (IF k \in GaugeKeys(g)
                                         THEN n[k].size * n[k].entry * CMult[Sym]
                                              - pos[k].size * pos[k].entry * CMult[Sym]
                                         ELSE 0)
        BY <4>1, <4>2, HeldStep
      <4> QED BY <4>3 DEF n
    <3> QED BY <3>1 DEF after, before, c
  <2>2. GaugeCost(g) \in [Order -> Int] /\ pending \in Seq(Order)
    BY <1>4, GaugeFacts
  <2>3. rest = cost + remains
    BY <1>2, <2>2, SumFacts DEF o
  <2>4. cost = IF ~o.reduce /\ (g = "total" \/ g = o.side) THEN Cost(o) ELSE 0
    BY <1>5, GaugeFacts
  <2>5. k \in GaugeKeys(g) <=> (g = "total" \/ g = o.side)
    <3>1. CASE g = "total"
      BY <1>2, <3>1 DEF GaugeKeys
    <3>2. CASE g # "total"
      <4>1. GaugeKeys(g) = {<<Sym, g, b>> : b \in Buckets}
        BY <3>2 DEF GaugeKeys, SideKeys
      <4>2. Bucket(o.src) \in Buckets /\ k = <<Sym, o.side, Bucket(o.src)>>
        BY DEF Bucket, Buckets, k
      <4>3. k \in GaugeKeys(g) <=> \E b \in Buckets : <<Sym, o.side, Bucket(o.src)>> = <<Sym, g, b>>
        BY <4>1, <4>2
      <4> QED BY <3>2, <4>2, <4>3
    <3> QED BY <3>1, <3>2
  <2>6. now \in Int /\ remains \in Int /\ ceiling[g] \in Int
    <3>1. Tail(pending) \in Seq(Order)
      BY <1>2, <2>2, HeadTailProperties
    <3>2. remains \in Int
      BY <2>2, <3>1, SumFacts
    <3>3. now \in Int
      BY <1>4, HeldTyped
    <3> QED BY <1>4, <3>2, <3>3
  <2>7. now + rest <= ceiling[g] + overpaid
    BY <1>0, <1>1 DEF CapsInv, Within
  <2>8. pending' = Tail(pending) /\ ceiling' = ceiling
    BY <1>1
  <2> HIDE DEF cost, now, then, remains, rest
  <2>9. then + remains <= ceiling[g] + overpaid'
    <3>1. CASE o.reduce
      <4>1. overpaid' = overpaid /\ cost = 0
        BY <1>1, <1>4, <2>4, <3>1
      <4>2. then <= now /\ then \in Int
        BY <1>7, <1>8, <2>1, <2>6, <3>1
      <4> QED BY <1>4, <2>3, <2>6, <2>7, <4>1, <4>2
    <3>2. CASE ~o.reduce /\ (g = "total" \/ g = o.side)
      <4>1. overpaid' = overpaid + slip /\ cost = Cost(o) /\ then = now + (after - before)
        BY <1>1, <2>1, <2>4, <2>5, <3>2
      <4>2. Cost(o) \in Int
        BY <1>4, <1>5
      <4>3. after - before <= Cost(o) + slip
        BY <1>9, <3>2
      <4>4. overpaid \in Int /\ slip \in Int
        BY <1>4, <1>7
      <4>5. cost \in Int /\ after \in Int /\ before \in Int
        BY <1>7, <4>1, <4>2
      <4>6. after - before <= cost + slip
        BY <4>1, <4>3
      <4>7. now + (cost + remains) <= ceiling[g] + overpaid
        BY <2>3, <2>7
      <4>8. now + (after - before) + remains <= ceiling[g] + (overpaid + slip)
        BY <2>6, <4>4, <4>5, <4>6, <4>7
      <4> QED BY <4>1, <4>8
    <3>3. CASE ~o.reduce /\ ~(g = "total" \/ g = o.side)
      <4>1. overpaid' = overpaid + slip /\ cost = 0 /\ then = now + 0
        BY <1>1, <2>1, <2>4, <2>5, <3>3
      <4> QED BY <1>4, <1>7, <2>3, <2>6, <2>7, <4>1
    <3> QED BY <1>5, <3>1, <3>2, <3>3
  <2> QED BY <2>8, <2>9 DEF then, remains
<1>11. stage' = "fill"
  BY <1>1 DEF market
<1>12. pending' \in Seq(Priced)
  BY <1>1, <1>2, <1>4, HeadTailProperties
<1> QED BY <1>10, <1>11, <1>12 DEF Within

LEMMA CapsMark ==
    ASSUME RunTypeOK, CapsInv, NEW c \in Candles, Mark(c)
    PROVE  CapsInv'
<1>1. /\ stage = "mark" /\ stage' = "fill" /\ pending' = ClosesFirst(pending) /\ overpaid' = 0
      /\ pos' = pos /\ ceiling' = ceiling /\ priced' = priced
  BY DEF Mark
<1>0. SUFFICES ASSUME priced
               PROVE  pending' \in Seq(Priced) /\ Within(overpaid)'
  BY <1>1 DEF CapsInv
<1>3. pending \in Seq(Priced) /\ Priced \in SUBSET Order
  BY <1>0 DEF CapsInv, Priced
<1>2. ASSUME NEW g \in Gauges
      PROVE  Held(pos', g) + SumOf(GaugeCost(g), pending') <= ceiling'[g] + overpaid'
  <2> DEFINE x == Held(pos, g)
             s == SumOf(GaugeCost(g), pending)
             t == SumOf(GaugeCost(g), ClosesFirst(pending))
             m == ceiling[g]
  <2>1. pending \in Seq(Order)
    BY DEF RunTypeOK
  <2>2. GaugeCost(g) \in [Order -> Int]
    BY GaugeFacts
  <2>3. t <= s
    BY <1>3, ClosesFirstFacts
  <2>4. s \in Int /\ t \in Int
    <3>1. pending \in Seq(Order) /\ ClosesFirst(pending) \in Seq(Order)
      BY <2>1, ClosesFirstFacts
    <3> QED BY <2>2, <3>1, SumFacts
  <2>5. x \in Int /\ m \in Int
    <3>1. pos \in [Keys -> [size : Nat, entry : Nat]] /\ ceiling \in [Gauges -> Int]
      BY DEF RunTypeOK, Gauges
    <3> QED BY <3>1, HeldTyped
  <2>6. x + s <= m + 0
    BY <1>0, <1>1 DEF CapsInv, Within
  <2> HIDE DEF x, s, t, m
  <2>7. x + t <= m + 0
    BY <2>3, <2>4, <2>5, <2>6
  <2> QED BY <1>1, <2>7 DEF x, t, m
<1>4. pending' \in Seq(Priced)
  BY <1>1, <1>3, ClosesFirstFacts
<1> QED BY <1>2, <1>4 DEF Within

LEMMA CapsExpire ==
    ASSUME RunTypeOK, CapsInv, Expire
    PROVE  CapsInv'
<1>1. /\ stage = "fill" /\ stage' = stage /\ pending # <<>> /\ pending' = Tail(pending)
      /\ overpaid' = overpaid /\ pos' = pos /\ ceiling' = ceiling /\ priced' = priced
  BY DEF Expire, market, account, history
<1>0. SUFFICES ASSUME priced
               PROVE  pending' \in Seq(Priced) /\ Within(overpaid)'
  BY <1>1 DEF CapsInv
<1>3. pending \in Seq(Priced) /\ Head(pending) \in Priced /\ Tail(pending) \in Seq(Priced)
  <2>1. pending \in Seq(Priced)
    BY <1>0 DEF CapsInv
  <2> QED BY <1>1, <2>1, HeadTailProperties
<1>2. ASSUME NEW g \in Gauges
      PROVE  Held(pos', g) + SumOf(GaugeCost(g), pending') <= ceiling'[g] + overpaid'
  <2> DEFINE x == Held(pos, g)
             s == SumOf(GaugeCost(g), pending)
             t == SumOf(GaugeCost(g), Tail(pending))
             h == GaugeCost(g)[Head(pending)]
             m == ceiling[g]
  <2>1. pending \in Seq(Order) /\ overpaid \in Int
    BY DEF RunTypeOK
  <2>2. Head(pending) \in Order /\ Tail(pending) \in Seq(Order)
    BY <1>1, <2>1, HeadTailProperties
  <2>3. GaugeCost(g) \in [Order -> Int] /\ h >= 0
    BY <1>3, GaugeFacts
  <2>4. s = h + t
    BY <1>1, <2>1, <2>3, SumFacts
  <2>5. s \in Int /\ t \in Int /\ h \in Int
    BY <2>1, <2>2, <2>3, SumFacts
  <2>6. x \in Int /\ m \in Int
    <3>1. pos \in [Keys -> [size : Nat, entry : Nat]] /\ ceiling \in [Gauges -> Int]
      BY DEF RunTypeOK, Gauges
    <3> QED BY <3>1, HeldTyped
  <2>7. x + s <= m + overpaid
    BY <1>0, <1>1 DEF CapsInv, Within
  <2> HIDE DEF x, s, t, h, m
  <2>8. x + t <= m + overpaid
    BY <2>1, <2>3, <2>4, <2>5, <2>6, <2>7
  <2> QED BY <1>1, <2>8 DEF x, t, m
<1> QED BY <1>1, <1>2, <1>3 DEF Within

LEMMA CapsDecide ==
    ASSUME RunTypeOK, NEW m \in Moods, Decide(m.view, m.hook)
    PROVE  CapsInv'
<1> DEFINE v == m.view
           h == m.hook
           a == Acct
<1>1. v \in Views /\ h \in Hooks
  BY MoodsTyped
<1>2. /\ pending' = Decided(v, h)
      /\ ceiling' = [k \in {"total"} \cup Sides |->
                        IF k = "total" THEN Max({Exposure(Acct, Keys), TotalCap(Acct)})
                        ELSE Max({Exposure(Acct, SideKeys(Sym, k)), SingleCap(Acct)})]
      /\ stage' \in {"over", "mark"} /\ pos' = pos /\ priced' = Decent(v, h)
  BY DEF Decide, account, Decent
<1>3. AccountTyped(Acct) /\ Acct.pos = pos
  BY AcctTyped
<1> HIDE DEF v, h
<1>0. SUFFICES ASSUME Decent(v, h)
               PROVE  pending' \in Seq(Priced) /\ Within(0)'
  BY <1>2 DEF CapsInv
<1>4. ASSUME NEW g \in Gauges
      PROVE  Held(pos', g) + SumOf(GaugeCost(g), pending') <= ceiling'[g] + 0
  <2> DEFINE x == Held(pos, g)
             s == SumOf(GaugeCost(g), Decided(v, h))
             cap == GaugeCap(Acct, g)
  <2>1. Exposure(Acct, GaugeKeys(g)) = x
    BY <1>3, HeldIs
  <2>2. ceiling'[g] = Max({x, cap})
    <3>1. CASE g = "total"
      <4>1. ceiling'[g] = Max({Exposure(Acct, Keys), TotalCap(Acct)})
        BY <1>2, <3>1
      <4>2. GaugeKeys(g) = Keys /\ cap = TotalCap(Acct)
        BY <3>1 DEF GaugeKeys, GaugeCap
      <4> QED BY <2>1, <4>1, <4>2
    <3>2. CASE g # "total"
      <4>1. g \in Sides
        BY <3>2 DEF Gauges
      <4>2. ceiling'[g] = Max({Exposure(Acct, SideKeys(Sym, g)), SingleCap(Acct)})
        BY <1>2, <3>2, <4>1
      <4>3. GaugeKeys(g) = SideKeys(Sym, g) /\ cap = SingleCap(Acct)
        BY <3>2 DEF GaugeKeys, GaugeCap
      <4> QED BY <2>1, <4>2, <4>3
    <3> QED BY <3>1, <3>2
  <2>3. s = 0 \/ x + s <= cap
    BY <1>0, <1>1, DecidedFits
  <2>4. x \in Int /\ cap \in Int
    <3>1. TotalCap(Acct) \in Int /\ SingleCap(Acct) \in Int
      BY <1>3, CapsTyped
    <3>2. pos \in [Keys -> [size : Nat, entry : Nat]]
      BY DEF RunTypeOK
    <3>3. x \in Int
      BY <3>2, HeldTyped
    <3> QED BY <3>1, <3>3 DEF GaugeCap
  <2>5. s \in Int
    <3>1. Decided(v, h) \in Seq(Order)
      BY <1>1, DecidedFits
    <3>2. GaugeCost(g) \in [Order -> Int]
      BY GaugeFacts
    <3> QED BY <3>1, <3>2, SumFacts
  <2> HIDE DEF x, s, cap
  <2>6. Max({x, cap}) \in {x, cap} /\ Max({x, cap}) >= x /\ Max({x, cap}) >= cap
    BY <2>4, MaxOf
  <2>7. x + s <= Max({x, cap}) + 0
    BY <2>3, <2>4, <2>5, <2>6
  <2> QED BY <1>2, <2>2, <2>7 DEF x, s
<1>5. pending' \in Seq(Priced)
  BY <1>0, <1>1, <1>2, DecidedFits
<1> QED BY <1>4, <1>5 DEF Within

LEMMA CapsInit == RunInit => CapsInv
<1> SUFFICES ASSUME RunInit PROVE CapsInv
  OBVIOUS
<1>1. /\ stage = "mark" /\ pending = <<>> /\ pos = [k \in Keys |-> [size |-> 0, entry |-> 0]]
      /\ ceiling = [k \in Gauges |-> 0]
  BY DEF RunInit, Flat, Gauges
<1>2. ASSUME NEW g \in Gauges PROVE Held(pos, g) = 0
  <2> DEFINE F == [k \in Keys |->
                      IF k \in GaugeKeys(g) THEN pos[k].size * pos[k].entry * CMult[k[1]] ELSE 0]
  <2>1. ASSUME NEW k \in Keys PROVE pos[k].size * pos[k].entry * CMult[k[1]] = 0
    <3>1. CMult[k[1]] \in Nat
      <4>1. k[1] \in Symbols
        BY DEF Keys
      <4> QED BY <4>1, Numbers
    <3>2. pos[k].size = 0 /\ pos[k].entry = 0
      BY <1>1
    <3> QED BY <3>1, <3>2
  <2>2. \A k \in Keys : F[k] = 0
    BY <2>1
  <2>3. Held(pos, g) = AllBuckets(F)
    BY DEF Held
  <2> HIDE DEF F
  <2>4. \A k \in Keys : F[k] \in Int
    BY <2>2
  <2>5. /\ F[<<Sym, "LONG", "GRID">>] = 0 /\ F[<<Sym, "LONG", "TREND">>] = 0
        /\ F[<<Sym, "SHORT", "GRID">>] = 0 /\ F[<<Sym, "SHORT", "TREND">>] = 0
    BY <2>2, FourKeys
  <2> QED BY <2>3, <2>4, <2>5, FourSum
<1>3. \A g \in Gauges : SumOf(GaugeCost(g), pending) = 0
  BY <1>1, SumEmpty
<1>4. \A g \in Gauges : Held(pos, g) + SumOf(GaugeCost(g), pending) <= ceiling[g] + 0
  <2> SUFFICES ASSUME NEW g \in Gauges
               PROVE  Held(pos, g) + SumOf(GaugeCost(g), pending) <= ceiling[g] + 0
    OBVIOUS
  <2>1. Held(pos, g) = 0 /\ SumOf(GaugeCost(g), pending) = 0 /\ ceiling[g] = 0
    BY <1>1, <1>2, <1>3
  <2> QED BY <2>1
<1>5. pending \in Seq(Priced)
  BY <1>1, EmptySeq
<1> QED BY <1>1, <1>4, <1>5 DEF CapsInv, Within

LEMMA CapsStep == RunTypeOK /\ CapsInv /\ [RunNext]_runVars => CapsInv'
<1> SUFFICES ASSUME RunTypeOK, CapsInv, [RunNext]_runVars
             PROVE  CapsInv'
  OBVIOUS
<1>1. ASSUME NEW c \in Candles, Mark(c) PROVE CapsInv'
  BY <1>1, CapsMark
<1>2. CASE Fill
  BY <1>2, CapsFill
<1>3. CASE Expire
  BY <1>3, CapsExpire
<1>4. CASE Settle
  <2>1. /\ stage = "fill" /\ UNCHANGED <<pos, pending, ceiling, priced, overpaid>>
        /\ stage' # "mark"
    BY <1>4, SettleFacts
  <2> QED BY <2>1 DEF CapsInv, Within
<1>5. ASSUME NEW m \in Moods, Decide(m.view, m.hook) PROVE CapsInv'
  BY <1>5, CapsDecide
<1>6. CASE UNCHANGED runVars
  BY <1>6 DEF CapsInv, Within, runVars, market, account, marks, history
<1> QED BY <1>1, <1>2, <1>3, <1>4, <1>5, <1>6 DEF RunNext

LEMMA CapsHeld == RunTypeOK /\ CapsInv => CapsKept
<1> SUFFICES ASSUME RunTypeOK, CapsInv, stage \in {"fill", "decide"}, priced
             PROVE  /\ Exposure(Acct, Keys) <= ceiling["total"] + overpaid
                    /\ \A d \in Sides : Exposure(Acct, SideKeys(Sym, d)) <= ceiling[d] + overpaid
  BY DEF CapsKept
<1>1. Acct.pos = pos
  BY AcctTyped
<1>2. ASSUME NEW g \in Gauges
      PROVE  Exposure(Acct, GaugeKeys(g)) <= ceiling[g] + overpaid
  <2> DEFINE x == Held(pos, g)
             s == SumOf(GaugeCost(g), pending)
             m == ceiling[g]
  <2>1. Exposure(Acct, GaugeKeys(g)) = x
    BY <1>1, HeldIs
  <2>2. pending \in Seq(Order) /\ overpaid \in Int /\ m \in Int
        /\ pos \in [Keys -> [size : Nat, entry : Nat]]
    BY DEF RunTypeOK, Gauges
  <2>3. GaugeCost(g) \in [Order -> Int] /\ \A o \in Priced : GaugeCost(g)[o] >= 0
    BY GaugeFacts
  <2>4. s \in Int /\ s >= 0
    <3> DEFINE f == GaugeCost(g)
    <3>1. pending \in Seq(Priced) /\ Priced \in SUBSET Order
      BY DEF CapsInv, Priced
    <3>2. f \in [Order -> Int] /\ \A o \in Priced : f[o] >= 0
      BY <2>3
    <3> HIDE DEF f
    <3>3. SumOf(f, pending) \in Int /\ SumOf(f, pending) >= 0
      BY <3>1, <3>2, SumOver
    <3> QED BY <3>3 DEF f
  <2>5. x \in Int
    BY <2>2, HeldTyped
  <2>6. x + s <= m + overpaid
    BY DEF CapsInv, Within
  <2> HIDE DEF x, s, m
  <2>7. x <= m + overpaid
    BY <2>2, <2>4, <2>5, <2>6
  <2> QED BY <2>1, <2>7 DEF m
<1>3. "total" \in Gauges /\ GaugeKeys("total") = Keys
  BY DEF Gauges, GaugeKeys
<1>4. ASSUME NEW d \in Sides PROVE d \in Gauges /\ GaugeKeys(d) = SideKeys(Sym, d)
  <2>1. d # "total"
    BY DEF Sides
  <2> QED BY <2>1 DEF Gauges, GaugeKeys
<1>5. Exposure(Acct, Keys) <= ceiling["total"] + overpaid
  BY <1>2, <1>3
<1>6. \A d \in Sides : Exposure(Acct, SideKeys(Sym, d)) <= ceiling[d] + overpaid
  BY <1>2, <1>4
<1> QED BY <1>5, <1>6

\* The caps of one bar hold through the fills of the next, when the entries that were
\* proposed had prices: what was decided under the caps can fill in any part and at any
\* price the bar allows (risk.py _apply_exposure_limits, backtest.py _simulate_fills).
THEOREM RunCapsKept == RunSpec => []CapsKept
<1>1. RunInit => CapsInv
  BY CapsInit
<1>2. RunTypeOK /\ CapsInv /\ [RunNext]_runVars => CapsInv'
  BY CapsStep
<1>3. RunTypeOK /\ CapsInv => CapsKept
  BY CapsHeld
<1> QED BY <1>1, <1>2, <1>3, RunTypes, PTL DEF RunSpec

-----------------------------------------------------------------------------
(* The throttle *)

\* Orders of the grid and RISK orders, and closes of any source.
NoTrend == From({"GRID", "RISK"})

LEMMA ShutIs == RunTypeOK => (Shut <=> TrendIdle /\ pending \in Seq(NoTrend))
<1> SUFFICES ASSUME RunTypeOK PROVE Shut <=> TrendIdle /\ pending \in Seq(NoTrend)
  OBVIOUS
<1>1. pending \in Seq(Order)
  BY DEF RunTypeOK
<1>2. Len(pending) \in Nat /\ DOMAIN pending = 1 .. Len(pending) /\ \A i \in 1 .. Len(pending) : pending[i] \in Order
  BY <1>1, LenProperties, ElementOfSeq
<1>3. \A o \in Order : o \in NoTrend <=> (o.src = "TREND" => o.reduce)
  BY DEF NoTrend, From, Order, Sources
<1>4. ASSUME \A i \in DOMAIN pending : pending[i].src = "TREND" => pending[i].reduce
      PROVE  pending \in Seq(NoTrend)
  <2>1. \A i \in 1 .. Len(pending) : pending[i] \in NoTrend
    BY <1>2, <1>3, <1>4
  <2>2. pending = [i \in 1 .. Len(pending) |-> pending[i]]
    BY <1>1, LenProperties
  <2> QED BY <1>2, <2>1, <2>2
<1>5. ASSUME pending \in Seq(NoTrend)
      PROVE  \A i \in DOMAIN pending : pending[i].src = "TREND" => pending[i].reduce
  <2>1. \A i \in 1 .. Len(pending) : pending[i] \in NoTrend
    BY <1>5, ElementOfSeq
  <2> QED BY <1>2, <1>3, <2>1
<1> QED BY <1>4, <1>5 DEF Shut, TrendIdle

LEMMA ShutStep ==
    ASSUME RunTypeOK, RunTypeOK', RunNext, Shut
    PROVE  Shut'
<1>1. TrendIdle /\ pending \in Seq(NoTrend) /\ NoTrend \subseteq Order
  BY ShutIs DEF NoTrend, From
<1>2. SUFFICES TrendIdle' /\ pending' \in Seq(NoTrend)
  <2>1. (RunTypeOK => (Shut <=> TrendIdle /\ pending \in Seq(NoTrend)))'
    BY ShutIs, PTL
  <2>2. NoTrend' = NoTrend
    BY DEF NoTrend, From, Order, Symbols, Range, Sides, Sources
  <2> QED BY <2>1, <2>2
<1>3. pos' = pos /\ samples' = samples => TrendIdle'
  BY <1>1 DEF TrendIdle
<1>4. pending # <<>> => Tail(pending) \in Seq(NoTrend) /\ Head(pending) \in NoTrend
  BY <1>1, HeadTailProperties
<1>5. ASSUME NEW c \in Candles, Mark(c) PROVE TrendIdle' /\ pending' \in Seq(NoTrend)
  <2>1. pos' = pos /\ samples' = samples /\ pending' = ClosesFirst(pending)
    BY <1>5 DEF Mark
  <2> QED BY <1>1, <1>3, <2>1, ClosesFirstFacts
<1>6. CASE Fill
  <2> DEFINE o == Head(pending)
             f == FillOf(o)
             k == <<Sym, o.side, Bucket(o.src)>>
  <2>1. samples' = Recorded(samples, f) /\ pending' = Tail(pending)
    BY <1>6, Zenon DEF Fill
  <2>2. /\ o.side \in Sides /\ pending # <<>> /\ f.src = o.src /\ o.src \in Sources
        /\ o.reduce => pos[k].size > 0
    BY <1>6, FillFacts, Zenon
  <2>3. \A j \in Keys : j # k => pos'[j] = pos[j]
    BY <1>6, Moved, Zenon
  <2>4. o.src = "TREND" => o.reduce
    BY <1>4, <2>2 DEF NoTrend, From
  <2>5. k = <<Sym, o.side, IF o.src = "TREND" THEN "TREND" ELSE "GRID">>
    BY DEF Bucket
  <2> HIDE DEF o, f, k
  <2>6. o.src # "TREND"
    <3>1. \A d \in Sides : ~(pos[<<Sym, d, "TREND">>].size > 0)
      BY <1>1 DEF TrendIdle, IsOpen
    <3> QED BY <2>2, <2>4, <2>5, <3>1
  <2>7. samples' = samples
    BY <2>1, <2>2, <2>6 DEF Recorded
  <2>8. \A d \in Sides : <<Sym, d, "TREND">> \in Keys /\ <<Sym, d, "TREND">> # k
    BY <2>5, <2>6, SymListed DEF Keys, Buckets
  <2>9. \A d \in Sides : pos'[<<Sym, d, "TREND">>] = pos[<<Sym, d, "TREND">>]
    BY <2>3, <2>8
  <2>10. TrendIdle'
    BY <1>1, <2>7, <2>9 DEF TrendIdle
  <2> QED BY <1>4, <2>1, <2>2, <2>10
<1>7. CASE Expire
  <2>1. pos' = pos /\ samples' = samples /\ pending' = Tail(pending) /\ pending # <<>>
    BY <1>7 DEF Expire, account
  <2> QED BY <1>3, <1>4, <2>1
<1>8. CASE Settle
  <2>1. pos' = pos /\ samples' = samples /\ pending' = pending
    BY <1>8 DEF Settle
  <2> QED BY <1>1, <1>3, <2>1
<1>9. ASSUME NEW m \in Moods, Decide(m.view, m.hook) PROVE TrendIdle' /\ pending' \in Seq(NoTrend)
  <2>1. pos' = pos /\ samples' = samples /\ pending' = Decided(m.view, m.hook)
    BY <1>9 DEF Decide, account
  <2>2. m.view \in Views /\ m.hook \in Hooks
    BY MoodsTyped
  <2>3. Decided(m.view, m.hook) \in Seq(From({"GRID"}))
    BY <1>1, <2>2, DecidedFits
  <2>4. From({"GRID"}) \subseteq NoTrend
    BY DEF NoTrend, From
  <2> QED BY <1>3, <2>1, <2>3, <2>4
<1> QED BY <1>5, <1>6, <1>7, <1>8, <1>9 DEF RunNext

LEMMA ShutStays == Shut /\ UNCHANGED runVars => Shut'
BY DEF Shut, runVars, account

\* The throttle is a latch: at nothing, with the trend buckets closed and none of their
\* entries pending, it decides no overlay entry, so that no fill of theirs gives it a sample
\* again, whatever the grid earns (sizing.py record_fill and fraction, 110-157;
\* backtest.py 1022-1035: "the overlay self-suspends").
THEOREM RunSuspendedStaysShut == RunSpec => SuspendedStaysShut
<1>1. RunTypeOK /\ RunTypeOK' /\ [RunNext]_runVars => [Shut => Shut']_runVars
  BY ShutStep, ShutStays
<1> QED BY <1>1, RunTypes, PTL DEF RunSpec, SuspendedStaysShut
=============================================================================
