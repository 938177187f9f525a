--------------------------- MODULE GridOrdersProofs ---------------------------
(***************************************************************************)
(* Theorems about the resting orders of the grid, for any limit, ladder,   *)
(* batch, window and any number of fills and faults: types and batches, no *)
(* order under two cids, none canceled that is wanted, and the exposure    *)
(* the trader counts on.                                                   *)
(***************************************************************************)
EXTENDS GridOrders, FiniteSetTheorems, TLAPS

-----------------------------------------------------------------------------
(* The inductive invariant *)

\* Nothing is left to send but in the stage that sends.
SendsInSend == pc # "send" => toCancel = {} /\ toCreate = {}

Counted ==
    /\ IsFiniteSet(book) /\ IsFiniteSet(sent)
    /\ IsFiniteSet(toCancel) /\ IsFiniteSet(toCreate)
    /\ fills \in 0 .. MaxFills /\ pos <= fills
    /\ trouble \in 0 .. MaxTrouble /\ crashes \in 0 .. trouble

\* The wanted entries are levels of one ladder, those the limit leaves room for
\* above the bucket, and there is at most one close.
OneLadder ==
    \E p \in Prices : \A i \in wanted : i \in Entries =>
        i = Entry(p, i.units) /\ i.units \in 1 .. (Limit - size)
RanksDiffer == \A i, j \in wanted : Rank(i) = Rank(j) => i = j

\* What is sent has a cid; what hangs or is on its way has the cid of its identity,
\* unless the process was killed before it saved that.
CidsNamed == pc = "send" => \A i \in wanted : cids[i] # 0
CidsKept == ~renamed => \A o \in book \cup sent : o.era = cids[o.ident]

\* A request without an answer is remembered, and what is to be created is neither
\* remembered nor on the book: no create doubles an order.  Market orders do not hang.
SentRemembered == ~orphaned => \A o \in sent : \E m \in created : m.of = o.ident
CreatesAreNew ==
    pc = "send" => \A i \in toCreate :
        /\ \A m \in created : m.of # i
        /\ ~orphaned => Hung(i, cids[i]) \notin book
NothingTwice == ~orphaned => book \cap sent = {}
NoPanicHangs == \A o \in book : o.ident \notin Panics

\* During a tick what filled since the account was read is unforeseen.
FillsUnforeseen == pc # "account" => pos <= size + unforeseen

Ladder == OneLadder /\ RanksDiffer
Sending == SendsInSend /\ CidsNamed
Remembering == SentRemembered /\ CreatesAreNew /\ NothingTwice /\ NoPanicHangs
Bounded == FillsUnforeseen /\ ExposureBounded

Types == TypeOK /\ Counted /\ Sending
IInv == Types /\ Ladder /\ CidsKept /\ Remembering /\ Bounded

-----------------------------------------------------------------------------
(* Constants, identities and orders *)

LEMMA Positive ==
    /\ Limit \in Nat /\ Batch \in Nat /\ Window \in Nat
    /\ Limit > 0 /\ Batch > 0 /\ Window > 0
    /\ MaxFills \in Nat /\ MaxTrouble \in Nat /\ MaxSize \in Nat
    /\ Prices \subseteq Nat
BY LimitsPositive, BoundsNat, PricesFinite DEF MaxSize

\* The three kinds of orders are told apart by their kind.
LEMMA Kinds ==
    ASSUME NEW i \in Idents
    PROVE  /\ i.units \in Nat
           /\ i \in Entries <=> i.kind = "entry"
           /\ i \in Closes <=> i.kind = "close"
           /\ i \in Panics <=> i.kind = "panic"
BY Positive DEF Idents, Entries, Closes, Panics, Entry, Close, Panic

LEMMA HungTyped ==
    ASSUME NEW i \in Idents, NEW e \in Eras
    PROVE  /\ Hung(i, e) \in OpenOrder
           /\ Hung(i, e).ident = i /\ Hung(i, e).era = e
BY DEF Hung, OpenOrder

\* Two orders with the same identity and the same era are the same order.
LEMMA SameOrder ==
    ASSUME NEW o \in OpenOrder, NEW q \in OpenOrder, o.ident = q.ident, o.era = q.era
    PROVE  o = q
BY DEF OpenOrder

LEMMA LeastOfTwo ==
    ASSUME NEW a \in Int, NEW b \in Int
    PROVE  /\ Min({a, b}) = (IF a <= b THEN a ELSE b)
           /\ Max({a, b}) = (IF a <= b THEN b ELSE a)
<1>1. \E x \in {a, b} : \A y \in {a, b} : x <= y
  BY SMT
<1>2. \E x \in {a, b} : \A y \in {a, b} : x >= y
  BY SMT
<1> QED BY <1>1, <1>2 DEF Min, Max

\* The ladder of a tick: identities, one price, as many levels as there is room for,
\* and no two of one rank.
LEMMA DesiredLadder ==
    ASSUME NEW p \in Prices, NEW n \in 0 .. MaxSize, NEW panic \in BOOLEAN
    PROVE  /\ Desired(p, n, panic) \subseteq Idents
           /\ \A i \in Desired(p, n, panic) : i \in Entries =>
                  i = Entry(p, i.units) /\ i.units \in 1 .. (Limit - n)
           /\ \A i, j \in Desired(p, n, panic) : Rank(i) = Rank(j) => i = j
<1>1. n \in Nat /\ n <= MaxSize
  BY Positive
<1>2. n > 0 => Panic(p, n) \in Panics /\ Close(n) \in Closes
  BY <1>1 DEF Panics, Closes
<1>3. \A k \in 1 .. (Limit - n) : Entry(p, k) \in Entries
  BY <1>1, Positive DEF Entries
<1>4. Desired(p, n, panic) \subseteq Idents
  BY <1>2, <1>3 DEF Desired, Idents
<1>5. ASSUME NEW i \in Desired(p, n, panic), i \in Entries
      PROVE  i = Entry(p, i.units) /\ i.units \in 1 .. (Limit - n)
  <2>1. i.kind = "entry"
    BY <1>4, <1>5, Kinds
  <2>2. PICK k \in 1 .. (Limit - n) : i = Entry(p, k)
    BY <2>1, <1>5 DEF Desired, Panic, Close
  <2> QED BY <2>2 DEF Entry
<1>6. ASSUME NEW i \in Desired(p, n, panic), NEW j \in Desired(p, n, panic), Rank(i) = Rank(j)
      PROVE  i = j
  <2>1. CASE panic
    BY <2>1, <1>6 DEF Desired
  <2>2. CASE ~panic
    <3>1. ASSUME NEW d \in Desired(p, n, panic)
          PROVE  \/ d = Close(n) /\ Rank(d) = 0
                 \/ \E k \in 1 .. (Limit - n) : d = Entry(p, k) /\ Rank(d) = k
      BY <2>2, <3>1 DEF Desired, Rank, Close, Entry
    <3> QED BY <3>1, <1>6, <1>1, Positive
  <2> QED BY <2>1, <2>2
<1> QED BY <1>4, <1>5, <1>6

\* The first of a set of distinct ranks are no more than a batch: the number of
\* those before it tells each of them apart.
LEMMA FirstOfBatch ==
    ASSUME NEW S \in SUBSET Idents, IsFiniteSet(S),
           \A i, j \in S : Rank(i) = Rank(j) => i = j
    PROVE  FirstOf(S) \subseteq S /\ Cardinality(FirstOf(S)) <= Batch
<1> DEFINE before(i) == {j \in S : Rank(j) < Rank(i)}
           place == [i \in FirstOf(S) |-> Cardinality(before(i))]
<1>1. FirstOf(S) \subseteq S
  BY DEF FirstOf
<1>2. \A i \in S : IsFiniteSet(before(i)) /\ Cardinality(before(i)) \in Nat
  <2>1. \A i \in S : before(i) \in SUBSET S
    OBVIOUS
  <2> QED BY <2>1, FS_Subset, FS_CardinalityType
<1>3. \A i \in S : Rank(i) \in Nat
  BY Kinds DEF Rank
<1>4. ASSUME NEW i \in S, NEW j \in S, Rank(i) < Rank(j)
      PROVE  Cardinality(before(i)) < Cardinality(before(j))
  <2>1. before(i) \in SUBSET before(j)
    BY <1>3, <1>4
  <2>2. i \in before(j) /\ i \notin before(i)
    BY <1>3, <1>4
  <2>3. /\ Cardinality(before(i)) <= Cardinality(before(j))
        /\ Cardinality(before(j)) = Cardinality(before(i)) => before(j) = before(i)
    BY <2>1, <1>2, FS_Subset
  <2> QED BY <2>2, <2>3, <1>2
<1>5. place \in [FirstOf(S) -> 0 .. (Batch - 1)]
  <2>1. \A i \in FirstOf(S) : Cardinality(before(i)) < Batch
    BY DEF FirstOf
  <2> HIDE DEF before
  <2>2. \A i \in FirstOf(S) : Cardinality(before(i)) \in 0 .. (Batch - 1)
    BY <1>1, <1>2, <2>1, Positive
  <2> QED BY <2>2
<1>6. ASSUME NEW i \in FirstOf(S), NEW j \in FirstOf(S), place[i] = place[j]
      PROVE  i = j
  <2>1. i \in S /\ j \in S /\ Rank(i) \in Int /\ Rank(j) \in Int
    BY <1>1, <1>3
  <2>2. Cardinality(before(i)) = Cardinality(before(j))
    BY <1>6
  <2> HIDE DEF before
  <2>3. Cardinality(before(i)) \in Int /\ Cardinality(before(j)) \in Int
    BY <2>1, <1>2
  <2>4. ~(Rank(i) < Rank(j)) /\ ~(Rank(j) < Rank(i))
    BY <2>1, <2>2, <2>3, <1>4
  <2> QED BY <2>1, <2>4
<1>7. place \in Injection(FirstOf(S), 0 .. (Batch - 1))
  BY <1>5, <1>6 DEF Injection, IsInjective
<1>8. IsFiniteSet(0 .. (Batch - 1)) /\ Cardinality(0 .. (Batch - 1)) = Batch
  BY Positive, FS_Interval
<1> QED BY <1>1, <1>7, <1>8, FS_Injection

LEMMA SomeOfBatch ==
    ASSUME NEW S, IsFiniteSet(S), NEW T \in SomeOf(S)
    PROVE  T \subseteq S /\ Cardinality(T) <= Batch
<1>1. Cardinality(S) \in Int
  BY FS_CardinalityType
<1> QED BY <1>1, Positive, LeastOfTwo DEF SomeOf

-----------------------------------------------------------------------------
(* Types *)

LEMMA InitTypes == Init => Types
<1> SUFFICES ASSUME Init PROVE Types
  OBVIOUS
<1>1. price \in Prices
  BY PricesFinite DEF Init
<1>2. /\ Cardinality(toCancel) <= Batch /\ Cardinality(toCreate) <= Batch
      /\ IsFiniteSet(book) /\ IsFiniteSet(sent)
      /\ IsFiniteSet(toCancel) /\ IsFiniteSet(toCreate)
  BY FS_EmptySet, Positive DEF Init
<1>3. /\ cids \in [Idents -> Eras \cup {0}] /\ 0 \in 0 .. MaxSize
      /\ file \in [size : 0 .. MaxSize, cids : [Idents -> Eras \cup {0}]]
  BY Positive DEF Init, Unnamed
<1>4. TypeOK
  <2>1. pos \in 0 .. MaxSize /\ size \in 0 .. MaxSize
    BY <1>3 DEF Init
  <2> QED BY <1>1, <1>2, <1>3, <2>1 DEF Init, TypeOK
<1>5. Counted
  BY <1>2, Positive DEF Init, Counted
<1> QED BY <1>4, <1>5 DEF Init, Types, Sending, SendsInSend, CidsNamed

LEMMA EraOfNow == Counted => crashes + 1 \in Eras /\ MaxFills <= MaxSize
BY Positive DEF Counted, Eras, MaxSize

LEMMA FaultCounted ==
    ASSUME Counted, Trouble
    PROVE  trouble' \in 0 .. MaxTrouble /\ crashes \in 0 .. trouble' /\ crashes + 1 \in 0 .. trouble'
BY Positive DEF Counted, Trouble

\* A market order or a close takes no more than there is.
LEMMA LeftTyped ==
    ASSUME TypeOK, NEW n \in Nat
    PROVE  Left(n) \in 0 .. MaxSize /\ Left(n) <= pos
BY Positive DEF Left, TypeOK

LEMMA MarketTypes ==
    ASSUME Types, Market \/ Answers
    PROVE  Types'
<1> USE DEF Types
<1>1. CASE Move \/ TurnRed
  BY <1>1, FaultCounted DEF Move, TurnRed, Fault, Outside, memory, plan, TypeOK, Counted,
                            Sending, SendsInSend, CidsNamed
<1>2. ASSUME NEW o \in book, Fill(o) PROVE Types'
  <2>1. o \in OpenOrder /\ o.ident \in Idents
    BY DEF TypeOK, OpenOrder
  <2>2. /\ pos' \in 0 .. MaxSize /\ fills' \in 0 .. MaxFills /\ pos' <= fills'
        /\ unforeseen' \in Nat
    <3>1. CASE /\ fills < MaxFills /\ pos' = pos + 1 /\ fills' = fills + 1
               /\ unforeseen' \in {unforeseen + 0, unforeseen + 1}
      BY <3>1, EraOfNow, Positive DEF TypeOK, Counted
    <3>2. CASE pos' = Left(o.ident.units) /\ UNCHANGED <<fills, unforeseen>>
      BY <3>2, <2>1, LeftTyped, Kinds, Positive DEF TypeOK, Counted
    <3> QED BY <1>2, <3>1, <3>2 DEF Fill
  <2>3. book' \subseteq OpenOrder /\ IsFiniteSet(book')
    BY <1>2, FS_RemoveElement DEF Fill, TypeOK, Counted
  <2> QED BY <1>2, <2>2, <2>3 DEF Fill, Outside, memory, plan, TypeOK, Counted,
                                  Sending, SendsInSend, CidsNamed
<1>3. ASSUME NEW o \in sent, Settle(o) PROVE Types'
  <2>1. o \in OpenOrder /\ o.ident \in Idents
    BY DEF TypeOK, OpenOrder
  <2>2. pos' \in 0 .. MaxSize /\ pos' <= fills
    BY <1>3, <2>1, LeftTyped, Kinds, Positive DEF Settle, TypeOK, Counted
  <2>3. book' \in {book, book \cup {o}} /\ sent' = sent \ {o}
    BY <1>3 DEF Settle
  <2>4. IsFiniteSet(book') /\ IsFiniteSet(sent')
    BY <2>3, FS_AddElement, FS_RemoveElement DEF Counted
  <2> QED BY <1>3, <2>1, <2>2, <2>3, <2>4
          DEF Settle, Outside, memory, plan, bounds, TypeOK, Counted,
              Sending, SendsInSend, CidsNamed
<1> QED BY <1>1, <1>2, <1>3 DEF Market, Answers

LEMMA AccountTypes ==
    ASSUME Types, AccountOk \/ AccountFails
    PROVE  Types'
<1> USE DEF Types
<1>1. created' \subseteq Memo(Idents)
  <2>1. SUFFICES ASSUME NEW n \in created, n.age + 1 < Window
                 PROVE  [n EXCEPT !.age = @ + 1] \in Memo(Idents)
    BY DEF AccountOk, AccountFails, TickBegins, Older
  <2>2. n \in Memo(Idents)
    BY DEF TypeOK
  <2> QED BY <2>1, <2>2, Positive DEF Memo
<1>2. CASE AccountOk
  <2>1. toCreate = {} /\ toCancel = {} /\ pc' = "plan"
    BY <1>2 DEF AccountOk, TickBegins, Sending, SendsInSend
  <2>2. wanted' \subseteq Idents
    BY <1>2, DesiredLadder DEF AccountOk, TypeOK
  <2>3. Cardinality(toCancel) <= Batch /\ Cardinality(toCreate) <= Batch
    BY <2>1, FS_EmptySet, Positive
  <2> QED BY <1>1, <1>2, <2>1, <2>2, <2>3
          DEF AccountOk, exchange, bounds, TypeOK, Counted, Sending, SendsInSend, CidsNamed
<1>3. CASE AccountFails
  BY <1>1, <1>3, FaultCounted DEF AccountFails, TickBegins, Fault, exchange, plan, history, TypeOK,
                    Counted, Sending, SendsInSend, CidsNamed
<1> QED BY <1>2, <1>3

\* Every wanted identity has a cid once it was planned; those it had it keeps.
LEMMA NamedTyped ==
    ASSUME Types
    PROVE  /\ Named \in [Idents -> Eras \cup {0}]
           /\ \A i \in wanted : Named[i] # 0
           /\ \A i \in Idents : cids[i] # 0 => Named[i] = cids[i]
BY EraOfNow, Positive DEF Types, TypeOK, Named, Eras, Counted

\* What a plan hands over is a batch of what it found.
LEMMA PlanBatches ==
    ASSUME Types, RanksDiffer, IsFiniteSet(wanted),
           NEW existing \in SUBSET book, NEW overdue \in SUBSET book,
           NEW blocked \in BOOLEAN, NEW unseen \in BOOLEAN,
           Plan(existing, overdue, blocked, unseen)
    PROVE  /\ toCancel' \subseteq
                  {o \in existing : \A i \in wanted : ~Matches(i, o)} \cup overdue
           /\ Cardinality(toCancel') <= Batch
           /\ toCreate' \subseteq Unremembered(Allowed(Missing(existing), blocked, unseen))
           /\ Cardinality(toCreate') <= Batch
<1> DEFINE C == {o \in existing : \A i \in wanted : ~Matches(i, o)} \cup overdue
           N == Unremembered(Allowed(Missing(existing), blocked, unseen))
<1>1. IsFiniteSet(C) /\ toCancel' \in SomeOf(C)
  <2>1. C \in SUBSET book
    OBVIOUS
  <2> QED BY <2>1, FS_Subset DEF Plan, Types, Counted
<1>2. N \subseteq wanted
  BY DEF Unremembered, Allowed, Missing
<1>3. N \in SUBSET Idents /\ IsFiniteSet(N)
  BY <1>2, FS_Subset DEF Types, TypeOK
<1>4. \A i, j \in N : Rank(i) = Rank(j) => i = j
  BY <1>2 DEF RanksDiffer
<1>5. toCreate' = FirstOf(N)
  BY DEF Plan
<1> HIDE DEF C, N
<1>6. toCancel' \subseteq C /\ Cardinality(toCancel') <= Batch
  BY <1>1, SomeOfBatch
<1>7. toCreate' \subseteq N /\ Cardinality(toCreate') <= Batch
  BY <1>3, <1>4, <1>5, FirstOfBatch
<1> QED BY <1>6, <1>7 DEF C, N

\* The ladder is finite: the ranks of its orders differ and end at the limit.
LEMMA WantedFinite ==
    ASSUME Types, Ladder
    PROVE  IsFiniteSet(wanted)
<1> DEFINE rank == [i \in wanted |-> Rank(i)]
<1>1. PICK p \in Prices : \A i \in wanted : i \in Entries =>
          i = Entry(p, i.units) /\ i.units \in 1 .. (Limit - size)
  BY DEF Ladder, OneLadder
<1>2. size \in Nat
  BY Positive DEF Types, TypeOK
<1>3. \A i \in wanted : Rank(i) \in 0 .. Limit
  BY <1>1, <1>2, Positive, Kinds DEF Rank, Types, TypeOK
<1>4. rank \in [wanted -> 0 .. Limit]
  BY <1>3
<1>5. \A i, j \in wanted : rank[i] = rank[j] => i = j
  BY DEF Ladder, RanksDiffer
<1>6. rank \in Injection(wanted, 0 .. Limit)
  BY <1>4, <1>5 DEF Injection, IsInjective
<1>7. IsFiniteSet(0 .. Limit)
  BY Positive, FS_Interval
<1> QED BY <1>6, <1>7, FS_Injection

\* What any of the four plans does.
LEMMA DecideFacts ==
    ASSUME Types, Ladder, Decide
    PROVE  /\ pc = "plan" /\ pc' = "send" /\ cids' = Named /\ quiet' = FALSE
           /\ UNCHANGED <<exchange, size, created, wanted, file, history, fills, crashes>>
           /\ trouble' = trouble \/ Trouble
           /\ toCancel' \subseteq book /\ Cardinality(toCancel') <= Batch
           /\ toCreate' \subseteq wanted /\ Cardinality(toCreate') <= Batch
           /\ \A i \in toCreate' : \A m \in created : m.of # i
           /\ \A i \in toCreate' : i \in Panics \/ \A o \in book : ~Matches(i, o)
           /\ trouble' = trouble => \A o \in toCancel', i \in wanted : ~Matches(i, o)
<1>1. PICK existing \in SUBSET book, overdue \in SUBSET book, blocked \in BOOLEAN, unseen \in BOOLEAN :
          /\ Plan(existing, overdue, blocked, unseen)
          /\ unseen = FALSE => existing = book
          /\ \/ overdue = {} /\ UNCHANGED bounds
             \/ Fault
  <2>1. CASE PlanOk BY <2>1 DEF PlanOk
  <2>2. CASE PlanOverdue
    <3>1. PICK o \in book : Plan(book, {o}, FALSE, FALSE) /\ Fault
      BY <2>2 DEF PlanOverdue
    <3>2. {o} \in SUBSET book /\ book \in SUBSET book
      OBVIOUS
    <3> QED BY <3>1, <3>2
  <2>3. CASE PlanBlocked BY <2>3 DEF PlanBlocked
  <2>4. CASE PlanUnseen BY <2>4 DEF PlanUnseen
  <2> QED BY <2>1, <2>2, <2>3, <2>4 DEF Decide
<1>2. /\ toCancel' \subseteq {o \in existing : \A i \in wanted : ~Matches(i, o)} \cup overdue
      /\ Cardinality(toCancel') <= Batch
      /\ toCreate' \subseteq Unremembered(Allowed(Missing(existing), blocked, unseen))
      /\ Cardinality(toCreate') <= Batch
  BY <1>1, WantedFinite, PlanBatches DEF Ladder
<1>3. /\ pc = "plan" /\ pc' = "send" /\ cids' = Named /\ quiet' = FALSE
      /\ UNCHANGED <<exchange, size, created, wanted, file, history>>
  BY <1>1 DEF Plan
<1>4. UNCHANGED <<fills, crashes>> /\ (trouble' = trouble \/ Trouble)
  BY <1>1 DEF Fault, bounds
<1>5. \A i \in toCreate' : /\ i \in wanted /\ \A m \in created : m.of # i
                           /\ i \in Panics \/ \A o \in book : ~Matches(i, o)
  BY <1>1, <1>2 DEF Unremembered, Allowed, Missing, Forced
<1>6. trouble' = trouble => \A o \in toCancel', i \in wanted : ~Matches(i, o)
  <2>1. ASSUME trouble' = trouble PROVE overdue = {}
    <3>1. trouble \in Int
      BY DEF Types, Counted
    <3> QED BY <1>1, <2>1, <3>1 DEF Fault, Trouble
  <2> QED BY <1>2, <2>1
<1> QED BY <1>2, <1>3, <1>4, <1>5, <1>6

LEMMA DecideTypes ==
    ASSUME Types, Ladder, Decide
    PROVE  Types'
<1> USE DEF Types
<1>1. /\ cids' \in [Idents -> Eras \cup {0}] /\ \A i \in wanted : cids'[i] # 0
      /\ trouble' \in 0 .. MaxTrouble /\ crashes' \in 0 .. trouble'
  BY DecideFacts, NamedTyped, FaultCounted DEF Counted
<1>2. toCancel' \subseteq OpenOrder
  BY DecideFacts DEF TypeOK
<1>3. IsFiniteSet(toCancel') /\ IsFiniteSet(toCreate')
  <2>1. toCancel' \in SUBSET book /\ toCreate' \in SUBSET wanted
    BY DecideFacts
  <2> QED BY <2>1, WantedFinite, FS_Subset DEF Counted
<1> QED BY DecideFacts, <1>1, <1>2, <1>3
        DEF exchange, history, TypeOK, Counted, Sending, SendsInSend, CidsNamed

LEMMA CancelTypes ==
    ASSUME Types, Cancel
    PROVE  Types'
<1> USE DEF Types
<1>1. PICK o \in toCancel : CancelOk(o) \/ CancelRaises(o)
  BY DEF Cancel
<1>2. book' \in {book, book \ {o}} /\ toCancel' = toCancel \ {o} /\ pc = "send"
  BY <1>1 DEF CancelOk, CancelRaises, Canceling
<1>3. book' \subseteq book /\ IsFiniteSet(book')
  BY <1>2, FS_RemoveElement DEF Counted
<1>4. /\ IsFiniteSet(toCancel') /\ toCancel' \subseteq OpenOrder
      /\ Cardinality(toCancel') <= Batch
  <2>1. Cardinality(toCancel') = Cardinality(toCancel) - 1 /\ IsFiniteSet(toCancel')
    BY <1>1, <1>2, FS_RemoveElement DEF Counted
  <2> QED BY <1>2, <2>1, Positive, FS_CardinalityType DEF TypeOK, Counted
<1> QED BY <1>1, <1>2, <1>3, <1>4, FaultCounted
        DEF CancelOk, CancelRaises, Canceling, Fault, bounds, history, TypeOK, Counted, Sending,
            SendsInSend, CidsNamed

LEMMA CreateTypes ==
    ASSUME Types, NEW i \in toCreate, CreateOk(i) \/ CreateRefused(i) \/ CreateRaises(i)
    PROVE  Types'
<1> USE DEF Types
<1>1. /\ pc = "send" /\ i \in wanted /\ i \in Idents /\ toCancel = {}
      /\ UNCHANGED <<price, red, size, quiet, cids, wanted, toCancel, pc, file, history>>
  BY DEF CreateOk, CreateRefused, CreateRaises, Creating, TypeOK
<1>2. cids[i] \in Eras /\ Hung(i, cids[i]) \in OpenOrder
  <2>1. cids[i] \in Eras
    BY <1>1 DEF TypeOK, Sending, CidsNamed
  <2> QED BY <1>1, <2>1, HungTyped
<1>3. /\ IsFiniteSet(toCreate') /\ toCreate' \subseteq wanted
      /\ Cardinality(toCreate') <= Batch
  <2>1. toCreate' = toCreate \ {i}
    BY DEF CreateOk, CreateRefused, CreateRaises, Creating
  <2>2. Cardinality(toCreate') = Cardinality(toCreate) - 1 /\ IsFiniteSet(toCreate')
    BY <2>1, FS_RemoveElement DEF Counted
  <2> QED BY <2>1, <2>2, Positive, FS_CardinalityType DEF TypeOK, Counted
<1>4. created' \subseteq Memo(Idents)
  <2>1. [of |-> i, age |-> 0] \in Memo(Idents)
    BY <1>1, Positive DEF Memo
  <2> QED BY <2>1 DEF CreateOk, CreateRefused, CreateRaises, Remembered, TypeOK
<1>5. pos' \in 0 .. MaxSize /\ pos' <= pos
  <2>1. Left(i.units) \in 0 .. MaxSize /\ Left(i.units) <= pos
    BY <1>1, Kinds, LeftTyped
  <2> QED BY <2>1 DEF CreateOk, CreateRefused, CreateRaises, TypeOK
<1>6. /\ book' \in {book, book \cup {Hung(i, cids[i])}}
      /\ sent' \in {sent, sent \cup {Hung(i, cids[i])}}
  BY DEF CreateOk, CreateRefused, CreateRaises
<1>7. /\ book' \subseteq OpenOrder /\ IsFiniteSet(book')
      /\ sent' \subseteq OpenOrder /\ IsFiniteSet(sent')
  <2>1. /\ IsFiniteSet(book \cup {Hung(i, cids[i])})
        /\ IsFiniteSet(sent \cup {Hung(i, cids[i])})
    BY FS_AddElement DEF Counted
  <2>2. /\ book \cup {Hung(i, cids[i])} \subseteq OpenOrder
        /\ sent \cup {Hung(i, cids[i])} \subseteq OpenOrder
    BY <1>2 DEF TypeOK
  <2> QED BY <1>6, <2>1, <2>2 DEF TypeOK, Counted
<1>8. fills' = fills /\ trouble' \in 0 .. MaxTrouble /\ crashes' \in 0 .. trouble'
  BY FaultCounted DEF CreateOk, CreateRefused, CreateRaises, Fault, bounds, Counted
<1>9. pos' <= fills'
  BY <1>5, <1>8 DEF TypeOK, Counted
<1>10. TypeOK'
  BY <1>1, <1>3, <1>4, <1>5, <1>7 DEF TypeOK, history
<1>11. Counted'
  BY <1>1, <1>3, <1>7, <1>8, <1>9 DEF Counted
<1>12. Sending'
  BY <1>1 DEF Sending, SendsInSend, CidsNamed
<1> QED BY <1>10, <1>11, <1>12

LEMMA RestartTypes ==
    ASSUME Types, Restart
    PROVE  Types'
<1> USE DEF Types
<1>1. /\ size' \in 0 .. MaxSize /\ cids' \in [Idents -> Eras \cup {0}]
      /\ toCancel' = {} /\ toCreate' = {} /\ created' = {} /\ wanted' = {}
      /\ UNCHANGED <<exchange, file, fills, unforeseen>> /\ pc' = "account"
  BY DEF Restart, LoadedCids, TypeOK
<1>2. trouble' \in 0 .. MaxTrouble /\ crashes' \in 0 .. trouble'
  BY FaultCounted DEF Restart
<1>3. /\ IsFiniteSet(toCancel') /\ IsFiniteSet(toCreate')
      /\ Cardinality(toCancel') <= Batch /\ Cardinality(toCreate') <= Batch
  BY <1>1, FS_EmptySet, Positive
<1>4. TypeOK'
  BY <1>1, <1>3 DEF Restart, TypeOK, exchange
<1>5. Counted'
  BY <1>1, <1>2, <1>3 DEF Counted, exchange
<1> QED BY <1>1, <1>4, <1>5 DEF Sending, SendsInSend, CidsNamed

LEMMA SaveTypes ==
    ASSUME Types, Save
    PROVE  Types'
BY DEF Types, Save, exchange, memory, plan, bounds, history, TypeOK, Counted, Sending,
       SendsInSend, CidsNamed

LEMMA StepTypes ==
    ASSUME Types, Ladder, [Next]_vars
    PROVE  Types'
<1>1. CASE UNCHANGED vars
  BY <1>1 DEF vars, exchange, memory, plan, bounds, history, Types, TypeOK, Counted, Sending,
              SendsInSend, CidsNamed
<1> QED BY <1>1, MarketTypes, AccountTypes, DecideTypes, CancelTypes, CreateTypes, SaveTypes,
           RestartTypes
        DEF Next, Tick, Create

-----------------------------------------------------------------------------
(* The ladder and the cids *)

LEMMA StepLadder ==
    ASSUME Types, Ladder, [Next]_vars
    PROVE  Ladder'
<1>1. CASE UNCHANGED <<wanted, size>>
  BY <1>1 DEF Ladder, OneLadder, RanksDiffer
<1>2. CASE AccountOk
  <2>1. size' = pos /\ wanted' = Desired(price, pos, red)
    BY <1>2 DEF AccountOk
  <2>2. price \in Prices /\ pos \in 0 .. MaxSize /\ red \in BOOLEAN
    BY DEF Types, TypeOK
  <2> QED BY <2>1, <2>2, DesiredLadder DEF Ladder, OneLadder, RanksDiffer
<1>3. CASE Restart
  BY <1>3, PricesFinite DEF Restart, Ladder, OneLadder, RanksDiffer
<1> QED BY <1>1, <1>2, <1>3
        DEF Next, vars, Market, Answers, Tick, Decide, Cancel, Create, Move, TurnRed, Fill, Settle,
            Outside, AccountFails, PlanOk, PlanOverdue, PlanBlocked, PlanUnseen, Plan,
            CancelOk, CancelRaises, Canceling, CreateOk, CreateRefused, CreateRaises, Creating,
            Save, memory, plan

LEMMA StepCids ==
    ASSUME Types, Ladder, CidsKept, [Next]_vars
    PROVE  CidsKept'
<1> SUFFICES ASSUME ~renamed', NEW o \in book' \cup sent'
             PROVE  o.era = cids'[o.ident]
  BY DEF CidsKept
<1>1. CASE UNCHANGED <<cids, renamed>> /\ o \in book \cup sent
  BY <1>1 DEF CidsKept
<1>2. CASE Decide
  <2>1. o \in book \cup sent /\ ~renamed /\ cids' = Named
    BY <1>2, DecideFacts DEF exchange, history
  <2>2. o \in OpenOrder /\ o.ident \in Idents /\ o.era = cids[o.ident] /\ o.era # 0
    BY <2>1 DEF CidsKept, Types, TypeOK, OpenOrder, Eras
  <2> QED BY <2>1, <2>2, NamedTyped
<1>3. CASE Restart
  BY <1>3 DEF Restart, LoadedCids, exchange, CidsKept
<1>4. ASSUME NEW i \in toCreate, CreateOk(i) \/ CreateRefused(i) \/ CreateRaises(i)
      PROVE  o.era = cids'[o.ident]
  <2>1. UNCHANGED <<cids, renamed>>
    BY <1>4 DEF CreateOk, CreateRefused, CreateRaises, Creating, history
  <2>2. o \in book \cup sent \/ o = Hung(i, cids[i])
    BY <1>4 DEF CreateOk, CreateRefused, CreateRaises
  <2> QED BY <1>1, <2>1, <2>2 DEF Hung
<1>5. CASE Market \/ Answers \/ AccountOk \/ AccountFails \/ Cancel \/ Save \/ UNCHANGED vars
  <2>1. UNCHANGED <<cids, renamed>> /\ book' \cup sent' \subseteq book \cup sent
    BY <1>5 DEF Market, Answers, AccountOk, AccountFails, Cancel, Save, vars, Move, TurnRed, Fill,
                Settle, Outside, memory, exchange, history, CancelOk, CancelRaises, Canceling
  <2> QED BY <1>1, <2>1
<1> QED BY <1>2, <1>3, <1>4, <1>5 DEF Next, Tick, Create

-----------------------------------------------------------------------------
(* No create doubles an order *)

LEMMA StepRemembering ==
    ASSUME Types, Ladder, Remembering, [Next]_vars
    PROVE  Remembering'
<1> USE DEF Remembering
<1>1. CASE UNCHANGED <<book, sent, created, toCreate, cids, pc, orphaned>>
  BY <1>1 DEF SentRemembered, CreatesAreNew, NothingTwice, NoPanicHangs
<1>2. CASE /\ book' \subseteq book
           /\ UNCHANGED <<sent, created, toCreate, cids, pc, orphaned>>
  BY <1>2 DEF SentRemembered, CreatesAreNew, NothingTwice, NoPanicHangs
<1>3. CASE Market
  <2>1. CASE Move \/ TurnRed
    BY <2>1, <1>1 DEF Move, TurnRed, Outside, memory, plan
  <2>2. CASE \E o \in book : Fill(o)
    BY <2>2, <1>2 DEF Fill, Outside, memory, plan
  <2> QED BY <1>3, <2>1, <2>2 DEF Market
<1>4. ASSUME NEW o \in sent, Settle(o) PROVE Remembering'
  <2>1. /\ sent' = sent \ {o} /\ book' \in {book, book \cup {o}}
        /\ book' = book \/ o.ident \notin Panics
        /\ UNCHANGED <<created, toCreate, cids, pc, orphaned>>
    BY <1>4 DEF Settle, Outside, memory, plan
  <2>2. CreatesAreNew'
    BY <2>1 DEF CreatesAreNew, SentRemembered, Hung
  <2> QED BY <2>1, <2>2 DEF SentRemembered, NothingTwice, NoPanicHangs
<1>5. CASE AccountOk \/ AccountFails
  <2>1. /\ TickBegins /\ pc' # "send" /\ UNCHANGED <<book, sent, orphaned>>
    BY <1>5 DEF AccountOk, AccountFails, TickBegins, exchange, history
  <2>2. ASSUME NEW o \in sent, NEW m \in created, m.of = o.ident
        PROVE  \E n \in created' : n.of = o.ident
    <3>1. m \in Memo(Idents) /\ m.age + 1 < Window /\ created' = Older(created)
      BY <2>1, <2>2 DEF TickBegins, Types, TypeOK
    <3>2. [m EXCEPT !.age = @ + 1] \in created' /\ [m EXCEPT !.age = @ + 1].of = m.of
      BY <3>1 DEF Older, Memo
    <3> QED BY <2>2, <3>2
  <2> QED BY <2>1, <2>2 DEF SentRemembered, CreatesAreNew, NothingTwice, NoPanicHangs
<1>6. CASE Decide
  <2>1. /\ cids' = Named /\ UNCHANGED <<book, sent, created, orphaned>>
        /\ \A i \in toCreate' : \A m \in created : m.of # i
        /\ \A i \in toCreate' : i \in Panics \/ \A o \in book : ~Matches(i, o)
    BY <1>6, DecideFacts DEF exchange, history
  <2>2. ASSUME NEW i \in toCreate' PROVE Hung(i, cids'[i]) \notin book
    BY <2>1, <2>2 DEF NoPanicHangs, Matches, Hung
  <2> QED BY <2>1, <2>2 DEF SentRemembered, CreatesAreNew, NothingTwice, NoPanicHangs
<1>7. CASE Cancel
  BY <1>7, <1>2 DEF Cancel, CancelOk, CancelRaises, Canceling, history
<1>8. ASSUME NEW i \in toCreate, CreateOk(i) \/ CreateRefused(i) \/ CreateRaises(i)
      PROVE  Remembering'
  <2>1. pc = "send" /\ toCreate' = toCreate \ {i} /\ UNCHANGED <<cids, pc, orphaned>>
    BY <1>8 DEF CreateOk, CreateRefused, CreateRaises, Creating, history
  <2>2. /\ \A m \in created : m.of # i
        /\ ~orphaned => Hung(i, cids[i]) \notin book
        /\ ~orphaned => \A o \in sent : o.ident # i
    BY <2>1 DEF CreatesAreNew, SentRemembered
  <2>3. created' = {m \in created : m.of # i} \/ created' = Remembered(i)
    BY <1>8 DEF CreateOk, CreateRefused, CreateRaises
  <2>4. /\ \A m \in created : m \in created'
        /\ \A m \in created' : m \in created \/ m.of = i
    BY <2>2, <2>3 DEF Remembered
  <2>5. CASE UNCHANGED <<book, sent>>
    BY <2>1, <2>4, <2>5 DEF SentRemembered, CreatesAreNew, NothingTwice, NoPanicHangs
  <2>6. CASE book' = book \cup {Hung(i, cids[i])} /\ sent' = sent /\ ~Forced(i)
    BY <2>1, <2>2, <2>4, <2>6
    DEF SentRemembered, CreatesAreNew, NothingTwice, NoPanicHangs, Hung, Forced
  <2>7. CASE /\ sent' = sent \cup {Hung(i, cids[i])} /\ book' = book
             /\ created' = Remembered(i)
    <3>1. \E m \in created' : m.of = i
      <4>1. [of |-> i, age |-> 0] \in created' /\ [of |-> i, age |-> 0].of = i
        BY <2>7 DEF Remembered
      <4> QED BY <4>1
    <3>2. Hung(i, cids[i]).ident = i
      BY DEF Hung
    <3>3. SentRemembered'
      BY <2>1, <2>4, <2>7, <3>1, <3>2 DEF SentRemembered
    <3> QED BY <2>1, <2>2, <2>4, <2>7, <3>3 DEF CreatesAreNew, NothingTwice, NoPanicHangs
  <2> QED BY <1>8, <2>5, <2>6, <2>7 DEF CreateOk, CreateRefused, CreateRaises
<1>9. CASE Save
  BY <1>9 DEF Save, exchange, memory, plan, history, SentRemembered, CreatesAreNew, NothingTwice,
              NoPanicHangs
<1>10. CASE Restart
  BY <1>10 DEF Restart, exchange, SentRemembered, CreatesAreNew, NothingTwice, NoPanicHangs
<1>11. CASE UNCHANGED vars
  BY <1>11, <1>1 DEF vars, exchange, memory, plan, history
<1> QED BY <1>3, <1>4, <1>5, <1>6, <1>7, <1>8, <1>9, <1>10, <1>11
        DEF Next, Answers, Tick, Create

-----------------------------------------------------------------------------
(* The exposure *)

\* The entries the last plan counts on.
Counting == {o \in book \cup sent : o.ident \in Entries /\ Planned(o)}

LEMMA Ceiling ==
    ASSUME Types
    PROVE  /\ size \in Nat /\ Max({Limit, size}) \in Nat
           /\ Max({Limit, size}) = (IF Limit <= size THEN size ELSE Limit)
<1>1. size \in Nat /\ Limit \in Nat
  BY Positive DEF Types, TypeOK
<1>2. Max({Limit, size}) = (IF Limit <= size THEN size ELSE Limit)
  BY <1>1, LeastOfTwo
<1> QED BY <1>1, <1>2

\* They stand on different levels, and there is room for so many.
LEMMA Room ==
    ASSUME Types, Ladder
    PROVE  /\ IsFiniteSet(Counting) /\ Cardinality(Counting) \in Nat
           /\ size + Cardinality(Counting) <= Max({Limit, size})
<1>1. PICK p \in Prices : \A i \in wanted : i \in Entries =>
          i = Entry(p, i.units) /\ i.units \in 1 .. (Limit - size)
  BY DEF Ladder, OneLadder
<1>2. size \in Nat
  BY Positive DEF Types, TypeOK
<1> DEFINE level == [o \in Counting |-> o.ident.units]
<1>3. level \in [Counting -> 1 .. (Limit - size)]
  BY <1>1 DEF Counting, Planned
<1>4. ASSUME NEW o \in Counting, NEW q \in Counting, level[o] = level[q]
      PROVE  o = q
  <2>1. o \in OpenOrder /\ q \in OpenOrder /\ o.ident.units = q.ident.units
    BY <1>4 DEF Counting, Types, TypeOK
  <2>2. o.ident = q.ident /\ o.era = q.era
    BY <1>1, <2>1 DEF Counting, Planned
  <2> QED BY <2>1, <2>2, SameOrder
<1>5. level \in Injection(Counting, 1 .. (Limit - size))
  BY <1>3, <1>4 DEF Injection, IsInjective
<1>6. /\ IsFiniteSet(1 .. (Limit - size))
      /\ Cardinality(1 .. (Limit - size)) = (IF 1 > Limit - size THEN 0 ELSE Limit - size)
  BY <1>2, Positive, FS_Interval
<1>7. /\ IsFiniteSet(Counting)
      /\ Cardinality(Counting) <= (IF 1 > Limit - size THEN 0 ELSE Limit - size)
  BY <1>5, <1>6, FS_Injection
<1> HIDE DEF level
<1>8. Cardinality(Counting) \in Nat
  BY <1>7, FS_CardinalityType
<1>9. size + Cardinality(Counting) <= Max({Limit, size})
  BY <1>7, <1>8, Ceiling, Positive
<1> QED BY <1>7, <1>8, <1>9

LEMMA StepFillsUnforeseen ==
    ASSUME Types, FillsUnforeseen, [Next]_vars
    PROVE  FillsUnforeseen'
<1>1. pos \in Nat /\ size \in Nat /\ unforeseen \in Nat
  BY Positive DEF Types, TypeOK
<1>2. CASE UNCHANGED <<size, unforeseen, pc>> /\ pos' <= pos /\ pos' \in Nat
  BY <1>1, <1>2 DEF FillsUnforeseen
<1>3. CASE pc' = "account"
  BY <1>3 DEF FillsUnforeseen
<1>4. ASSUME NEW n \in Nat PROVE Left(n) \in Nat /\ Left(n) <= pos
  BY <1>4, LeftTyped, Positive DEF Types
<1>5. ASSUME NEW o \in book, Fill(o) PROVE FillsUnforeseen'
  <2>1. CASE pos' = Left(o.ident.units) /\ UNCHANGED unforeseen
    <3>1. o.ident.units \in Nat
      BY Kinds DEF Types, TypeOK, OpenOrder
    <3> QED BY <1>2, <1>4, <1>5, <2>1, <3>1 DEF Fill, Outside, memory
  <2>2. CASE pos' = pos + 1 /\ pc # "account"
    <3>1. \/ unforeseen' = unforeseen + 1
          \/ pos' = Left(o.ident.units) /\ unforeseen' = unforeseen
      <4>1. (IF pc = "account" /\ o.ident \in wanted /\ cids[o.ident] = o.era THEN 0 ELSE 1) = 1
        BY <2>2
      <4> QED BY <1>5, <4>1 DEF Fill
    <3>2. CASE unforeseen' = unforeseen + 1
      BY <1>1, <1>5, <2>2, <3>2 DEF Fill, Outside, memory, FillsUnforeseen
    <3> QED BY <2>1, <3>1, <3>2
  <2> QED BY <1>3, <1>5, <2>1, <2>2 DEF Fill, Outside
<1>6. ASSUME NEW o \in sent, Settle(o) PROVE FillsUnforeseen'
  <2>1. o.ident.units \in Nat
    BY Kinds DEF Types, TypeOK, OpenOrder
  <2> QED BY <1>1, <1>2, <1>4, <1>6, <2>1 DEF Settle, Outside, memory
<1>7. CASE AccountOk
  BY <1>1, <1>7 DEF AccountOk, exchange, FillsUnforeseen
<1>8. CASE Decide
  BY <1>8 DEF Decide, PlanOk, PlanOverdue, PlanBlocked, PlanUnseen, Plan, exchange, history,
              FillsUnforeseen
<1>9. ASSUME NEW i \in toCreate, CreateOk(i) \/ CreateRefused(i) \/ CreateRaises(i)
      PROVE  FillsUnforeseen'
  <2>1. i.units \in Nat
    BY Kinds DEF Types, TypeOK
  <2> QED BY <1>1, <1>2, <1>4, <1>9, <2>1
          DEF CreateOk, CreateRefused, CreateRaises, Creating, history
<1>10. CASE Save \/ Restart \/ AccountFails
  BY <1>3, <1>10 DEF Save, Restart, AccountFails, TickBegins
<1>11. CASE Move \/ TurnRed \/ Cancel \/ UNCHANGED vars
  BY <1>1, <1>2, <1>11
  DEF Move, TurnRed, Cancel, CancelOk, CancelRaises, Canceling, Outside, memory, exchange, vars,
      history
<1> QED BY <1>5, <1>6, <1>7, <1>8, <1>9, <1>10, <1>11 DEF Next, Market, Answers, Tick, Create

LEMMA Sums ==
    ASSUME NEW a \in Int, NEW b \in Int, NEW c \in Int, NEW m \in Int, NEW u \in Int
    PROVE  /\ a <= b + u /\ b + c <= m => a + c <= m + u
           /\ a + c <= m + u => (a + 1) + (c - 1) <= m + (u + 0)
OBVIOUS

LEMMA SmallerSums ==
    ASSUME NEW a \in Int, NEW c \in Int, NEW m \in Int, NEW u \in Int,
           NEW a1 \in Int, NEW c1 \in Int, NEW u1 \in Int,
           a + c <= m + u, a1 + u <= a + u1, c1 <= c
    PROVE  a1 + c1 <= m + u1
OBVIOUS

\* A step that leaves the plan alone keeps the bound when it adds no more to the
\* position than to the unforeseen fills, and no entry that counts.
LEMMA StillBounded ==
    ASSUME Types, Types', Ladder, Ladder', ExposureBounded,
           UNCHANGED <<size, pc, orphaned, wanted>>,
           Counting' \subseteq Counting, pos' + unforeseen <= pos + unforeseen'
    PROVE  ExposureBounded'
<1> SUFFICES ASSUME pc = "account", ~orphaned, wanted # {}
             PROVE  pos' + Cardinality(Counting') <= Max({Limit, size}) + unforeseen'
  BY DEF ExposureBounded, Counting
<1>1. pos + Cardinality(Counting) <= Max({Limit, size}) + unforeseen
  BY DEF ExposureBounded, Counting
<1>2. Counting' \in SUBSET Counting
  OBVIOUS
<1>3. Cardinality(Counting') <= Cardinality(Counting) /\ Cardinality(Counting') \in Nat
  BY <1>2, Room, FS_Subset, FS_CardinalityType
<1>4. /\ pos \in Int /\ pos' \in Int /\ unforeseen \in Int /\ unforeseen' \in Int
  BY Positive DEF Types, TypeOK
<1>5. Max({Limit, size}) \in Int /\ Cardinality(Counting) \in Int
  BY Room, Ceiling
<1>6. Cardinality(Counting') \in Int
  BY <1>3
<1> QED BY <1>1, <1>3, <1>4, <1>5, <1>6, SmallerSums

LEMMA StepExposure ==
    ASSUME Types, Types', Ladder, Ladder', Remembering, Bounded, [Next]_vars
    PROVE  ExposureBounded'
<1> USE DEF Bounded
<1>1. CASE pc' # "account"
  BY <1>1 DEF ExposureBounded
<1>2. pos \in Nat /\ size \in Nat /\ unforeseen \in Nat
  BY Positive DEF Types, TypeOK
<1>3. CASE /\ UNCHANGED <<book, sent, wanted, cids>>
           /\ UNCHANGED <<size, pc, orphaned, pos, unforeseen>>
  BY <1>2, <1>3, StillBounded DEF Counting, Planned
<1>4. ASSUME NEW o \in book, Fill(o), pc = "account", ~orphaned, wanted # {}
      PROVE  ExposureBounded'
  <2>1. /\ book' = book \ {o}
        /\ UNCHANGED <<sent, wanted, cids, size, pc, orphaned>>
    BY <1>4 DEF Fill, Outside, memory, plan
  <2>2. Counting' \subseteq Counting
    BY <2>1 DEF Counting, Planned
  <2>3. CASE pos' = pos + 1 /\ unforeseen' = unforeseen + 0 /\ o \in Counting
    <3>1. o \notin sent
      BY <1>4 DEF Remembering, NothingTwice
    <3>2. Counting' = Counting \ {o}
      BY <2>1, <3>1 DEF Counting, Planned
    <3>3. Cardinality(Counting') = Cardinality(Counting) - 1
      BY <2>3, <3>2, Room, FS_RemoveElement
    <3>4. pos + Cardinality(Counting) <= Max({Limit, size}) + unforeseen
      BY <1>4 DEF ExposureBounded, Counting
    <3>5. pos' + Cardinality(Counting') <= Max({Limit, size'}) + unforeseen'
      <4>1. Max({Limit, size}) \in Int /\ Cardinality(Counting) \in Int
        BY Room, Ceiling
      <4>2. (pos + 1) + (Cardinality(Counting) - 1) <= Max({Limit, size}) + (unforeseen + 0)
        BY <1>2, <3>4, <4>1, Sums
      <4> QED BY <2>1, <2>3, <3>3, <4>2
    <3> QED BY <3>5 DEF ExposureBounded, Counting
  <2>4. CASE pos' = pos + 1 /\ unforeseen' = unforeseen + 1
    BY <1>2, <2>1, <2>2, <2>4, StillBounded
  <2>5. CASE pos' = Left(o.ident.units) /\ unforeseen' = unforeseen
    <3>1. o.ident.units \in Nat
      BY Kinds DEF Types, TypeOK, OpenOrder
    <3>2. pos' <= pos /\ pos' \in Nat
      BY <2>5, <3>1, LeftTyped, Positive DEF Types
    <3> QED BY <1>2, <2>1, <2>2, <2>5, <3>2, StillBounded
  <2>6. o \in Counting <=> o.ident \in Entries /\ o.ident \in wanted /\ cids[o.ident] = o.era
    BY DEF Counting, Planned
  <2> QED BY <1>4, <2>3, <2>4, <2>5, <2>6 DEF Fill
<1>5. ASSUME NEW o \in sent, Settle(o) PROVE ExposureBounded'
  <2>1. o.ident.units \in Nat
    BY Kinds DEF Types, TypeOK, OpenOrder
  <2>2. pos' <= pos /\ pos' \in Nat
    BY <1>2, <1>5, <2>1, LeftTyped, Positive DEF Settle, Types
  <2>3. /\ book' \cup sent' \subseteq book \cup sent
        /\ UNCHANGED <<wanted, cids, size, pc, orphaned, unforeseen>>
    BY <1>5 DEF Settle, Outside, memory, plan
  <2>4. Counting' \subseteq Counting
    BY <2>3 DEF Counting, Planned
  <2>5. pos' + unforeseen <= pos + unforeseen'
    <3>1. unforeseen' = unforeseen
      BY <2>3
    <3>2. pos' + unforeseen <= pos + unforeseen
      <4> DEFINE a == pos' b == pos c == unforeseen
      <4>1. a \in Nat /\ b \in Nat /\ c \in Nat /\ a <= b
        BY <1>2, <2>2
      <4> HIDE DEF a, b, c
      <4>2. a + c <= b + c
        BY <4>1
      <4> QED BY <4>2 DEF a, b, c
    <3> QED BY <3>1, <3>2
  <2> QED BY <2>3, <2>4, <2>5, StillBounded
<1>6. CASE Save
  <2>1. pc = "send" /\ UNCHANGED <<pos, size, unforeseen, book, sent, wanted, cids>>
    BY <1>6 DEF Save, exchange, memory, plan, history
  <2>2. Counting' = Counting
    BY <2>1 DEF Counting, Planned
  <2>3. pos + Cardinality(Counting) <= Max({Limit, size}) + unforeseen
    <3>1. Max({Limit, size}) \in Int /\ Cardinality(Counting) \in Int
      BY Room, Ceiling
    <3>2. pos <= size + unforeseen /\ size + Cardinality(Counting) <= Max({Limit, size})
      BY <2>1, Room DEF FillsUnforeseen
    <3> QED BY <1>2, <3>1, <3>2, Sums
  <2> QED BY <2>1, <2>2, <2>3 DEF ExposureBounded, Counting
<1>7. CASE Restart
  BY <1>7 DEF Restart, ExposureBounded
<1>8. CASE Move \/ TurnRed \/ AccountFails \/ UNCHANGED vars
  BY <1>3, <1>8 DEF Move, TurnRed, AccountFails, Outside, memory, plan, exchange, history, vars
<1>9. CASE AccountOk \/ Decide \/ Cancel \/ Create
  BY <1>1, <1>9
  DEF AccountOk, Decide, PlanOk, PlanOverdue, PlanBlocked, PlanUnseen, Plan, Cancel, CancelOk,
      CancelRaises, Canceling, Create, CreateOk, CreateRefused, CreateRaises, Creating
<1>10. ASSUME NEW o \in book, Fill(o) PROVE ExposureBounded'
  BY <1>4, <1>10 DEF Fill, Outside, plan, ExposureBounded
<1> QED BY <1>5, <1>6, <1>7, <1>8, <1>9, <1>10 DEF Next, Market, Answers, Tick

-----------------------------------------------------------------------------
(* Theorems *)

LEMMA InitInv == Init => IInv
<1> SUFFICES ASSUME Init PROVE IInv
  OBVIOUS
<1>1. Ladder
  BY PricesFinite DEF Init, Ladder, OneLadder, RanksDiffer
<1>2. CidsKept /\ Remembering
  BY DEF Init, CidsKept, Remembering, SentRemembered, CreatesAreNew, NothingTwice, NoPanicHangs
<1>3. Bounded
  BY DEF Init, Bounded, FillsUnforeseen, ExposureBounded
<1> QED BY <1>1, <1>2, <1>3, InitTypes DEF IInv

LEMMA StepInv == IInv /\ [Next]_vars => IInv'
<1> SUFFICES ASSUME IInv, [Next]_vars PROVE IInv'
  OBVIOUS
<1>1. Types' /\ Ladder' /\ CidsKept' /\ Remembering'
  BY StepTypes, StepLadder, StepCids, StepRemembering DEF IInv
<1>2. Bounded'
  BY <1>1, StepFillsUnforeseen, StepExposure DEF IInv, Bounded
<1> QED BY <1>1, <1>2 DEF IInv

LEMMA Invariant == Spec => []IInv
<1> QED BY InitInv, StepInv, PTL DEF Spec

\* The types, and no batch larger than max_orders_per_batch: the first of the ladder's
\* ranks are told apart by how many come before them.
THEOREM GridTypes == Spec => []TypeOK
<1>1. IInv => TypeOK
  BY DEF IInv, Types
<1> QED BY <1>1, Invariant, PTL

\* The book is bounded: the position and the entries the trader counts on stay within
\* the limit but for the fills it cannot have known of, whatever the exchange
\* answers late or never; and no order hangs under two cids.
THEOREM GridBookBounded == Spec => []BookBounded
<1>1. IInv => NoTwin
  BY DEF IInv, CidsKept, NoTwin
<1>2. IInv => BookBounded
  BY <1>1 DEF IInv, Bounded, BookBounded
<1> QED BY <1>2, Invariant, PTL

\* An order that is still wanted is canceled for its timeout only: what hangs carries
\* the cid the trader, restarted or not, has for it.
THEOREM GridQueueKept == Spec => QueueKept
<1>1. IInv /\ [Next]_vars =>
          (~renamed /\ pc = "plan" /\ pc' = "send" /\ trouble' = trouble
               => \A o \in toCancel' : o.ident \notin wanted)
  <2> SUFFICES ASSUME IInv, [Next]_vars, ~renamed, pc = "plan", pc' = "send",
                      trouble' = trouble, NEW o \in toCancel'
               PROVE  o.ident \notin wanted
    OBVIOUS
  <2>1. Types /\ Ladder /\ CidsKept
    BY DEF IInv
  <2>2. Decide
    BY DEF Next, vars, Market, Answers, Tick, Cancel, Create, Move, TurnRed, Fill, Settle, Outside,
           AccountOk, AccountFails, TickBegins, CancelOk, CancelRaises, Canceling, CreateOk,
           CreateRefused, CreateRaises, Creating, Save, Restart
  <2>3. o \in book /\ \A i \in wanted : ~Matches(i, o)
    BY <2>1, <2>2, DecideFacts
  <2>4. o.era = cids[o.ident] /\ o.era # 0 /\ o.ident \in Idents
    BY <2>1, <2>3 DEF CidsKept, Types, TypeOK, OpenOrder, Eras
  <2>5. Named[o.ident] = o.era
    BY <2>1, <2>4, NamedTyped
  <2> QED BY <2>3, <2>5 DEF Matches
<1> QED BY <1>1, Invariant, PTL DEF Spec, QueueKept
=============================================================================
