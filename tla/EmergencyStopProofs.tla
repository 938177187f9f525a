------------------------- MODULE EmergencyStopProofs -------------------------
(***************************************************************************)
(* Theorems about starting, stopping and killing a trader, for any number  *)
(* of requests, orders and trader processes.                               *)
(***************************************************************************)
EXTENDS EmergencyStop, FiniteSetTheorems, TLAPS

-----------------------------------------------------------------------------
(* The inductive invariant *)

\* The lock is held exactly across the await of a spawn and the wait of a stop.
LockHeld == \A r \in Requests : at[r] \in {"spawn", "wait", "killwait"} <=> lock = r

\* A live trader is the one the manager knows of ...
OnlyProcess == Alive \subseteq {process}

\* ... and there is none while one is spawned.
SpawnsAlone == \A r \in Requests : at[r] = "spawn" => Alive = {}

\* No reader is left waiting for a process that was replaced.
ReaderFollows == \A t \in Traders : reader[t] = "waiting" => awaited[t] = process

\* StatusTruthful also of "stopping", which no state keeps without the lock.
StatusKnown == Free /\ ~IsRunning => Alive = {}

Core == LockHeld /\ OnlyProcess /\ SpawnsAlone /\ ReaderFollows /\ StatusKnown
IInv == TypeOK /\ Core

-----------------------------------------------------------------------------
(* Types *)

LEMMA BoundTypes == MaxStarts \in Nat \ {0} /\ MaxPos \in Nat \ {0}
BY BoundsPositive

LEMMA InitTypes == Init => TypeOK
<1> SUFFICES ASSUME Init PROVE TypeOK OBVIOUS
<1>1. 0 \in 0 .. MaxPos /\ 0 \in 0 .. MaxStarts
  BY BoundTypes
<1> QED BY <1>1 DEF Init, TypeOK

LEMMA TraderTypes ==
    ASSUME TypeOK, NEW t \in Traders, Boot(t) \/ Place(t) \/ Die(t)
    PROVE  TypeOK'
<1>1. CASE Boot(t) BY <1>1 DEF TypeOK, Boot, TraderOnly, exchange, manager, readers, locals, history
<1>2. CASE Place(t) BY <1>2 DEF TypeOK, Place, TraderOnly, manager, readers, locals, history
<1>3. CASE Die(t) BY <1>3 DEF TypeOK, Die, TraderOnly, exchange, manager, readers, locals, history
<1> QED BY <1>1, <1>2, <1>3

LEMMA ReaderTypes ==
    ASSUME TypeOK, NEW t \in Traders, Reader(t) \/ ReaderCrashes(t)
    PROVE  TypeOK'
<1>1. CASE ReaderLeaves(t)
  <2>1. reader' \in [Traders -> {"none", "reading", "waiting"}]
        /\ awaited' \in [Traders -> 0 .. MaxStarts]
    BY <1>1 DEF TypeOK, ReaderLeaves
  <2> QED BY <1>1, <2>1 DEF TypeOK, ReaderLeaves, ReaderOnly, exchange, locals, history
<1>2. CASE ReaderWakes(t)
  <2>1. reader' \in [Traders -> {"none", "reading", "waiting"}]
        /\ awaited' \in [Traders -> 0 .. MaxStarts]
    BY <1>2, BoundTypes DEF TypeOK, ReaderWakes
  <2> QED BY <1>2, <2>1 DEF TypeOK, ReaderWakes, ReaderOnly, exchange, locals, history
<1> QED BY <1>1, <1>2 DEF Reader, ReaderSeesEnd, ReaderCrashes

LEMMA ExchangeTypes ==
    ASSUME TypeOK, NEW o \in Orders, Land(o) \/ Fill(o)
    PROVE  TypeOK'
<1>1. CASE Land(o)
  <2>1. book' \subseteq Orders /\ flying' \subseteq Orders \ book'
    BY <1>1 DEF TypeOK, Land
  <2> QED BY <1>1, <2>1 DEF TypeOK, Land, TraderOnly, manager, readers, locals, history
<1>2. CASE Fill(o)
  BY <1>2, BoundTypes DEF TypeOK, Fill, TraderOnly, manager, readers, locals, history
<1> QED BY <1>1, <1>2

LEMMA AskTypes ==
    ASSUME TypeOK, NEW r \in Requests, NEW what \in {"start", "stop", "kill"}, Ask(r, what)
    PROVE  TypeOK'
BY DEF TypeOK, Ask, Goes, exchange, manager, readers, locals

LEMMA ManagerTypes ==
    ASSUME TypeOK, NEW r \in Requests, Start(r) \/ Spawn(r) \/ Stop(r) \/ StopAnswered(r)
    PROVE  TypeOK'
<1> USE DEF TypeOK, Goes, RequestOnly, exchange, manager, readers, locals, history
<1>1. CASE StartRefused(r) BY <1>1 DEF StartRefused
<1>2. CASE StartSpawns(r) BY <1>2 DEF StartSpawns
<1>3. CASE Spawned(r)
  <2>1. PICK t \in Unborn :
          /\ life' = [life EXCEPT ![t] = "booting"]
          /\ process' = t
          /\ reader' = [reader EXCEPT ![t] = "reading"]
    BY <1>3 DEF Spawned
  <2>2. t \in Traders /\ t \in 0 .. MaxStarts
    BY <2>1, BoundTypes DEF Unborn, Traders
  <2>3. /\ UNCHANGED <<book, pos, flying, sentinel, awaited, listed, holding, failed, unread, alone, flat, stray>>
        /\ mstate' = "running" /\ lock' = Nobody /\ at' = [at EXCEPT ![r] = "idle"]
    BY <1>3 DEF Spawned
  <2> QED BY <2>1, <2>2, <2>3
<1>4. CASE SpawnFails(r) BY <1>4 DEF SpawnFails
<1>5. CASE StopNothing(r) BY <1>5 DEF StopNothing, AfterStop
<1>6. CASE StopSignals(r) BY <1>6 DEF StopSignals
<1>7. CASE StopKills(r) BY <1>7 DEF StopKills
<1>8. CASE StopWaited(r) BY <1>8 DEF StopWaited, AfterStop
<1> QED BY <1>1, <1>2, <1>3, <1>4, <1>5, <1>6, <1>7, <1>8 DEF Start, Spawn, Stop, StopAnswered

LEMMA KillTypes ==
    ASSUME TypeOK, NEW r \in Requests, Kill(r)
    PROVE  TypeOK'
<1> USE DEF TypeOK, Goes, KillOnly, exchange, manager, readers, locals, history
<1>1. CASE KillAsked(r) BY <1>1 DEF KillAsked
<1>2. CASE KillConnects(r) BY <1>2 DEF KillConnects
<1>3. CASE KillLists(r) BY <1>3 DEF KillLists
<1>4. CASE KillCancels(r) BY <1>4 DEF KillCancels, Cancels
<1>5. CASE KillReads(r)
  <2>1. holding' \in [Requests -> 0 .. MaxPos] BY <1>5, BoundTypes DEF KillReads
  <2> QED BY <1>5, <2>1 DEF KillReads, ReadsNext
<1>6. CASE KillCloses(r)
  <2>1. holding' \in [Requests -> 0 .. MaxPos] /\ pos' \in 0 .. MaxPos
    BY <1>6, BoundTypes DEF KillCloses
  <2> QED BY <1>6, <2>1 DEF KillCloses
<1>7. CASE KillEnds(r) BY <1>7 DEF KillEnds
<1> QED BY <1>1, <1>2, <1>3, <1>4, <1>5, <1>6, <1>7 DEF Kill

LEMMA StepTypes ==
    ASSUME TypeOK, [Next]_vars
    PROVE  TypeOK'
<1>1. CASE \E t \in Traders : Boot(t) \/ Place(t) \/ Die(t) \/ Reader(t) \/ ReaderCrashes(t)
  BY <1>1, TraderTypes, ReaderTypes
<1>2. CASE \E o \in Orders : Land(o) \/ Fill(o)
  BY <1>2, ExchangeTypes
<1>3. CASE \E r \in Requests : Request(r) \/ \E what \in {"start", "stop", "kill"} : Ask(r, what)
  BY <1>3, AskTypes, ManagerTypes, KillTypes DEF Request
<1>4. CASE ClearSentinel
  BY <1>4 DEF ClearSentinel, TypeOK, exchange, manager, readers, locals
<1>5. CASE UNCHANGED vars
  BY <1>5 DEF vars, TypeOK, exchange, manager, readers, locals, history
<1> QED BY <1>1, <1>2, <1>3, <1>4, <1>5 DEF Next

\* What starting, stopping, killing, trading and dying do leaves every variable
\* in its type, whatever the constants are.
THEOREM EmergencyTypes == Spec => []TypeOK
<1>1. TypeOK /\ [Next]_vars => TypeOK' BY StepTypes
<1> QED BY InitTypes, <1>1, PTL DEF Spec

-----------------------------------------------------------------------------
(* One trader *)

LEMMA InitCore == Init => Core
<1> SUFFICES ASSUME Init PROVE Core OBVIOUS
<1>1. Alive = {}
  BY DEF Init, Alive
<1>2. LockHeld
  BY NobodyIsNoRequest DEF Init, LockHeld
<1>3. ReaderFollows
  BY DEF Init, ReaderFollows
<1> QED BY <1>1, <1>2, <1>3 DEF Core, OnlyProcess, SpawnsAlone, StatusKnown

\* A step that brings no trader to life and leaves manager, readers and requests
\* alone; also one that moves requests between states that do not hold the lock.
LEMMA QuietStep ==
    ASSUME Core, Alive' \subseteq Alive, UNCHANGED <<manager, readers>>,
           \A r \in Requests :
             \/ at'[r] = at[r]
             \/ {at[r], at'[r]} \cap {"spawn", "wait", "killwait"} = {}
    PROVE  Core'
<1> USE DEF Core, manager, readers
<1>1. LockHeld' BY DEF LockHeld
<1>2. OnlyProcess' BY DEF OnlyProcess
<1>3. SpawnsAlone' BY DEF SpawnsAlone
<1>4. ReaderFollows' BY DEF ReaderFollows
<1>5. StatusKnown' BY DEF StatusKnown, Free, IsRunning
<1> QED BY <1>1, <1>2, <1>3, <1>4, <1>5

LEMMA TraderCore ==
    ASSUME TypeOK, Core, NEW t \in Traders, Boot(t) \/ Place(t) \/ Die(t)
    PROVE  Core'
<1>1. Alive' \subseteq Alive
  BY DEF TypeOK, Alive, Boot, Place, Die
<1>2. UNCHANGED <<manager, readers, at>>
  BY DEF Boot, Place, Die, TraderOnly
<1> QED BY <1>1, <1>2, QuietStep

LEMMA ExchangeCore ==
    ASSUME TypeOK, Core, NEW o \in Orders, Land(o) \/ Fill(o)
    PROVE  Core'
<1>1. UNCHANGED <<manager, readers, at, life>>
  BY DEF Land, Fill, TraderOnly
<1> QED BY <1>1, QuietStep DEF Alive

LEMMA AskCore ==
    ASSUME TypeOK, Core, NEW r \in Requests, NEW what \in {"start", "stop", "kill"}, Ask(r, what)
    PROVE  Core'
<1>1. UNCHANGED <<manager, readers, life>>
  BY DEF Ask
<1>2. \A q \in Requests : at'[q] = at[q] \/ {at[q], at'[q]} \cap {"spawn", "wait", "killwait"} = {}
  BY DEF Ask, Goes, TypeOK
<1> QED BY <1>1, <1>2, QuietStep DEF Alive

LEMMA KillCore ==
    ASSUME TypeOK, Core, NEW r \in Requests, Kill(r)
    PROVE  Core'
<1>1. UNCHANGED <<manager, readers, life>>
  BY DEF Kill, KillAsked, KillConnects, KillLists, KillCancels, KillReads, KillCloses,
         KillEnds, KillOnly
<1>2. \A q \in Requests : at'[q] = at[q] \/ {at[q], at'[q]} \cap {"spawn", "wait", "killwait"} = {}
  BY DEF Kill, KillAsked, KillConnects, KillLists, KillCancels, KillReads, ReadsNext,
         KillCloses, KillEnds, Goes, TypeOK
<1> QED BY <1>1, <1>2, QuietStep DEF Alive

\* A reader speaks only for the process the manager knows of.
LEMMA ReaderCore ==
    ASSUME TypeOK, Core, NEW t \in Traders, Reader(t) \/ ReaderCrashes(t)
    PROVE  Core'
<1> USE DEF Core
<1>1. UNCHANGED <<life, process, lock, at>> /\ Alive' = Alive
  BY DEF Reader, ReaderSeesEnd, ReaderCrashes, ReaderLeaves, ReaderWakes, ReaderOnly, Alive
<1>2. LockHeld' /\ OnlyProcess' /\ SpawnsAlone'
  BY <1>1 DEF LockHeld, OnlyProcess, SpawnsAlone
<1>3. CASE ReaderLeaves(t)
  <2>1. ReaderFollows'
    BY <1>1, <1>3 DEF ReaderLeaves, ReaderFollows, TypeOK
  <2>2. StatusKnown'
    BY <1>1, <1>3 DEF ReaderLeaves, StatusKnown, Free, IsRunning
  <2> QED BY <1>2, <2>1, <2>2
<1>4. CASE ReaderWakes(t)
  <2>1. ReaderFollows'
    BY <1>1, <1>4 DEF ReaderWakes, ReaderFollows, TypeOK
  <2>2. Alive = {}
    BY <1>4 DEF ReaderWakes, ReaderFollows, OnlyProcess
  <2>3. StatusKnown'
    BY <1>1, <2>2 DEF StatusKnown
  <2> QED BY <1>2, <2>1, <2>3
<1> QED BY <1>3, <1>4 DEF Reader, ReaderSeesEnd, ReaderCrashes

\* A start: nothing is alive when it takes the lock, so the process it spawns is
\* the only one.
LEMMA StartCore ==
    ASSUME TypeOK, Core, NEW r \in Requests, Start(r) \/ Spawn(r)
    PROVE  Core'
<1> USE NobodyIsNoRequest DEF Core
<1>1. CASE StartRefused(r)
  <2>1. UNCHANGED <<manager, readers, life>>
    BY <1>1 DEF StartRefused, RequestOnly
  <2>2. \A q \in Requests : at'[q] = at[q] \/ {at[q], at'[q]} \cap {"spawn", "wait", "killwait"} = {}
    BY <1>1 DEF StartRefused, Goes, TypeOK
  <2> QED BY <2>1, <2>2, QuietStep DEF Alive
<1>2. CASE StartSpawns(r)
  <2>1. /\ UNCHANGED <<life, process, readers>> /\ Alive' = Alive
        /\ lock = Nobody /\ lock' = r /\ mstate' = "starting"
        /\ at' = [at EXCEPT ![r] = "spawn"]
    BY <1>2 DEF StartSpawns, RequestOnly, Free, Goes, Alive
  <2>2. Alive = {}
    BY <1>2 DEF StartSpawns, StatusKnown
  <2>3. LockHeld'
    BY <2>1 DEF LockHeld, TypeOK
  <2>4. OnlyProcess' /\ SpawnsAlone' /\ StatusKnown'
    BY <2>1, <2>2 DEF OnlyProcess, SpawnsAlone, StatusKnown
  <2>5. ReaderFollows'
    BY <2>1 DEF ReaderFollows, readers
  <2> QED BY <2>3, <2>4, <2>5
<1>3. CASE Spawned(r)
  <2>1. PICK t \in Unborn :
          /\ life' = [life EXCEPT ![t] = "booting"]
          /\ process' = t
          /\ reader' = [reader EXCEPT ![t] = "reading"]
    BY <1>3 DEF Spawned
  <2>2. /\ awaited' = awaited /\ mstate' = "running" /\ lock' = Nobody
        /\ at' = [at EXCEPT ![r] = "idle"]
    BY <1>3 DEF Spawned, Goes
  <2>3. Alive = {} /\ lock = r
    BY <1>3 DEF Spawned, SpawnsAlone, LockHeld
  <2>4. Alive' \subseteq {t}
    BY <2>1, <2>3 DEF Alive, TypeOK, Unborn
  <2>5. LockHeld'
    BY <2>2, <2>3 DEF LockHeld, TypeOK
  <2>6. OnlyProcess'
    BY <2>1, <2>4 DEF OnlyProcess
  <2>7. SpawnsAlone'
    BY <2>5, <2>2 DEF LockHeld, SpawnsAlone
  <2>8. ReaderFollows'
    BY <1>3, <2>1, <2>2, <2>3 DEF Spawned, ReaderFollows, TypeOK, Unborn
  <2>9. StatusKnown'
    BY <2>2 DEF StatusKnown, IsRunning
  <2> QED BY <2>5, <2>6, <2>7, <2>8, <2>9
<1>4. CASE SpawnFails(r)
  <2>1. /\ UNCHANGED <<life, process, readers>> /\ Alive' = Alive
        /\ lock' = Nobody /\ at' = [at EXCEPT ![r] = "idle"]
    BY <1>4 DEF SpawnFails, RequestOnly, Goes, Alive
  <2>2. Alive = {} /\ lock = r
    BY <1>4 DEF SpawnFails, SpawnsAlone, LockHeld
  <2>3. LockHeld'
    BY <2>1, <2>2 DEF LockHeld, TypeOK
  <2>4. OnlyProcess' /\ SpawnsAlone' /\ StatusKnown'
    BY <2>1, <2>2 DEF OnlyProcess, SpawnsAlone, StatusKnown
  <2>5. ReaderFollows'
    BY <2>1 DEF ReaderFollows, readers
  <2> QED BY <2>3, <2>4, <2>5
<1> QED BY <1>1, <1>2, <1>3, <1>4 DEF Start, Spawn

\* A stop gives the lock back when the process is gone.
LEMMA StopCore ==
    ASSUME TypeOK, Core, NEW r \in Requests, Stop(r) \/ StopAnswered(r)
    PROVE  Core'
<1> USE NobodyIsNoRequest DEF Core
<1>1. UNCHANGED <<process, readers>> /\ Alive' \subseteq Alive
  BY DEF Stop, StopNothing, StopSignals, StopAnswered, StopKills, StopWaited,
         RequestOnly, Alive, TypeOK, manager
<1>2. OnlyProcess' /\ ReaderFollows'
  BY <1>1 DEF OnlyProcess, ReaderFollows, readers
<1>3. CASE StopNothing(r)
  <2>1. Alive = {}
    BY <1>3 DEF StopNothing, OnlyProcess
  <2>2. LockHeld'
    BY <1>3 DEF StopNothing, AfterStop, Goes, LockHeld, TypeOK
  <2> QED BY <1>1, <1>2, <2>1, <2>2 DEF SpawnsAlone, StatusKnown
<1>4. CASE StopSignals(r)
  <2>1. LockHeld' /\ SpawnsAlone'
    BY <1>4 DEF StopSignals, Goes, LockHeld, SpawnsAlone, TypeOK, Free
  <2>2. StatusKnown'
    BY <1>4 DEF StopSignals, StatusKnown, Free
  <2> QED BY <1>2, <2>1, <2>2
<1>5. CASE StopKills(r)
  <2>1. UNCHANGED <<manager, readers, at>>
    BY <1>5 DEF StopKills, RequestOnly
  <2> QED BY <1>1, <2>1, QuietStep
<1>6. CASE StopWaited(r)
  <2>1. Alive = {}
    BY <1>6 DEF StopWaited, OnlyProcess
  <2>2. LockHeld'
    BY <1>6 DEF StopWaited, AfterStop, Goes, LockHeld, TypeOK
  <2> QED BY <1>1, <1>2, <2>1, <2>2 DEF SpawnsAlone, StatusKnown
<1> QED BY <1>3, <1>4, <1>5, <1>6 DEF Stop, StopAnswered

LEMMA StepCore ==
    ASSUME TypeOK, Core, [Next]_vars
    PROVE  Core'
<1>1. CASE \E t \in Traders : Boot(t) \/ Place(t) \/ Die(t) \/ Reader(t) \/ ReaderCrashes(t)
  BY <1>1, TraderCore, ReaderCore
<1>2. CASE \E o \in Orders : Land(o) \/ Fill(o)
  BY <1>2, ExchangeCore
<1>3. CASE \E r \in Requests : Request(r) \/ \E what \in {"start", "stop", "kill"} : Ask(r, what)
  BY <1>3, AskCore, StartCore, StopCore, KillCore DEF Request
<1>4. CASE ClearSentinel \/ UNCHANGED vars
  <2>1. UNCHANGED <<manager, readers, at, life>>
    BY <1>4 DEF ClearSentinel, vars
  <2> QED BY <2>1, QuietStep DEF Alive
<1> QED BY <1>1, <1>2, <1>3, <1>4 DEF Next

LEMMA Inductive == Spec => []IInv
<1>1. Init => IInv BY InitTypes, InitCore DEF IInv
<1>2. IInv /\ [Next]_vars => IInv' BY StepTypes, StepCore DEF IInv
<1> QED BY <1>1, <1>2, PTL DEF Spec

\* Whatever starts, stops and kills overlap, a manager never has two traders alive.
THEOREM EmergencyOneTrader == Spec => []OneTrader
<1>1. IInv => OneTrader
  BY DEF IInv, Core, OnlyProcess, OneTrader
<1> QED BY Inductive, <1>1, PTL

\* A manager at rest that reports its trader as gone is right.
THEOREM EmergencyStatusTruthful == Spec => []StatusTruthful
<1>1. IInv => StatusTruthful
  BY DEF IInv, Core, StatusKnown, StatusTruthful, IsRunning
<1> QED BY Inductive, <1>1, PTL

-----------------------------------------------------------------------------
(* A kill is final *)

\* A kill that nothing overlapped is the only request there is.
AloneIsOnly == \A r \in alone, q \in Requests : q # r => at[q] = "idle"

\* Past its stop such a kill has no trader beside it.
KillsAlone ==
    \A r \in alone : at[r] \in {"markets", "orders", "cancels", "close", "sentinel"} => Alive = {}

\* The requests it could not see that have come to something, or to nothing, ...
Landed == stray \ (book \cup flying)

\* ... and those on their way: none is new.  There is no more of a position than
\* these and what it still holds.
OnlyTheirs(held) == flying \subseteq stray /\ pos <= held + Cardinality(Landed)

\* What it could read and did not fail at is gone: what still hangs it has listed or
\* could not see, then only the latter hangs and it knows the position, then that
\* is closed.
KillKnows ==
    \A r \in alone \ (failed \cup unread) :
        /\ at[r] = "cancels" => book \subseteq listed[r] \cup stray /\ flying \subseteq stray
        /\ at[r] = "close" => book \subseteq stray /\ OnlyTheirs(holding[r])
        /\ at[r] = "sentinel" => book \subseteq stray /\ OnlyTheirs(0)

\* Then the sentinel keeps every later process from trading.
FlatStays ==
    flat => /\ sentinel /\ \A t \in Traders : life[t] # "trading"
            /\ book \subseteq stray /\ OnlyTheirs(0)

Final == AloneIsOnly /\ KillsAlone /\ KillKnows /\ FlatStays

\* What lands, is lost or is canceled adds nothing to what may be left.
LEMMA LandedGrows ==
    ASSUME TypeOK, TypeOK', NEW held \in Nat, OnlyTheirs(held), pos' <= pos, stray' = stray,
           flying' \subseteq flying, book' \cup flying' \subseteq book \cup flying
    PROVE  OnlyTheirs(held)'
<1>1. IsFiniteSet(stray)
  BY SetsFinite, FS_Subset DEF TypeOK
<1>2. IsFiniteSet(Landed') /\ IsFiniteSet(Landed) /\ Landed \subseteq Landed'
  BY <1>1, FS_Subset DEF Landed
<1>3. Cardinality(Landed) <= Cardinality(Landed')
      /\ Cardinality(Landed) \in Nat /\ Cardinality(Landed') \in Nat
  BY <1>2, FS_Subset, FS_CardinalityType
<1>4. pos \in Nat /\ pos' \in Nat
  BY BoundTypes DEF TypeOK
<1>5. pos <= held + Cardinality(Landed) /\ flying' \subseteq stray'
  BY DEF OnlyTheirs
<1>6. pos' <= held + Cardinality(Landed')
  BY <1>3, <1>4, <1>5
<1> QED BY <1>5, <1>6 DEF OnlyTheirs

\* What fills was one of the orders the kill could not see.
LEMMA FilledIsTheirs ==
    ASSUME TypeOK, NEW o \in book, Fill(o), NEW held \in Nat, book \subseteq stray, OnlyTheirs(held)
    PROVE  OnlyTheirs(held)'
<1>1. book' = book \ {o} /\ pos' = pos + 1 /\ UNCHANGED <<flying, stray>>
  BY DEF Fill, TraderOnly, history
<1>2. IsFiniteSet(Landed)
  BY SetsFinite, FS_Subset DEF TypeOK, Landed
<1>3. Landed' = Landed \cup {o} /\ o \notin Landed
  BY <1>1 DEF Landed, TypeOK
<1>4. Cardinality(Landed') = Cardinality(Landed) + 1 /\ Cardinality(Landed) \in Nat
  BY <1>2, <1>3, FS_AddElement, FS_CardinalityType
<1>5. pos \in Nat /\ pos <= held + Cardinality(Landed) /\ flying' \subseteq stray'
  BY <1>1, BoundTypes DEF TypeOK, OnlyTheirs
<1>6. pos' <= held + Cardinality(Landed')
  BY <1>1, <1>4, <1>5
<1> QED BY <1>5, <1>6 DEF OnlyTheirs

\* What trades is alive: nothing is sent beside such a kill.
LEMMA TraderFinal ==
    ASSUME TypeOK, Final, NEW t \in Traders, Boot(t) \/ Place(t) \/ Die(t)
    PROVE  Final'
<1>1. /\ Alive' \subseteq Alive
      /\ UNCHANGED <<at, alone, failed, unread, listed, holding, book, pos, sentinel, flat, stray>>
  BY DEF TypeOK, Alive, Boot, Place, Die, TraderOnly, exchange, locals, history
<1>2. AloneIsOnly' /\ KillsAlone'
  BY <1>1 DEF Final, AloneIsOnly, KillsAlone
<1>3. CASE Place(t)
  <2>1. t \in Alive
    BY <1>3 DEF Place, Alive
  <2>2. KillKnows'
    BY <1>1, <2>1 DEF Final, KillsAlone, KillKnows
  <2>3. ~flat
    BY <1>3 DEF Final, FlatStays, Place
  <2> QED BY <1>1, <1>2, <2>2, <2>3 DEF Final, FlatStays
<1>4. CASE Boot(t) \/ Die(t)
  <2>1. flying' = flying
    BY <1>4 DEF Boot, Die, exchange
  <2>2. KillKnows'
    BY <1>1, <2>1 DEF Final, KillKnows, OnlyTheirs, Landed
  <2>3. ASSUME flat PROVE \A u \in Traders : life'[u] # "trading"
    BY <1>4, <2>3 DEF Final, FlatStays, Boot, Die, RefusesToTrade, TypeOK
  <2>4. FlatStays'
    BY <1>1, <2>1, <2>3 DEF Final, FlatStays, OnlyTheirs, Landed
  <2> QED BY <1>2, <2>2, <2>4 DEF Final
<1> QED BY <1>3, <1>4

\* What was on its way may land and fill.
LEMMA ExchangeFinal ==
    ASSUME TypeOK, Final, NEW o \in Orders, Land(o) \/ Fill(o)
    PROVE  Final'
<1>1. /\ UNCHANGED <<at, alone, failed, unread, listed, holding, sentinel, flat, life, stray>>
      /\ flying' \subseteq flying /\ book' \cup flying' \subseteq book \cup flying
  BY DEF Land, Fill, TraderOnly, locals, history
<1>2. AloneIsOnly' /\ KillsAlone'
  BY <1>1 DEF Final, AloneIsOnly, KillsAlone, Alive
<1>3. TypeOK'
  BY ExchangeTypes
<1>4. ASSUME NEW held \in Nat, book \subseteq stray, OnlyTheirs(held)
      PROVE  book' \subseteq stray /\ OnlyTheirs(held)'
  <2>1. CASE Land(o)
    <3>1. pos' <= pos
      BY <2>1, BoundTypes DEF Land, TypeOK
    <3>2. OnlyTheirs(held)'
      BY <1>1, <1>3, <1>4, <3>1, LandedGrows
    <3> QED BY <1>1, <1>4, <3>2 DEF OnlyTheirs
  <2>2. CASE Fill(o)
    <3>1. o \in book /\ book' \subseteq book
      BY <2>2 DEF Fill
    <3> QED BY <1>4, <2>2, <3>1, FilledIsTheirs
  <2> QED BY <2>1, <2>2
<1>5. KillKnows'
  <2>1. SUFFICES ASSUME NEW r \in alone, r \notin failed \cup unread
                 PROVE  /\ at[r] = "cancels" => book' \subseteq listed[r] \cup stray /\ flying' \subseteq stray
                        /\ at[r] = "close" => book' \subseteq stray /\ OnlyTheirs(holding[r])'
                        /\ at[r] = "sentinel" => book' \subseteq stray /\ OnlyTheirs(0)'
    BY <1>1 DEF KillKnows, OnlyTheirs
  <2>2. KillKnows
    BY DEF Final
  <2>3. CASE at[r] = "cancels"
    BY <1>1, <2>1, <2>2, <2>3 DEF KillKnows
  <2>4. CASE at[r] = "close"
    <3>1. holding[r] \in Nat
      BY <2>1, BoundTypes DEF TypeOK
    <3>2. book \subseteq stray /\ OnlyTheirs(holding[r])
      BY <2>1, <2>2, <2>4 DEF KillKnows
    <3> HIDE DEF OnlyTheirs
    <3>3. book' \subseteq stray /\ OnlyTheirs(holding[r])'
      BY <1>1, <1>4, <3>1, <3>2
    <3> QED BY <2>4, <3>3
  <2>5. CASE at[r] = "sentinel"
    <3>1. book \subseteq stray /\ OnlyTheirs(0)
      BY <2>1, <2>2, <2>5 DEF KillKnows
    <3> QED BY <1>4, <2>5, <3>1
  <2> QED BY <2>3, <2>4, <2>5
<1>6. FlatStays'
  BY <1>1, <1>4 DEF Final, FlatStays
<1> QED BY <1>2, <1>5, <1>6 DEF Final

LEMMA AskFinal ==
    ASSUME TypeOK, Final, NEW r \in Requests, NEW what \in {"start", "stop", "kill"}, Ask(r, what)
    PROVE  Final'
<1>1. /\ UNCHANGED <<book, pos, flying, sentinel, life, failed, unread, listed, holding, flat>>
      /\ at' = [at EXCEPT ![r] = what] /\ at'[r] = what
      /\ alone' = {} \/ (alone' = {r} /\ \A q \in Requests : at[q] = "idle")
      /\ flat => stray' = stray
  BY DEF Ask, Goes, exchange, locals, TypeOK
<1>2. AloneIsOnly' /\ KillsAlone' /\ KillKnows'
  BY <1>1 DEF AloneIsOnly, KillsAlone, KillKnows, TypeOK
<1>3. FlatStays'
  BY <1>1 DEF Final, FlatStays, OnlyTheirs, Landed
<1> QED BY <1>2, <1>3 DEF Final

LEMMA ReaderFinal ==
    ASSUME Final, NEW t \in Traders, Reader(t) \/ ReaderCrashes(t)
    PROVE  Final'
<1>1. UNCHANGED <<exchange, sentinel, life, at, locals, history>>
  BY DEF Reader, ReaderSeesEnd, ReaderCrashes, ReaderLeaves, ReaderWakes, ReaderOnly
<1> QED BY <1>1 DEF Final, AloneIsOnly, KillsAlone, KillKnows, FlatStays, Alive, OnlyTheirs, Landed,
                   exchange, locals, history

\* A step of a request leaves the others where they are.
LEMMA OthersIdle ==
    ASSUME TypeOK, AloneIsOnly, NEW r \in Requests, at[r] # "idle", NEW where,
           at' = [at EXCEPT ![r] = where], alone' \subseteq alone
    PROVE  AloneIsOnly' /\ \A q \in alone : q = r
BY DEF AloneIsOnly, TypeOK

\* A start is no kill; what it brings to life boots, and no kill without others
\* is past its stop then.
LEMMA StartFinal ==
    ASSUME TypeOK, Core, Final, NEW r \in Requests, Start(r) \/ Spawn(r)
    PROVE  Final'
<1>1. /\ UNCHANGED <<book, pos, flying, sentinel, failed, unread, listed, holding, alone, flat, stray>>
      /\ at[r] # "idle"
  BY DEF Start, Spawn, StartRefused, StartSpawns, Spawned, SpawnFails, RequestOnly,
         exchange, locals, history
<1>2. PICK where \in {"idle", "spawn"} : at' = [at EXCEPT ![r] = where]
  BY DEF Start, Spawn, StartRefused, StartSpawns, Spawned, SpawnFails, Goes
<1>3. AloneIsOnly' /\ \A q \in alone : q = r
  BY <1>1, <1>2, OthersIdle DEF Final
<1>4. KillsAlone' /\ KillKnows'
  BY <1>1, <1>2, <1>3 DEF KillsAlone, KillKnows, TypeOK
<1>5. \A t \in Traders : life'[t] = "trading" => life[t] = "trading"
  BY DEF Start, Spawn, StartRefused, StartSpawns, Spawned, SpawnFails, RequestOnly, TypeOK, Unborn
<1> QED BY <1>1, <1>3, <1>4, <1>5 DEF Final, FlatStays, OnlyTheirs, Landed

\* A stop leaves for the kill only when no trader is alive.
LEMMA StopFinal ==
    ASSUME TypeOK, Core, Final, NEW r \in Requests, Stop(r) \/ StopAnswered(r)
    PROVE  Final'
<1>1. /\ UNCHANGED <<book, pos, flying, sentinel, failed, unread, listed, holding, alone, flat, stray>>
      /\ at[r] \in {"stop", "killstop", "wait", "killwait"} /\ Alive' \subseteq Alive
      /\ \A t \in Traders : life'[t] = "trading" => life[t] = "trading"
  BY DEF Stop, StopAnswered, StopNothing, StopSignals, StopKills, StopWaited, RequestOnly,
         exchange, locals, history, Alive, TypeOK
<1>2. PICK where : /\ at' = [at EXCEPT ![r] = where]
                   /\ \/ where \in {"idle", "wait", "killwait"} \cup {at[r]}
                      \/ where = "markets" /\ process \notin Alive
  BY DEF Stop, StopAnswered, StopNothing, StopSignals, StopKills, StopWaited, AfterStop, Goes,
         RequestOnly, TypeOK
<1>3. AloneIsOnly' /\ \A q \in alone : q = r
  BY <1>1, <1>2, OthersIdle DEF Final
<1>4. process \notin Alive => Alive = {}
  BY DEF Core, OnlyProcess
<1>5. KillsAlone'
  BY <1>1, <1>2, <1>3, <1>4 DEF KillsAlone, TypeOK
<1>6. KillKnows'
  BY <1>1, <1>2, <1>3 DEF KillKnows, TypeOK
<1> QED BY <1>1, <1>3, <1>5, <1>6 DEF Final, FlatStays, OnlyTheirs, Landed

\* Alone, a kill that skips the stop skips it for good reason.
LEMMA AskedAlone ==
    ASSUME TypeOK, Core, Final, NEW r \in alone, at[r] = "kill", ~IsRunning
    PROVE  Alive = {}
<1>1. \A q \in Requests : at[q] \notin {"spawn", "wait", "killwait"}
  BY DEF Final, AloneIsOnly, TypeOK
<1>2. Free
  BY <1>1 DEF Core, LockHeld, Free, TypeOK
<1> QED BY <1>2 DEF Core, StatusKnown

\* No step of a kill sends or fills anything.
LEMMA KillOnlyTakes ==
    ASSUME TypeOK, NEW r \in Requests, Kill(r)
    PROVE  /\ flying' = flying /\ book' \subseteq book /\ pos' <= pos
           /\ ~KillLists(r) => stray' = stray
           /\ ~KillEnds(r) => UNCHANGED <<alone, flat, sentinel>>
<1>0. pos \in Nat /\ holding[r] \in Nat
  BY BoundTypes DEF TypeOK
<1>1. CASE KillCancels(r)
  BY <1>0, <1>1 DEF KillCancels, Cancels, KillOnly
<1>2. CASE KillCloses(r)
  BY <1>0, <1>2 DEF KillCloses, KillOnly
<1>3. CASE KillAsked(r) \/ KillConnects(r) \/ KillLists(r) \/ KillReads(r)
  BY <1>0, <1>3 DEF KillAsked, KillConnects, KillLists, KillReads, KillOnly, exchange
<1>4. CASE KillEnds(r)
  BY <1>0, <1>4 DEF KillEnds, exchange
<1> QED BY <1>1, <1>2, <1>3, <1>4 DEF Kill

\* While an earlier kill holds, another one adds nothing to what may be left.
LEMMA FlatKept ==
    ASSUME TypeOK, TypeOK', flat, FlatStays, NEW r \in Requests, Kill(r)
    PROVE  book' \subseteq stray' /\ OnlyTheirs(0)'
<1>1. stray' = stray
  <2>1. CASE KillLists(r)
    BY <2>1 DEF KillLists
  <2> QED BY <2>1, KillOnlyTakes
<1>2. book \subseteq stray /\ OnlyTheirs(0)
  BY DEF FlatStays
<1>3. OnlyTheirs(0)'
  BY <1>1, <1>2, KillOnlyTakes, LandedGrows
<1> QED BY <1>1, <1>2, <1>3, KillOnlyTakes

LEMMA KillKnowsKept ==
    ASSUME TypeOK, TypeOK', Core, Final, NEW r \in alone, r \in Requests, Kill(r),
           r \notin failed' \cup unread', at'[r] # "idle"
    PROVE  /\ at'[r] = "cancels" => book' \subseteq listed'[r] \cup stray' /\ flying' \subseteq stray'
           /\ at'[r] = "close" => book' \subseteq stray' /\ OnlyTheirs(holding[r])'
           /\ at'[r] = "sentinel" => book' \subseteq stray' /\ OnlyTheirs(0)'
<1>1. KillKnows /\ FlatStays
  BY DEF Final
<1>2. pos \in Nat /\ holding[r] \in Nat /\ IsFiniteSet(Landed) /\ Cardinality(Landed) \in Nat
  BY BoundTypes, SetsFinite, FS_Subset, FS_CardinalityType DEF TypeOK, Landed
<1>3. CASE KillAsked(r) \/ KillConnects(r) \/ KillEnds(r)
  BY <1>3 DEF KillAsked, KillConnects, KillEnds, Goes, TypeOK
<1>4. CASE KillLists(r)
  <2>1. at'[r] = "cancels" /\ listed'[r] = book /\ book' = book /\ flying' = flying
    BY <1>4 DEF KillLists, Goes, TypeOK, exchange
  <2>2. flying' \subseteq stray'
    BY <1>1, <1>4, <2>1 DEF KillLists, FlatStays, OnlyTheirs
  <2> QED BY <2>1, <2>2
<1>5. CASE KillCancels(r)
  <2>1. /\ at'[r] = "cancels" /\ at[r] = "cancels" /\ r \notin failed \cup unread
        /\ UNCHANGED <<flying, stray>> /\ book' \subseteq book
        /\ \E o \in listed[r] : o \notin book' /\ listed'[r] = listed[r] \ {o}
    BY <1>5 DEF KillCancels, Cancels, TypeOK
  <2> QED BY <1>1, <2>1 DEF KillKnows
<1>6. CASE KillReads(r)
  <2>1. /\ at'[r] = "close" /\ at[r] = "cancels" /\ r \notin failed \cup unread /\ listed[r] = {}
        /\ holding'[r] = pos /\ UNCHANGED <<book, pos, flying, stray>>
    BY <1>6 DEF KillReads, ReadsNext, Goes, TypeOK, exchange
  <2>2. book \subseteq stray /\ flying \subseteq stray
    BY <1>1, <2>1 DEF KillKnows
  <2>3. pos <= pos + Cardinality(Landed)
    BY <1>2
  <2> QED BY <2>1, <2>2, <2>3 DEF OnlyTheirs, Landed
<1>7. CASE KillCloses(r)
  <2>1. /\ at'[r] = "sentinel" /\ at[r] = "close" /\ r \notin failed \cup unread
        /\ UNCHANGED <<book, flying, stray>>
        /\ \/ holding[r] = 0 /\ pos' = pos
           \/ pos' = IF holding[r] < pos THEN pos - holding[r] ELSE 0
    BY <1>7 DEF KillCloses, Goes, TypeOK
  <2>2. book \subseteq stray /\ flying \subseteq stray /\ pos <= holding[r] + Cardinality(Landed)
    BY <1>1, <2>1 DEF KillKnows, OnlyTheirs
  <2>3. pos' <= 0 + Cardinality(Landed)
    BY <1>2, <2>1, <2>2
  <2> QED BY <2>1, <2>2, <2>3 DEF OnlyTheirs, Landed
<1> QED BY <1>3, <1>4, <1>5, <1>6, <1>7 DEF Kill

LEMMA KillFinal ==
    ASSUME TypeOK, Core, Final, NEW r \in Requests, Kill(r)
    PROVE  Final'
<1>1. UNCHANGED life /\ alone' \subseteq alone /\ Alive' = Alive /\ at[r] # "idle"
  BY DEF Kill, KillAsked, KillConnects, KillLists, KillCancels, KillReads, ReadsNext, KillCloses,
         KillEnds, KillOnly, Alive
<1>2. PICK where : at' = [at EXCEPT ![r] = where] /\ at'[r] = where
  BY DEF Kill, KillAsked, KillConnects, KillLists, KillCancels, KillReads, KillCloses,
         KillEnds, Goes, TypeOK
<1>3. AloneIsOnly' /\ \A q \in alone : q = r
  BY <1>1, <1>2, OthersIdle DEF Final
<1>4. KillsAlone'
  <2>1. SUFFICES ASSUME r \in alone,
                        at'[r] \in {"markets", "orders", "cancels", "close", "sentinel"}
                 PROVE  Alive = {}
    BY <1>1, <1>3 DEF KillsAlone
  <2>2. at[r] \in {"markets", "orders", "cancels", "close", "sentinel"} \/ (at[r] = "kill" /\ ~IsRunning)
    BY <2>1 DEF Kill, KillAsked, KillConnects, KillLists, KillCancels, KillReads, ReadsNext,
                KillCloses, KillEnds, Goes, TypeOK
  <2> QED BY <2>1, <2>2, AskedAlone DEF Final, KillsAlone
<1>5. TypeOK'
  BY KillTypes
<1>6. KillKnows'
  <2>1. CASE at'[r] = "idle"
    BY <1>1, <1>3, <2>1 DEF KillKnows
  <2>2. CASE at'[r] # "idle"
    BY <1>1, <1>3, <1>5, <2>2, KillKnowsKept DEF KillKnows, OnlyTheirs, Landed
  <2> QED BY <2>1, <2>2
<1>7. FlatStays'
  <2>1. FlatStays /\ KillKnows /\ KillsAlone
    BY DEF Final
  <2>2. CASE flat
    <3>1. sentinel' /\ \A t \in Traders : life'[t] # "trading"
      BY <1>1, <2>1, <2>2, KillOnlyTakes DEF FlatStays, KillEnds
    <3> QED BY <1>5, <2>1, <2>2, <3>1, FlatKept DEF FlatStays
  <2>3. CASE ~flat /\ KillEnds(r)
    <3>1. SUFFICES ASSUME flat'
                   PROVE  /\ sentinel' /\ \A t \in Traders : life'[t] # "trading"
                          /\ book' \subseteq stray' /\ OnlyTheirs(0)'
      BY DEF FlatStays
    <3>2. /\ sentinel' /\ r \in alone /\ r \notin failed \cup unread /\ at[r] = "sentinel"
          /\ UNCHANGED <<book, pos, flying, stray>>
      BY <2>3, <3>1 DEF KillEnds, exchange
    <3>3. book \subseteq stray /\ OnlyTheirs(0) /\ Alive = {}
      BY <2>1, <3>2 DEF KillKnows, KillsAlone
    <3> QED BY <1>1, <3>2, <3>3 DEF Alive, OnlyTheirs, Landed
  <2>4. CASE ~flat /\ ~KillEnds(r)
    BY <2>4, KillOnlyTakes DEF FlatStays
  <2> QED BY <2>2, <2>3, <2>4
<1> QED BY <1>3, <1>4, <1>6, <1>7 DEF Final

LEMMA StepFinal ==
    ASSUME IInv, Final, [Next]_vars
    PROVE  Final'
<1> USE DEF IInv
<1>1. CASE \E t \in Traders : Boot(t) \/ Place(t) \/ Die(t) \/ Reader(t) \/ ReaderCrashes(t)
  BY <1>1, TraderFinal, ReaderFinal
<1>2. CASE \E o \in Orders : Land(o) \/ Fill(o)
  BY <1>2, ExchangeFinal
<1>3. CASE \E r \in Requests : Request(r) \/ \E what \in {"start", "stop", "kill"} : Ask(r, what)
  BY <1>3, AskFinal, StartFinal, StopFinal, KillFinal DEF Request
<1>4. CASE ClearSentinel \/ UNCHANGED vars
  <2>1. /\ UNCHANGED <<book, pos, flying, stray, life, at, listed, holding, failed, unread, alone>>
        /\ ~flat' \/ UNCHANGED <<flat, sentinel>>
    BY <1>4 DEF ClearSentinel, vars, exchange, locals, history
  <2>2. AloneIsOnly' /\ KillsAlone'
    BY <2>1 DEF Final, AloneIsOnly, KillsAlone, Alive
  <2>3. KillKnows'
    BY <2>1 DEF Final, KillKnows, OnlyTheirs, Landed
  <2>4. FlatStays'
    BY <2>1 DEF Final, FlatStays, OnlyTheirs, Landed
  <2> QED BY <2>2, <2>3, <2>4 DEF Final
<1> QED BY <1>1, <1>2, <1>3, <1>4 DEF Next

\* A kill that no other request overlapped (alone), that could read the orders and
\* the position (unread) and whose cancels and closes went through (failed) leaves
\* nothing but what its trader still had on the way when it read the book, each once;
\* and until the sentinel is removed nothing else comes back (kill_switch.py, the
\* sentinel check at the start of live.py).
THEOREM EmergencyKillIsFinal == Spec => []KillIsFinal
<1>1. Init => Final
  BY DEF Init, Final, AloneIsOnly, KillsAlone, KillKnows, FlatStays
<1>2. IInv /\ Final /\ [Next]_vars => Final'
  BY StepFinal
<1>3. IInv /\ Final => KillIsFinal
  <2>1. SUFFICES ASSUME TypeOK, FlatStays, flat PROVE OnlyStray
    BY DEF IInv, Final, KillIsFinal
  <2>2. book \subseteq stray /\ pos <= 0 + Cardinality(Landed)
    BY <2>1 DEF FlatStays, OnlyTheirs
  <2>3. IsFiniteSet(stray \ book) /\ IsFiniteSet(Landed) /\ Landed \subseteq stray \ book
    BY <2>1, SetsFinite, FS_Subset DEF TypeOK, Landed
  <2>4. Cardinality(Landed) <= Cardinality(stray \ book)
        /\ Cardinality(Landed) \in Nat /\ Cardinality(stray \ book) \in Nat
    BY <2>3, FS_Subset, FS_CardinalityType
  <2>5. pos \in Nat
    BY <2>1, BoundTypes DEF TypeOK
  <2>6. pos <= Cardinality(stray \ book)
    BY <2>2, <2>4, <2>5
  <2> QED BY <2>2, <2>6 DEF OnlyStray
<1> QED BY Inductive, <1>1, <1>2, <1>3, PTL DEF Spec
=============================================================================
