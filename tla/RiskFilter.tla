----------------------------- MODULE RiskFilter -----------------------------
(***************************************************************************)
(* One call of RiskManager.filter_orders (src/combo_bot/risk.py), with the *)
(* unstuck order that live.py and backtest.py append before it: the order  *)
(* list walks through the loss gate, the breakers and the exposure caps,   *)
(* one order at a time, against an account that does not change meanwhile. *)
(***************************************************************************)
EXTENDS RiskRules

CONSTANTS
    Accounts,       \* the accounts a tick may find
    Wanted,         \* the orders the engines may propose
    MaxOrders       \* bound: how many of them in one tick

\* The engines ask for something, and an entry of theirs has a price.
ASSUME AccountsTyped == \A a \in Accounts : AccountTyped(a)
ASSUME WantedTyped ==
    \A o \in Wanted : o \in Order /\ o.qty > 0 /\ (o.reduce \/ o.price > 0)
ASSUME MaxOrdersNat == MaxOrders \in Nat

Tiers == {"GREEN", "YELLOW", "ORANGE", "RED"}
Phases == {"ask", "assess", "losses", "caps", "done"}

VARIABLES
    acct, tier,     \* the account and its tier at this tick
    cooling,        \* timestamp < red_cooldown_until
    phase,
    asked,          \* what filter_orders was given
    orders, out,    \* the pass under way: still to walk, and accepted
    left,           \* what is left of the realized-loss budget
    used            \* what the accepted entries take of each cap

vars == <<acct, tier, cooling, phase, asked, orders, out, left, used>>

Init ==
    /\ acct \in Accounts /\ tier \in Tiers /\ cooling \in BOOLEAN
    /\ phase = "ask"
    /\ asked = <<>> /\ orders = <<>> /\ out = <<>>
    /\ left = 0 /\ used = NothingUsed

\* The engines propose an order; they close only what is open.
Propose(o) ==
    /\ phase = "ask" /\ Len(asked) < MaxOrders
    /\ o.reduce => IsOpen(At(acct, o))
    /\ asked' = Append(asked, o)
    /\ UNCHANGED <<acct, tier, cooling, phase, orders, out, left, used>>

\* The unstuck order joins the list as its last one.
Unstick ==
    /\ phase = "ask"
    /\ asked' = asked \o UnstuckOrders(acct)
    /\ phase' = "assess"
    /\ UNCHANGED <<acct, tier, cooling, orders, out, left, used>>

\* RED replaces the whole list by the panic close and starts the cooldown.
Panic ==
    /\ phase = "assess" /\ tier = "RED"
    /\ out' = PanicCloses(acct)
    /\ cooling' = TRUE
    /\ phase' = "done"
    /\ UNCHANGED <<acct, tier, asked, orders, left, used>>

Assess ==
    /\ phase = "assess" /\ tier # "RED"
    /\ orders' = asked /\ out' = <<>>
    /\ left' = LossBudget(acct)
    /\ phase' = "losses"
    /\ UNCHANGED <<acct, tier, cooling, asked, used>>

GateLoss ==
    /\ phase = "losses" /\ orders # <<>>
    /\ LET g == Gated(acct, Head(orders), left)
       IN  out' = out \o g.pass /\ left' = g.left
    /\ orders' = Tail(orders)
    /\ UNCHANGED <<acct, tier, cooling, phase, asked, used>>

\* A cooldown and ORANGE return at once, with the exits.
ExitsOnly ==
    /\ phase = "losses" /\ orders = <<>> /\ (cooling \/ tier = "ORANGE")
    /\ out' = AfterBreakers(out, acct, tier, cooling)
    /\ phase' = "done"
    /\ UNCHANGED <<acct, tier, cooling, asked, orders, left, used>>

Break ==
    /\ phase = "losses" /\ orders = <<>> /\ ~cooling /\ tier # "ORANGE"
    /\ orders' = ByDistance(AfterBreakers(out, acct, tier, cooling), acct)
    /\ out' = <<>>
    /\ phase' = "caps"
    /\ UNCHANGED <<acct, tier, cooling, asked, left, used>>

Cap ==
    /\ phase = "caps" /\ orders # <<>>
    /\ LET c == Capped(acct, Head(orders), used)
       IN  out' = out \o c.pass /\ used' = c.used
    /\ orders' = Tail(orders)
    /\ UNCHANGED <<acct, tier, cooling, phase, asked, left>>

Return ==
    /\ phase = "caps" /\ orders = <<>>
    /\ phase' = "done"
    /\ UNCHANGED <<acct, tier, cooling, asked, orders, out, left, used>>

Next ==
    \/ \E o \in Wanted : Propose(o)
    \/ Unstick \/ Panic \/ Assess \/ GateLoss \/ ExitsOnly \/ Break \/ Cap \/ Return

Spec == Init /\ [][Next]_vars

-----------------------------------------------------------------------------
\* Every step of the filter keeps orders orders, whatever is left of a budget or a
\* cap when it trims one (risk.py:305-311, 803-829): no quantity is ever negative.
TypeOK ==
    /\ acct \in Accounts /\ tier \in Tiers /\ cooling \in BOOLEAN /\ phase \in Phases
    /\ \A s \in {asked, orders, out} : \A i \in DOMAIN s : s[i] \in Order
    /\ left \in Int
    /\ used \in [total : Nat, grid : Nat, side : [Symbols \X Sides -> Nat]]

\* The cost of the entries accepted so far from these sources for these sides.
EntriesCost(srcs, sides) ==
    Total([i \in DOMAIN out |->
              LET o == out[i]
              IN  IF ~o.reduce /\ o.src \in srcs /\ <<o.sym, o.side>> \in sides THEN Cost(o) ELSE 0])

\* Entries that pass never take the account, a side of a symbol or the grid above
\* its cap together, whatever their order and however many share it; where the
\* account is above a cap already, nothing is added (_enforce_exposure_limits).
CapsHold ==
    (phase = "caps" \/ (phase = "done" /\ tier # "RED")) =>
        LET fits(cost, base, cap) == cost > 0 => base + cost <= cap
        IN  /\ fits(EntriesCost(Sources, Symbols \X Sides), Exposure(acct, Keys), TotalCap(acct))
            /\ fits(EntriesCost({"GRID"}, Symbols \X Sides), Exposure(acct, GridKeys), GridCap(acct))
            /\ \A s \in Symbols, d \in Sides :
                  fits(EntriesCost(Sources, {<<s, d>>}),
                       Exposure(acct, SideKeys(s, d)), SingleCap(acct))

LossOf(o) == IF o.reduce /\ ~o.market THEN ProjectedLoss(acct, o) ELSE 0
Lost(s) == Total([i \in DOMAIN s |-> LossOf(s[i])])

\* The limit closes that pass lose together no more than is left of today's
\* budget, and the unstuck order no more than its own bucket's allowance
\* (_enforce_realized_loss_gate, _unstuck_for_bucket).
LossBudgetHeld ==
    /\ (phase = "done" /\ tier # "RED" /\ LossPct > 0 /\ acct.balance > 0) =>
          Lost(out) <= AtLeastZero(LossBudget(acct))
    /\ \A i \in DOMAIN UnstuckOrders(acct) :
          LET o == UnstuckOrders(acct)[i]
          IN  ProjectedLoss(acct, o) <= Allowance(acct, Bucket(o.src))

\* No gate, breaker or cap touches a forced exit or a close in profit: they come
\* out as they went in and in the same order.  RED closes every open bucket
\* once, whole, and opens nothing.
ExitsSurvive ==
    phase = "done" =>
        LET untouchable == {o \in Order : o.reduce /\ (o.market \/ UnitLoss(acct, o) <= 0)}
            closing(k) == {i \in DOMAIN out : <<out[i].sym, out[i].side, Bucket(out[i].src)>> = k}
        IN  IF tier = "RED"
            THEN /\ \A k \in Keys : Cardinality(closing(k)) = IF IsOpen(acct.pos[k]) THEN 1 ELSE 0
                 /\ \A i \in DOMAIN out : out[i].reduce /\ out[i].market
                                          /\ out[i].qty = At(acct, out[i]).size
            ELSE Kept(out, untouchable) = Kept(asked, untouchable)
=============================================================================
