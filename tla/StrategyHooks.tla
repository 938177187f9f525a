---------------------------- MODULE StrategyHooks ----------------------------
(***************************************************************************)
(* The callbacks of a user strategy on the order stream                    *)
(* (StrategyRunner of src/combo_bot/strategy.py).                          *)
(*                                                                         *)
(* A hook says what the strategy's callbacks answer on one bar: the stake  *)
(* of entries in percent of the proposed one, a shift of limit prices, a   *)
(* reason to leave, a stop at a distance from the entry (0 for none), an   *)
(* adjustment in units, and the answer to the confirmation.                *)
(***************************************************************************)
EXTENDS RiskRules

Answers == {"yes", "no", "raise"}
Hooks == [stake : Nat, shift : Int, leave : BOOLEAN, stop : Nat, adjust : Int, answer : Answers]

\* Entry prices and stakes.  Nobody asks whether the number a strategy answers is a
\* price; if it is none, the quantity stays.  A market entry has no price to adjust, but its stake
\* is taken at the current price.
StakedQty(h, o, final) ==
    LET unit == final * CMult[o.sym]
    IN  IF unit > 0 THEN PercentOf(h.stake, o.qty * unit) \div unit ELSE o.qty
FilterEntries(h, orders, last) ==
    LET entered(o) ==
            IF o.reduce THEN o
            ELSE IF o.market THEN [o EXCEPT !.qty = StakedQty(h, o, last)]
            ELSE [o EXCEPT !.price = @ + h.shift, !.qty = StakedQty(h, o, o.price + h.shift)]
    IN  [i \in DOMAIN orders |-> entered(orders[i])]

FilterExits(h, orders) ==
    [i \in DOMAIN orders |->
        IF orders[i].reduce /\ ~orders[i].market
        THEN [orders[i] EXCEPT !.price = @ + h.shift] ELSE orders[i]]

\* custom_stoploss names a price; it is hit when the current price is there.
StopPrice(h, acct, k) ==
    PercentOf(IF k[2] = "LONG" THEN 100 - h.stop ELSE 100 + h.stop, acct.pos[k].entry)
StopHit(h, acct, k) ==
    LET last == acct.mark[k[1]]
    IN  h.stop > 0 /\ (IF k[2] = "LONG" THEN last <= StopPrice(h, acct, k)
                                        ELSE last >= StopPrice(h, acct, k))

\* A callback closes the whole bucket at the market, a grid bucket by a RISK order.
CloseOrder(acct, k, price) ==
    Close(k[1], k[2], IF k[3] = "TREND" THEN "TREND" ELSE "RISK", price, acct.pos[k].size, TRUE)

\* A reason to leave closes at the current price, a stop at its own.
CustomExit(h, acct, k) ==
    IF ~IsOpen(acct.pos[k]) THEN <<>>
    ELSE IF h.leave THEN <<CloseOrder(acct, k, acct.mark[k[1]])>>
    ELSE IF StopHit(h, acct, k) THEN <<CloseOrder(acct, k, StopPrice(h, acct, k))>>
    ELSE <<>>

\* adjust_trade_position: a negative delta trims a long, a positive one a short.
PositionAdjustment(h, acct, k) ==
    LET trims == (k[2] = "LONG" /\ h.adjust < 0) \/ (k[2] = "SHORT" /\ h.adjust > 0)
    IN  IF ~IsOpen(acct.pos[k]) \/ h.adjust = 0 THEN <<>>
        ELSE <<[sym |-> k[1], side |-> k[2], src |-> k[3], reduce |-> trims, market |-> FALSE,
                price |-> acct.mark[k[1]], qty |-> IF h.adjust < 0 THEN -h.adjust ELSE h.adjust]>>

\* What the callbacks on one open bucket add, after their own filters.
BucketOrders(h, acct, k) ==
    FilterExits(h, CustomExit(h, acct, k)
                   \o FilterEntries(h, PositionAdjustment(h, acct, k), acct.mark[k[1]]))

\* The last gate, on the quantities that are left: a veto drops the order, a
\* callback that raises drops entries and lets exits pass.
FinalConfirm(h, orders) ==
    Kept(orders, {o \in Range(orders) : h.answer = "yes" \/ (h.answer = "raise" /\ o.reduce)})
=============================================================================
