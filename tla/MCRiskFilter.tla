---------------------------- MODULE MCRiskFilter ----------------------------
(* The instance of RiskFilter for TLC: two symbols, one of them counted     *)
(* twice, accounts from flat to full and under water, and orders that meet  *)
(* every cap.                                                               *)
EXTENDS RiskFilter

MCListed == <<"a", "b">>
MCCMult == [s \in {"a", "b"} |-> IF s = "b" THEN 2 ELSE 1]
MCPausePct == [b \in {"GRID", "TREND"} |-> 10]
MCWel == [b \in {"GRID", "TREND"} |-> 40]

Flat == [size |-> 0, entry |-> 0]
Hold(n, p) == [size |-> n, entry |-> p]
\* A balance of 200, marks of 10, the band at 9 to 10; two units to a lot.
Account(held, lost, dd) ==
    [balance |-> 200,
     pos |-> [k \in Keys |-> IF k \in DOMAIN held THEN held[k] ELSE Flat],
     mark |-> [s \in Symbols |-> 10],
     ema |-> [s \in Symbols |-> [lower |-> 9, upper |-> 10]],
     lost |-> lost, dd |-> dd]

NoLoss == [b \in Buckets |-> 0]
aGrid == <<"a", "LONG", "GRID">>
aTrend == <<"a", "LONG", "TREND">>
bShort == <<"b", "SHORT", "GRID">>
bTrend == <<"b", "SHORT", "TREND">>

MCAccounts == {
    Account(aGrid :> Flat, NoLoss, NoLoss),
    Account(aGrid :> Hold(4, 12) @@ bShort :> Hold(2, 9), NoLoss, NoLoss),
    Account(aGrid :> Hold(6, 12) @@ aTrend :> Hold(2, 11), [GRID |-> 11, TREND |-> 0], NoLoss),
    Account(aGrid :> Hold(6, 11) @@ bTrend :> Hold(4, 8), [GRID |-> 0, TREND |-> 6],
            [GRID |-> 24, TREND |-> 32]),
    Account(bShort :> Hold(4, 8) @@ aTrend :> Hold(10, 12), [GRID |-> 12, TREND |-> 12],
            [GRID |-> 32, TREND |-> 0])}

Entry(sym, side, src, market, price, qty) ==
    [sym |-> sym, side |-> side, src |-> src, reduce |-> FALSE, market |-> market,
     price |-> price, qty |-> qty]

MCWanted == {
    Entry("a", "LONG", "GRID", FALSE, 9, 4),
    Entry("a", "LONG", "GRID", FALSE, 8, 8),
    Entry("a", "LONG", "TREND", TRUE, 10, 4),
    Entry("b", "SHORT", "GRID", FALSE, 11, 2),
    Close("a", "LONG", "GRID", 9, 4, FALSE),
    Close("a", "LONG", "GRID", 13, 4, FALSE),
    Close("a", "LONG", "RISK", 8, 6, TRUE),
    Close("a", "LONG", "TREND", 10, 6, FALSE),
    Close("b", "SHORT", "GRID", 11, 2, FALSE),
    Close("b", "SHORT", "TREND", 10, 4, FALSE)}
=============================================================================
