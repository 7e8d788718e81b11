----------------------------- MODULE CashLedger -----------------------------
(***************************************************************************)
(* The books of a backtest (backtest/cash_ledger.py): a cash balance per   *)
(* currency and a position per symbol, and what a validated, priced fill   *)
(* does to them.  A buy the cash cannot pay for is reduced to the largest  *)
(* number of whole lots it can, over both currencies; what it lacks in its *)
(* own currency is taken from the base currency.                           *)
(* The average cost of a position decides nothing and is left out, except  *)
(* that updating it divides by the new number of shares.                   *)
(***************************************************************************)
EXTENDS Market

\* A symbol that is not a key of the positions dict.
NoPosition == [held |-> FALSE, shares |-> 0, lock |-> 0]

CashInBase(cash, d) ==
    cash["CNY"] * FxToBase("CNY", d) + cash["HKD"] * FxToBase("HKD", d)

\* n shares at a price and their costs, in the base currency.
Outlay(s, side, n, price, d) ==
    (n * price + CostOf(s, side, n * price)) * FxToBase(CurrencyOf(s), d)

Affordable(b, s, side, n, price, d) ==
    Outlay(s, side, n, price, d) <= CashInBase(b.cash, d)

\* (mutant) only the notional is compared with the cash
SharesToBuyIgnoringCosts(b, s, side, n, price, d) ==
    LET cash == CashInBase(b.cash, d)
        unit == price * FxToBase(CurrencyOf(s), d)
    IN  IF n * unit <= cash THEN n
        ELSE IF cash < Lot * unit THEN 0
        ELSE Lot * ((cash \div unit) \div Lot)

\* _check_cash_or_reduce: 0 stands for "cannot afford even one lot".
SharesToBuy(b, s, side, n, price, d) ==
    LET most == (CashInBase(b.cash, d) \div (price * FxToBase(CurrencyOf(s), d)))
                \div Lot
        lots == {k \in 1..most : Affordable(b, s, side, k * Lot, price, d)}
    IN  IF Affordable(b, s, side, n, price, d) THEN n
        ELSE IF lots = {} THEN 0 ELSE Lot * Max(lots)

\* (mutant) the shortfall is written off
DebitForgiven(cash, ccy, amount, d) ==
    LET left == cash[ccy] - amount IN
    IF left < 0 /\ ccy # Base
    THEN [cash EXCEPT ![ccy] = 0]
    ELSE [cash EXCEPT ![ccy] = left]

\* Debiting a balance other than the base currency below zero takes the
\* shortfall from the base currency.
Debit(cash, ccy, amount, d) ==
    LET left == cash[ccy] - amount IN
    IF left < 0 /\ ccy # Base
    THEN [cash EXCEPT ![ccy] = 0, ![Base] = @ + left * FxToBase(ccy, d)]
    ELSE [cash EXCEPT ![ccy] = left]

\* A buy or a cover of n shares, n being what SharesToBuy returned.
Bought(b, s, side, n, price, d) ==
    LET amount == n * price + CostOf(s, side, n * price) IN
    [cash |-> Debit(b.cash, CurrencyOf(s), amount, d),
     positions |->
        [b.positions EXCEPT ![s] = [held   |-> TRUE,
                                    shares |-> @.shares + n,
                                    lock   |-> LockedUntil(s, d)]]]

\* The new average cost is the new basis over the new number of shares.
DividesByZero(b, s, n) ==
    b.positions[s].held /\ b.positions[s].shares + n = 0

\* A sell or a short of n shares.
Sold(b, s, side, n, price) ==
    LET left == b.positions[s].shares - n IN
    [cash |-> [b.cash EXCEPT ![CurrencyOf(s)] =
                  @ + n * price - CostOf(s, side, n * price)],
     positions |->
        [b.positions EXCEPT ![s] =
            IF left = 0 THEN NoPosition
            ELSE IF @.held THEN [@ EXCEPT !.shares = left]
            ELSE [held |-> TRUE, shares |-> left, lock |-> 0]]]
=============================================================================
