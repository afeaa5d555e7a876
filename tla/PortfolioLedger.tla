--------------------------- MODULE PortfolioLedger ---------------------------
(***************************************************************************)
(* The ledger that audits fills (riskguard/portfolio_ledger.py).  It books *)
(* what a fill says unless its own cash or position forbids it: a purchase *)
(* is cut to the cash, a sale to the position.  The costs of the fill are  *)
(* charged in full either way.                                             *)
(*                                                                         *)
(* A ledger is a record: cash, shares and cost basis (avg_cost * qty) by   *)
(* asset, realized result; charged, which the code does not keep, adds up  *)
(* the costs that were booked.  A fill has asset, side, qty, price, cost.  *)
(* A basis is an integer: exact as long as whole positions are sold, which *)
(* is all the event engine does.                                           *)
(***************************************************************************)
EXTENDS Integers

\* __init__
NewLedger(cash, assets) ==
    [cash |-> cash, qty |-> [a \in assets |-> 0], basis |-> [a \in assets |-> 0],
     realized |-> 0, charged |-> 0]

\* The shares of a purchase that the cash can pay, costs included.
Affordable(ledger, f) ==
    IF f.qty * f.price + f.cost <= ledger.cash THEN f.qty
    ELSE IF ledger.cash <= f.cost THEN 0
    ELSE (ledger.cash - f.cost) \div f.price

\* Mutant of Bought: the average cost becomes the latest price.
BoughtAtLatest(ledger, f) ==
    LET q == Affordable(ledger, f)
    IN  IF q = 0 THEN ledger
        ELSE [cash |-> ledger.cash - q * f.price - f.cost,
              qty |-> [ledger.qty EXCEPT ![f.asset] = @ + q],
              basis |-> [ledger.basis EXCEPT ![f.asset] = (ledger.qty[f.asset] + q) * f.price],
              realized |-> ledger.realized, charged |-> ledger.charged + f.cost]

\* _apply_buy
Bought(ledger, f) ==
    LET q == Affordable(ledger, f)
    IN  IF q = 0 THEN ledger
        ELSE [cash |-> ledger.cash - q * f.price - f.cost,
              qty |-> [ledger.qty EXCEPT ![f.asset] = @ + q],
              basis |-> [ledger.basis EXCEPT ![f.asset] = @ + q * f.price],
              realized |-> ledger.realized, charged |-> ledger.charged + f.cost]

\* Mutant of Sold: the proceeds are those of the fill, costs left out.
SoldGross(ledger, f) ==
    LET held == ledger.qty[f.asset]
        q == IF f.qty > held THEN held ELSE f.qty
    IN  IF held = 0 THEN ledger
        ELSE [cash |-> ledger.cash + q * f.price,
              qty |-> [ledger.qty EXCEPT ![f.asset] = @ - q],
              basis |-> [ledger.basis EXCEPT ![f.asset] = @ - (@ * q) \div held],
              realized |-> ledger.realized + q * f.price - (ledger.basis[f.asset] * q) \div held,
              charged |-> ledger.charged]

\* Mutant of Sold: a sale of more than the position is refused.
SoldIfHeld(ledger, f) ==
    LET held == ledger.qty[f.asset]
    IN  IF held < f.qty THEN ledger
        ELSE [cash |-> ledger.cash + f.qty * f.price - f.cost,
              qty |-> [ledger.qty EXCEPT ![f.asset] = @ - f.qty],
              basis |-> [ledger.basis EXCEPT ![f.asset] = 0],
              realized |-> ledger.realized + f.qty * f.price - ledger.basis[f.asset],
              charged |-> ledger.charged + f.cost]

\* _apply_sell
Sold(ledger, f) ==
    LET held == ledger.qty[f.asset]
        q == IF f.qty > held THEN held ELSE f.qty
        share == (ledger.basis[f.asset] * q) \div held
    IN  IF held = 0 THEN ledger
        ELSE [cash |-> ledger.cash + q * f.price - f.cost,
              qty |-> [ledger.qty EXCEPT ![f.asset] = @ - q],
              basis |-> [ledger.basis EXCEPT ![f.asset] = @ - share],
              realized |-> ledger.realized + q * f.price - share,
              charged |-> ledger.charged + f.cost]

\* apply_fill
Booked(ledger, f) == IF f.side = "buy" THEN Bought(ledger, f) ELSE Sold(ledger, f)
=============================================================================
