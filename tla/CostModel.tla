------------------------------ MODULE CostModel ------------------------------
(***************************************************************************)
(* The transaction cost model shared by the paper broker and the           *)
(* backtest engines (backtest_vector/costs.py), with the CN preset:        *)
(* commission on both sides with a minimum per order, stamp duty on the    *)
(* sell side only, proportional slippage.  Money is counted in an integer  *)
(* unit (the code's cent); a rate is the divisor of the notional, so a     *)
(* rate of 0.05% is the divisor 2000.                                      *)
(***************************************************************************)
EXTENDS Integers

CONSTANTS
    CommissionDiv,   \* notional / CommissionDiv is the bilateral commission
    MinCommission,   \* the least commission of one order
    StampDiv,        \* notional / StampDiv is the sell-side stamp duty
    SlipDiv          \* notional / SlipDiv is the slippage

ASSUME CostAssumption ==
    /\ CommissionDiv \in Nat \ {0}
    /\ StampDiv \in Nat \ {0}
    /\ SlipDiv \in Nat \ {0}
    /\ MinCommission \in Nat

\* n / d rounded half up to the money unit: quantize(0.01, ROUND_HALF_UP).
Rounded(n, d) == (2 * n + d) \div (2 * d)

Commission(n) ==
    IF Rounded(n, CommissionDiv) >= MinCommission
    THEN Rounded(n, CommissionDiv) ELSE MinCommission

StampDuty(n, side) == IF side = "sell" THEN Rounded(n, StampDiv) ELSE 0

Slippage(n) == Rounded(n, SlipDiv)

\* commission + stamp_duty + slippage of one order of notional n.
TotalCost(n, side) == Commission(n) + StampDuty(n, side) + Slippage(n)
=============================================================================
