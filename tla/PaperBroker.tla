----------------------------- MODULE PaperBroker -----------------------------
(***************************************************************************)
(* The simulated broker of execution/paper_broker.py: an account (cash,    *)
(* positions, realized profit), the orders it was handed, and the prices   *)
(* and daily volumes pushed into it.  Every market order is executed or    *)
(* rejected inside submit_order, so an order never rests in the book.      *)
(*                                                                         *)
(* Data.  Money and shares are integers.  A position keeps the total cost  *)
(* of its shares (avg_cost * qty in the code); the cost released by a      *)
(* partial sale is rounded down, once, and both the position and the       *)
(* realized profit use that amount, as both use the same avg_cost in the   *)
(* code.  A position of quantity 0 is one the code has deleted.  The chain *)
(* of risk policies is abstracted to what it lets through: nothing when a   *)
(* policy answers REJECTED, otherwise the whole order, since a policy that  *)
(* answers CLIPPED does not change the order.                               *)
(***************************************************************************)
EXTENDS CostModel, FiniteSets, Functions

CONSTANTS
    Assets,
    OrderIds,       \* identifiers the callers draw for their orders
    InitialCash,
    Prices,         \* quotes the feed may deliver; 0 is "no price"
    Volumes,        \* average daily volumes; 0 is "unknown"
    Quantities,     \* quantities the callers ask for, 0 included
    LotSize,
    VolumeDiv,      \* max_volume_pct is 1/VolumeDiv; 0 disables the limit
    RiskPolicies    \* TRUE when risk policies are registered

ASSUME BrokerAssumption ==
    /\ IsFiniteSet(Assets)
    /\ InitialCash \in Nat
    /\ Prices \subseteq Nat
    /\ Volumes \subseteq Nat
    /\ Quantities \subseteq Nat
    /\ LotSize \in Nat \ {0}
    /\ VolumeDiv \in Nat
    /\ RiskPolicies \in BOOLEAN

VARIABLES
    cash,           \* _cash
    position,       \* _positions: quantity and total cost of each holding
    realized,       \* _realized_pnl
    orders,         \* _orders
    price,          \* _prices
    volume          \* _volumes

account == <<cash, position, realized>>
market == <<price, volume>>
brokerVars == <<cash, position, realized, orders, price, volume>>

OrderStatus == {"none", "pending", "submitted", "filled", "cancelled", "rejected"}
OrderSide == {"buy", "sell"}
OrderType == {"market", "limit"}

\* "none" marks an identifier the broker has never been handed.
OrderRecord ==
    [status : OrderStatus, asset : Assets \cup {"none"},
     side : OrderSide \cup {"none"}, qty : Nat, allowed : Nat,
     filled_qty : Nat, filled_price : Nat, total_cost : Nat]

NoOrder ==
    [status |-> "none", asset |-> "none", side |-> "none", qty |-> 0,
     allowed |-> 0, filled_qty |-> 0, filled_price |-> 0, total_cost |-> 0]
-----------------------------------------------------------------------------
\* n shares cut down to whole lots, one lot at least.
WholeLots(n) ==
    LET lots == (n \div LotSize) * LotSize
    IN  IF lots < LotSize THEN LotSize ELSE lots

\* The participation limit of the asset's daily volume.
MaxVolumeQty(a) == WholeLots(volume[a] \div VolumeDiv)

VolumeLimited(a) == VolumeDiv > 0 /\ volume[a] > 0

Smaller(m, n) == IF m <= n THEN m ELSE n

\* The quantity that executes: the volume limit clips both sides, and a
\* sale never exceeds the position.
BuyQty(a, q) ==
    IF VolumeLimited(a) THEN Smaller(q, MaxVolumeQty(a)) ELSE q

\* Mutant of SellQty: a sale is not clamped to the position.
SellQtyUnclamped(a, q) ==
    IF VolumeLimited(a) THEN Smaller(q, MaxVolumeQty(a)) ELSE q

SellQty(a, q) ==
    LET held == Smaller(q, position[a].qty)
    IN  IF VolumeLimited(a) THEN Smaller(held, MaxVolumeQty(a)) ELSE held

\* Cash a purchase takes and a sale brings.
Required(a, q) == q * price[a] + TotalCost(q * price[a], "buy")
Proceeds(a, q) == q * price[a] - TotalCost(q * price[a], "sell")

\* What the policy chain may allow of an order of q shares.
Allowed(q) == IF RiskPolicies THEN {0, q} ELSE {q}

\* The orders submit_order lets through to execution.
Accepted(a, q, type, allowed) ==
    q > 0 /\ type = "market" /\ allowed > 0 /\ price[a] > 0
-----------------------------------------------------------------------------
BrokerInit ==
    /\ cash = InitialCash
    /\ position = [a \in Assets |-> [qty |-> 0, basis |-> 0]]
    /\ realized = 0
    /\ orders = [o \in OrderIds |-> NoOrder]
    /\ price = [a \in Assets |-> 0]
    /\ volume = [a \in Assets |-> 0]

UpdatePrices(a, p) ==
    /\ price' = [price EXCEPT ![a] = p]
    /\ UNCHANGED <<account, orders, volume>>

UpdateVolumes(a, v) ==
    /\ volume' = [volume EXCEPT ![a] = v]
    /\ UNCHANGED <<account, orders, price>>

\* Every early return of submit_order and of the two execute functions
\* leaves the order REJECTED and the account alone.
Reject(o, a, side, q, type, allowed) ==
    /\ \/ ~Accepted(a, q, type, allowed)
       \/ side = "buy" /\ Required(a, BuyQty(a, q)) > cash
       \/ side = "sell" /\ position[a].qty <= 0
    /\ orders' = [orders EXCEPT ![o] =
           [status |-> "rejected", asset |-> a, side |-> side, qty |-> q,
            allowed |-> allowed, filled_qty |-> 0, filled_price |-> 0,
            total_cost |-> 0]]
    /\ UNCHANGED <<account, market>>

\* Mutant of Fill: the quantity asked for is recorded, not the one executed.
FillAsAsked(o, a, side, q, allowed, filled) ==
    orders' = [orders EXCEPT ![o] =
        [status |-> "filled", asset |-> a, side |-> side, qty |-> q,
         allowed |-> allowed, filled_qty |-> q, filled_price |-> price[a],
         total_cost |-> TotalCost(filled * price[a], side)]]

Fill(o, a, side, q, allowed, filled) ==
    orders' = [orders EXCEPT ![o] =
        [status |-> "filled", asset |-> a, side |-> side, qty |-> q,
         allowed |-> allowed, filled_qty |-> filled, filled_price |-> price[a],
         total_cost |-> TotalCost(filled * price[a], side)]]

\* Mutant of ExecuteBuy: the fees do not enter the average cost.
ExecuteBuyFeelessBasis(o, a, q, type, allowed) ==
    LET filled == BuyQty(a, q)
    IN  /\ Accepted(a, q, type, allowed)
        /\ Required(a, filled) <= cash
        /\ cash' = cash - Required(a, filled)
        /\ position' = [position EXCEPT ![a] =
               [qty |-> @.qty + filled, basis |-> @.basis + filled * price[a]]]
        /\ Fill(o, a, "buy", q, allowed, filled)
        /\ UNCHANGED <<realized, market>>

\* Mutant of ExecuteBuy: the cash check forgets the fees.
ExecuteBuyFeesUnchecked(o, a, q, type, allowed) ==
    LET filled == BuyQty(a, q)
    IN  /\ Accepted(a, q, type, allowed)
        /\ filled * price[a] <= cash
        /\ cash' = cash - Required(a, filled)
        /\ position' = [position EXCEPT ![a] =
               [qty |-> @.qty + filled, basis |-> @.basis + Required(a, filled)]]
        /\ Fill(o, a, "buy", q, allowed, filled)
        /\ UNCHANGED <<realized, market>>

ExecuteBuy(o, a, q, type, allowed) ==
    LET filled == BuyQty(a, q)
    IN  /\ Accepted(a, q, type, allowed)
        /\ Required(a, filled) <= cash
        /\ cash' = cash - Required(a, filled)
        /\ position' = [position EXCEPT ![a] =
               [qty |-> @.qty + filled, basis |-> @.basis + Required(a, filled)]]
        /\ Fill(o, a, "buy", q, allowed, filled)
        /\ UNCHANGED <<realized, market>>

\* The cost of s shares of the holding at its average cost.
Released(a, s) == (position[a].basis * s) \div position[a].qty

ExecuteSell(o, a, q, type, allowed) ==
    LET filled == SellQty(a, q)
    IN  /\ Accepted(a, q, type, allowed)
        /\ position[a].qty > 0
        /\ cash' = cash + Proceeds(a, filled)
        /\ realized' = realized + Proceeds(a, filled) - Released(a, filled)
        /\ position' = [position EXCEPT ![a] =
               [qty |-> @.qty - filled, basis |-> @.basis - Released(a, filled)]]
        /\ Fill(o, a, "sell", q, allowed, filled)
        /\ UNCHANGED market

\* submit_order of a fresh PENDING order.
SubmitOrder(o, a, side, q, type, allowed) ==
    /\ orders[o].status = "none"
    /\ \/ Reject(o, a, side, q, type, allowed)
       \/ side = "buy" /\ ExecuteBuy(o, a, q, type, allowed)
       \/ side = "sell" /\ ExecuteSell(o, a, q, type, allowed)

\* submit_order of an order object that has been through the broker before:
\* its status is no longer PENDING, so it is rejected, its fill kept.
Resubmit(o) ==
    /\ orders[o].status # "none"
    /\ orders' = [orders EXCEPT ![o].status = "rejected"]
    /\ UNCHANGED <<account, market>>

\* cancel_order of a known order; only a resting order would change.
CancelOrder(o) ==
    /\ orders[o].status # "none"
    /\ orders' = [orders EXCEPT ![o].status =
           IF @ \in {"pending", "submitted"} THEN "cancelled" ELSE @]
    /\ UNCHANGED <<account, market>>

\* The calls of a client that draws the identifiers of ids.
ClientCall(ids) ==
    \/ \E a \in Assets, p \in Prices : UpdatePrices(a, p)
    \/ \E a \in Assets, v \in Volumes : UpdateVolumes(a, v)
    \/ \E o \in ids, a \in Assets, side \in OrderSide,
          q \in Quantities, type \in OrderType :
          \E allowed \in Allowed(q) : SubmitOrder(o, a, side, q, type, allowed)
    \/ \E o \in ids : Resubmit(o)
    \/ \E o \in OrderIds : CancelOrder(o)

BrokerNext == ClientCall(OrderIds)

BrokerSpec == BrokerInit /\ [][BrokerNext]_brokerVars
-----------------------------------------------------------------------------
BrokerTypeOK ==
    /\ cash \in Int
    /\ position \in [Assets -> [qty : Nat, basis : Int]]
    /\ realized \in Int
    /\ orders \in [OrderIds -> OrderRecord]
    /\ price \in [Assets -> Nat]
    /\ volume \in [Assets -> Nat]

Executed == {o \in OrderIds : orders[o].filled_qty > 0}
Notional(o) == orders[o].filled_qty * orders[o].filled_price

\* What the fill of order o put into the account (took out, if negative).
CashFlow(o) ==
    IF orders[o].side = "buy" THEN - Notional(o) - orders[o].total_cost
    ELSE Notional(o) - orders[o].total_cost

ShareFlow(o) ==
    IF orders[o].side = "buy" THEN orders[o].filled_qty
    ELSE - orders[o].filled_qty

\* The order book is a complete audit trail of the account: replaying the
\* fills of the recorded orders from the initial cash gives the broker's cash
\* and its holdings, whatever was resubmitted, cancelled, clipped by volume or
\* clamped to the position in between.
AccountMatchesFills ==
    /\ cash = InitialCash + SumFunctionOnSet([o \in OrderIds |-> CashFlow(o)], Executed)
    /\ \A a \in Assets :
          position[a].qty = SumFunctionOnSet([o \in OrderIds |-> ShareFlow(o)],
                                             {o \in Executed : orders[o].asset = a})

\* Double entry: cash plus the cost of what is held is the initial cash plus
\* the realized profit.  It fails when a fee is missing from the average
\* cost or from the realized profit, or is counted in both.
BooksBalance ==
    cash + SumFunction([a \in Assets |-> position[a].basis])
        = InitialCash + realized

\* A closed position carries no cost into the next purchase of the asset.
ClosedPositionHasNoCost ==
    \A a \in Assets : position[a].qty = 0 => position[a].basis = 0

\* Purchases are refused when the cash does not cover them, fees included, so
\* the account is overdrawn only by a sale whose notional did not pay for its
\* own minimum commission (the sell side checks no cash).
OverdraftOnlyByFees ==
    cash < 0 =>
        \E o \in Executed :
            orders[o].side = "sell" /\ orders[o].total_cost > Notional(o)

\* A fill is permanent: no later call on the broker (resubmission included)
\* changes what an executed order bought or sold, nor executes it again.
FillsArePermanent ==
    [][\A o \in Executed :
          orders'[o] = [orders[o] EXCEPT !.status = orders'[o].status]]_orders
=============================================================================
