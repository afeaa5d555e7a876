----------------------------- MODULE BrokerProofs -----------------------------
(***************************************************************************)
(* Theorems about PaperBroker and about AlgoOrders on top of it, for every *)
(* set of assets, orders, quotes and quantities, every cost model and      *)
(* every number of slices.                                                 *)
(***************************************************************************)
EXTENDS AlgoOrders, SumTheorems, TLAPS

\* The calls on the broker, whatever its callers ask for.
BrokerCalls ==
    \/ \E a \in Assets, p \in Nat : UpdatePrices(a, p)
    \/ \E a \in Assets, v \in Nat : UpdateVolumes(a, v)
    \/ \E o \in OrderIds, a \in Assets, side \in OrderSide,
          q \in Nat, type \in OrderType, allowed \in Nat :
          SubmitOrder(o, a, side, q, type, allowed)
    \/ \E o \in OrderIds : Resubmit(o) \/ CancelOrder(o)

\* What the policies allow is a quantity.
LEMMA AllowedType ==
    ASSUME NEW q \in Nat
    PROVE  Allowed(q) \subseteq Nat
  BY DEF Allowed

\* Every step of the broker's specification is one of BrokerCalls.
LEMMA BrokerNextCalls ==
    ASSUME [BrokerNext]_brokerVars
    PROVE  [BrokerCalls]_brokerVars
  BY AllowedType, BrokerAssumption DEF BrokerNext, ClientCall, BrokerCalls

\* Rounding a non-negative amount gives a non-negative amount.
LEMMA RoundedType ==
    ASSUME NEW n \in Nat, NEW d \in Nat \ {0}
    PROVE  Rounded(n, d) \in Nat
  BY DEF Rounded

\* The fees of an order are never negative.
LEMMA TotalCostType ==
    ASSUME NEW n \in Nat, NEW side
    PROVE  TotalCost(n, side) \in Nat
  BY RoundedType, CostAssumption
  DEF TotalCost, Commission, StampDuty, Slippage

\* The participation limit is at least one lot.
LEMMA MaxVolumeQtyType ==
    ASSUME BrokerTypeOK, NEW a \in Assets, VolumeLimited(a)
    PROVE  MaxVolumeQty(a) \in Nat /\ MaxVolumeQty(a) >= 1
  <1>1. volume[a] \in Nat /\ VolumeDiv \in Nat \ {0} /\ LotSize \in Nat \ {0}
    BY BrokerAssumption DEF BrokerTypeOK, VolumeLimited
  <1>2. volume[a] \div VolumeDiv \in Int
    BY <1>1
  <1>3. (volume[a] \div VolumeDiv) \div LotSize \in Int
    BY <1>1, <1>2
  <1>4. ((volume[a] \div VolumeDiv) \div LotSize) * LotSize \in Int
    BY <1>1, <1>3
  <1> QED
    BY <1>1, <1>4 DEF MaxVolumeQty, WholeLots

\* A purchase executes some shares and no more than it asked for.
LEMMA BuyQtyBounds ==
    ASSUME BrokerTypeOK, NEW a \in Assets, NEW q \in Nat, q > 0
    PROVE  BuyQty(a, q) \in Nat /\ 0 < BuyQty(a, q) /\ BuyQty(a, q) <= q
  BY MaxVolumeQtyType DEF BuyQty, Smaller

\* A sale executes some shares, no more than it asked for or than are held.
LEMMA SellQtyBounds ==
    ASSUME BrokerTypeOK, NEW a \in Assets, NEW q \in Nat, q > 0,
           position[a].qty > 0
    PROVE  /\ SellQty(a, q) \in Nat /\ 0 < SellQty(a, q)
           /\ SellQty(a, q) <= q /\ SellQty(a, q) <= position[a].qty
  BY MaxVolumeQtyType DEF SellQty, Smaller, BrokerTypeOK

\* Money amounts of an execution are integers.
LEMMA AmountTypes ==
    ASSUME BrokerTypeOK, NEW a \in Assets, NEW q \in Nat
    PROVE  /\ q * price[a] \in Nat
           /\ Required(a, q) \in Nat
           /\ Proceeds(a, q) \in Int
           /\ \A side : TotalCost(q * price[a], side) \in Nat
  <1>1. q * price[a] \in Nat
    BY DEF BrokerTypeOK
  <1>2. \A side : TotalCost(q * price[a], side) \in Nat
    BY <1>1, TotalCostType
  <1> QED
    BY <1>1, <1>2 DEF Required, Proceeds

\* The cost released by a sale is an integer.
LEMMA ReleasedType ==
    ASSUME BrokerTypeOK, NEW a \in Assets, NEW s \in Nat, position[a].qty > 0
    PROVE  Released(a, s) \in Int
  <1>1. position[a].basis * s \in Int /\ position[a].qty \in Nat \ {0}
    BY DEF BrokerTypeOK
  <1> QED
    BY <1>1 DEF Released

-----------------------------------------------------------------------------
\* One lemma per operation: the type invariant is preserved.
LEMMA RejectType ==
    ASSUME BrokerTypeOK, NEW o \in OrderIds, NEW a \in Assets,
           NEW side \in OrderSide, NEW q \in Nat, NEW type, NEW allowed \in Nat,
           Reject(o, a, side, q, type, allowed)
    PROVE  BrokerTypeOK'
  <1>1. orders' \in [OrderIds -> OrderRecord]
    BY DEF Reject, BrokerTypeOK, OrderRecord, OrderStatus, OrderSide
  <1> QED
    BY <1>1 DEF Reject, BrokerTypeOK, account, market

\* Recording a fill of typed quantities keeps the orders typed.
LEMMA FillType ==
    ASSUME BrokerTypeOK, NEW o \in OrderIds, NEW a \in Assets,
           NEW side \in OrderSide, NEW q \in Nat, NEW allowed \in Nat,
           NEW filled \in Nat, Fill(o, a, side, q, allowed, filled)
    PROVE  orders' \in [OrderIds -> OrderRecord]
  <1>1. TotalCost(filled * price[a], side) \in Nat /\ price[a] \in Nat
    BY AmountTypes DEF BrokerTypeOK
  <1> QED
    BY <1>1 DEF Fill, BrokerTypeOK, OrderRecord, OrderStatus, OrderSide

\* A purchase keeps the types: cash may go down, quantities only up.
LEMMA BuyType ==
    ASSUME BrokerTypeOK, NEW o \in OrderIds, NEW a \in Assets, NEW q \in Nat,
           NEW type, NEW allowed \in Nat, ExecuteBuy(o, a, q, type, allowed)
    PROVE  BrokerTypeOK'
  <1> DEFINE filled == BuyQty(a, q)
  <1>1. filled \in Nat
    BY BuyQtyBounds DEF ExecuteBuy, Accepted
  <1>2. Required(a, filled) \in Nat
    BY <1>1, AmountTypes
  <1>3. orders' \in [OrderIds -> OrderRecord]
    BY <1>1, FillType DEF ExecuteBuy, OrderSide
  <1>4. position' \in [Assets -> [qty : Nat, basis : Int]]
    BY <1>1, <1>2 DEF ExecuteBuy, BrokerTypeOK
  <1> QED
    BY <1>2, <1>3, <1>4 DEF ExecuteBuy, BrokerTypeOK, market

\* A sale keeps the types: no more is sold than is held.
LEMMA SellType ==
    ASSUME BrokerTypeOK, NEW o \in OrderIds, NEW a \in Assets, NEW q \in Nat,
           NEW type, NEW allowed \in Nat, ExecuteSell(o, a, q, type, allowed)
    PROVE  BrokerTypeOK'
  <1> DEFINE filled == SellQty(a, q)
  <1>1. filled \in Nat /\ filled <= position[a].qty
    BY SellQtyBounds DEF ExecuteSell, Accepted
  <1>2. Proceeds(a, filled) \in Int /\ Released(a, filled) \in Int
    BY <1>1, AmountTypes, ReleasedType DEF ExecuteSell
  <1>3. orders' \in [OrderIds -> OrderRecord]
    BY <1>1, FillType DEF ExecuteSell, OrderSide
  <1>4. position' \in [Assets -> [qty : Nat, basis : Int]]
    BY <1>1, <1>2 DEF ExecuteSell, BrokerTypeOK
  <1> QED
    BY <1>2, <1>3, <1>4 DEF ExecuteSell, BrokerTypeOK, market

\* The type invariant is preserved by every step.
LEMMA TypeStep ==
    ASSUME BrokerTypeOK, [BrokerCalls]_brokerVars
    PROVE  BrokerTypeOK'
  <1>1. ASSUME NEW a \in Assets, NEW p \in Nat, UpdatePrices(a, p)
        PROVE  BrokerTypeOK'
    BY <1>1, BrokerAssumption DEF UpdatePrices, BrokerTypeOK, account
  <1>2. ASSUME NEW a \in Assets, NEW v \in Nat, UpdateVolumes(a, v)
        PROVE  BrokerTypeOK'
    BY <1>2, BrokerAssumption DEF UpdateVolumes, BrokerTypeOK, account
  <1>3. ASSUME NEW o \in OrderIds, NEW a \in Assets, NEW side \in OrderSide,
               NEW q \in Nat, NEW type \in OrderType,
               NEW allowed \in Nat,
               SubmitOrder(o, a, side, q, type, allowed)
        PROVE  BrokerTypeOK'
    <2>1. q \in Nat /\ allowed \in Nat
      BY BrokerAssumption DEF Allowed
    <2> QED
      BY <1>3, <2>1, RejectType, BuyType, SellType DEF SubmitOrder
  <1>4. ASSUME NEW o \in OrderIds, Resubmit(o)
        PROVE  BrokerTypeOK'
    BY <1>4
    DEF Resubmit, BrokerTypeOK, OrderRecord, OrderStatus, account, market
  <1>5. ASSUME NEW o \in OrderIds, CancelOrder(o)
        PROVE  BrokerTypeOK'
    BY <1>5
    DEF CancelOrder, BrokerTypeOK, OrderRecord, OrderStatus, account, market
  <1>6. CASE UNCHANGED brokerVars
    BY <1>6 DEF brokerVars, BrokerTypeOK
  <1> QED
    BY <1>1, <1>2, <1>3, <1>4, <1>5, <1>6 DEF BrokerCalls

\* BrokerTypeOK: cash and realized profit are integers, no holding is ever
\* negative, every order is a record of the declared shape.
THEOREM BrokerTypeCorrect == BrokerSpec => []BrokerTypeOK
  <1>1. BrokerInit => BrokerTypeOK
    BY BrokerAssumption
    DEF BrokerInit, BrokerTypeOK, OrderRecord, NoOrder, OrderStatus, OrderSide
  <1>2. BrokerTypeOK /\ [BrokerNext]_brokerVars => BrokerTypeOK'
    BY TypeStep, BrokerNextCalls
  <1> QED
    BY <1>1, <1>2, PTL DEF BrokerSpec
-----------------------------------------------------------------------------
\* An identifier the broker was never handed carries no fill.
FreshOrdersEmpty ==
    \A o \in OrderIds : orders[o].status = "none" => orders[o].filled_qty = 0

\* The inductive strengthening of the overdraft bound.
BrokerInv == BrokerTypeOK /\ FreshOrdersEmpty /\ OverdraftOnlyByFees

\* What an execution writes into the order it executes.
LEMMA FillRecord ==
    ASSUME BrokerTypeOK, NEW o \in OrderIds, NEW a, NEW side, NEW q,
           NEW allowed, NEW filled, Fill(o, a, side, q, allowed, filled)
    PROVE  /\ orders'[o].status = "filled" /\ orders'[o].side = side
           /\ orders'[o].filled_qty = filled
           /\ orders'[o].filled_price = price[a]
           /\ orders'[o].total_cost = TotalCost(filled * price[a], side)
           /\ \A p \in OrderIds \ {o} : orders'[p] = orders[p]
  BY DEF Fill, BrokerTypeOK

\* An overdraft that exists has a witness, and fills are permanent.
LEMMA WitnessPersists ==
    ASSUME OverdraftOnlyByFees, cash < 0,
           \A o \in Executed :
              orders'[o] = [orders[o] EXCEPT !.status = orders'[o].status],
           BrokerTypeOK
    PROVE  OverdraftOnlyByFees'
  <1>1. PICK o \in Executed :
           orders[o].side = "sell" /\ orders[o].total_cost > Notional(o)
    BY DEF OverdraftOnlyByFees
  <1>2. orders[o] \in OrderRecord
    BY DEF Executed, BrokerTypeOK
  <1>3. /\ orders'[o].side = orders[o].side
        /\ orders'[o].total_cost = orders[o].total_cost
        /\ orders'[o].filled_qty = orders[o].filled_qty
        /\ orders'[o].filled_price = orders[o].filled_price
    BY <1>2 DEF OrderRecord
  <1> QED
    BY <1>1, <1>3 DEF OverdraftOnlyByFees, Executed, Notional

\* Every step leaves the fill of an executed order as it is.
LEMMA StepKeepsFills ==
    ASSUME BrokerTypeOK, FreshOrdersEmpty, [BrokerCalls]_brokerVars
    PROVE  \A o \in Executed :
              orders'[o] = [orders[o] EXCEPT !.status = orders'[o].status]
  <1> SUFFICES ASSUME NEW x \in Executed
               PROVE  orders'[x] = [orders[x] EXCEPT !.status = orders'[x].status]
    OBVIOUS
  <1>1. x \in OrderIds /\ orders[x] \in OrderRecord /\ orders[x].filled_qty > 0
    BY DEF Executed, BrokerTypeOK
  <1>2. orders[x].status # "none"
    BY <1>1 DEF FreshOrdersEmpty
  <1>3. ASSUME orders'[x] = orders[x]
        PROVE  orders'[x] = [orders[x] EXCEPT !.status = orders'[x].status]
    BY <1>1, <1>3 DEF OrderRecord
  <1>4. ASSUME NEW a \in Assets, NEW p \in Nat, UpdatePrices(a, p)
        PROVE  orders'[x] = orders[x]
    BY <1>4 DEF UpdatePrices
  <1>5. ASSUME NEW a \in Assets, NEW v \in Nat, UpdateVolumes(a, v)
        PROVE  orders'[x] = orders[x]
    BY <1>5 DEF UpdateVolumes
  <1>6. ASSUME NEW o \in OrderIds, NEW a \in Assets, NEW side \in OrderSide,
               NEW q \in Nat, NEW type \in OrderType,
               NEW allowed \in Nat,
               SubmitOrder(o, a, side, q, type, allowed)
        PROVE  orders'[x] = orders[x]
    <2>1. x # o
      BY <1>2, <1>6 DEF SubmitOrder
    <2> QED
      BY <1>1, <1>6, <2>1
      DEF SubmitOrder, Reject, ExecuteBuy, ExecuteSell, Fill, BrokerTypeOK
  <1>7. ASSUME NEW o \in OrderIds, Resubmit(o) \/ CancelOrder(o)
        PROVE  orders'[x] = [orders[x] EXCEPT !.status = orders'[x].status]
    <2>1. CASE x = o
      <3>1. PICK s : orders' = [orders EXCEPT ![o] = [orders[o] EXCEPT !.status = s]]
        BY <1>7 DEF Resubmit, CancelOrder, BrokerTypeOK
      <3> QED
        BY <1>1, <2>1, <3>1 DEF BrokerTypeOK, OrderRecord
    <2>2. CASE x # o
      BY <1>1, <1>3, <1>7, <2>2 DEF Resubmit, CancelOrder, BrokerTypeOK
    <2> QED
      BY <2>1, <2>2
  <1>8. CASE UNCHANGED brokerVars
    BY <1>3, <1>8 DEF brokerVars
  <1> QED
    BY <1>3, <1>4, <1>5, <1>6, <1>7, <1>8 DEF BrokerCalls

\* Only submit_order gives an identifier a fill, and it gives it a status.
LEMMA FreshStep ==
    ASSUME BrokerTypeOK, FreshOrdersEmpty, [BrokerCalls]_brokerVars
    PROVE  FreshOrdersEmpty'
  <1> SUFFICES ASSUME NEW x \in OrderIds, orders'[x].status = "none"
               PROVE  orders'[x].filled_qty = 0
    BY DEF FreshOrdersEmpty
  <1>1. ASSUME orders' = orders
        PROVE  orders'[x].filled_qty = 0
    BY <1>1 DEF FreshOrdersEmpty
  <1>2. ASSUME NEW o \in OrderIds, NEW a \in Assets, NEW side \in OrderSide,
               NEW q \in Nat, NEW type \in OrderType,
               NEW allowed \in Nat,
               SubmitOrder(o, a, side, q, type, allowed)
        PROVE  orders'[x].filled_qty = 0
    <2>1. CASE x = o
      BY <1>2, <2>1
      DEF SubmitOrder, Reject, ExecuteBuy, ExecuteSell, Fill, BrokerTypeOK
    <2>2. CASE x # o
      <3>1. orders'[x] = orders[x]
        BY <1>2, <2>2
        DEF SubmitOrder, Reject, ExecuteBuy, ExecuteSell, Fill, BrokerTypeOK
      <3> QED
        BY <3>1 DEF FreshOrdersEmpty
    <2> QED
      BY <2>1, <2>2
  <1>3. ASSUME NEW o \in OrderIds, Resubmit(o) \/ CancelOrder(o)
        PROVE  orders'[x].filled_qty = 0
    <2>1. CASE x = o
      <3>1. orders'[o].status # "none"
        BY <1>3 DEF Resubmit, CancelOrder, BrokerTypeOK, OrderRecord
      <3> QED
        BY <2>1, <3>1
    <2>2. CASE x # o
      <3>1. orders'[x] = orders[x]
        BY <1>3, <2>2 DEF Resubmit, CancelOrder, BrokerTypeOK
      <3> QED
        BY <3>1 DEF FreshOrdersEmpty
    <2> QED
      BY <2>1, <2>2
  <1> QED
    BY <1>1, <1>2, <1>3
    DEF BrokerCalls, UpdatePrices, UpdateVolumes, brokerVars

\* A purchase never overdraws the account.
LEMMA BuyKeepsCash ==
    ASSUME BrokerTypeOK, NEW o, NEW a \in Assets, NEW q \in Nat,
           NEW type, NEW allowed, ExecuteBuy(o, a, q, type, allowed)
    PROVE  cash' >= 0
  <1>1. Required(a, BuyQty(a, q)) \in Int
    BY BuyQtyBounds, AmountTypes DEF ExecuteBuy, Accepted
  <1> QED
    BY <1>1 DEF ExecuteBuy, BrokerTypeOK

\* A sale that overdraws a solvent account is itself the witness.
LEMMA OverdrawingSale ==
    ASSUME BrokerTypeOK, NEW o \in OrderIds, NEW a \in Assets, NEW q \in Nat,
           NEW type, NEW allowed, ExecuteSell(o, a, q, type, allowed),
           cash >= 0, cash' < 0
    PROVE  OverdraftOnlyByFees'
  <1> DEFINE s == SellQty(a, q)
  <1>1. s \in Nat /\ s > 0
    BY SellQtyBounds DEF ExecuteSell, Accepted
  <1>2. s * price[a] \in Nat /\ TotalCost(s * price[a], "sell") \in Nat
    BY <1>1, AmountTypes
  <1>3. cash' = cash + (s * price[a] - TotalCost(s * price[a], "sell"))
    BY DEF ExecuteSell, Proceeds
  <1>4. TotalCost(s * price[a], "sell") > s * price[a]
    BY <1>2, <1>3 DEF BrokerTypeOK
  <1>5. /\ orders'[o].side = "sell" /\ orders'[o].filled_qty = s
        /\ orders'[o].filled_price = price[a]
        /\ orders'[o].total_cost = TotalCost(s * price[a], "sell")
    BY FillRecord DEF ExecuteSell
  <1> QED
    BY <1>1, <1>4, <1>5 DEF OverdraftOnlyByFees, Executed, Notional

\* The overdraft bound is preserved by every step.
LEMMA OverdraftStep ==
    ASSUME BrokerInv, [BrokerCalls]_brokerVars
    PROVE  OverdraftOnlyByFees'
  <1>1. CASE cash < 0
    BY <1>1, StepKeepsFills, WitnessPersists DEF BrokerInv
  <1>2. ASSUME cash >= 0, cash' = cash
        PROVE  OverdraftOnlyByFees'
    BY <1>2 DEF OverdraftOnlyByFees, BrokerInv, BrokerTypeOK
  <1>3. ASSUME cash >= 0, NEW o \in OrderIds, NEW a \in Assets,
               NEW side \in OrderSide, NEW q \in Nat, NEW type,
               NEW allowed, SubmitOrder(o, a, side, q, type, allowed)
        PROVE  OverdraftOnlyByFees'
    <2>1. q \in Nat
      BY BrokerAssumption
    <2>2. CASE Reject(o, a, side, q, type, allowed)
      BY <1>2, <1>3, <2>2 DEF Reject, account
    <2>3. CASE ExecuteBuy(o, a, q, type, allowed)
      <3>1. cash' >= 0 /\ cash' \in Int
        BY <2>1, <2>3, BuyKeepsCash, TypeStep, BuyQtyBounds, AmountTypes
        DEF BrokerInv, ExecuteBuy, Accepted, BrokerTypeOK
      <3> QED
        BY <3>1 DEF OverdraftOnlyByFees
    <2>4. CASE ExecuteSell(o, a, q, type, allowed)
      <3>1. CASE cash' < 0
        BY <1>3, <2>1, <2>4, <3>1, OverdrawingSale DEF BrokerInv
      <3>2. CASE ~(cash' < 0)
        BY <3>2 DEF OverdraftOnlyByFees
      <3> QED
        BY <3>1, <3>2
    <2> QED
      BY <1>3, <2>2, <2>3, <2>4 DEF SubmitOrder
  <1> QED
    BY <1>1, <1>2, <1>3
    DEF BrokerCalls, UpdatePrices, UpdateVolumes, Resubmit, CancelOrder,
        brokerVars, account, BrokerInv, BrokerTypeOK

\* BrokerInv is inductive.
LEMMA BrokerInvariant == BrokerSpec => []BrokerInv
  <1>1. BrokerInit => BrokerInv
    BY BrokerAssumption
    DEF BrokerInit, BrokerInv, BrokerTypeOK, FreshOrdersEmpty,
        OverdraftOnlyByFees, OrderRecord, NoOrder, OrderStatus, OrderSide
  <1>2. BrokerInv /\ [BrokerNext]_brokerVars => BrokerInv'
    BY BrokerNextCalls, TypeStep, FreshStep, OverdraftStep DEF BrokerInv
  <1> QED
    BY <1>1, <1>2, PTL DEF BrokerSpec

\* OverdraftOnlyByFees: cash below zero is owed to a recorded sale whose fees
\* exceeded its notional, and to nothing else.
THEOREM BrokerOverdraft == BrokerSpec => []OverdraftOnlyByFees
  <1>1. BrokerInv => OverdraftOnlyByFees
    BY DEF BrokerInv
  <1> QED
    BY <1>1, BrokerInvariant, PTL

\* FillsArePermanent: no call on the broker alters an executed order's fill.
THEOREM BrokerFillsPermanent == BrokerSpec => FillsArePermanent
  <1>1. BrokerInv /\ [BrokerNext]_brokerVars =>
          [\A o \in Executed :
              orders'[o] = [orders[o] EXCEPT !.status = orders'[o].status]]_orders
    BY BrokerNextCalls, StepKeepsFills DEF BrokerInv
  <1> QED
    BY <1>1, BrokerInvariant, PTL DEF BrokerSpec, FillsArePermanent
-----------------------------------------------------------------------------
\* Selling the whole holding releases the whole of its cost.
LEMMA ReleasedAll ==
    ASSUME NEW b \in Int, NEW q \in Nat, q > 0
    PROVE  (b * q) \div q = b
  <1> DEFINE d == (b * q) \div q
  <1>1. d \in Int /\ q * d <= b * q /\ b * q < q * d + q
    OBVIOUS
  <1>2. q * (b - d) >= 0 /\ q * (b - d) < q
    BY <1>1
  <1>3. b - d \in Int /\ b - d >= 0 /\ b - d < 1
    BY <1>1, <1>2
  <1> QED
    BY <1>1, <1>3

\* Every step keeps closed positions free of cost.
LEMMA ClosedStep ==
    ASSUME BrokerTypeOK, ClosedPositionHasNoCost, [BrokerCalls]_brokerVars
    PROVE  ClosedPositionHasNoCost'
  <1> SUFFICES ASSUME NEW x \in Assets, position'[x].qty = 0
               PROVE  position'[x].basis = 0
    BY DEF ClosedPositionHasNoCost
  <1>1. ASSUME position'[x] = position[x]
        PROVE  position'[x].basis = 0
    BY <1>1 DEF ClosedPositionHasNoCost
  <1>2. ASSUME NEW o \in OrderIds, NEW a \in Assets, NEW q \in Nat,
               NEW type, NEW allowed, ExecuteBuy(o, a, q, type, allowed)
        PROVE  position'[x].basis = 0
    <2>1. CASE x = a
      <3>1. BuyQty(a, q) \in Nat /\ BuyQty(a, q) > 0
        BY <1>2, BuyQtyBounds, BrokerAssumption DEF ExecuteBuy, Accepted
      <3>2. position'[a].qty = position[a].qty + BuyQty(a, q)
        BY <1>2 DEF ExecuteBuy, BrokerTypeOK
      <3> QED
        BY <2>1, <3>1, <3>2 DEF BrokerTypeOK
    <2>2. CASE x # a
      BY <1>1, <1>2, <2>2 DEF ExecuteBuy, BrokerTypeOK
    <2> QED
      BY <2>1, <2>2
  <1>3. ASSUME NEW o \in OrderIds, NEW a \in Assets, NEW q \in Nat,
               NEW type, NEW allowed, ExecuteSell(o, a, q, type, allowed)
        PROVE  position'[x].basis = 0
    <2>1. CASE x = a
      <3> DEFINE s == SellQty(a, q)
      <3>1. s \in Nat /\ position[a].qty \in Nat /\ position[a].qty > 0
        BY <1>3, SellQtyBounds, BrokerAssumption
        DEF ExecuteSell, Accepted, BrokerTypeOK
      <3>2. /\ position'[a].qty = position[a].qty - s
            /\ position'[a].basis = position[a].basis - Released(a, s)
        BY <1>3 DEF ExecuteSell, BrokerTypeOK
      <3>3. s = position[a].qty
        BY <2>1, <3>1, <3>2
      <3>4. Released(a, s) = position[a].basis /\ position[a].basis \in Int
        BY <3>1, <3>3, ReleasedAll DEF Released, BrokerTypeOK
      <3> QED
        BY <2>1, <3>2, <3>4
    <2>2. CASE x # a
      BY <1>1, <1>3, <2>2 DEF ExecuteSell, BrokerTypeOK
    <2> QED
      BY <2>1, <2>2
  <1> QED
    BY <1>1, <1>2, <1>3
    DEF BrokerCalls, UpdatePrices, UpdateVolumes, SubmitOrder, Reject,
        Resubmit, CancelOrder, brokerVars, account

\* ClosedPositionHasNoCost: whatever was bought, clipped and sold in parts,
\* the last share sold takes the whole remaining cost with it.
THEOREM BrokerClosedPositions == BrokerSpec => []ClosedPositionHasNoCost
  <1>1. BrokerInit => ClosedPositionHasNoCost
    BY DEF BrokerInit, ClosedPositionHasNoCost
  <1>2. BrokerTypeOK /\ ClosedPositionHasNoCost /\ [BrokerNext]_brokerVars
          => ClosedPositionHasNoCost'
    BY ClosedStep, BrokerNextCalls
  <1> QED
    BY <1>1, <1>2, BrokerTypeCorrect, PTL DEF BrokerSpec
-----------------------------------------------------------------------------
CashFlows == [o \in OrderIds |-> CashFlow(o)]
ShareFlows == [o \in OrderIds |-> ShareFlow(o)]
ExecutedIn(a) == {o \in Executed : orders[o].asset = a}

\* AccountMatchesFills with its strengthening: finitely many orders were
\* executed, and an identifier the broker was never handed is none of them.
AccountInv ==
    /\ BrokerTypeOK
    /\ FreshOrdersEmpty
    /\ IsFiniteSet(Executed)
    /\ AccountMatchesFills

FlowsAreIntegers ==
    \A o \in Executed : CashFlows[o] \in Int /\ ShareFlows[o] \in Int

\* What an execution moves in cash and in shares is an integer.
LEMMA FlowTypes == BrokerTypeOK => FlowsAreIntegers
  <1> SUFFICES ASSUME BrokerTypeOK, NEW o \in Executed
               PROVE  CashFlow(o) \in Int /\ ShareFlow(o) \in Int
    BY DEF CashFlows, ShareFlows, Executed, FlowsAreIntegers
  <1>1. orders[o] \in OrderRecord
    BY DEF Executed, BrokerTypeOK
  <1>2. /\ orders[o].filled_qty \in Nat /\ orders[o].filled_price \in Nat
        /\ orders[o].total_cost \in Nat
    BY <1>1 DEF OrderRecord
  <1>3. Notional(o) \in Int
    BY <1>2 DEF Notional
  <1> QED
    BY <1>2, <1>3 DEF CashFlow, ShareFlow

\* What an executed order put into the account stays what it was.
LEMMA FlowsKept ==
    ASSUME BrokerTypeOK, FreshOrdersEmpty, [BrokerCalls]_brokerVars
    PROVE  \A o \in Executed :
              /\ CashFlows'[o] = CashFlows[o] /\ ShareFlows'[o] = ShareFlows[o]
              /\ orders'[o].asset = orders[o].asset
              /\ o \in Executed'
  <1> SUFFICES ASSUME NEW o \in Executed
               PROVE  /\ CashFlows'[o] = CashFlows[o] /\ ShareFlows'[o] = ShareFlows[o]
                      /\ orders'[o].asset = orders[o].asset
                      /\ o \in Executed'
    OBVIOUS
  <1>1. orders[o] \in OrderRecord /\ o \in OrderIds
    BY DEF Executed, BrokerTypeOK
  <1>2. orders'[o] = [orders[o] EXCEPT !.status = orders'[o].status]
    BY StepKeepsFills
  <1>3. /\ orders'[o].side = orders[o].side /\ orders'[o].asset = orders[o].asset
        /\ orders'[o].filled_qty = orders[o].filled_qty
        /\ orders'[o].filled_price = orders[o].filled_price
        /\ orders'[o].total_cost = orders[o].total_cost
    BY <1>1, <1>2 DEF OrderRecord
  <1> QED
    BY <1>1, <1>3 DEF CashFlows, ShareFlows, CashFlow, ShareFlow, Notional, Executed

\* A call that executes nothing keeps the sums.
LEMMA SumsKept ==
    ASSUME AccountInv, [BrokerCalls]_brokerVars, Executed' = Executed,
           cash' = cash, position' = position
    PROVE  IsFiniteSet(Executed') /\ AccountMatchesFills'
  <1>1. \A o \in Executed :
           /\ CashFlows'[o] = CashFlows[o] /\ ShareFlows'[o] = ShareFlows[o]
           /\ orders'[o].asset = orders[o].asset
    BY FlowsKept DEF AccountInv
  <1>2. SumFunctionOnSet(CashFlows', Executed') = SumFunctionOnSet(CashFlows, Executed)
    BY <1>1, SumEqual DEF AccountInv
  <1>3. ASSUME NEW a \in Assets
        PROVE  SumFunctionOnSet(ShareFlows', ExecutedIn(a)')
                   = SumFunctionOnSet(ShareFlows, ExecutedIn(a))
    <2>1. ExecutedIn(a)' = ExecutedIn(a) /\ ExecutedIn(a) \in SUBSET Executed
      BY <1>1 DEF ExecutedIn
    <2>2. IsFiniteSet(ExecutedIn(a))
      BY <2>1, FS_Subset DEF AccountInv
    <2>3. \A o \in ExecutedIn(a) : ShareFlows[o] = ShareFlows'[o]
      BY <1>1, <2>1
    <2> QED
      BY <2>1, <2>2, <2>3, SumEqual
  <1> QED
    BY <1>2, <1>3
    DEF AccountInv, AccountMatchesFills, CashFlows, ShareFlows, ExecutedIn

\* A call that executes one more order adds its flows.
LEMMA SumsGrow ==
    ASSUME AccountInv, BrokerTypeOK', [BrokerCalls]_brokerVars,
           NEW o \in OrderIds, o \notin Executed, Executed' = Executed \cup {o},
           NEW a \in Assets, orders'[o].asset = a,
           cash' = cash + CashFlow(o)', position'[a].qty = position[a].qty + ShareFlow(o)',
           \A b \in Assets \ {a} : position'[b].qty = position[b].qty
    PROVE  IsFiniteSet(Executed') /\ AccountMatchesFills'
  <1>1. \A p \in Executed :
           /\ CashFlows'[p] = CashFlows[p] /\ ShareFlows'[p] = ShareFlows[p]
           /\ orders'[p].asset = orders[p].asset
    BY FlowsKept DEF AccountInv
  <1>2. \A p \in Executed' : CashFlows'[p] \in Int /\ ShareFlows'[p] \in Int
    <2>1. FlowsAreIntegers'
      BY FlowTypes, PTL
    <2> QED
      BY <2>1 DEF FlowsAreIntegers
  <1>3. CashFlows'[o] = CashFlow(o)' /\ ShareFlows'[o] = ShareFlow(o)'
    BY DEF CashFlows, ShareFlows
  <1>4. IsFiniteSet(Executed')
    BY FS_AddElement DEF AccountInv
  <1>5. SumFunctionOnSet(CashFlows', Executed')
            = CashFlows'[o] + SumFunctionOnSet(CashFlows, Executed)
    <2>1. SumFunctionOnSet(CashFlows', Executed) = SumFunctionOnSet(CashFlows, Executed)
      BY <1>1, SumEqual DEF AccountInv
    <2>2. SumFunctionOnSet(CashFlows', Executed \cup {o})
              = CashFlows'[o] + SumFunctionOnSet(CashFlows', Executed)
      BY <1>2, SumAdd DEF AccountInv
    <2> QED
      BY <2>1, <2>2
  <1>6. SumFunctionOnSet(CashFlows, Executed) \in Int
    BY FlowTypes, SumType DEF AccountInv, FlowsAreIntegers
  <1>7. ASSUME NEW b \in Assets
        PROVE  position'[b].qty = SumFunctionOnSet(ShareFlows', ExecutedIn(b)')
    <2>1. ExecutedIn(b) \in SUBSET Executed
      BY DEF ExecutedIn
    <2>2. IsFiniteSet(ExecutedIn(b))
      BY <2>1, FS_Subset DEF AccountInv
    <2>3. SumFunctionOnSet(ShareFlows', ExecutedIn(b)) = SumFunctionOnSet(ShareFlows, ExecutedIn(b))
      BY <1>1, <2>1, <2>2, SumEqual
    <2>4. position[b].qty = SumFunctionOnSet(ShareFlows, ExecutedIn(b))
      BY DEF AccountInv, AccountMatchesFills, ShareFlows, ExecutedIn
    <2>5. CASE b = a
      <3>1. ExecutedIn(b)' = ExecutedIn(b) \cup {o}
        BY <1>1, <2>5 DEF ExecutedIn
      <3>2. SumFunctionOnSet(ShareFlows', ExecutedIn(b) \cup {o})
                = ShareFlows'[o] + SumFunctionOnSet(ShareFlows', ExecutedIn(b))
        <4>1. o \notin ExecutedIn(b) /\ ExecutedIn(b) \cup {o} \subseteq Executed'
          BY <2>1
        <4>2. \A p \in ExecutedIn(b) \cup {o} : ShareFlows'[p] \in Int
          BY <1>2, <4>1
        <4> QED
          BY <2>2, <4>1, <4>2, SumAdd
      <3>3. position[b].qty \in Int /\ ShareFlows'[o] \in Int
        BY <1>2 DEF AccountInv, BrokerTypeOK
      <3> QED
        BY <1>3, <2>3, <2>4, <2>5, <3>1, <3>2, <3>3
    <2>6. CASE b # a
      <3>1. ExecutedIn(b)' = ExecutedIn(b)
        BY <1>1, <2>6 DEF ExecutedIn
      <3> QED
        BY <2>3, <2>4, <2>6, <3>1
    <2> QED
      BY <2>5, <2>6
  <1>8. cash' = InitialCash + SumFunctionOnSet(CashFlows', Executed')
    <2>1. cash = InitialCash + SumFunctionOnSet(CashFlows, Executed)
      BY DEF AccountInv, AccountMatchesFills, CashFlows
    <2>2. CashFlows'[o] \in Int /\ InitialCash \in Int
      BY <1>2, BrokerAssumption
    <2> QED
      BY <1>3, <1>5, <1>6, <2>1, <2>2
  <1> QED
    BY <1>4, <1>7, <1>8 DEF AccountMatchesFills, CashFlows, ShareFlows, ExecutedIn

\* Which orders are executed when only one order changes.
LEMMA ExecutedWith ==
    ASSUME NEW o \in OrderIds, orders[o].filled_qty = 0, orders'[o].filled_qty \in Nat,
           \A p \in OrderIds \ {o} : orders'[p] = orders[p]
    PROVE  /\ o \notin Executed
           /\ Executed' = IF orders'[o].filled_qty = 0 THEN Executed
                          ELSE Executed \cup {o}
  BY DEF Executed

\* A purchase adds its flows to the account.
LEMMA AccountBuys ==
    ASSUME AccountInv, BrokerTypeOK', [BrokerCalls]_brokerVars,
           NEW o \in OrderIds, NEW a \in Assets, NEW q \in Nat, NEW type, NEW allowed,
           orders[o].status = "none", ExecuteBuy(o, a, q, type, allowed)
    PROVE  IsFiniteSet(Executed') /\ AccountMatchesFills'
  <1> DEFINE s == BuyQty(a, q)
  <1>1. BrokerTypeOK /\ orders[o].filled_qty = 0
    BY DEF AccountInv, FreshOrdersEmpty
  <1>2. s \in Nat /\ s > 0
    BY <1>1, BuyQtyBounds DEF ExecuteBuy, Accepted
  <1>3. /\ s * price[a] \in Nat /\ TotalCost(s * price[a], "buy") \in Nat
        /\ Required(a, s) = s * price[a] + TotalCost(s * price[a], "buy")
    BY <1>1, <1>2, AmountTypes DEF Required
  <1>4. /\ cash' = cash - Required(a, s)
        /\ position' = [position EXCEPT ![a] =
              [qty |-> position[a].qty + s, basis |-> position[a].basis + Required(a, s)]]
        /\ Fill(o, a, "buy", q, allowed, s)
    BY DEF ExecuteBuy
  <1> HIDE DEF s
  <1>5. /\ orders'[o].side = "buy" /\ orders'[o].filled_qty = s
        /\ orders'[o].filled_price = price[a] /\ orders'[o].asset = a
        /\ \A p \in OrderIds \ {o} : orders'[p] = orders[p]
        /\ orders'[o].total_cost = TotalCost(s * price[a], "buy")
    BY <1>1, <1>4 DEF Fill, BrokerTypeOK
  <1>6. o \notin Executed /\ Executed' = Executed \cup {o}
    BY <1>1, <1>2, <1>5, ExecutedWith
  <1>7. ShareFlow(o)' = s /\ CashFlow(o)' = - Required(a, s)
    BY <1>3, <1>5 DEF ShareFlow, CashFlow, Notional
  <1>8. /\ position'[a].qty = position[a].qty + s
        /\ \A b \in Assets \ {a} : position'[b].qty = position[b].qty
    BY <1>1, <1>4 DEF BrokerTypeOK
  <1>9. cash' = cash + CashFlow(o)'
    BY <1>1, <1>3, <1>4, <1>7 DEF BrokerTypeOK
  <1> QED
    BY <1>5, <1>6, <1>7, <1>8, <1>9, SumsGrow

\* A sale is recorded with the cash and the shares that it moved.
LEMMA AccountSells ==
    ASSUME AccountInv, BrokerTypeOK', [BrokerCalls]_brokerVars,
           NEW o \in OrderIds, NEW a \in Assets, NEW q \in Nat, NEW type, NEW allowed,
           orders[o].status = "none", ExecuteSell(o, a, q, type, allowed)
    PROVE  IsFiniteSet(Executed') /\ AccountMatchesFills'
  <1> DEFINE s == SellQty(a, q)
  <1>1. BrokerTypeOK /\ orders[o].filled_qty = 0
    BY DEF AccountInv, FreshOrdersEmpty
  <1>2. s \in Nat /\ s > 0
    BY <1>1, SellQtyBounds DEF ExecuteSell, Accepted
  <1>3. /\ s * price[a] \in Nat /\ TotalCost(s * price[a], "sell") \in Nat
        /\ Proceeds(a, s) = s * price[a] - TotalCost(s * price[a], "sell")
    BY <1>1, <1>2, AmountTypes DEF Proceeds
  <1>4. /\ cash' = cash + Proceeds(a, s)
        /\ position' = [position EXCEPT ![a] =
              [qty |-> position[a].qty - s, basis |-> position[a].basis - Released(a, s)]]
        /\ Fill(o, a, "sell", q, allowed, s)
    BY DEF ExecuteSell
  <1> HIDE DEF s
  <1>5. /\ orders'[o].side = "sell" /\ orders'[o].filled_qty = s
        /\ orders'[o].filled_price = price[a] /\ orders'[o].asset = a
        /\ \A p \in OrderIds \ {o} : orders'[p] = orders[p]
        /\ orders'[o].total_cost = TotalCost(s * price[a], "sell")
    BY <1>1, <1>4 DEF Fill, BrokerTypeOK
  <1>6. o \notin Executed /\ Executed' = Executed \cup {o}
    BY <1>1, <1>2, <1>5, ExecutedWith
  <1>7. ShareFlow(o)' = - s /\ CashFlow(o)' = Proceeds(a, s)
    BY <1>3, <1>5 DEF ShareFlow, CashFlow, Notional
  <1>8. /\ position'[a].qty = position[a].qty + ShareFlow(o)'
        /\ \A b \in Assets \ {a} : position'[b].qty = position[b].qty
    BY <1>1, <1>2, <1>4, <1>7 DEF BrokerTypeOK
  <1>9. cash' = cash + CashFlow(o)'
    BY <1>4, <1>7
  <1> QED
    BY <1>5, <1>6, <1>8, <1>9, SumsGrow

\* Every call keeps the account equal to its fills.
LEMMA AccountStep ==
    ASSUME AccountInv, [BrokerCalls]_brokerVars
    PROVE  AccountInv'
  <1>1. BrokerTypeOK /\ BrokerTypeOK' /\ FreshOrdersEmpty'
    BY TypeStep, FreshStep DEF AccountInv
  <1>2. ASSUME orders' = orders, UNCHANGED account
        PROVE  IsFiniteSet(Executed') /\ AccountMatchesFills'
    BY <1>2, SumsKept DEF Executed, account
  <1>3. ASSUME NEW o \in OrderIds, NEW a \in Assets, NEW side \in OrderSide,
               NEW q \in Nat, NEW type \in OrderType, NEW allowed \in Nat,
               SubmitOrder(o, a, side, q, type, allowed)
        PROVE  IsFiniteSet(Executed') /\ AccountMatchesFills'
    <2>1. orders[o].status = "none" /\ orders[o].filled_qty = 0
      BY <1>3 DEF SubmitOrder, AccountInv, FreshOrdersEmpty
    <2>2. CASE Reject(o, a, side, q, type, allowed)
      <3>1. /\ orders'[o].filled_qty = 0
            /\ \A p \in OrderIds \ {o} : orders'[p] = orders[p]
        BY <1>1, <2>2 DEF Reject, BrokerTypeOK
      <3>2. Executed' = Executed
        BY <2>1, <3>1, ExecutedWith
      <3> QED
        BY <2>2, <3>2, SumsKept DEF Reject, account
    <2>3. CASE ExecuteBuy(o, a, q, type, allowed)
      BY <1>1, <2>1, <2>3, AccountBuys
    <2>4. CASE ExecuteSell(o, a, q, type, allowed)
      BY <1>1, <2>1, <2>4, AccountSells
    <2> QED
      BY <1>3, <2>2, <2>3, <2>4 DEF SubmitOrder
  <1>4. ASSUME NEW o \in OrderIds, Resubmit(o) \/ CancelOrder(o)
        PROVE  IsFiniteSet(Executed') /\ AccountMatchesFills'
    <2>1. /\ \A p \in OrderIds : orders'[p].filled_qty = orders[p].filled_qty
          /\ UNCHANGED account
      <3>1. PICK s : orders' = [orders EXCEPT ![o] = [orders[o] EXCEPT !.status = s]]
        BY <1>4 DEF Resubmit, CancelOrder
      <3>2. orders[o] \in OrderRecord
        BY <1>1 DEF BrokerTypeOK
      <3>3. orders'[o].filled_qty = orders[o].filled_qty
        BY <1>1, <3>1, <3>2 DEF OrderRecord, BrokerTypeOK
      <3> QED
        BY <1>1, <1>4, <3>1, <3>3 DEF Resubmit, CancelOrder, BrokerTypeOK
    <2>2. Executed' = Executed
      BY <2>1 DEF Executed
    <2> QED
      BY <2>1, <2>2, SumsKept DEF account
  <1>5. IsFiniteSet(Executed') /\ AccountMatchesFills'
    BY <1>2, <1>3, <1>4 DEF BrokerCalls, UpdatePrices, UpdateVolumes, brokerVars, account
  <1> QED
    BY <1>1, <1>5 DEF AccountInv

\* The new account matches an empty record of executions.
LEMMA AccountStart == BrokerInit => AccountInv
  <1> SUFFICES ASSUME BrokerInit
               PROVE  AccountInv
    OBVIOUS
  <1>1. BrokerTypeOK /\ FreshOrdersEmpty
    BY BrokerAssumption
    DEF BrokerInit, BrokerTypeOK, FreshOrdersEmpty, OrderRecord, NoOrder,
        OrderStatus, OrderSide
  <1>2. Executed = {}
    BY DEF Executed, BrokerInit, NoOrder
  <1>3. \A a \in Assets : {o \in Executed : orders[o].asset = a} = {}
    BY <1>2
  <1>4. AccountMatchesFills
    BY <1>2, <1>3, SumEmpty, BrokerAssumption DEF AccountMatchesFills, BrokerInit
  <1> QED
    BY <1>1, <1>2, <1>4, FS_EmptySet DEF AccountInv

\* AccountMatchesFills: the recorded orders replay to the cash and to every
\* holding, after any calls with any quantities.
THEOREM BrokerAccountMatchesFills == BrokerSpec => []AccountMatchesFills
  <1>1. AccountInv /\ [BrokerNext]_brokerVars => AccountInv'
    BY BrokerNextCalls, AccountStep
  <1>2. AccountInv => AccountMatchesFills
    BY DEF AccountInv
  <1> QED
    BY <1>1, <1>2, AccountStart, PTL DEF BrokerSpec
-----------------------------------------------------------------------------
CostOfHoldings == [a \in Assets |-> position[a].basis]

\* The double entry of one trade: what leaves the cash enters the cost of the
\* asset, but for what is realized.
LEMMA BooksTrade ==
    ASSUME BrokerTypeOK, BrokerTypeOK', BooksBalance, NEW a \in Assets,
           \A b \in Assets \ {a} : position'[b] = position[b],
           cash' + position'[a].basis - realized'
               = cash + position[a].basis - realized
    PROVE  BooksBalance'
  <1>1. \A b \in Assets : CostOfHoldings[b] \in Int /\ CostOfHoldings'[b] \in Int
    BY DEF BrokerTypeOK, CostOfHoldings
  <1>2. \A b \in Assets \ {a} : CostOfHoldings[b] = CostOfHoldings'[b]
    BY DEF CostOfHoldings
  <1>3. SumFunctionOnSet(CostOfHoldings', Assets)
            = SumFunctionOnSet(CostOfHoldings, Assets) - CostOfHoldings[a] + CostOfHoldings'[a]
    BY <1>1, <1>2, SumChange, BrokerAssumption
  <1>4. SumFunctionOnSet(CostOfHoldings, Assets) \in Int
    BY <1>1, SumType, BrokerAssumption
  <1>5. cash + SumFunctionOnSet(CostOfHoldings, Assets) = InitialCash + realized
    BY DEF BooksBalance, SumFunction, CostOfHoldings
  <1>6. /\ CostOfHoldings[a] = position[a].basis /\ CostOfHoldings'[a] = position'[a].basis
        /\ position[a].basis \in Int /\ position'[a].basis \in Int
        /\ cash \in Int /\ cash' \in Int /\ realized \in Int /\ realized' \in Int
        /\ InitialCash \in Int
    BY BrokerAssumption DEF CostOfHoldings, BrokerTypeOK
  <1>7. cash' + SumFunctionOnSet(CostOfHoldings', Assets) = InitialCash + realized'
    BY <1>3, <1>4, <1>5, <1>6
  <1> QED
    BY <1>7 DEF BooksBalance, SumFunction, CostOfHoldings

\* Every call on the broker keeps the double entry balanced.
LEMMA BooksStep ==
    ASSUME BrokerTypeOK, BooksBalance, [BrokerCalls]_brokerVars
    PROVE  BooksBalance'
  <1>1. BrokerTypeOK'
    BY TypeStep
  <1>2. ASSUME UNCHANGED account
        PROVE  BooksBalance'
    BY <1>2 DEF BooksBalance, account
  <1>3. ASSUME NEW o, NEW a \in Assets, NEW q \in Nat, NEW type, NEW allowed,
               ExecuteBuy(o, a, q, type, allowed)
        PROVE  BooksBalance'
    <2> DEFINE s == BuyQty(a, q)
    <2>1. Required(a, s) \in Int
      BY <1>3, BuyQtyBounds, AmountTypes DEF ExecuteBuy, Accepted
    <2>2. /\ cash' = cash - Required(a, s) /\ realized' = realized
          /\ position' = [position EXCEPT ![a] =
                [qty |-> position[a].qty + s, basis |-> position[a].basis + Required(a, s)]]
      BY <1>3 DEF ExecuteBuy
    <2> HIDE DEF s
    <2>3. /\ position'[a].basis = position[a].basis + Required(a, s)
          /\ \A b \in Assets \ {a} : position'[b] = position[b]
      BY <2>2 DEF BrokerTypeOK
    <2>4. position[a].basis \in Int /\ cash \in Int /\ realized \in Int
      BY DEF BrokerTypeOK
    <2> QED
      BY <1>1, <2>1, <2>2, <2>3, <2>4, BooksTrade
  <1>4. ASSUME NEW o, NEW a \in Assets, NEW q \in Nat, NEW type, NEW allowed,
               ExecuteSell(o, a, q, type, allowed)
        PROVE  BooksBalance'
    <2> DEFINE s == SellQty(a, q)
    <2>1. Proceeds(a, s) \in Int /\ Released(a, s) \in Int
      BY <1>4, SellQtyBounds, AmountTypes, ReleasedType DEF ExecuteSell, Accepted
    <2>2. /\ cash' = cash + Proceeds(a, s)
          /\ realized' = realized + Proceeds(a, s) - Released(a, s)
          /\ position' = [position EXCEPT ![a] =
                [qty |-> position[a].qty - s, basis |-> position[a].basis - Released(a, s)]]
      BY <1>4 DEF ExecuteSell
    <2> HIDE DEF s
    <2>3. /\ position'[a].basis = position[a].basis - Released(a, s)
          /\ \A b \in Assets \ {a} : position'[b] = position[b]
      BY <2>2 DEF BrokerTypeOK
    <2>4. position[a].basis \in Int /\ cash \in Int /\ realized \in Int
      BY DEF BrokerTypeOK
    <2> QED
      BY <1>1, <2>1, <2>2, <2>3, <2>4, BooksTrade
  <1> QED
    BY <1>2, <1>3, <1>4
    DEF BrokerCalls, UpdatePrices, UpdateVolumes, SubmitOrder, Reject,
        Resubmit, CancelOrder, brokerVars, account

\* A sum of zeros is zero.
LEMMA BooksStart == BrokerInit => BooksBalance
  <1> SUFFICES ASSUME BrokerInit
               PROVE  BooksBalance
    OBVIOUS
  <1>1. \A a \in Assets : CostOfHoldings[a] = 0
    BY DEF BrokerInit, CostOfHoldings
  <1>2. SumFunctionOnSet(CostOfHoldings, Assets) = 0
    BY <1>1, SumZero, BrokerAssumption
  <1> QED
    BY <1>2, BrokerAssumption DEF BooksBalance, SumFunction, CostOfHoldings, BrokerInit

\* BooksBalance: cash and the cost of the holdings are the initial cash and
\* the realized profit, whatever was bought and sold in parts.
THEOREM BrokerBooksBalance == BrokerSpec => []BooksBalance
  <1>1. BrokerTypeOK /\ BooksBalance /\ [BrokerNext]_brokerVars => BooksBalance'
    BY BrokerNextCalls, BooksStep
  <1> QED
    BY <1>1, BooksStart, BrokerTypeCorrect, PTL DEF BrokerSpec
-----------------------------------------------------------------------------
\* The shape of an algorithmic order; what its slices hold is left open.
IsOrder(r) ==
    /\ r = [status |-> r.status, kind |-> r.kind, asset |-> r.asset,
            side |-> r.side, total |-> r.total, slices |-> r.slices]
    /\ r.slices = [i \in DOMAIN r.slices |-> r.slices[i]]

\* An order that was not created has no slices, and the order whose slices
\* are being executed is active until the loop ends.
OrdersInv ==
    /\ algo = [x \in AlgoIds |-> algo[x]]
    /\ \A x \in AlgoIds :
          /\ IsOrder(algo[x])
          /\ algo[x].status = "none" => DOMAIN algo[x].slices = {}
          /\ running = x => algo[x].status = "active"

\* What a step may not do to one order.
Final(x) ==
    /\ \A i \in DOMAIN algo[x].slices \ Pending(x) :
          algo'[x].slices[i] = algo[x].slices[i]
    /\ algo[x].status = "cancelled" => algo'[x].status = "cancelled"
    /\ algo[x].status = "completed" =>
          algo'[x].status \in {"completed", "cancelled"}

-----------------------------------------------------------------------------
\* One lemma per handler: the invariant and the outcomes are kept.
LEMMA CreateStep ==
    ASSUME OrdersInv, NEW x \in AlgoIds, NEW kind, NEW a, NEW side, NEW total,
           NEW n, NEW h, CreateOrder(x, kind, a, side, total, n, h)
    PROVE  OrdersInv' /\ \A y \in AlgoIds : Final(y)
  <1> DEFINE qty == SliceQty(kind, total, n, h)
             new == [status |-> "active", kind |-> kind, asset |-> a,
                     side |-> side, total |-> total,
                     slices |-> [i \in DOMAIN qty |-> Slice(now + i, qty[i])]]
  <1>1. /\ algo[x].status = "none" /\ running = "none" /\ running' = running
        /\ algo' = [algo EXCEPT ![x] = new]
    BY DEF CreateOrder, Idle
  <1>2. IsOrder(new) /\ new.status = "active"
    BY DEF IsOrder
  <1> HIDE DEF new
  <1>3. /\ algo' = [y \in AlgoIds |-> algo'[y]]
        /\ algo'[x] = new
        /\ \A y \in AlgoIds \ {x} : algo'[y] = algo[y]
    BY <1>1 DEF OrdersInv
  <1>4. OrdersInv'
    <2>1. ASSUME NEW y \in AlgoIds
          PROVE  /\ IsOrder(algo'[y])
                 /\ algo'[y].status = "none" => DOMAIN algo'[y].slices = {}
                 /\ running' = y => algo'[y].status = "active"
      <3>1. CASE y = x
        BY <1>2, <1>3, <3>1
      <3>2. CASE y # x
        BY <1>1, <1>3, <3>2 DEF OrdersInv
      <3> QED
        BY <3>1, <3>2
    <2> QED
      BY <1>3, <2>1 DEF OrdersInv, IsOrder
  <1>5. Final(x)
    BY <1>1 DEF OrdersInv, Final
  <1>6. ASSUME NEW y \in AlgoIds \ {x}
        PROVE  Final(y)
    BY <1>3, <1>6 DEF Final
  <1> QED
    BY <1>4, <1>5, <1>6

\* Cancelling makes the open slices final and changes no closed one.
LEMMA CancelStep ==
    ASSUME OrdersInv, NEW x \in AlgoIds, CancelAlgoOrder(x)
    PROVE  OrdersInv' /\ \A y \in AlgoIds : Final(y)
  <1> DEFINE left == [i \in DOMAIN algo[x].slices |->
                 IF algo[x].slices[i].status = "pending"
                 THEN [algo[x].slices[i] EXCEPT !.status = "cancelled"]
                 ELSE algo[x].slices[i]]
             new == [status |-> "cancelled", kind |-> algo[x].kind,
                     asset |-> algo[x].asset, side |-> algo[x].side,
                     total |-> algo[x].total, slices |-> left]
  <1>1. /\ algo[x].status # "none" /\ running = "none" /\ running' = running
        /\ algo' = [algo EXCEPT ![x].status = "cancelled", ![x].slices = left]
    BY DEF CancelAlgoOrder, Idle
  <1>2. left = [i \in DOMAIN left |-> left[i]] /\ DOMAIN left = DOMAIN algo[x].slices
    OBVIOUS
  <1>3. \A i \in DOMAIN algo[x].slices \ Pending(x) : left[i] = algo[x].slices[i]
    BY DEF Pending
  <1> HIDE DEF left
  <1>4. IsOrder(algo[x]) /\ x \in DOMAIN algo
    BY DEF OrdersInv
  <1>5. /\ algo' = [y \in AlgoIds |-> algo'[y]]
        /\ \A y \in AlgoIds \ {x} : algo'[y] = algo[y]
    BY <1>1 DEF OrdersInv
  <1>6. algo'[x] = new
    BY <1>1, <1>4 DEF IsOrder
  <1>7. IsOrder(new) /\ new.status = "cancelled" /\ new.slices = left
    BY <1>2 DEF IsOrder
  <1> HIDE DEF new
  <1>8. OrdersInv'
    BY <1>1, <1>5, <1>6, <1>7, AlgoAssumption DEF OrdersInv, IsOrder
  <1>9. Final(x)
    BY <1>3, <1>6, <1>7 DEF Final
  <1>10. ASSUME NEW y \in AlgoIds \ {x}
         PROVE  Final(y)
    BY <1>5, <1>10 DEF Final
  <1> QED
    BY <1>8, <1>9, <1>10

\* One iteration of the loop closes one due slice and no other.
LEMMA SliceStep ==
    ASSUME OrdersInv, NEW x \in AlgoIds, ExecuteSlice(x)
    PROVE  OrdersInv' /\ \A y \in AlgoIds : Final(y)
  <1>1. PICK i \in Due(x) :
            algo' = [algo EXCEPT ![x].slices[i] =
                [@ EXCEPT
                   !.status = IF orders'[<<x, i>>].status = "filled"
                              THEN "filled" ELSE "failed",
                   !.filled_qty = orders'[<<x, i>>].filled_qty]]
    BY DEF ExecuteSlice
  <1> DEFINE done == [algo[x].slices[i] EXCEPT
                   !.status = IF orders'[<<x, i>>].status = "filled"
                              THEN "filled" ELSE "failed",
                   !.filled_qty = orders'[<<x, i>>].filled_qty]
             left == [algo[x].slices EXCEPT ![i] = done]
             new == [status |-> algo[x].status, kind |-> algo[x].kind,
                     asset |-> algo[x].asset, side |-> algo[x].side,
                     total |-> algo[x].total, slices |-> left]
  <1>2. i \in Pending(x) /\ running = x /\ running' = running
    BY DEF Due, ExecuteSlice
  <1>3. algo' = [algo EXCEPT ![x] = [algo[x] EXCEPT !.slices = left]]
    BY <1>1
  <1> HIDE DEF done
  <1>4. /\ left = [j \in DOMAIN left |-> left[j]]
        /\ DOMAIN left = DOMAIN algo[x].slices
        /\ \A j \in DOMAIN algo[x].slices \ Pending(x) : left[j] = algo[x].slices[j]
    BY <1>2
  <1> HIDE DEF left
  <1>5. IsOrder(algo[x]) /\ x \in DOMAIN algo /\ algo[x].status = "active"
    BY <1>2 DEF OrdersInv
  <1>6. /\ algo' = [y \in AlgoIds |-> algo'[y]]
        /\ \A y \in AlgoIds \ {x} : algo'[y] = algo[y]
    BY <1>3 DEF OrdersInv
  <1>7. algo'[x] = new
    BY <1>3, <1>5 DEF IsOrder
  <1>8. IsOrder(new) /\ new.status = "active" /\ new.slices = left
    BY <1>4, <1>5 DEF IsOrder
  <1> HIDE DEF new
  <1>9. OrdersInv'
    BY <1>2, <1>6, <1>7, <1>8 DEF OrdersInv, IsOrder
  <1>10. Final(x)
    BY <1>4, <1>5, <1>7, <1>8 DEF Final
  <1>11. ASSUME NEW y \in AlgoIds \ {x}
         PROVE  Final(y)
    BY <1>6, <1>11 DEF Final
  <1> QED
    BY <1>9, <1>10, <1>11

\* The end of the loop completes an active order without open slices only.
LEMMA FinishStep ==
    ASSUME OrdersInv, NEW x \in AlgoIds, FinishExecute(x)
    PROVE  OrdersInv' /\ \A y \in AlgoIds : Final(y)
  <1> DEFINE new == [status |-> algo'[x].status, kind |-> algo[x].kind,
                     asset |-> algo[x].asset, side |-> algo[x].side,
                     total |-> algo[x].total, slices |-> algo[x].slices]
  <1>1. /\ running = x /\ running' = "none"
        /\ \/ algo' = [algo EXCEPT ![x].status = "completed"]
           \/ algo' = algo
    BY DEF FinishExecute
  <1>2. IsOrder(algo[x]) /\ x \in DOMAIN algo /\ algo[x].status = "active"
    BY <1>1 DEF OrdersInv
  <1>3. /\ algo' = [y \in AlgoIds |-> algo'[y]]
        /\ \A y \in AlgoIds \ {x} : algo'[y] = algo[y]
    BY <1>1 DEF OrdersInv
  <1>4. algo'[x] = new /\ algo'[x].status \in {"active", "completed"}
    BY <1>1, <1>2 DEF IsOrder
  <1>5. IsOrder(algo'[x]) /\ algo'[x].slices = algo[x].slices
    BY <1>2, <1>4 DEF IsOrder
  <1>6. OrdersInv'
    BY <1>1, <1>3, <1>4, <1>5, AlgoAssumption DEF OrdersInv, IsOrder
  <1>7. Final(x)
    BY <1>2, <1>5 DEF Final
  <1>8. ASSUME NEW y \in AlgoIds \ {x}
        PROVE  Final(y)
    BY <1>3, <1>8 DEF Final
  <1> QED
    BY <1>6, <1>7, <1>8

\* Every step keeps the invariant and the outcomes.
LEMMA OrdersStep ==
    ASSUME OrdersInv, [AlgoNext]_vars
    PROVE  OrdersInv' /\ \A y \in AlgoIds : Final(y)
  <1>1. ASSUME UNCHANGED <<algo, running>>
        PROVE  OrdersInv' /\ \A y \in AlgoIds : Final(y)
    BY <1>1 DEF OrdersInv, IsOrder, Final
  <1>2. CASE BrokerCall
    BY <1>1, <1>2 DEF BrokerCall, algoVars
  <1>3. CASE Tick
    BY <1>1, <1>3 DEF Tick
  <1>4. CASE \E x \in AlgoIds, kind \in {"twap", "vwap"}, a \in Assets,
                side \in OrderSide, total \in Totals,
                n \in 1 .. MaxSlices, h \in 0 .. MaxSlices :
                CreateOrder(x, kind, a, side, total, n, h)
    BY <1>4, CreateStep
  <1>5. CASE \E x \in AlgoIds : CancelAlgoOrder(x)
    BY <1>5, CancelStep
  <1>6. ASSUME NEW x \in AlgoIds, ExecuteDueSlices(x)
        PROVE  OrdersInv' /\ \A y \in AlgoIds : Final(y)
    <2>1. CASE StartExecute(x)
      BY <2>1 DEF StartExecute, OrdersInv, IsOrder, Final
    <2>2. CASE ExecuteSlice(x)
      BY <2>2, SliceStep
    <2>3. CASE FinishExecute(x)
      BY <2>3, FinishStep
    <2> QED
      BY <1>6, <2>1, <2>2, <2>3 DEF ExecuteDueSlices
  <1>7. CASE UNCHANGED vars
    BY <1>1, <1>7 DEF vars, algoVars
  <1> QED
    BY <1>2, <1>3, <1>4, <1>5, <1>6, <1>7 DEF AlgoNext

\* OutcomesAreFinal: a slice that was filled, failed or cancelled survives every
\* later call, executions and cancels included; a cancelled order stays
\* cancelled, and a completed one changes its status by a late cancel only,
\* which relabels it as cancelled.
THEOREM AlgoOutcomesFinal == AlgoSpec => OutcomesAreFinal
  <1>1. AlgoInit => OrdersInv
    BY AlgoAssumption DEF AlgoInit, OrdersInv, IsOrder, NoAlgo
  <1>2. OrdersInv /\ [AlgoNext]_vars => OrdersInv'
    BY OrdersStep
  <1>3. OrdersInv /\ [AlgoNext]_vars
            => [\A x \in AlgoIds :
                  /\ \A i \in DOMAIN algo[x].slices \ Pending(x) :
                        algo'[x].slices[i] = algo[x].slices[i]
                  /\ algo[x].status = "cancelled" => algo'[x].status = "cancelled"
                  /\ algo[x].status = "completed" =>
                        algo'[x].status \in {"completed", "cancelled"}]_vars
    BY OrdersStep DEF Final
  <1> QED
    BY <1>1, <1>2, <1>3, PTL DEF AlgoSpec, OutcomesAreFinal
-----------------------------------------------------------------------------
\* Equal slices, the remainder one share each to the first ones.
LEMMA TWAPCovers ==
    ASSUME NEW total \in Nat, NEW n \in Nat \ {0}
    PROVE  /\ TWAPQty(total, n) \in [0 .. n - 1 -> Nat]
           /\ SumFunction(TWAPQty(total, n)) = total
           /\ \A i, j \in 0 .. n - 1 :
                 TWAPQty(total, n)[i] <= TWAPQty(total, n)[j] + 1
  <1> DEFINE f == TWAPQty(total, n)
  <1>0. PICK k, r : k = total \div n /\ r = total % n
    OBVIOUS
  <1>1. k \in Nat /\ r \in 0 .. n /\ total = n * k + r
    BY <1>0
  <1>2. f = [i \in 0 .. n - 1 |-> k + (IF i < r THEN 1 ELSE 0)]
    BY <1>0 DEF TWAPQty
  <1> HIDE DEF f
  <1>3. f \in [0 .. n - 1 -> Nat] /\ DOMAIN f = 0 .. n - 1
    BY <1>1, <1>2
  <1>4. SumFunctionOnSet(f, 0 .. n - 1) = n * k + r
    <2>1. \A i \in 0 .. n - 1 : f[i] = k + (IF i < r THEN 1 ELSE 0)
      BY <1>2
    <2>2. k \in Int
      BY <1>1
    <2> QED
      BY <1>1, <2>1, <2>2, SumSteps
  <1>5. \A i, j \in 0 .. n - 1 : f[i] <= f[j] + 1
    BY <1>1, <1>2
  <1> QED
    BY <1>1, <1>3, <1>4, <1>5 DEF SumFunction, f

\* A share of whole lots: one lot at least, and no more than was shared out
\* unless it is one lot.
LEMMA WholeLotsType ==
    ASSUME NEW m \in Nat
    PROVE  /\ WholeLots(m) \in Nat /\ WholeLots(m) >= LotSize
           /\ WholeLots(m) > LotSize => WholeLots(m) <= m
  <1> DEFINE lots == (m \div LotSize) * LotSize
  <1>1. LotSize \in Nat \ {0}
    BY BrokerAssumption
  <1>2. lots \in Int /\ lots <= m
    BY <1>1
  <1> QED
    BY <1>1, <1>2 DEF WholeLots

\* VWAP before the adjustment: equal slices, and the last takes the rest; or
\* the equal slices are of one lot and exceed the order.
RawCovers(f, total, h) ==
    /\ f \in [DOMAIN f -> Nat]
    /\ DOMAIN f \subseteq 0 .. h - 1
    /\ IsFiniteSet(DOMAIN f)
    /\ SumFunction(f) \in Int
    /\ \/ SumFunction(f) = total
       \/ /\ SumFunction(f) > total
          /\ \A i \in DOMAIN f : f[i] = LotSize
          /\ DOMAIN f # {}

\* VWAP slices before the adjustment, for every number of trading hours.
LEMMA VWAPRawCovers ==
    ASSUME NEW total \in Nat \ {0}, NEW h \in Nat \ {0}
    PROVE  RawCovers(VWAPRaw(total, h), total, h)
  <1> DEFINE each == WholeLots(total \div h)
             f == VWAPRaw(total, h)
  <1>1. total \div h \in Nat /\ h * (total \div h) <= total
    OBVIOUS
  <1>2. each \in Nat /\ each >= LotSize /\ (each > LotSize => each <= total \div h)
    BY <1>1, WholeLotsType
  <1>3. PICK n, last : n = h - 1 /\ last = total - n * each
    OBVIOUS
  <1>4. f = [i \in 0 .. (IF last > 0 THEN n ELSE n - 1) |->
                IF i < n THEN each ELSE last]
    BY <1>3 DEF VWAPRaw
  <1>5. LotSize \in Nat \ {0} /\ n \in Nat
    BY <1>3, BrokerAssumption
  <1> HIDE DEF each, f
  <1>6. n * each \in Nat /\ last \in Int /\ h * each = n * each + each
    BY <1>2, <1>3, <1>5
  <1>7. \A i \in 0 .. n - 1 : f[i] = each
    BY <1>4, <1>5
  <1>8. SumFunctionOnSet(f, 0 .. n - 1) = n * each
    BY <1>2, <1>5, <1>7, SumConstant
  <1>9. CASE last > 0
    <2>1. f = [i \in 0 .. n |-> IF i < n THEN each ELSE last]
      BY <1>4, <1>9
    <2>2. DOMAIN f = 0 .. n /\ f \in [0 .. n -> Nat] /\ f[n] = last
      BY <1>2, <1>5, <1>6, <1>9, <2>1
    <2>3. SumFunctionOnSet(f, 0 .. n) = f[n] + SumFunctionOnSet(f, 0 .. n - 1)
      <3>1. \A i \in 0 .. n : f[i] \in Int
        BY <2>2
      <3> QED
        BY <1>5, <3>1, SumNext
    <2>4. SumFunction(f) = total
      <3>1. SumFunction(f) = last + n * each
        BY <1>8, <2>2, <2>3 DEF SumFunction
      <3> QED
        BY <1>3, <1>6, <3>1
    <2>5. IsFiniteSet(0 .. n) /\ 0 .. n = 0 .. h - 1
      BY <1>3, <1>5, FS_Interval
    <2>6. total \in Int /\ f \in [DOMAIN f -> Nat]
      BY <2>2
    <2>7. RawCovers(f, total, h)
      BY <2>2, <2>4, <2>5, <2>6 DEF RawCovers
    <2> QED
      BY <2>7 DEF f
  <1>10. CASE ~ (last > 0)
    <2>1. f = [i \in 0 .. n - 1 |-> IF i < n THEN each ELSE last]
      BY <1>4, <1>10
    <2>2. DOMAIN f = 0 .. n - 1 /\ f \in [0 .. n - 1 -> Nat]
      BY <1>2, <1>5, <1>7, <2>1
    <2>3. SumFunction(f) = n * each /\ SumFunction(f) >= total
      BY <1>3, <1>6, <1>8, <1>10, <2>2 DEF SumFunction
    <2>4. each = LotSize
      <3>1. ASSUME each > LotSize
            PROVE  FALSE
        <4>1. each <= total \div h
          BY <1>2, <3>1
        <4>2. h * each <= h * (total \div h)
          BY <1>1, <1>2, <4>1
        <4>3. h * each <= total /\ h * each \in Int
          BY <1>1, <1>2, <4>2
        <4> QED
          BY <1>2, <1>3, <1>5, <1>6, <1>10, <3>1, <4>3
      <3> QED
        BY <1>2, <1>5, <3>1
    <2>5. SumFunction(f) > total => DOMAIN f # {}
      <3>1. SumFunctionOnSet(f, {}) = 0
        BY SumEmpty
      <3>2. ASSUME DOMAIN f = {}
            PROVE  SumFunction(f) = 0
        BY <3>1, <3>2 DEF SumFunction
      <3>3. ~ (0 > total)
        OBVIOUS
      <3> QED
        BY <3>2, <3>3
    <2>8. n * each \in Int /\ f \in [DOMAIN f -> Nat]
      BY <1>6, <2>2
    <2>6. IsFiniteSet(0 .. n - 1) /\ 0 .. n - 1 \subseteq 0 .. h - 1
      BY <1>3, <1>5, FS_Interval
    <2>7. SumFunction(f) = total \/ SumFunction(f) > total
      BY <1>6, <2>3
    <2>9. \A i \in DOMAIN f : f[i] = LotSize
      BY <1>7, <2>2, <2>4
    <2>10. RawCovers(f, total, h)
      BY <2>2, <2>3, <2>5, <2>6, <2>7, <2>8, <2>9 DEF RawCovers
    <2> QED
      BY <2>10 DEF f
  <1> QED
    BY <1>9, <1>10

\* An element of which no other is larger.
LEMMA LargestExists ==
    ASSUME NEW D, IsFiniteSet(D), D # {}, D \subseteq Nat, NEW f,
           \A i \in D : f[i] \in Nat
    PROVE  \E i \in D : \A j \in D : f[i] >= f[j] /\ (f[i] = f[j] => i <= j)
  <1> DEFINE Above(i) == {j \in D : f[j] > f[i]}
             T == {Above(i) : i \in D}
  <1>1. PICK U \in T : \A V \in T : V \subseteq U => V = U
    <2>1. \A i \in D : IsFiniteSet(Above(i))
      <3>1. \A i \in D : Above(i) \subseteq D
        OBVIOUS
      <3> HIDE DEF Above
      <3> QED
        BY <3>1, FS_Subset
    <2>2. T # {} /\ \A V \in T : IsFiniteSet(V)
      <3> HIDE DEF Above
      <3> QED
        BY <2>1
    <2> HIDE DEF T
    <2> QED
      BY <2>2, LeastSet
  <1>2. PICK m \in D : U = Above(m)
    BY <1>1
  <1>3. \A j \in D : f[j] <= f[m]
    <2>1. SUFFICES ASSUME NEW j \in D, f[j] > f[m]
                   PROVE  FALSE
      OBVIOUS
    <2>0. f[m] \in Nat /\ f[j] \in Nat
      OBVIOUS
    <2>2. Above(j) \in T
      OBVIOUS
    <2>4. ASSUME NEW k \in Above(j)
          PROVE  k \in Above(m)
      <3>1. k \in D /\ f[k] \in Nat /\ f[k] > f[j]
        OBVIOUS
      <3>2. f[k] > f[m]
        BY <2>0, <2>1, <3>1
      <3> QED
        BY <3>1, <3>2
    <2>3. j \in Above(m) /\ j \notin Above(j)
      BY <2>0, <2>1
    <2> HIDE DEF Above, T
    <2> QED
      BY <1>1, <1>2, <2>2, <2>3, <2>4
  <1> DEFINE L == {j \in D : f[j] = f[m]}
  <1>4. PICK i \in L : \A j \in L : i <= j
    <2>1. L # {} /\ L \subseteq Nat
      BY <1>2
    <2> HIDE DEF L
    <2> QED
      BY <2>1, LeastNatural
  <1> QED
    BY <1>3, <1>4

\* An allocation that covers an order, as SlicesCoverOrder says it.
Covers(kind, total, qty) ==
    \/ /\ SumFunction(qty) = total
       /\ kind = "twap" =>
             \A i, j \in DOMAIN qty : qty[i] <= qty[j] + 1
    \/ /\ kind = "vwap"
       /\ SumFunction(qty) > total
       /\ \A i \in DOMAIN qty : qty[i] = LotSize

\* Taking the excess from the largest slice leaves an exact cut as it is, and
\* takes nothing from single lots.
LEMMA AdjustedCovers ==
    ASSUME NEW total \in Nat \ {0}, NEW qty, NEW h \in Nat, RawCovers(qty, total, h)
    PROVE  /\ Adjusted(total, qty) \in [DOMAIN qty -> Nat]
           /\ Covers("vwap", total, Adjusted(total, qty))
  <1>1. LotSize \in Nat \ {0} /\ total \in Nat /\ SumFunction(qty) \in Int
    BY BrokerAssumption DEF RawCovers
  <1>2. CASE SumFunction(qty) = total
    <2>1. Adjusted(total, qty) = qty
      BY <1>1, <1>2 DEF Adjusted
    <2> QED
      BY <1>2, <2>1 DEF RawCovers, Covers
  <1>3. CASE SumFunction(qty) # total
    <2>1. /\ SumFunction(qty) > total /\ DOMAIN qty # {}
          /\ \A i \in DOMAIN qty : qty[i] = LotSize
      BY <1>3 DEF RawCovers
    <2>2. PICK largest : largest = CHOOSE i \in DOMAIN qty :
            \A j \in DOMAIN qty : qty[i] >= qty[j] /\ (qty[i] = qty[j] => i <= j)
      OBVIOUS
    <2>3. largest \in DOMAIN qty
      <3>1. /\ IsFiniteSet(DOMAIN qty) /\ DOMAIN qty \subseteq Nat
            /\ \A i \in DOMAIN qty : qty[i] \in Nat
        BY DEF RawCovers
      <3>2. \E i \in DOMAIN qty : \A j \in DOMAIN qty :
               qty[i] >= qty[j] /\ (qty[i] = qty[j] => i <= j)
        BY <2>1, <3>1, LargestExists
      <3> QED
        BY <2>2, <3>2
    <2>4. qty[largest] - (SumFunction(qty) - total) < LotSize
      BY <1>1, <2>1, <2>3
    <2>5. Adjusted(total, qty) = [qty EXCEPT ![largest] = LotSize]
      BY <2>1, <2>2, <2>4 DEF Adjusted
    <2>6. qty \in [DOMAIN qty -> Nat]
      BY DEF RawCovers
    <2>7. [qty EXCEPT ![largest] = LotSize] = qty
      BY <2>1, <2>3, <2>6
    <2> QED
      BY <2>1, <2>5, <2>6, <2>7 DEF Covers
  <1> QED
    BY <1>2, <1>3

\* The slices of a new order: one per interval of its window, and they cover
\* the order.
LEMMA SliceQtyCovers ==
    ASSUME NEW kind \in {"twap", "vwap"}, NEW total \in Nat \ {0},
           NEW n \in 1 .. MaxSlices, NEW h \in 0 .. MaxSlices
    PROVE  /\ SliceQty(kind, total, n, h) \in [DOMAIN SliceQty(kind, total, n, h) -> Nat]
           /\ DOMAIN SliceQty(kind, total, n, h) \subseteq SliceIds
           /\ Covers(kind, total, SliceQty(kind, total, n, h))
  <1>1. MaxSlices \in Nat \ {0} /\ n \in Nat \ {0} /\ total \in Nat
    BY AlgoAssumption
  <1>2. CASE kind = "vwap" /\ h > 0
    <2>1. h \in Nat \ {0}
      BY <1>1, <1>2
    <2>2. PICK raw : raw = VWAPRaw(total, h)
      OBVIOUS
    <2>3. RawCovers(raw, total, h)
      BY <2>1, <2>2, VWAPRawCovers
    <2>4. SliceQty(kind, total, n, h) = Adjusted(total, raw)
      BY <1>2, <2>2 DEF SliceQty
    <2>5. /\ Adjusted(total, raw) \in [DOMAIN raw -> Nat]
          /\ Covers("vwap", total, Adjusted(total, raw))
      BY <2>1, <2>3, AdjustedCovers
    <2>6. DOMAIN raw \subseteq SliceIds
      <3>1. DOMAIN raw \subseteq 0 .. h - 1
        BY <2>3 DEF RawCovers
      <3> QED
        BY <1>1, <3>1 DEF SliceIds
    <2> QED
      BY <1>2, <2>4, <2>5, <2>6
  <1>3. CASE ~ (kind = "vwap" /\ h > 0)
    <2>1. SliceQty(kind, total, n, h) = TWAPQty(total, n)
      BY <1>3 DEF SliceQty
    <2>2. /\ TWAPQty(total, n) \in [0 .. n - 1 -> Nat]
          /\ SumFunction(TWAPQty(total, n)) = total
          /\ \A i, j \in 0 .. n - 1 :
                TWAPQty(total, n)[i] <= TWAPQty(total, n)[j] + 1
      BY <1>1, TWAPCovers
    <2>3. DOMAIN TWAPQty(total, n) = 0 .. n - 1
      BY <2>2
    <2>4. 0 .. n - 1 \subseteq SliceIds
      BY <1>1 DEF SliceIds
    <2> QED
      BY <2>1, <2>2, <2>3, <2>4 DEF Covers
  <1> QED
    BY <1>2, <1>3

-----------------------------------------------------------------------------
QtyOf(r) == [i \in DOMAIN r.slices |-> r.slices[i].qty]

\* A well-formed order: its slices are of the declared shape and cover it.
GoodOrder(r) ==
    /\ r.status \in {"none", "active", "completed", "cancelled"}
    /\ DOMAIN r.slices \subseteq SliceIds
    /\ \A i \in DOMAIN r.slices : r.slices[i] \in SliceRecord
    /\ r.status # "none" =>
          /\ r.asset \in Assets /\ r.side \in OrderSide
          /\ Covers(r.kind, r.total, QtyOf(r))

SliceMatches(s, b) ==
    /\ s.status = "filled" <=> b.filled_qty > 0
    /\ s.filled_qty = b.filled_qty
    /\ s.status \in {"pending", "cancelled"} => b.status = "none"
    /\ b.filled_qty <= s.qty

\* The slices of an order against the broker's orders of the same identifiers;
\* nothing of an order that does not exist has reached the broker.
OrderMatches(x) ==
    /\ algo[x].status = "none" =>
          \A i \in SliceIds : orders[<<x, i>>].status = "none"
    /\ \A i \in DOMAIN algo[x].slices :
          SliceMatches(algo[x].slices[i], orders[<<x, i>>])

\* The inductive invariant of the algorithmic orders.
AlgoInv ==
    /\ BrokerTypeOK
    /\ FreshOrdersEmpty
    /\ OrdersInv
    /\ running \in AlgoIds \cup {"none"}
    /\ now \in 0 .. Horizon
    /\ \A x \in AlgoIds : GoodOrder(algo[x]) /\ OrderMatches(x)

\* The broker's order of a slice is one of its orders.
LEMMA SliceOrders ==
    ASSUME NEW x \in AlgoIds, NEW i \in SliceIds
    PROVE  <<x, i>> \in OrderIds /\ <<x, i>> \notin ManualIds
  BY AlgoAssumption

\* What submit_order makes of an order, and of the others.
LEMMA SubmitResult ==
    ASSUME BrokerTypeOK, NEW o \in OrderIds, NEW a \in Assets,
           NEW side \in OrderSide, NEW q \in Nat, NEW type, NEW allowed,
           SubmitOrder(o, a, side, q, type, allowed)
    PROVE  /\ \A p \in OrderIds \ {o} : orders'[p] = orders[p]
           /\ orders[o].status = "none"
           /\ orders'[o].status \in {"filled", "rejected"}
           /\ orders'[o].filled_qty \in Nat /\ orders'[o].filled_qty <= q
           /\ IF orders'[o].status = "filled"
              THEN orders'[o].filled_qty > 0 ELSE orders'[o].filled_qty = 0
  <1>1. orders[o].status = "none"
    BY DEF SubmitOrder
  <1>2. CASE Reject(o, a, side, q, type, allowed)
    BY <1>1, <1>2 DEF Reject, BrokerTypeOK
  <1>3. CASE ExecuteBuy(o, a, q, type, allowed)
    <2>1. /\ BuyQty(a, q) \in Nat /\ 0 < BuyQty(a, q) /\ BuyQty(a, q) <= q
      BY <1>3, BuyQtyBounds DEF ExecuteBuy, Accepted
    <2>2. Fill(o, a, "buy", q, allowed, BuyQty(a, q))
      BY <1>3 DEF ExecuteBuy
    <2> QED
      BY <1>1, <2>1, <2>2, FillRecord
  <1>4. CASE ExecuteSell(o, a, q, type, allowed)
    <2>1. /\ SellQty(a, q) \in Nat /\ 0 < SellQty(a, q) /\ SellQty(a, q) <= q
      BY <1>4, SellQtyBounds DEF ExecuteSell, Accepted
    <2>2. Fill(o, a, "sell", q, allowed, SellQty(a, q))
      BY <1>4 DEF ExecuteSell
    <2> QED
      BY <1>1, <2>1, <2>2, FillRecord
  <1> QED
    BY <1>2, <1>3, <1>4 DEF SubmitOrder

\* A cancel of a broker order changes no fill and hands over no new order.
LEMMA CancelOrderResult ==
    ASSUME BrokerTypeOK, NEW o \in OrderIds, CancelOrder(o), NEW p \in OrderIds
    PROVE  /\ orders'[p].filled_qty = orders[p].filled_qty
           /\ orders'[p].status = "none" <=> orders[p].status = "none"
  <1>1. orders[o] \in OrderRecord
    BY DEF BrokerTypeOK
  <1> QED
    BY <1>1 DEF CancelOrder, BrokerTypeOK, OrderRecord

\* The other callers of the broker leave the orders of the slices alone.
LEMMA BrokerCallResult ==
    ASSUME BrokerTypeOK, BrokerCall, NEW x \in AlgoIds, NEW i \in SliceIds
    PROVE  /\ orders'[<<x, i>>].filled_qty = orders[<<x, i>>].filled_qty
           /\ orders'[<<x, i>>].status = "none" <=> orders[<<x, i>>].status = "none"
  <1>1. <<x, i>> \in OrderIds /\ <<x, i>> \notin ManualIds
    BY SliceOrders
  <1>2. ASSUME NEW a \in Assets, NEW p \in Prices, UpdatePrices(a, p)
        PROVE  orders' = orders
    BY <1>2 DEF UpdatePrices
  <1>3. ASSUME NEW a \in Assets, NEW v \in Volumes, UpdateVolumes(a, v)
        PROVE  orders' = orders
    BY <1>3 DEF UpdateVolumes
  <1>4. ASSUME NEW o \in ManualIds, NEW a \in Assets, NEW side \in OrderSide,
               NEW q \in Quantities, NEW type \in OrderType,
               NEW allowed \in Allowed(q),
               SubmitOrder(o, a, side, q, type, allowed)
        PROVE  orders'[<<x, i>>] = orders[<<x, i>>]
    <2>1. o \in OrderIds /\ o # <<x, i>> /\ q \in Nat
      BY <1>1, <1>4, AlgoAssumption, BrokerAssumption
    <2> QED
      BY <1>1, <1>4, <2>1, SubmitResult
  <1>5. ASSUME NEW o \in OrderIds, CancelOrder(o)
        PROVE  /\ orders'[<<x, i>>].filled_qty = orders[<<x, i>>].filled_qty
               /\ orders'[<<x, i>>].status = "none"
                     <=> orders[<<x, i>>].status = "none"
    BY <1>1, <1>5, CancelOrderResult
  <1>6. ASSUME NEW o \in ManualIds, Resubmit(o)
        PROVE  orders'[<<x, i>>] = orders[<<x, i>>]
    BY <1>1, <1>6 DEF Resubmit, BrokerTypeOK
  <1> QED
    BY <1>2, <1>3, <1>4, <1>5, <1>6 DEF BrokerCall, ClientCall

\* The slice that is executed, and the call on the broker it makes, unless a
\* policy raised before the broker took the order.
LEMMA SliceCall ==
    ASSUME AlgoInv, NEW x \in AlgoIds, ExecuteSlice(x)
    PROVE  \E i \in Pending(x), allowed \in Nat :
              /\ algo[x].slices[i] \in SliceRecord
              /\ \/ SubmitOrder(<<x, i>>, algo[x].asset, algo[x].side,
                                algo[x].slices[i].qty, "market", allowed)
                 \/ UNCHANGED brokerVars
              /\ algo' = [algo EXCEPT ![x].slices[i] =
                    [@ EXCEPT
                       !.status = IF orders'[<<x, i>>].status = "filled"
                                  THEN "filled" ELSE "failed",
                       !.filled_qty = orders'[<<x, i>>].filled_qty]]
  <1>1. PICK i \in Due(x) :
           /\ \/ \E allowed \in Allowed(algo[x].slices[i].qty) :
                    SubmitOrder(<<x, i>>, algo[x].asset, algo[x].side,
                                algo[x].slices[i].qty, "market", allowed)
              \/ UNCHANGED brokerVars
           /\ algo' = [algo EXCEPT ![x].slices[i] =
                    [@ EXCEPT
                       !.status = IF orders'[<<x, i>>].status = "filled"
                                  THEN "filled" ELSE "failed",
                       !.filled_qty = orders'[<<x, i>>].filled_qty]]
    BY DEF ExecuteSlice
  <1>2. i \in Pending(x) /\ i \in DOMAIN algo[x].slices
    BY DEF Due, Pending
  <1>3. algo[x].slices[i] \in SliceRecord
    BY <1>2 DEF AlgoInv, GoodOrder
  <1>4. algo[x].slices[i].qty \in Nat
    BY <1>3 DEF SliceRecord
  <1>5. Allowed(algo[x].slices[i].qty) \subseteq Nat
    BY <1>4, AllowedType
  <1> QED
    BY <1>1, <1>2, <1>3, <1>5

\* A step of the algorithmic orders is a call on the broker or none.
LEMMA AlgoCallsBroker ==
    ASSUME AlgoInv, [AlgoNext]_vars
    PROVE  [BrokerCalls]_brokerVars
  <1>1. CASE BrokerCall
    <2>1. ManualIds \subseteq OrderIds
      BY AlgoAssumption
    <2>2. Prices \subseteq Nat /\ Volumes \subseteq Nat /\ Quantities \subseteq Nat
      BY BrokerAssumption
    <2> QED
      BY <1>1, <2>1, <2>2, AllowedType DEF BrokerCall, ClientCall, BrokerCalls
  <1>2. ASSUME NEW x \in AlgoIds, ExecuteSlice(x)
        PROVE  [BrokerCalls]_brokerVars
    <2>1. PICK i \in Pending(x), allowed \in Nat :
              /\ algo[x].slices[i] \in SliceRecord
              /\ \/ SubmitOrder(<<x, i>>, algo[x].asset, algo[x].side,
                                algo[x].slices[i].qty, "market", allowed)
                 \/ UNCHANGED brokerVars
      BY <1>2, SliceCall
    <2>2. algo[x].status = "active" /\ i \in SliceIds
      BY <1>2 DEF AlgoInv, OrdersInv, ExecuteSlice, Pending, GoodOrder
    <2>3. algo[x].asset \in Assets /\ algo[x].side \in OrderSide
      BY <2>2 DEF AlgoInv, GoodOrder
    <2>4. algo[x].slices[i].qty \in Nat
      BY <2>1 DEF SliceRecord
    <2>5. <<x, i>> \in OrderIds /\ "market" \in OrderType
      BY <2>2, SliceOrders DEF OrderType
    <2> QED
      BY <2>1, <2>3, <2>4, <2>5 DEF BrokerCalls
  <1>3. CASE UNCHANGED brokerVars
    BY <1>3
  <1> QED
    BY <1>1, <1>2, <1>3
    DEF AlgoNext, Tick, CreateOrder, CancelAlgoOrder, ExecuteDueSlices,
        StartExecute, FinishExecute, vars

\* What the orders other than the one a handler works on need.
LEMMA OtherOrders ==
    ASSUME NEW x \in AlgoIds, GoodOrder(algo[x]), OrderMatches(x),
           algo'[x] = algo[x],
           \A i \in SliceIds :
              /\ orders'[<<x, i>>].filled_qty = orders[<<x, i>>].filled_qty
              /\ orders'[<<x, i>>].status = "none"
                    <=> orders[<<x, i>>].status = "none"
    PROVE  GoodOrder(algo'[x]) /\ OrderMatches(x)'
  <1>1. DOMAIN algo[x].slices \subseteq SliceIds
    BY DEF GoodOrder
  <1> QED
    BY <1>1 DEF OrderMatches, SliceMatches

\* A new order covers its quantity, and has reached the broker with no slice.
LEMMA CreateInv ==
    ASSUME AlgoInv, NEW x \in AlgoIds, NEW kind \in {"twap", "vwap"},
           NEW a \in Assets, NEW side \in OrderSide, NEW total \in Totals,
           NEW n \in 1 .. MaxSlices, NEW h \in 0 .. MaxSlices,
           CreateOrder(x, kind, a, side, total, n, h)
    PROVE  \A y \in AlgoIds : GoodOrder(algo'[y]) /\ OrderMatches(y)'
  <1>1. PICK qty : qty = SliceQty(kind, total, n, h)
    OBVIOUS
  <1> DEFINE slices == [i \in DOMAIN qty |-> Slice(now + i, qty[i])]
             new == [status |-> "active", kind |-> kind, asset |-> a,
                     side |-> side, total |-> total, slices |-> slices]
  <1>2. /\ algo[x].status = "none" /\ algo' = [algo EXCEPT ![x] = new]
        /\ now + MaxSlices <= Horizon + 1 /\ orders' = orders
    BY <1>1 DEF CreateOrder, brokerVars
  <1>3. /\ algo'[x] = new
        /\ \A y \in AlgoIds \ {x} : algo'[y] = algo[y]
    BY <1>2 DEF AlgoInv, OrdersInv
  <1>4. /\ qty \in [DOMAIN qty -> Nat] /\ DOMAIN qty \subseteq SliceIds
        /\ Covers(kind, total, qty)
    <2>1. total \in Nat \ {0}
      BY AlgoAssumption
    <2> QED
      BY <1>1, <2>1, SliceQtyCovers
  <1>5. \A i \in DOMAIN slices :
           /\ slices[i] \in SliceRecord
           /\ slices[i].qty = qty[i] /\ slices[i].filled_qty = 0
           /\ slices[i].status = "pending"
    <2>1. ASSUME NEW i \in DOMAIN qty
          PROVE  now + i \in 0 .. Horizon /\ qty[i] \in Nat
      BY <1>2, <1>4, AlgoAssumption DEF AlgoInv, SliceIds
    <2> QED
      BY <2>1 DEF Slice, SliceRecord
  <1>6. DOMAIN slices = DOMAIN qty
    OBVIOUS
  <1> HIDE DEF slices
  <1>7. QtyOf(new) = qty
    BY <1>4, <1>5, <1>6 DEF QtyOf
  <1>8. GoodOrder(new)
    BY <1>4, <1>5, <1>6, <1>7 DEF GoodOrder
  <1>9. OrderMatches(x)'
    <2>1. ASSUME NEW i \in DOMAIN slices
          PROVE  /\ orders[<<x, i>>].status = "none"
                 /\ orders[<<x, i>>].filled_qty = 0 /\ qty[i] \in Nat
      <3>1. i \in SliceIds
        BY <1>4, <1>6
      <3>2. orders[<<x, i>>].status = "none"
        BY <1>2, <3>1 DEF AlgoInv, OrderMatches
      <3> QED
        BY <1>4, <1>6, <3>1, <3>2, SliceOrders DEF AlgoInv, FreshOrdersEmpty
    <2>2. \A i \in DOMAIN slices : SliceMatches(slices[i], orders'[<<x, i>>])
      BY <1>2, <1>5, <2>1 DEF SliceMatches
    <2> QED
      BY <1>3, <2>2 DEF OrderMatches
  <1>10. ASSUME NEW y \in AlgoIds \ {x}
         PROVE  GoodOrder(algo'[y]) /\ OrderMatches(y)'
    BY <1>2, <1>3, OtherOrders DEF AlgoInv
  <1> QED
    BY <1>3, <1>8, <1>9, <1>10

\* A cancelled order keeps its quantities, and its pending slices become
\* cancelled ones.
LEMMA CancelInv ==
    ASSUME AlgoInv, NEW x \in AlgoIds, CancelAlgoOrder(x)
    PROVE  \A y \in AlgoIds : GoodOrder(algo'[y]) /\ OrderMatches(y)'
  <1> DEFINE left == [i \in DOMAIN algo[x].slices |->
                 IF algo[x].slices[i].status = "pending"
                 THEN [algo[x].slices[i] EXCEPT !.status = "cancelled"]
                 ELSE algo[x].slices[i]]
             new == [status |-> "cancelled", kind |-> algo[x].kind,
                     asset |-> algo[x].asset, side |-> algo[x].side,
                     total |-> algo[x].total, slices |-> left]
  <1>1. /\ algo[x].status # "none" /\ orders' = orders
        /\ algo' = [algo EXCEPT ![x].status = "cancelled", ![x].slices = left]
    BY DEF CancelAlgoOrder, brokerVars
  <1>2. DOMAIN left = DOMAIN algo[x].slices
    OBVIOUS
  <1>3. GoodOrder(algo[x]) /\ OrderMatches(x)
    BY DEF AlgoInv
  <1>4. \A i \in DOMAIN left :
           /\ left[i] \in SliceRecord
           /\ left[i].qty = algo[x].slices[i].qty
           /\ left[i].filled_qty = algo[x].slices[i].filled_qty
           /\ \/ left[i].status = algo[x].slices[i].status
              \/ /\ left[i].status = "cancelled"
                 /\ algo[x].slices[i].status = "pending"
    BY <1>3 DEF GoodOrder, SliceRecord
  <1> HIDE DEF left
  <1>5. /\ IsOrder(algo[x]) /\ x \in DOMAIN algo
        /\ algo = [y \in AlgoIds |-> algo[y]]
    BY DEF AlgoInv, OrdersInv
  <1>6. /\ algo'[x] = new
        /\ \A y \in AlgoIds \ {x} : algo'[y] = algo[y]
    BY <1>1, <1>5 DEF IsOrder
  <1>7. QtyOf(new) = QtyOf(algo[x])
    BY <1>2, <1>4 DEF QtyOf
  <1>8. GoodOrder(new)
    BY <1>1, <1>2, <1>3, <1>4, <1>7 DEF GoodOrder
  <1>9. OrderMatches(x)'
    <2>1. \A i \in DOMAIN left : SliceMatches(left[i], orders'[<<x, i>>])
      BY <1>1, <1>2, <1>3, <1>4 DEF OrderMatches, SliceMatches
    <2> QED
      BY <1>6, <2>1 DEF OrderMatches
  <1>10. ASSUME NEW y \in AlgoIds \ {x}
         PROVE  GoodOrder(algo'[y]) /\ OrderMatches(y)'
    BY <1>1, <1>6, OtherOrders DEF AlgoInv
  <1> QED
    BY <1>6, <1>8, <1>9, <1>10

\* An executed slice takes over what the broker made of its order.
LEMMA SliceInv ==
    ASSUME AlgoInv, NEW x \in AlgoIds, ExecuteSlice(x)
    PROVE  \A y \in AlgoIds : GoodOrder(algo'[y]) /\ OrderMatches(y)'
  <1>1. PICK i \in Pending(x), allowed \in Nat :
              /\ algo[x].slices[i] \in SliceRecord
              /\ \/ SubmitOrder(<<x, i>>, algo[x].asset, algo[x].side,
                                algo[x].slices[i].qty, "market", allowed)
                 \/ UNCHANGED brokerVars
              /\ algo' = [algo EXCEPT ![x].slices[i] =
                    [@ EXCEPT
                       !.status = IF orders'[<<x, i>>].status = "filled"
                                  THEN "filled" ELSE "failed",
                       !.filled_qty = orders'[<<x, i>>].filled_qty]]
    BY SliceCall
  <1> DEFINE old == algo[x].slices[i]
             b == orders'[<<x, i>>]
             done == [old EXCEPT
                        !.status = IF b.status = "filled" THEN "filled" ELSE "failed",
                        !.filled_qty = b.filled_qty]
             left == [algo[x].slices EXCEPT ![i] = done]
             new == [status |-> algo[x].status, kind |-> algo[x].kind,
                     asset |-> algo[x].asset, side |-> algo[x].side,
                     total |-> algo[x].total, slices |-> left]
  <1>2. /\ GoodOrder(algo[x]) /\ OrderMatches(x) /\ IsOrder(algo[x])
        /\ algo[x].status = "active" /\ i \in DOMAIN algo[x].slices
        /\ x \in DOMAIN algo /\ algo = [y \in AlgoIds |-> algo[y]]
    BY DEF AlgoInv, OrdersInv, ExecuteSlice, Pending
  <1>3. /\ i \in SliceIds /\ <<x, i>> \in OrderIds
        /\ algo[x].asset \in Assets /\ algo[x].side \in OrderSide
    BY <1>2, SliceOrders DEF GoodOrder
  <1>4. old.qty \in Nat
    BY <1>1 DEF SliceRecord
  <1>5. /\ \A p \in OrderIds \ {<<x, i>>} : orders'[p] = orders[p]
        /\ b.status \in {"filled", "rejected", "none"}
        /\ b.filled_qty \in Nat /\ b.filled_qty <= old.qty
        /\ IF b.status = "filled" THEN b.filled_qty > 0 ELSE b.filled_qty = 0
    <2>1. CASE SubmitOrder(<<x, i>>, algo[x].asset, algo[x].side,
                           algo[x].slices[i].qty, "market", allowed)
      BY <1>3, <1>4, <2>1, SubmitResult DEF AlgoInv
    <2>2. CASE UNCHANGED brokerVars
      <3>1. orders' = orders
        BY <2>2 DEF brokerVars
      <3>2. orders[<<x, i>>].status = "none"
        BY <1>2 DEF OrderMatches, SliceMatches, Pending
      <3>3. orders[<<x, i>>].filled_qty = 0
        BY <1>3, <3>2 DEF AlgoInv, FreshOrdersEmpty
      <3> QED
        BY <1>4, <3>1, <3>2, <3>3
    <2> QED
      BY <1>1, <2>1, <2>2
  <1>6. done \in SliceRecord /\ SliceMatches(done, b) /\ done.qty = old.qty
    <2>1. PICK t : t = IF b.status = "filled" THEN "filled" ELSE "failed"
      OBVIOUS
    <2>2. t \in {"filled", "failed"} /\ (t = "filled" <=> b.status = "filled")
      BY <2>1
    <2>3. /\ done \in SliceRecord /\ done.qty = old.qty
          /\ done.filled_qty = b.filled_qty /\ done.status = t
      BY <1>1, <1>5, <2>1, <2>2 DEF SliceRecord
    <2> HIDE DEF done
    <2> QED
      BY <1>5, <2>2, <2>3 DEF SliceMatches
  <1>7. algo' = [algo EXCEPT ![x] = [algo[x] EXCEPT !.slices = left]]
    BY <1>1
  <1> HIDE DEF done, b
  <1>8. /\ DOMAIN left = DOMAIN algo[x].slices /\ left[i] = done
        /\ \A j \in DOMAIN algo[x].slices \ {i} : left[j] = algo[x].slices[j]
    BY <1>2
  <1> HIDE DEF left
  <1>9. /\ algo'[x] = new
        /\ \A y \in AlgoIds \ {x} : algo'[y] = algo[y]
    BY <1>2, <1>7 DEF IsOrder
  <1>10. QtyOf(new) = QtyOf(algo[x])
    BY <1>6, <1>8 DEF QtyOf
  <1>11. GoodOrder(new)
    BY <1>2, <1>6, <1>8, <1>10 DEF GoodOrder
  <1>12. OrderMatches(x)'
    <2>1. ASSUME NEW j \in DOMAIN left
          PROVE  SliceMatches(left[j], orders'[<<x, j>>])
      <3>1. CASE j = i
        BY <1>6, <1>8, <3>1 DEF b
      <3>2. CASE j # i
        <4>1. <<x, j>> \in OrderIds \ {<<x, i>>}
          BY <1>2, <1>8, <3>2, SliceOrders DEF GoodOrder
        <4> QED
          BY <1>2, <1>5, <1>8, <3>2, <4>1 DEF OrderMatches
      <3> QED
        BY <3>1, <3>2
    <2>2. algo'[x].status = "active" /\ algo'[x].slices = left
      BY <1>2, <1>9
    <2> QED
      BY <2>1, <2>2 DEF OrderMatches
  <1>13. ASSUME NEW y \in AlgoIds \ {x}
         PROVE  GoodOrder(algo'[y]) /\ OrderMatches(y)'
    <2>1. \A j \in SliceIds : orders'[<<y, j>>] = orders[<<y, j>>]
      BY <1>5, SliceOrders
    <2> QED
      BY <1>9, <2>1, OtherOrders DEF AlgoInv
  <1> QED
    BY <1>9, <1>11, <1>12, <1>13

\* The end of the loop changes the status of the order at most.
LEMMA FinishInv ==
    ASSUME AlgoInv, NEW x \in AlgoIds, FinishExecute(x)
    PROVE  \A y \in AlgoIds : GoodOrder(algo'[y]) /\ OrderMatches(y)'
  <1> DEFINE new == [status |-> "completed", kind |-> algo[x].kind,
                     asset |-> algo[x].asset, side |-> algo[x].side,
                     total |-> algo[x].total, slices |-> algo[x].slices]
  <1>1. /\ GoodOrder(algo[x]) /\ OrderMatches(x) /\ IsOrder(algo[x])
        /\ algo[x].status = "active"
        /\ x \in DOMAIN algo /\ algo = [y \in AlgoIds |-> algo[y]]
    BY DEF AlgoInv, OrdersInv, FinishExecute
  <1>2. orders' = orders
    BY DEF FinishExecute, brokerVars
  <1>3. CASE algo' = algo
    BY <1>2, <1>3, OtherOrders DEF AlgoInv
  <1>4. CASE algo' = [algo EXCEPT ![x].status = "completed"]
    <2>1. /\ algo'[x] = new
          /\ \A y \in AlgoIds \ {x} : algo'[y] = algo[y]
      BY <1>1, <1>4 DEF IsOrder
    <2>2. GoodOrder(new)
      BY <1>1 DEF GoodOrder, QtyOf
    <2>3. OrderMatches(x)'
      BY <1>1, <1>2, <2>1 DEF OrderMatches, SliceMatches
    <2>4. ASSUME NEW y \in AlgoIds \ {x}
          PROVE  GoodOrder(algo'[y]) /\ OrderMatches(y)'
      BY <1>2, <2>1, OtherOrders DEF AlgoInv
    <2> QED
      BY <2>1, <2>2, <2>3, <2>4
  <1> QED
    BY <1>3, <1>4 DEF FinishExecute

\* Every step keeps the invariant.
LEMMA AlgoInvStep ==
    ASSUME AlgoInv, [AlgoNext]_vars
    PROVE  AlgoInv'
  <1> DEFINE AllGood == \A y \in AlgoIds : GoodOrder(algo'[y]) /\ OrderMatches(y)'
  <1>1. BrokerTypeOK' /\ FreshOrdersEmpty'
    BY AlgoCallsBroker, TypeStep, FreshStep DEF AlgoInv
  <1>2. OrdersInv'
    BY OrdersStep DEF AlgoInv
  <1>3. /\ now' = now \/ (now < Horizon /\ now' = now + 1)
        /\ running' = running \/ running' \in AlgoIds \cup {"none"}
    BY DEF AlgoNext, BrokerCall, Tick, CreateOrder, CancelAlgoOrder,
        ExecuteDueSlices, StartExecute, ExecuteSlice, FinishExecute, vars, algoVars
  <1>5. now' \in 0 .. Horizon /\ running' \in AlgoIds \cup {"none"}
    BY <1>3, AlgoAssumption DEF AlgoInv
  <1>4. AllGood
    <2>1. ASSUME algo' = algo, orders' = orders
          PROVE  AllGood
      BY <2>1, OtherOrders DEF AlgoInv
    <2>2. CASE BrokerCall
      <3>1. algo' = algo
        BY <2>2 DEF BrokerCall, algoVars
      <3>2. BrokerTypeOK
        BY DEF AlgoInv
      <3> QED
        BY <2>2, <3>1, <3>2, BrokerCallResult, OtherOrders DEF AlgoInv
    <2>3. CASE Tick
      BY <2>1, <2>3 DEF Tick, brokerVars
    <2>4. CASE \E x \in AlgoIds, kind \in {"twap", "vwap"}, a \in Assets,
                  side \in OrderSide, total \in Totals,
                  n \in 1 .. MaxSlices, h \in 0 .. MaxSlices :
                  CreateOrder(x, kind, a, side, total, n, h)
      BY <2>4, CreateInv
    <2>5. CASE \E x \in AlgoIds : CancelAlgoOrder(x)
      BY <2>5, CancelInv
    <2>6. ASSUME NEW x \in AlgoIds, ExecuteDueSlices(x)
          PROVE  AllGood
      <3>1. CASE StartExecute(x)
        BY <2>1, <3>1 DEF StartExecute, brokerVars
      <3> QED
        BY <2>6, <3>1, SliceInv, FinishInv DEF ExecuteDueSlices
    <2>7. CASE UNCHANGED vars
      BY <2>1, <2>7 DEF vars, algoVars, brokerVars
    <2> QED
      BY <2>2, <2>3, <2>4, <2>5, <2>6, <2>7 DEF AlgoNext
  <1> QED
    BY <1>1, <1>2, <1>4, <1>5 DEF AlgoInv

\* AlgoInv holds in every reachable state.
LEMMA AlgoInvariant == AlgoSpec => []AlgoInv
  <1>1. AlgoInit => AlgoInv
    <2> SUFFICES ASSUME AlgoInit
                 PROVE  AlgoInv
      OBVIOUS
    <2>1. BrokerTypeOK
      BY BrokerAssumption
      DEF AlgoInit, BrokerInit, BrokerTypeOK, OrderRecord, NoOrder, OrderStatus,
          OrderSide
    <2>2. FreshOrdersEmpty
      BY DEF AlgoInit, BrokerInit, FreshOrdersEmpty, NoOrder
    <2>3. OrdersInv
      BY AlgoAssumption DEF AlgoInit, OrdersInv, IsOrder, NoAlgo
    <2>4. \A x \in AlgoIds, i \in SliceIds : orders[<<x, i>>].status = "none"
      BY SliceOrders DEF AlgoInit, BrokerInit, NoOrder
    <2>5. \A x \in AlgoIds : GoodOrder(algo[x]) /\ OrderMatches(x)
      BY <2>3, <2>4 DEF AlgoInit, NoAlgo, GoodOrder, OrderMatches, OrdersInv
    <2> QED
      BY <2>1, <2>2, <2>3, <2>5, AlgoAssumption DEF AlgoInv, AlgoInit
  <1> QED
    BY <1>1, AlgoInvStep, PTL DEF AlgoSpec

\* AlgoTypeOK: the records of orders and slices stay of the declared shape.
THEOREM AlgoTypeCorrect == AlgoSpec => []AlgoTypeOK
  <1>1. AlgoInv => AlgoTypeOK
    <2>1. SliceIds \subseteq Nat
      BY DEF SliceIds
    <2> QED
      BY <2>1 DEF AlgoInv, AlgoTypeOK, GoodOrder
  <1> QED
    BY <1>1, AlgoInvariant, PTL

\* SlicesCoverOrder: the slices of a TWAP order, and of a VWAP order over the
\* uniform profile, add up to the quantity of the order, whatever that quantity
\* and the number of slices; a VWAP order too small for its window is excepted:
\* it is cut into single lots that exceed it.
THEOREM AlgoSlicesCover == AlgoSpec => []SlicesCoverOrder
  <1>1. AlgoInv => SlicesCoverOrder
    <2> SUFFICES ASSUME AlgoInv, NEW x \in AlgoIds, algo[x].status # "none"
                 PROVE  Covers(algo[x].kind, algo[x].total, SliceQtyOf(x))
      BY DEF SlicesCoverOrder, Covers, Allocated
    <2> QED
      BY DEF AlgoInv, GoodOrder, QtyOf, SliceQtyOf
  <1> QED
    BY <1>1, AlgoInvariant, PTL

\* SlicesMatchBroker: what an order reports is what the broker executed under
\* the identifiers of its slices, and a slice that is pending, or was cancelled
\* before it ran, has not reached it.
THEOREM AlgoSlicesMatch == AlgoSpec => []SlicesMatchBroker
  <1>1. AlgoInv => SlicesMatchBroker
    BY DEF AlgoInv, SlicesMatchBroker, OrderMatches, SliceMatches
  <1> QED
    BY <1>1, AlgoInvariant, PTL

\* The account under algorithmic orders: the guarantees of the broker hold
\* for every interleaving of slices, manual orders, cancels and quotes, since
\* each step of the algorithmic orders is a call on the broker or none.
THEOREM AlgoKeepsBroker ==
    AlgoSpec => [](AccountMatchesFills /\ BooksBalance /\ OverdraftOnlyByFees
                     /\ ClosedPositionHasNoCost)
  <1> DEFINE Inv == BrokerInv /\ AccountInv /\ BooksBalance /\ ClosedPositionHasNoCost
  <1>1. AlgoInit => Inv
    <2>1. BrokerInit => BrokerInv
      BY BrokerAssumption
      DEF BrokerInit, BrokerInv, BrokerTypeOK, FreshOrdersEmpty,
          OverdraftOnlyByFees, OrderRecord, NoOrder, OrderStatus, OrderSide
    <2>2. BrokerInit => ClosedPositionHasNoCost
      BY DEF BrokerInit, ClosedPositionHasNoCost
    <2> QED
      BY <2>1, <2>2, AccountStart, BooksStart DEF AlgoInit
  <1>2. AlgoInv /\ Inv /\ [AlgoNext]_vars => Inv'
    <2> SUFFICES ASSUME AlgoInv, Inv, [AlgoNext]_vars
                 PROVE  Inv'
      OBVIOUS
    <2>1. [BrokerCalls]_brokerVars
      BY AlgoCallsBroker
    <2>2. BrokerInv'
      BY <2>1, TypeStep, FreshStep, OverdraftStep DEF BrokerInv
    <2>3. AccountInv'
      BY <2>1, AccountStep
    <2>4. BooksBalance' /\ ClosedPositionHasNoCost'
      BY <2>1, BooksStep, ClosedStep DEF BrokerInv
    <2> QED
      BY <2>2, <2>3, <2>4
  <1>3. Inv => /\ AccountMatchesFills /\ BooksBalance /\ OverdraftOnlyByFees
               /\ ClosedPositionHasNoCost
    BY DEF AccountInv, BrokerInv
  <1> HIDE DEF Inv
  <1> QED
    BY <1>1, <1>2, <1>3, AlgoInvariant, PTL DEF AlgoSpec
=============================================================================
