----------------------------- MODULE AlgoOrders -----------------------------
(***************************************************************************)
(* TWAP and VWAP orders (execution/algo_orders.py) on top of the paper     *)
(* broker: an algorithmic order is cut into slices when it is created, and *)
(* execute_due_slices submits the slices whose time has come.              *)
(*                                                                         *)
(* The handlers of api_server/routes/trading.py never await, so each runs  *)
(* to its end.  The loop of execute_due_slices takes one step per          *)
(* iteration here; "running" keeps every other handler out meanwhile.      *)
(* Time is counted in slice intervals.                                     *)
(***************************************************************************)
EXTENDS PaperBroker

CONSTANTS
    AlgoIds,
    ManualIds,      \* orders placed by hand on the same broker
    Totals,         \* total_qty of the requests
    MaxSlices,      \* bound on num_slices and on the trading hours
    Horizon         \* bound on the clock

SliceIds == 0 .. MaxSlices - 1

ASSUME AlgoAssumption ==
    /\ "none" \notin AlgoIds
    /\ Totals \subseteq Nat \ {0}
    /\ MaxSlices \in Nat \ {0}
    /\ Horizon \in Nat
    /\ ManualIds \cap (AlgoIds \X SliceIds) = {}
    /\ OrderIds = ManualIds \cup (AlgoIds \X SliceIds)

VARIABLES
    algo,           \* AlgoOrderManager._orders
    running,        \* the order whose due slices are being executed
    now             \* the clock read by execute_due_slices

algoVars == <<algo, running, now>>
vars == <<brokerVars, algoVars>>

NoAlgo == [status |-> "none", kind |-> "none", asset |-> "none",
           side |-> "none", total |-> 0, slices |-> <<>>]

Idle == running = "none"

Slice(time, q) == [due |-> time, qty |-> q, status |-> "pending", filled_qty |-> 0]
-----------------------------------------------------------------------------
\* Mutant of TWAPQty: the remainder of the division is dropped.
TWAPQtyNoRemainder(total, n) == [i \in 0 .. n - 1 |-> total \div n]

\* TWAPEngine.create_slices: n equal slices, the remainder spread over the
\* first ones, one share each.
TWAPQty(total, n) ==
    [i \in 0 .. n - 1 |->
        total \div n + (IF i < total % n THEN 1 ELSE 0)]

\* VWAPEngine.create_slices over h trading hours of equal weight: whole lots,
\* at least one, and the remainder in the last hour when there is one.
VWAPRaw(total, h) ==
    LET each == WholeLots(total \div h)
        last == total - (h - 1) * each
    IN  [i \in 0 .. (IF last > 0 THEN h - 1 ELSE h - 2) |->
            IF i < h - 1 THEN each ELSE last]

\* Mutant of Adjusted: the largest slice does not keep one lot.
AdjustedBelowLot(total, qty) ==
    LET largest == CHOOSE i \in DOMAIN qty :
            \A j \in DOMAIN qty : qty[i] >= qty[j] /\ (qty[i] = qty[j] => i <= j)
    IN  IF SumFunction(qty) > total
        THEN [qty EXCEPT ![largest] = @ - (SumFunction(qty) - total)] ELSE qty

\* The excess of the allocation is taken from the first largest slice, which
\* keeps one lot.
Adjusted(total, qty) ==
    LET largest == CHOOSE i \in DOMAIN qty :
            \A j \in DOMAIN qty : qty[i] >= qty[j] /\ (qty[i] = qty[j] => i <= j)
        rest == qty[largest] - (SumFunction(qty) - total)
    IN  IF SumFunction(qty) > total
        THEN [qty EXCEPT ![largest] = IF rest < LotSize THEN LotSize ELSE rest]
        ELSE qty

\* A window without trading hours falls back to TWAP.
SliceQty(kind, total, n, h) ==
    IF kind = "vwap" /\ h > 0 THEN Adjusted(total, VWAPRaw(total, h))
    ELSE TWAPQty(total, n)
-----------------------------------------------------------------------------
AlgoInit ==
    /\ BrokerInit
    /\ algo = [x \in AlgoIds |-> NoAlgo]
    /\ running = "none"
    /\ now = 0

\* place_algo_order / create_order: the window opens at the present time.
CreateOrder(x, kind, a, side, total, n, h) ==
    /\ Idle
    /\ algo[x].status = "none"
    /\ now + MaxSlices <= Horizon + 1
    /\ LET qty == SliceQty(kind, total, n, h)
       IN  algo' = [algo EXCEPT ![x] =
               [status |-> "active", kind |-> kind, asset |-> a,
                side |-> side, total |-> total,
                slices |-> [i \in DOMAIN qty |-> Slice(now + i, qty[i])]]]
    /\ UNCHANGED <<brokerVars, running, now>>

\* cancel_order: whatever the status of the order was.
CancelAlgoOrder(x) ==
    /\ Idle
    /\ algo[x].status # "none"
    /\ algo' = [algo EXCEPT
           ![x].status = "cancelled",
           ![x].slices = [i \in DOMAIN @ |->
               IF @[i].status = "pending" THEN [@[i] EXCEPT !.status = "cancelled"]
               ELSE @[i]]]
    /\ UNCHANGED <<brokerVars, running, now>>

Pending(x) == {i \in DOMAIN algo[x].slices : algo[x].slices[i].status = "pending"}
Due(x) == {i \in Pending(x) : algo[x].slices[i].due <= now}

\* Mutant of StartExecute: the status of the order is not looked at.
StartExecuteAny(x) ==
    /\ Idle
    /\ algo[x].status # "none"
    /\ running' = x
    /\ UNCHANGED <<brokerVars, algo, now>>

\* execute_due_slices on an active order; it returns at once on any other.
StartExecute(x) ==
    /\ Idle
    /\ algo[x].status = "active"
    /\ running' = x
    /\ UNCHANGED <<brokerVars, algo, now>>

\* Mutant of ExecuteSlice: a filled slice reports its own quantity.
ExecuteSliceAsPlanned(x) ==
    /\ running = x
    /\ \E i \in Due(x) :
          /\ \A j \in Due(x) : i <= j
          /\ \E allowed \in Allowed(algo[x].slices[i].qty) :
                SubmitOrder(<<x, i>>, algo[x].asset, algo[x].side,
                            algo[x].slices[i].qty, "market", allowed)
          /\ algo' = IF orders'[<<x, i>>].status = "filled"
                     THEN [algo EXCEPT ![x].slices[i] =
                             [@ EXCEPT !.status = "filled",
                                       !.filled_qty = algo[x].slices[i].qty]]
                     ELSE [algo EXCEPT ![x].slices[i].status = "failed"]
    /\ UNCHANGED <<running, now>>

\* One iteration: the next due slice is a fresh market order of the broker,
\* and the slice takes over what the broker made of it.  A policy that raises
\* leaves the broker without the order, and the slice failed.
ExecuteSlice(x) ==
    /\ running = x
    /\ \E i \in Due(x) :
          /\ \A j \in Due(x) : i <= j
          /\ \/ \E allowed \in Allowed(algo[x].slices[i].qty) :
                   SubmitOrder(<<x, i>>, algo[x].asset, algo[x].side,
                               algo[x].slices[i].qty, "market", allowed)
             \/ RiskPolicies /\ UNCHANGED brokerVars
          /\ algo' = [algo EXCEPT ![x].slices[i] =
                [@ EXCEPT
                   !.status = IF orders'[<<x, i>>].status = "filled"
                              THEN "filled" ELSE "failed",
                   !.filled_qty = orders'[<<x, i>>].filled_qty]]
    /\ UNCHANGED <<running, now>>

\* Mutant of FinishExecute: completed only when every slice was filled.
FinishExecuteWhenFilled(x) ==
    /\ running = x
    /\ Due(x) = {}
    /\ algo' = IF \A i \in DOMAIN algo[x].slices : algo[x].slices[i].status = "filled"
               THEN [algo EXCEPT ![x].status = "completed"] ELSE algo
    /\ running' = "none"
    /\ UNCHANGED <<brokerVars, now>>

\* The end of execute_due_slices: completed when no slice is left pending.
FinishExecute(x) ==
    /\ running = x
    /\ Due(x) = {}
    /\ algo' = IF Pending(x) = {} THEN [algo EXCEPT ![x].status = "completed"]
               ELSE algo
    /\ running' = "none"
    /\ UNCHANGED <<brokerVars, now>>

\* The other clients of the broker: the routes for manual orders, which also
\* refresh the quotes and may cancel any order they are shown.
BrokerCall == Idle /\ ClientCall(ManualIds) /\ UNCHANGED algoVars

Tick ==
    /\ Idle
    /\ now < Horizon
    /\ now' = now + 1
    /\ UNCHANGED <<brokerVars, algo, running>>

ExecuteDueSlices(x) == StartExecute(x) \/ ExecuteSlice(x) \/ FinishExecute(x)

AlgoNext ==
    \/ BrokerCall
    \/ Tick
    \/ \E x \in AlgoIds, kind \in {"twap", "vwap"}, a \in Assets,
          side \in OrderSide, total \in Totals,
          n \in 1 .. MaxSlices, h \in 0 .. MaxSlices :
          CreateOrder(x, kind, a, side, total, n, h)
    \/ \E x \in AlgoIds : CancelAlgoOrder(x) \/ ExecuteDueSlices(x)

AlgoSpec == AlgoInit /\ [][AlgoNext]_vars

\* The execute endpoint is called periodically for every order, the event
\* loop serves each call, and time passes.
AlgoFairness ==
    /\ SF_vars(Tick)
    /\ \A x \in AlgoIds : SF_vars(ExecuteDueSlices(x))

AlgoFairSpec == AlgoSpec /\ AlgoFairness
-----------------------------------------------------------------------------
SliceRecord ==
    [due : 0 .. Horizon, qty : Nat, filled_qty : Nat,
     status : {"pending", "filled", "failed", "cancelled"}]

AlgoTypeOK ==
    /\ BrokerTypeOK
    /\ running \in AlgoIds \cup {"none"}
    /\ now \in 0 .. Horizon
    /\ \A x \in AlgoIds :
          /\ algo[x].status \in {"none", "active", "completed", "cancelled"}
          /\ DOMAIN algo[x].slices \subseteq Nat
          /\ \A i \in DOMAIN algo[x].slices : algo[x].slices[i] \in SliceRecord

SliceQtyOf(x) == [i \in DOMAIN algo[x].slices |-> algo[x].slices[i].qty]
Allocated(x) == SumFunction(SliceQtyOf(x))

\* The slices of a TWAP order, and of a VWAP order over the uniform profile (the
\* manager's engine has no catalog to read another from), cut it exactly: they
\* add up to its quantity, TWAP slices within one share of each other.  The
\* only exception is a VWAP order too small for one lot an hour, which is cut
\* into single lots and over-allocated.
SlicesCoverOrder ==
    \A x \in AlgoIds : algo[x].status # "none" =>
        LET qty == SliceQtyOf(x)
        IN  \/ /\ Allocated(x) = algo[x].total
               /\ algo[x].kind = "twap" =>
                     \A i, j \in DOMAIN qty : qty[i] <= qty[j] + 1
            \/ /\ algo[x].kind = "vwap"
               /\ Allocated(x) > algo[x].total
               /\ \A i \in DOMAIN qty : qty[i] = LotSize

\* What an order reports is what the broker did for it: exactly the filled
\* slices executed something under their identifier, and report its quantity,
\* and a slice that is still to run, or that was cancelled before it ran, has
\* never reached the broker.
SlicesMatchBroker ==
    \A x \in AlgoIds : \A i \in DOMAIN algo[x].slices :
        LET s == algo[x].slices[i]
            b == orders[<<x, i>>]
        IN  /\ s.status = "filled" <=> b.filled_qty > 0
            /\ s.filled_qty = b.filled_qty
            /\ s.status \in {"pending", "cancelled"} => b.status = "none"
            /\ b.filled_qty <= s.qty

\* What has happened stays: no slice that was filled, failed or cancelled
\* changes again (by a late cancel of the order, or a second execution), and a
\* cancelled order never resumes or completes.  A completed order never resumes
\* either, but its status does not last: a late cancel, which looks at no
\* status, relabels it as cancelled.
OutcomesAreFinal ==
    [][\A x \in AlgoIds :
          /\ \A i \in DOMAIN algo[x].slices \ Pending(x) :
                algo'[x].slices[i] = algo[x].slices[i]
          /\ algo[x].status = "cancelled" => algo'[x].status = "cancelled"
          /\ algo[x].status = "completed" =>
                algo'[x].status \in {"completed", "cancelled"}]_vars

\* An order that is executed periodically ends, however many of its slices
\* the broker refuses.
EveryOrderEnds ==
    \A x \in AlgoIds : algo[x].status = "active" ~> algo[x].status # "active"
=============================================================================
