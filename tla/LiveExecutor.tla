---------------------------- MODULE LiveExecutor ----------------------------
(***************************************************************************)
(* The daily run of the live executor (execution/live_executor.py) with    *)
(* the converter of signals to orders (signal_converter.py) and the store  *)
(* of executions (execution_persister.py).  A run loads the deployments    *)
(* that are active; for each it replays the stored executions into cash    *)
(* and positions, turns the day's signals into orders, executes them on a  *)
(* fresh paper broker, and stores the results one row at a time.           *)
(*                                                                         *)
(* The executor runs from the command line, alone on the DuckDB file, so   *)
(* the handlers of LiveControl take place between runs; the process can    *)
(* die anywhere, and nothing keeps a day from being run twice.             *)
(***************************************************************************)
EXTENDS LiveControl, CostModel, SequencesExt

CONSTANTS
    Assets,
    Prices,         \* last closes; 0 is "no price"
    InitialCash,    \* initial_cash of every deployment
    LotSize,
    MaxPositionDiv, \* max_position_pct is 1/MaxPositionDiv
    MaxRows,        \* bound on the executions stored for one deployment
    StoreFails      \* TRUE when storing an execution may fail

ASSUME ExecutorAssumption ==
    /\ Prices \subseteq Nat /\ Prices \ {0} # {}
    /\ IsFiniteSet(Assets)
    /\ InitialCash \in Nat
    /\ "none" \notin LiveIds
    /\ LotSize \in Nat \ {0}
    /\ MaxPositionDiv \in Nat \ {0}
    /\ MaxRows \in Nat
    /\ StoreFails \in BOOLEAN

VARIABLES
    rows,           \* gold_live_executions of each deployment, by executed_at
    todo,           \* deployments the current run has still to execute
    current,        \* the deployment whose results are being stored
    results         \* results of its broker that are not stored yet

execVars == <<rows, todo, current, results>>
vars == <<liveVars, execVars>>

Quiet == todo = {} /\ current = "none"

Execution ==
    [asset : Assets, side : {"buy", "sell"}, qty : Nat, price : Nat,
     cost : Nat, status : {"filled", "rejected"}]
-----------------------------------------------------------------------------
\* load_portfolio_state: the filled rows in order.  A purchase takes its fees
\* from the cash; a sale adds its proceeds.
IsFilled(r) == r.status = "filled"

CashAfter(c, r) ==
    IF ~IsFilled(r) THEN c
    ELSE IF r.side = "buy" THEN c - r.cost ELSE c + r.qty * r.price - r.cost

ReplayCash(l) == FoldLeft(CashAfter, InitialCash, rows[l])

\* A position sold down to nothing, or below, is dropped.
Moved(held, r) ==
    IF r.side = "buy" THEN held + r.qty
    ELSE IF held > r.qty THEN held - r.qty ELSE 0

PositionsAfter(p, r) ==
    IF IsFilled(r) THEN [p EXCEPT ![r.asset] = Moved(@, r)] ELSE p

Nothing == [a \in Assets |-> 0]

ReplayPositions(l) == FoldLeft(PositionsAfter, Nothing, rows[l])

RoundToLot(q) == (q \div LotSize) * LotSize

\* _compute_target_positions: equal weights, capped, in whole lots.
Target(a, longs, nav, price) ==
    LET parts == IF Cardinality(longs) > MaxPositionDiv THEN Cardinality(longs)
                 ELSE MaxPositionDiv
    IN  IF a \in longs /\ price[a] > 0
        THEN RoundToLot(nav \div (parts * price[a])) ELSE 0

\* Mutant of Delta: what is held already is not subtracted.
DeltaFromNothing(held, a, longs, nav, price) == Target(a, longs, nav, price)

\* convert: the side and the quantity that move a holding to its target;
\* nothing when the difference is below one lot or there is no price.
Delta(held, a, longs, nav, price) == Target(a, longs, nav, price) - held[a]

OrderFor(held, a, longs, nav, price) ==
    LET delta == Delta(held, a, longs, nav, price)
    IN  [asset |-> a, side |-> IF delta > 0 THEN "buy" ELSE "sell",
         qty |-> RoundToLot(IF delta > 0 THEN delta ELSE -delta)]

Convert(held, longs, nav, price) ==
    {OrderFor(held, a, longs, nav, price) :
        a \in {b \in Assets :
                  /\ price[b] > 0
                  /\ \/ Delta(held, b, longs, nav, price) >= LotSize
                     \/ -Delta(held, b, longs, nav, price) >= LotSize}}

\* Mutant of Submit: the cash is checked and never spent.
SubmitOnCredit(broker, order) ==
    LET price == broker.price[order.asset]
        notional == order.qty * price
        cost == TotalCost(notional, "buy")
        fills == order.side = "buy" /\ notional + cost <= broker.cash
        row == [asset |-> order.asset, side |-> order.side,
                qty |-> IF fills THEN order.qty ELSE 0,
                price |-> IF fills THEN price ELSE 0,
                cost |-> IF fills THEN cost ELSE 0,
                status |-> IF fills THEN "filled" ELSE "rejected"]
    IN  [cash |-> broker.cash,
         price |-> broker.price, done |-> Append(broker.done, row)]

\* PaperBroker.submit_order on a broker that was given cash and prices but no
\* positions: a purchase fills when the cash covers it, a sale is rejected.
Submit(broker, order) ==
    LET price == broker.price[order.asset]
        notional == order.qty * price
        cost == TotalCost(notional, "buy")
        fills == order.side = "buy" /\ notional + cost <= broker.cash
        row == [asset |-> order.asset, side |-> order.side,
                qty |-> IF fills THEN order.qty ELSE 0,
                price |-> IF fills THEN price ELSE 0,
                cost |-> IF fills THEN cost ELSE 0,
                status |-> IF fills THEN "filled" ELSE "rejected"]
    IN  [cash |-> IF fills THEN broker.cash - notional - cost ELSE broker.cash,
         price |-> broker.price, done |-> Append(broker.done, row)]

FreshBroker(cash, price) == [cash |-> cash, price |-> price, done |-> <<>>]

Execute(batch, cash, price) == FoldLeft(Submit, FreshBroker(cash, price), batch).done
-----------------------------------------------------------------------------
ExecInit ==
    /\ LiveInit
    /\ rows = [l \in LiveIds |-> <<>>]
    /\ todo = {}
    /\ current = "none"
    /\ results = <<>>

\* Mutant of Loaded: killed deployments are executed as well.
LoadedWithKilled == Active \cup Killed

\* load_active_strategies at the start of run_once.
Loaded == Active

StartRun ==
    /\ Quiet
    /\ Loaded # {}
    /\ \A l \in Loaded : Len(rows[l]) + Cardinality(Assets) <= MaxRows
    /\ todo' = Loaded
    /\ UNCHANGED <<liveVars, rows, current, results>>

\* _execute_strategy up to the persisting of its results.  The closes are
\* those of the assets the signals name; of these the strong ones become
\* orders, in the arbitrary order of a Python set.
ExecuteStrategy(l) ==
    /\ current = "none"
    /\ l \in todo
    /\ todo' = todo \ {l}
    /\ \E price \in [Assets -> Prices], strong \in SUBSET Assets :
          \E longs \in SUBSET strong :
             LET cash == ReplayCash(l)
                 batch == IF strong = {} THEN {}
                          ELSE Convert(ReplayPositions(l), longs, cash, price)
             IN  \E order \in SetToSeqs(batch) :
                    /\ results' = Execute(order, cash, price)
                    /\ current' = IF batch = {} THEN "none" ELSE l
    /\ UNCHANGED <<liveVars, rows>>

\* A strategy that cannot be loaded or raises: run_once notes the error.
StrategyFails(l) ==
    /\ current = "none"
    /\ l \in todo
    /\ todo' = todo \ {l}
    /\ UNCHANGED <<liveVars, rows, current, results>>

\* Mutant of PersistOrder: the last row does not end the batch.
PersistOrderForever ==
    /\ current # "none"
    /\ rows' = [rows EXCEPT ![current] = Append(@, Head(results))]
    /\ results' = Tail(results)
    /\ UNCHANGED <<liveVars, todo, current>>

\* persist_order, one INSERT of persist_batch.
PersistOrder ==
    /\ current # "none"
    /\ rows' = [rows EXCEPT ![current] = Append(@, Head(results))]
    /\ results' = Tail(results)
    /\ current' = IF Len(results) = 1 THEN "none" ELSE current
    /\ UNCHANGED <<liveVars, todo>>

\* An INSERT fails: the rest of the batch is lost, the run goes on.
PersistFails ==
    /\ StoreFails
    /\ current # "none"
    /\ current' = "none"
    /\ results' = <<>>
    /\ UNCHANGED <<liveVars, rows, todo>>

\* The executor process dies; stored rows survive.
CrashExecutor ==
    /\ ~Quiet
    /\ todo' = {}
    /\ current' = "none"
    /\ results' = <<>>
    /\ UNCHANGED <<liveVars, rows>>

Control == Quiet /\ LiveNext /\ UNCHANGED execVars

ExecNext ==
    \/ Control
    \/ StartRun
    \/ \E l \in LiveIds : ExecuteStrategy(l) \/ StrategyFails(l)
    \/ PersistOrder \/ PersistFails
    \/ CrashExecutor

ExecSpec == ExecInit /\ [][ExecNext]_vars
-----------------------------------------------------------------------------
ExecTypeOK ==
    /\ LiveTypeOK
    /\ rows \in [LiveIds -> Seq(Execution)]
    /\ todo \subseteq LiveIds
    /\ current \in LiveIds \cup {"none"}
    /\ results \in Seq(Execution)
    /\ current = "none" <=> results = <<>>

\* What a deployment bought and did not sell, whatever the replay makes of it.
NetAfter(n, r) ==
    IF ~IsFilled(r) THEN n
    ELSE IF r.side = "buy" THEN [n EXCEPT ![r.asset] = @ + r.qty]
    ELSE [n EXCEPT ![r.asset] = @ - r.qty]

NetBought(l, a) == FoldLeft(NetAfter, Nothing, rows[l])[a]

\* The cap on one position survives crashes, lost rows and repeated runs: a
\* day that is run again after a crash buys what is missing, never the same
\* shares twice.
ConcentrationCap ==
    \A l \in LiveIds, a \in Assets :
        \E p \in Prices \ {0} : NetBought(l, a) * p <= InitialCash \div MaxPositionDiv

\* The purchases of one batch, fees included, are covered together by the
\* cash the batch started with, not only one by one.
SpentAfter(n, r) == IF r.side = "buy" THEN n + r.qty * r.price + r.cost ELSE n

Spent(batch) == FoldLeft(SpentAfter, 0, batch)

BatchIsAffordable ==
    [][\A l \in LiveIds : ExecuteStrategy(l) => Spent(results') <= ReplayCash(l)]_vars

\* Stopped and killed deployments do not trade: a row is only added to a
\* deployment that is active, and the history is never rewritten.
OnlyActiveTrade ==
    [][\A l \in LiveIds : rows'[l] # rows[l] =>
          l \in Active /\ IsPrefix(rows[l], rows'[l])]_vars

\* The docstring of load_portfolio_state, "remaining cash": what is left of
\* the initial cash after every stored purchase and sale.
RemainingAfter(c, r) ==
    IF ~IsFilled(r) THEN c
    ELSE IF r.side = "buy" THEN c - r.qty * r.price - r.cost
    ELSE c + r.qty * r.price - r.cost

ReplayCashIsRemaining ==
    \A l \in LiveIds : ReplayCash(l) = FoldLeft(RemainingAfter, InitialCash, rows[l])
=============================================================================
