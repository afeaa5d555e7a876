# Verification of Quanty (cquant)

TLA+ modules of the parts of `python/cquant` that keep state and take
decisions with it: the simulated broker, algorithmic orders, deployments and
their kill switch, the daily live executor, the queue of heavy jobs, the
registry of models on the server's one database connection, both backtest
engines with their fill rules, forced exits and audit ledger, and the code that
cuts histories into training and test rows. TLC checks them on small instances;
TLAPS proves every safety property of the passing runs for every instance. Paths
below are relative to `python/cquant` unless they start with `docs/` or `tests/`.

`PROJECT.json` lists the components, the runs, a mutant per property (a
plausible bug that the run detects), the lines each definition stands for, the
divergences found, the hazards and the theorems.

## 1. Inventory

| Component | State | Operations | Talks to |
|---|---|---|---|
| Paper broker (`execution/paper_broker.py`) | cash, positions, realized profit, orders, prices, volumes | submit, cancel, price and volume updates | policies, cost model |
| Costs (`backtest_vector/costs.py`) | none | commission, stamp duty, slippage | broker, backtests |
| Algorithmic orders (`execution/algo_orders.py`) | orders and their slices | create, cancel, execute due slices | broker, clock |
| Deployments, kill switch (`api_server/routes/live.py`) | rows of `meta_live_strategies`; two module variables | deploy, stop, kill, resume, status | DuckDB |
| Live executor (`execution/live_executor.py`, `signal_converter.py`, `execution_persister.py`, `strategy_loader.py`) | rows of `gold_live_executions` | daily run: load, replay, convert, execute, store | deployments, a fresh broker |
| Heavy jobs (`api_server/deps.py`, `routes/jobs.py`, `routes/backtests.py`, `routes/pipeline.py`) | semaphore, counters, job rows, pipeline flag | submit, run, cancel, delete | event loop, worker threads, DuckDB |
| Model registry, shared connection (`ml_lab/model_registry.py`, `datahub/catalog.py`, `datahub/backends/duckdb_backend.py`) | stages of model versions; one transaction, one pending result | register, promote, archive, look up | event loop, worker threads |
| Vectorised backtest (`backtest_vector/engine.py`, `fill_simulator.py`) | committed weights, entry and peak prices, cooldown, pending exits, targets by day; then cash, shares, days of purchase | plan a day, simulate a day | policies, costs, market rules |
| Event backtest (`backtest_event/event_engine.py`) | cash, positions, latest prices | one day: intents, fills | policies, costs, ledger |
| Exit policies (`riskguard/policies/global_stop.py`, `stop_loss.py`) | fired tiers | check exits | vectorised backtest |
| Other policies (`riskguard/policies`) | per policy | evaluate an order | broker, backtests |
| Ledger (`riskguard/portfolio_ledger.py`) | cash, positions, peak | apply fill, mark to market | backtests |
| Research splits (`ml_lab/walk_forward.py`, `purged_kfold.py`, `bt_analyzer/cpcv.py`, `walk_forward.py`, `walk_forward_refit.py`, `qlib_bridge/ml_rolling.py`) | position in the loop of a re-fit | split a history | ML, analysis |
| Strategy scheduler (`scheduler/scheduler.py`, `runner.py`) | job table, status per job | add, remove, enable, check and run | callbacks |
| Data scheduler (`scheduler/data_scheduler.py`, `api_server/data_scheduler.py`) | last stored date per table | daily jobs | data hub |
| Pipeline (`pipeline/orchestrator.py`) | stages of a run | run in order | data hub, ML |
| Event bus (`core/bus.py`) | handlers | subscribe, publish | everyone |
| QMT adapter (`execution/adapters`) | orders at a real broker | submit, cancel, poll | vendor library |
| Data hub, factors, ML, knowledge, news, advisor, web | tables and documents | transformations, I/O | DuckDB, services |

What is hard in each:

- **Broker.** Many early returns, clamps and clips between what was asked and
  what is booked; fees that enter the average cost on one side and the profit
  on the other; a cash check on one side only; orders handed in twice.
  *Correct when* the book of orders explains cash and shares, the account
  balances, and an execution is never changed or repeated.
- **Algorithmic orders.** Lot rounding; slices that run late, are refused,
  clipped or raise; cancellation between executions. *Correct when* slices cover
  the order (but for VWAP orders below a lot an hour), agree with the broker,
  settled slices stay settled, and no ended order runs again.
- **Kill switch.** State split between the database, which survives a restart,
  and the process, which does not; statements that fail half-way. *Correct
  when* killed deployments do not run before a resume, stopped ones never come
  back, and killed ones can always be brought back.
- **Executor.** The process can die between two rows; a day can be run twice;
  the portfolio is rebuilt from stored rows. *Correct when* repeated days do
  not repeat purchases, batches fit the cash, only active deployments trade.
- **Jobs.** Coroutines, threads and rows live and die separately. *Correct
  when* permits are bounded and given in order, counters are exact, the
  pipeline runs once at a time, and every job ends.
- **Model registry.** A call is several statements on a connection that other
  threads use at the same time, with one transaction and one pending result for
  all of them. *Correct when* a model has at most one version in production,
  no transaction outlives its promotion, and calls happen whole or not at all.
- **Vectorised backtest.** The engine plans without knowing what was filled;
  exits compete with rebalances, T+1, price limits and volume. *Correct when*
  what is committed is protected, the tier fires that the policy promises, a
  stop is carried out and lasts, and purchases never overdraw the cash.
- **Event backtest and ledger.** Purchases before sales, no check of the cash;
  a ledger with clamps of its own audits it. *Correct when* a day overdraws by
  its costs at most, and the audit differs only where an overdraft made it.
- **Research splits.** Calendar days, rows, rounding; distances counted from
  different ends of a fold. *Correct when* training rows keep the distance each
  method states from the rows it tests, and the test windows of the methods that
  promise it tile the history.

## 2. Modules

| Module | Models | Uses |
|---|---|---|
| `CostModel` | fees in integer money, rounded half up | |
| `PaperBroker` | the broker | `CostModel` |
| `AlgoOrders` | TWAP/VWAP manager composed with the broker | `PaperBroker` |
| `LiveControl` | deployments and kill switch | |
| `LiveExecutor` | daily runs composed with deployments | `LiveControl`, `CostModel` |
| `JobPool` | abstract pool: one line, `Cap` slots, first come first served | |
| `JobQueue` | semaphore, counters, rows, threads, flag | `JobPool` by refinement |
| `ModelStages` | abstract registry: whole calls on the stages of versions | |
| `ModelRegistry` | the registry, statement by statement, on the shared connection | `ModelStages` by refinement |
| `ForcedExits` | tier ladders, trailing stop, what the engine does with an exit | |
| `FillSimulator` | the trades of one day: limits, T+1, volume, lots, cash | `CostModel` |
| `VectorBacktest` | the daily loop, then the simulator over its plan | `ForcedExits`, `FillSimulator` |
| `PortfolioLedger` | the audit ledger as operators on a record | |
| `EventBacktest` | the event-driven day, composed with the ledger | `PortfolioLedger`, `CostModel` |
| `SplitWindows` | the windows each splitting method computes | |
| `ResearchSplits` | a study over one history, any method and configuration | `SplitWindows` |
| `BrokerProofs` | theorems about `PaperBroker` and `AlgoOrders` | those, `SumTheorems`, `FoldTheorems` |
| `LiveProofs` | theorems about `LiveControl` and `LiveExecutor` | those, `FoldTheorems` |
| `ServerProofs` | theorems about `JobQueue` and `ModelRegistry` | those |
| `VectorBacktestProofs`, `EventBacktestProofs`, `ResearchSplitsProofs` | theorems about the module named | that module, sums and folds |
| `SumTheorems`, `FoldTheorems` | facts about the sums and folds of the community modules | |
| `MC*` | identifiers, symmetry sets and sequences for TLC | the module named |

`ForcedExits`, `FillSimulator`, `PortfolioLedger`, `SplitWindows` and
`CostModel` are pure: operators without variables, evaluated by the modules
that hold the state.

### How state and actions correspond to the code

**PaperBroker.** `cash`, `position`, `realized`, `orders`, `price`, `volume`
are the fields `_cash`, `_positions`, `_realized_pnl`, `_orders`, `_prices`,
`_volumes`. Money and shares are integers. A position holds its total cost
instead of the average; the cost released by a partial sale is rounded down
once and used by both the position and the profit, as the code uses one
`avg_cost` in both. `SubmitOrder` is the whole of `submit_order`: `Reject`
stands for its eight early returns, `ExecuteBuy` and `ExecuteSell` for the two
execute functions. `Resubmit` is the call with an order that has been through
the broker, `ClientCall` any call of a client. The policy chain is reduced to
the quantity it allows.

**AlgoOrders.** `CreateOrder` cuts the order when it is created;
`execute_due_slices` is `StartExecute`, one `ExecuteSlice` per iteration of the
loop and `FinishExecute`. A slice whose submission raises
(`algo_orders.py:562`) fails without an order at the broker; the routes wire in
a broker without policies, whose `submit_order` does not raise, so this branch
is there only with policies (`RiskPolicies`). The handlers never await, so
nothing else runs in between: `running` says so. One unit of time is the distance of two slices;
the volume profile of the code is uniform (the intraday profile is a TODO
there), so VWAP hours have equal weights. Raw quantities are exact: the
floating-point weights 0.2/0.2, 0.2/0.4, ... give the same integers as the
integer division for 1 to 5 hours.

**LiveControl.** `live` is the table; `kill_active` and `activated_at` are the
module variables. Time stamps are compared only with the times of activations,
so a time is the number of the last activation. A failing statement is an
action of its own (`KillSwitchFails`, `ResumeFails`); `RestartServer` loses the
module variables. The kill switch also cancels stored orders that are pending
or submitted: executions are only ever stored filled or rejected, so there are
none, and `close_positions` only counts.

**LiveExecutor.** `rows` is the execution table per deployment in the order of
`executed_at`; `todo`, `current` and `results` are the progress of a run.
Strategies are external: a run sees any set of strong signals, any of which is
long, and any last closes. The executor is a process of its own and opens the
DuckDB file exclusively, so the routes of LiveControl act between runs.

**JobQueue.** A job is a coroutine (`task`), a worker thread (`thread`) and a
row (`row`). `Reserve` is `run_job_async` up to its first suspension, `Acquire`
the hand-over of a released permit to the first waiter, `Release` the end of
the coroutine. A permit counts as handed over when the waiter resumes; until
then it counts as free, but nobody else can take it, as in `asyncio.Semaphore`,
since the line is not empty. `CancelScheduled`, `CancelWaiting` and
`CancelHolding` are a cancellation at each of the points where the coroutine is
suspended; `CancelJob` and `DeleteJob` are the routes, which only touch rows.

**ModelRegistry.** `table` is what statements on the connection read and
write, `durable` what is committed; `txn` and `answer` are the transaction and
the pending result of the connection. `Call` executes the lookup of `_get_row`
and `Fetch` takes whatever result is there; then one action per statement
(`Register`, `Archive`, `Begin`, `Demote`, `Promote`, `Commit`, `Rollback`). The
routes are coroutines without an await, so one call runs at a time; the threads
of heavy jobs execute and fetch on the same connection in between. Statements
fail by `CallFails`, `UpdateFails`, `CommitFails`. How DuckDB behaves (one
result per connection, an aborted transaction refuses statements until the
rollback) is external, modelled from how `duckdb_backend.py` uses it.
`misread` records that a lookup was answered with another thread's result.

**ForcedExits, FillSimulator, VectorBacktest.** One day of the loop is one
action (`HoldDay`, `RebalanceWithoutSignals`, `Rebalance`), which draws the
closes, the signals and, for every asset with a signal, the quantity up to which
the policies approve it (0: refused; less than asked: clipped); then `SimulateDay`
runs the simulator over the planned targets day by day, as the code does after
the loop. `tracked` gathers `committed_weights`, `entry_prices`, `peak_prices`
and the tiers the policy has fired; `plan` is the list of target rows; `book`
the simulator's cash, shares, days of purchase and fills; a day folds its
`Orders` twice, in the loop of the sales and in that of the purchases. `exits` is a history
of the forced exits. Weights are integers in units of `FullWeight`; a target
that is not there (`NoTarget`) is told apart from a target of 0.

**PortfolioLedger, EventBacktest.** One trading day is one action, `SignalDay`
or `SilentDay`; `Purchases` and `Sales` are its intents in the order in which
they are executed, and every fill is booked by the engine and by the ledger. A
policy that clips or refuses is a choice per intent.

**SplitWindows, ResearchSplits.** One action per method computes all its folds;
the re-fit, which is a loop with carried state, takes one step per fold. A fold
is two sets of rows. `margin` and `hold` are the gap (or purge) before a test
window and the embargo after it.

## 3. Runs

| Run | Instance | Shows |
|---|---|---|
| `algo_orders` | 1 asset, 1 order of up to 3 slices, 1 manual order, totals 1 and 7 with lots of 2, prices 1 and 3, minimum commission 2, volume limit of one lot, a policy that refuses or raises | slices cover the order, match the broker, are final; every order ends (fairness below); audit trail of cash and shares, double entry, overdraft only by fees |
| `live_executor` | 2 deployments of 1 run, 2 assets, at most 3 rows each, 2 activations of the kill switch, failing statements and writes, crashes, restarts | concentration cap, affordable batches, only active ones trade; killed ones wait for a resume and stay reachable, stopped ones stay stopped |
| `live_executor_cash` | 1 activation, no failures | **divergence**: replayed cash ignores notionals |
| `job_queue` | 2 jobs, 2 pipelines, 2 permits, 1 restart, cancellations, failing writes | permits, line, exact counters, exclusive pipeline, flag with owner, every job settles (fairness below), refinement of `JobPool` |
| `job_queue_waiting` | same without the restart | **divergence**: a cancelled waiter stays in the waiting counter |
| `model_registry` | 3 versions, 2 job threads, failing statements, restarts | one version in production, transactions owned, calls atomic (refinement of `ModelStages`) |
| `vector_backtest` | 2 assets, Thursday to Tuesday, weekly rebalance, closes 18 to 20, approvals of 0 or 6 shares, volume of 5 | protection, stops carried out, cash never negative (minimum commission 0) |
| `vector_liquidation` | same | **divergence**: a forced exit sells the other assets |
| `vector_tiers` | same | **divergence**: of two breached tiers the shallower one fires |
| `event_backtest` | 2 assets, 3 days, closes 10, 12 or none | overdraft by costs only, ledger reconciles, is behind, balances |
| `research_splits` | 6 histories of 2 to 20 days, up to 5 folds, gaps up to 4 | blind training, tests tile, re-fits move forward |
| `split_leak` | 3 weeks of 5 days, labels of 5 rows | **divergence**: a gap in days does not cover a label in rows |

**Why the bounds suffice.** Up to three slices and a manual order on one account
are a purchase, a partial sale and a closing sale, or a purchase on top of
another and a sale; the prices make a sale whose proceeds are below the minimum
commission. Several assets add terms to the sums of the account, which is what
the theorems are about. A total of 1 is below one lot an hour, 7 leaves a
remainder in both ways of cutting. Two activations are
one before and one after a resume, or two in a row; two deployments are a
killed one and its redeployment. Three rows are a batch of two cut short and a
second run. Four jobs on two permits leave a line of two, in which one that
waits behind another is cancelled. Three versions are
one in production, one promoted and a bystander. Thursday to Tuesday has a
rebalance, a day for an exit, a weekend, a second rebalance and a day after it;
a fall from 20 to 19 is traded and one to 18 is a limit day, a rise to 20
breaches both tiers of gains; six shares are half of what all of the money buys,
so one asset is bought up to its approval while the other is refused, clipped or
bought in full, and a sale of six needs two days of a volume of five. A day
without a row does not occur in that run; it does in `event_backtest`, where
three days are a purchase that overdraws, a sale of what the ledger has cut,
and a further purchase. The histories have one, many and uneven folds, weekends
and a holiday longer than the gap. Every bound is a constant (`MaxKills`,
`MaxRows`, `MaxSlices`, `Horizon`, `MaxRestarts`, `MaxDay`, `MaxSplits`,
`MaxGap`, the length of `Weekday`) that appears in the guard of an action.

`CHECK_DEADLOCK FALSE` is set where the system really ends: in the job queue
every identifier is used once, the backtests end with their last day, and a
study ends with its answer.

**Fairness.** `AlgoFairSpec` assumes that time passes and that the execute
endpoint is called for every order again and again, which is what its
docstring expects of a scheduler (`routes/trading.py:463`; the repository has
no such scheduler, so orders end only where somebody runs one). It is strong
fairness since a handler excludes the others while it runs. `JobFairSpec`
assumes that the event loop resumes every coroutine that can run and that every
thread goes on: weak fairness, since nothing disables them but their own step.
It assumes that job bodies return.

**What holds only under an assumption.**

- `KillHoldsUntilResume` does not speak of the time between a statement of the
  switch that fails and the next complete activation or resume (`torn`): the
  flag is set before the UPDATE.
- `CountersAreExact`, `PipelineFlagHasOwner` and `EveryJobSettles` exempt jobs
  that were given up (`GivenUp`): cancelled while scheduled or waiting, or lost
  in a restart before their body started. A waiter among them stays in the
  counter (`job_queue_waiting`), a pipeline among them leaves the flag on, and
  the row of any of them is never looked at again. `EveryJobSettles` exempts
  also jobs whose outcome was lost, in a failed write or a restart. That a
  cancelled row is overwritten by its worker is no violation of it.
- `CallsAreAtomic` exempts calls whose lookup was answered by another thread
  (`misread`).
- `ConcentrationCap` holds although the replayed cash is wrong because the
  replayed cash only shrinks (`live_executor_cash`).
- `StopIsCarriedOut` speaks of full exits between two rebalances; on a
  rebalance day the new targets replace the exit. It demands a sale on every day
  on which the asset can be traded and is worth more than the simulator's
  tolerance, 0.1% of the net asset value; what is worth less stays. It follows
  the stop to the day after the next rebalance, unless that day is itself a
  rebalance: a partial exit of that day may plan for the asset again.
- `CashIsCovered` names the exception: an order whose costs are above the 2% of
  the cash that a purchase leaves (`fill_simulator.py:475`), or a sale that
  costs more than it brings in. With the minimum commission of 5
  (`costs.py:31`) an order of a few hundred is one. The run has no minimum
  commission, so there the property means that cash is never negative.
- `OutcomesAreFinal` allows one step out of `completed`: `cancel_order` looks at
  no status (`algo_orders.py:493`), so a late cancel relabels a completed order
  as cancelled. Its slices, and what they report, stay.
- `SlicesCoverOrder` names the exception of VWAP orders below one lot an hour,
  see below; the profile is uniform, as in the code.
- `SlicesMatchBroker` demands no broker order of a failed slice: one whose
  submission raised has none.
- `TrainingIsBlind` holds each method to the distance it states. The CPCV keeps
  its gap on both sides of a tested fold, but counts its embargo from the fold's
  first day (`cpcv.py:99`), so in a long fold it excludes nothing after the last
  row; k-fold counts it from the last row.
- `TestsTile` speaks of the walk-forward and rolling splits, and of a
  cross-validation that lost no fold: a fold all of whose training rows were
  purged is dropped. Out-of-sample windows may overlap and a gap of the re-fit is
  tested by no fold.

**Divergences without a run.** The models have these behaviours as well, unless
marked (read in the code only); a run of its own would add little.

*Broker and orders*

- A policy that answers CLIPPED, "Quantity reduced but order allowed"
  (`core/enums.py:125`), is not heeded: only REJECTED is looked at and the full
  quantity is executed (`execution/paper_broker.py:101`). Policies price a
  market order at its limit price, 0 (`:100`).
- A VWAP order below one lot an hour is cut into single lots and the adjustment
  "if we over-allocated due to rounding" stops at one lot, so one share becomes
  two lots (`execution/algo_orders.py:371`). `SlicesCoverOrder` says by how
  much.

*Deployments and executor*

- A second activation overwrites the time that `/resume` selects by, so what
  the first one killed stays killed (`api_server/routes/live.py:490`, against
  the docstring at `:574`).
- The status of the kill switch falls back on the table `live_strategies`,
  which nothing creates (rows are in `meta_live_strategies`); the error is
  swallowed and a restart answers "inactive" (`api_server/routes/live.py:616`).
- A run that is killed and deployed again has two active deployments once
  `/resume` restores the killed one, which `deploy` would refuse
  (`api_server/routes/live.py:352` and `:585`).
- The broker of a daily run starts without the positions of earlier runs, so
  every exit that `signal_converter.py:70` orders is rejected
  (`execution/live_executor.py:136`).

*Jobs*

- A cancelled job is overwritten with the result of its worker, and comes back
  if it was deleted (`api_server/routes/backtests.py:494`, `jobs.py:42`).

*Registry and connection*

- The comment "Atomic demote + promote in a single transaction"
  (`ml_lab/model_registry.py:120`) is true of the two rows. But the transaction
  is the connection's: what other threads write to other tables meanwhile is
  lost with a ROLLBACK (only read in the code).
- A lookup answered with another thread's result lets `promote` demote the
  production version for a version that does not exist, and `register` put a
  production version back to staging.
- `promote` accepts archived versions.

*Backtests*

- After a forced exit an asset is in cooldown until the next rebalance with
  signals of other assets; a rebalance all of whose signals cool down is
  skipped and leaves the cooldown as it is, so a strategy of one asset never
  trades again.
- The weekly rule asks whether the weekday went down, so after a holiday that
  ends on a later weekday than it began a week is not rebalanced
  (`backtest_vector/engine.py:287`).
- Entry and peak prices survive a rebalance that drops an asset and apply when
  it is bought again.
- At a price limit neither side trades, also not the side that could; the
  suspension flag of a bar is not consulted (`fill_simulator.py:294`).
- The event engine queues purchases before the sales that its comment "Process
  sells first (to free cash)" announces (`backtest_event/event_engine.py:185`),
  sells every asset that is not in the signals of a day, and has no
  `max_volume_share`, which `docs/user-guide/backtest.md:83` describes.
- `PortfolioLedger.get_nav` uses `qty`, which is not defined
  (`riskguard/portfolio_ledger.py:211`; only read in the code).

*Research*

- Purge and embargo of `PurgedKFold` are calendar days as well, so the remark
  on `split_leak` applies to it.

*Pipeline* (only read in the code)

- The backtest stage loads prices with the model ids as asset ids
  (`pipeline/orchestrator.py:234`), so it is always "skipped"; analysis and
  promotion are then skipped too and the run reports success.
- The promotion stage calls `promote(mid, stage="production")`
  (`pipeline/orchestrator.py:299`), which the signature
  `promote(model_id, model_version)` refuses; and no stage registers a model.

## 4. Proofs

Every invariant and every action property of the passing runs is a theorem of
the specification, proved for all values of the constants that satisfy the
named assumptions, and so are the two refinements that the runs check and a
third one (`ExecImplementsLive`). The assumptions say that the sets of
assets and jobs are finite, that amounts are natural numbers and lots positive,
that lists of assets have no duplicates and thresholds are ordered, as the
constructors demand, and that `"none"` is not an identifier.

**Sums and folds.** The books of the broker, the replays of the executor and the
loops of both backtests are sums over sets or folds over sequences. The
library's induction theorems cannot be instantiated by the provers installed,
so `SumTheorems` and `FoldTheorems` derive what is needed by a least
counterexample: a non-empty set of finite sets has a minimal element, one of
numbers a least one (`LeastSet`, `LeastNatural`, `CountUp`). From them follow
that a sum does not depend on the order, how it changes with one value
(`SumChange`) and with one more member, and the recursion of a fold over its
last element. `FoldTheorems` has the operator as a constant: a proof
instantiates it with the operator of the model, and gets the values on all
prefixes (`FoldTrace`) and the invariants of a loop (`FoldInduction`,
`FoldKeeps`).

**Broker** (`BrokerProofs`, from `CostAssumption` and `BrokerAssumption`).
`BrokerTypeCorrect` rests on bounds of the quantity that executes. For
`BrokerOverdraft` the step of a sale compares its proceeds with zero; the
witness survives because fills are permanent, and a sale is recorded in an
order that had executed nothing (the strengthening `FreshOrdersEmpty`).
`BrokerAccountMatchesFills` has the invariant `AccountInv`: types, fresh orders
are empty, finitely many orders have executed, and the account is what they sum
up to; a step adds one member to the set of executions and one value to each
sum. `BrokerBooksBalance` is about the cost of all holdings, of which one
execution changes one term. `BrokerClosedPositions` is a fact about
integer division: the cost released by a sale of everything is the whole cost.
`BrokerFillsPermanent` is an action property.

**Algorithmic orders** (`BrokerProofs`, `AlgoAssumption`). `AlgoInv` has, per
order, that its slices are typed, add up to the order and agree with what the
broker recorded under their identifiers, and that a slice not yet tried has no
order at the broker. Nothing but the slice itself uses its identifier, hence
`AlgoSlicesMatch`; a slice whose submission raised has none either, which
`FreshOrdersEmpty` turns into nothing executed. `AlgoSlicesCover` is arithmetic
of the two ways to cut an order: equal shares with the remainder, one share
each, in the first slices (TWAP), and equal whole lots with the rest in the last
hour and the correction that stops at one lot (VWAP over the uniform profile;
orders below a lot an hour are the exception it states). `AlgoOutcomesFinal`
needs that the order whose loop runs is active, so that `completed` is set only
on an active order; it does not exclude the late cancel. `AlgoKeepsBroker` says that the broker's part of each
step is a call on it, so its theorems hold here as well.

**Deployments and kill switch** (`LiveProofs`). The invariant `LiveInv` (types
and `SwitchConsistent`: a remembered activation is the latest one) gives that
stopped deployments stay stopped, that an idle resume selects everything
killed, and that outside of `torn` only deployments made after the activation
are active while the switch is on: a deployment is dated by the number of
activations, which equals the remembered one while the switch is on.

**Executor** (`LiveProofs`, `ExecutorAssumption`). `ExecInv` is `LiveInv` with
four parts that need each other. The rows are typed and are purchases, because
the broker of a run starts empty (`RowsAreTyped`); so the fees replayed never
exceed the cash (`CashLeft`). Rows still to be stored come from one batch: one
row per asset, affordable together, each within the cap on top of what is
stored (`BatchFits`); so storing any prefix of them, as a crash does, keeps
`WithinCap`. From it follow `ExecConcentration`, `ExecBatchAffordable` and
`ExecTypeCorrect`. `OnlyActiveDeploymentsTrade` has an invariant of its own,
`RunIsOfActive`. `ExecImplementsLive` is the refinement of `LiveControl`, and
`ExecKeepsControl` carries its invariants over.

**Heavy jobs** (`ServerProofs`, `JobAssumption`). `JobInv` is types,
`PermitsAreBounded`, `QueueIsWaiters`, two facts about the counters
(`CountersBalance`, `WaitersAreCounted`), `PipelineIsExclusive` and the
strengthening `FlagCoversRuns`. The parts need each other: the running counter
is exact because a job that takes a permit from the line has none, which is
`QueueIsWaiters`; the waiting counter never stops at zero while somebody waits,
since it is at least the length of the line, also when cancelled waiters have
been left in it (`CountersBalance`), and it is that length as long as there are
none (`WaitersAreCounted`): together `CountersAccount`. The flag goes off safely
only because a body runs after its coroutine has left the line, so the pipeline
that ends was the last one active. `FlagHasOwner` adds that the flag never stays
on without its run as long as no pipeline was given up: it finds that the
cancellations before the body starts are the only cause, whatever fails or
restarts. `QueueImplementsPool` is the
refinement: under the invariant each step is a step of `JobPool`, or leaves
line and slots alone.

**Registry** (`ServerProofs`, `RegistryAssumption`). `RegistryInv` is types,
`OneProduction`, `TransactionIsOwned` and three strengthenings.
`PromotionProgress` says what each statement of a promotion finds in the table,
without which two versions could be in production after `Promote`;
`LookupHolds` says that what a lookup found is still true at the last statement
of the call, which is what turns the commit into a whole `PromoteVersion`;
`KindOfStep` ties the statement to its call. From it follow
`RegistryImplementsStages` and, as long as no lookup is misread,
`RegistryRefinesStages`: the registry implements `ModelStages`.

**Vectorised backtest** (`VectorBacktestProofs`, `TierAssumption`,
`FillAssumption`, `VectorAssumption`). Three invariants, each on top of the one
before:

- `VectorInv`, of the loop: types of plan and policies, fired tiers are the
  shallowest (`LaddersInOrder`, which is what the loop does and the reason why
  the comment checked by `vector_tiers` does not hold), a committed weight has its entry and peak
  (`CommittedHasEntry`), and closes from today on have not been drawn, so that
  recording one never overwrites the one an entry was taken from. The
  arithmetic is that a move that reaches a tier reaches every shallower one.
- `StopInv`, of the plan: after a full exit between rebalances every planned
  day up to the next rebalance sells the asset, it is not committed, its exit is
  pending and it cools down, so that this rebalance plans nothing for it.
- `BookInv`, of the simulator: the book is typed up to the day reached, and
  cash below zero has its expensive fill. Both are carried through the two
  folds of a day; that assets are different makes the loop touch an asset once.

`StopsAreCarriedOut` follows from `StopInv` and the step of a day: the sales take
the planned asset down by what the volume allows, the purchases leave it alone.
`CashCovered` is that 98% of the cash and costs of 2/98 of a purchase are
at most the cash. `VectorTypeCorrect` joins the three.

**Event backtest and ledger** (`EventBacktestProofs`, `EventAssumption`).
`EventInv` is types with whole lots, a typed ledger, `LedgerIsBehind` and the
balance of the ledger's cost basis, whose sum over positions changes in one term
per fill. A day's fills are purchases of different assets, each paid by an equal
share of the morning's cash, and then sales of whole positions; so all
purchases together spend no more than that cash, and the overdraft is the costs
(`OverdraftBounded`), for any number of targets. `LedgerReconciliation` follows
two folds side by side, the engine's and the ledger's, as long as the cash pays
the purchases.

**Research splits** (`ResearchSplitsProofs`, `SplitAssumption`). `SplitInv` is
the type of every fold, its blindness, the tiling of the tests and facts of the
re-fit loop: the next fold starts after everything tested so far (`LoopInv`),
the folds are in order, the last day is tested when the loop ends without a
gap. Blindness of the CPCV has two parts, the gap around a tested fold and the
embargo from its first day (`Embargoed`). From it follow `SplitTypeCorrect`,
`ResearchIsBlind`, `TestRowsTile` (of the methods that tile, see section 3) and
`RefitInOrder`. Tiling rests on growing boundaries that cut the range into
blocks, of which a row is in exactly one. For the combinatorial method the
choices of groups are counted by bijections: as many have one group as have
another, so each row is tested equally often.

**What the attempts found.** Definitions were restated where a proof failed for
a good reason. Approval of an intent in `EventBacktest` had
overlapping cases and a clip that could raise the quantity. `StopIsCarriedOut`,
as first stated, was false for positions below the tolerance, for bars without
volume and for rebalances on consecutive days; `CashIsCovered` was false with a
minimum commission. TLC had seen none of it, as the instances have neither. And
a re-fit may have folds without rows if its minimum is 0: `SplitAssumption`
takes `MinFoldDays` as positive (`min_fold_days` is 20 by default and is not
validated).

**Only model-checked.** The two liveness properties, `EveryOrderEnds` and
`EveryJobSettles`: this prover does not handle fairness. The divergences of
section 3 are counterexamples and need no proof.

## 5. Not modelled

- Numbers: floating point, the US/HK fee presets and the square-root impact;
  sizers, portfolio optimisers, factors, indicators, models, metrics and the
  serialisation of results, which are most of the lines of the repository
  (`routes/backtests.py`, `backtest_vector/run.py`, `factorlab`, `qlib_bridge`).
  They are functions of data frames without state between calls.
- The pre-trade policies: only the quantity they allow, or that they refuse.
- `get_account` and other reads that change nothing but derived values.
- Two server processes on one database (DuckDB excludes it), and the QMT
  adapter, whose vendor library is not in the repository.
- Job types other than backtests and analyses: they follow the same protocol
  on other tables.
- Strategy scheduler: a job is due during eleven minutes
  (`scheduler/scheduler.py:140`) and nothing remembers that it ran, so the
  period of the runner, which the repository does not fix, decides how often.
- Data ingest. There are two copies of the daily jobs (`scheduler/` and
  `api_server/data_scheduler.py`); the server starts the second. The start of
  an increment is the latest date of any asset, so an asset that failed once
  keeps its gap; `datahub` then keeps only rows after each asset's own latest
  date. `Catalog.register_dataset` is an UPDATE and an INSERT outside of a
  transaction. The sources are remote services and no state per asset is kept
  that a property could relate.
- The pipeline orchestrator: a fixed sequence of stages in one thread, see the
  divergences above; its flag is part of `JobQueue`.
- The event bus: synchronous delivery to a copy of the list of handlers.

## 6. Plan

1. Days without a row in the run of `VectorBacktest`, and a second loss tier;
   the proofs cover both already.
2. The pre-trade policies themselves, between the broker and both backtests,
   with the theorems that carry over from the quantity they allow.
3. The stages of the pipeline orchestrator and the due window of the strategy
   scheduler.
