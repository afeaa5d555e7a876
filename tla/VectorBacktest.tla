---------------------------- MODULE VectorBacktest ---------------------------
(***************************************************************************)
(* The vectorised backtest (backtest_vector/engine.py): a loop over the    *)
(* trading days that turns signals and forced exits into target weights by *)
(* day (plan), and then the fill simulator over the same days.  The engine *)
(* never learns what was filled: its committed weights are what it asked   *)
(* for, the book is what it got.                                           *)
(*                                                                         *)
(* The policies of the run are those of ForcedExits, behind a gate that    *)
(* may refuse or clip any purchase; no sizer and no optimizer is           *)
(* configured, so that weights are equal.                                  *)
(***************************************************************************)
EXTENDS ForcedExits, FillSimulator, FiniteSets

CONSTANTS
    Weekday,        \* the weekdays of the trading days, Monday = 0
    Daily,          \* TRUE for rebalance_frequency "1d", FALSE for "1w"
    Closes,         \* closing prices; 0 is a day without a row
    Grants          \* quantities the gate may approve at most; 0 is a refusal

ASSUME VectorAssumption ==
    /\ Weekday \in Seq(0 .. 6) /\ Len(Weekday) > 0
    /\ Daily \in BOOLEAN
    /\ Closes \subseteq Nat
    /\ Grants \subseteq Nat

VARIABLES
    phase,          \* "plan", then "simulate", then "done"; or "failed"
    day,            \* index of the trading day
    close,          \* closes by day and asset, as far as the loop has come
    tracked,        \* committed_weights, entry_prices, and the policies' state
    cooldown,       \* force_exited_assets
    pending,        \* pending_force_exits: target weight or NoTarget
    plan,           \* all_weights by day; of two rows for an asset the last
    exits,          \* forced_exit_log
    book            \* the fill simulator's cash, positions and fills

vectorVars ==
    <<phase, day, close, tracked, cooldown, pending, plan, exits, book>>

TradingDays == DOMAIN Weekday

\* _is_rebalance_date
IsRebalance(d) == IF Daily \/ d = 1 THEN TRUE ELSE Weekday[d] < Weekday[d - 1]

NoTargets == [a \in AssetSet |-> NoTarget]

\* The previous close of an asset: of its latest row before d, or its own.
PrevClose(d, a) ==
    LET before == {e \in 1 .. d - 1 : close[e][a] > 0}
    IN  IF before = {} THEN close[d][a]
        ELSE close[CHOOSE e \in before : \A f \in before : f <= e][a]

BarsOf(d) == [a \in AssetSet |-> [close |-> close[d][a], prev |-> PrevClose(d, a)]]

Targeted(d) == plan[d] # NoTargets
-----------------------------------------------------------------------------
VectorInit ==
    /\ phase = "plan"
    /\ day = 1
    /\ close = [d \in TradingDays |-> [a \in AssetSet |-> 0]]
    /\ tracked = [a \in AssetSet |-> Untracked]
    /\ cooldown = {}
    /\ pending = NoTargets
    /\ plan = [d \in TradingDays |-> NoTargets]
    /\ exits = {}
    /\ book = [cash |-> FullWeight, shares |-> [a \in AssetSet |-> 0],
               bought |-> [a \in AssetSet |-> 0], fills |-> <<>>]

\* Equal weights of the assets with a positive signal.
EqualWeights(active) ==
    [a \in AssetSet |-> IF a \in active THEN FullWeight \div Cardinality(active) ELSE 0]

Clipped(qty, grant) == IF qty <= grant THEN qty ELSE grant

\* _apply_risk_checks: a weight becomes a quantity of the initial cash in
\* whole lots, the policies approve, clip or refuse it, asset by asset, and it
\* becomes a weight again; what has no price, no lot or no approval is dropped.
RiskChecked(weights, prices, granted) ==
    [a \in AssetSet |->
        IF a \notin DOMAIN granted \/ prices[a] = 0 THEN 0
        ELSE Clipped(RoundLot(weights[a] \div prices[a]), granted[a]) * prices[a]]

\* The weights for the next day: none when the targets are all zero.
Positive(weights) == [a \in AssetSet |-> IF weights[a] > 0 THEN weights[a] ELSE NoTarget]

\* The rest of a day of the loop, rebalance or not: books of the policies,
\* forced exits planned for today, pending exits and new weights for tomorrow.
EndOfDay(prices, atOpen, cooling, waiting, weights) ==
    LET closing == [a \in AssetSet |-> AfterPolicies(Priced(atOpen[a], prices[a]), prices[a])]
        exited == {a \in AssetSet : closing[a].weight # atOpen[a].weight}
        left == [a \in AssetSet |-> IF a \in exited THEN closing[a].weight ELSE waiting[a]]
        tomorrow == [a \in AssetSet |-> IF weights[a] # NoTarget THEN weights[a] ELSE left[a]]
        today == [a \in AssetSet |-> IF a \in exited THEN closing[a].weight ELSE plan[day][a]]
        planned == [d \in TradingDays |->
            IF d = day THEN today ELSE IF d = day + 1 THEN tomorrow ELSE plan[d]]
    IN  /\ close' = [close EXCEPT ![day] = prices]
        /\ tracked' = closing
        /\ cooldown' = cooling \cup {a \in exited : closing[a].weight = 0}
        /\ pending' = left
        /\ plan' = planned
        /\ exits' = exits \cup
               {[day |-> day, asset |-> a, left |-> closing[a].weight] : a \in exited}
        /\ IF day < Len(Weekday)
           THEN phase' = phase /\ day' = day + 1
           ELSE /\ day' = 1
                /\ phase' = IF \A d \in TradingDays : planned[d] = NoTargets
                            THEN "failed" ELSE "simulate"
        /\ UNCHANGED book

\* Rows for the day, not all missing.
Quotes == {prices \in [AssetSet -> Closes] : \E a \in AssetSet : prices[a] > 0}

\* A day without rebalance.
HoldDay(prices) ==
    /\ phase = "plan"
    /\ ~IsRebalance(day)
    /\ EndOfDay(prices, tracked, cooldown, pending, NoTargets)

\* A rebalance whose signals are all of assets that cool down, or none at
\* all: nothing is cleared.
RebalanceWithoutSignals(prices, rows) ==
    /\ phase = "plan"
    /\ IsRebalance(day)
    /\ rows \subseteq cooldown
    /\ EndOfDay(prices, tracked, cooldown, pending, NoTargets)

\* Mutant of Rebalance: the cooldown is not applied.
RebalanceHot(prices, rows, active, granted) ==
    /\ phase = "plan"
    /\ IsRebalance(day)
    /\ ~ rows \subseteq cooldown
    /\ LET weights == RiskChecked(EqualWeights(active), prices, granted)
           kept(a) == IF \A b \in AssetSet : weights[b] = 0
                      THEN tracked[a].weight ELSE weights[a]
       IN  EndOfDay(prices,
               [a \in AssetSet |-> Tracked(kept(a), tracked[a].entry, tracked[a].peak, {}, {})],
               {}, NoTargets, Positive(weights))

\* A rebalance: new weights replace the committed ones if there are any;
\* cooldown, pending exits and ladders start afresh.  The entry and peak
\* prices of an asset that drops out are kept.
Rebalance(prices, rows, active, granted) ==
    /\ phase = "plan"
    /\ IsRebalance(day)
    /\ ~ rows \subseteq cooldown
    /\ LET weights == RiskChecked(EqualWeights(active \ cooldown), prices, granted)
           kept(a) == IF \A b \in AssetSet : weights[b] = 0
                      THEN tracked[a].weight ELSE weights[a]
       IN  EndOfDay(prices,
               [a \in AssetSet |-> Tracked(kept(a), tracked[a].entry, tracked[a].peak, {}, {})],
               {}, NoTargets, Positive(weights))

\* The fill simulator's loop: days without a target are not visited.
SimulateDay ==
    /\ phase = "simulate"
    /\ book' = IF Targeted(day) THEN AfterDay(book, day, plan[day], BarsOf(day)) ELSE book
    /\ IF day < Len(Weekday)
       THEN phase' = phase /\ day' = day + 1
       ELSE phase' = "done" /\ day' = day
    /\ UNCHANGED <<close, tracked, cooldown, pending, plan, exits>>

VectorNext ==
    \/ \E prices \in Quotes : HoldDay(prices)
    \/ \E prices \in Quotes, rows \in SUBSET AssetSet :
          \/ RebalanceWithoutSignals(prices, rows)
          \/ \E active \in SUBSET rows : \E granted \in [active -> Grants] :
                Rebalance(prices, rows, active, granted)
    \/ SimulateDay

VectorSpec == VectorInit /\ [][VectorNext]_vectorVars
-----------------------------------------------------------------------------
VectorTypeOK ==
    /\ phase \in {"plan", "simulate", "done", "failed"}
    /\ day \in TradingDays
    /\ close \in [TradingDays -> [AssetSet -> Closes \cup {0}]]
    /\ tracked \in [AssetSet -> [weight : 0 .. FullWeight, entry : Nat, peak : Nat,
                                 loss : SUBSET DOMAIN LossTiers, gain : SUBSET DOMAIN GainTiers]]
    /\ cooldown \subseteq AssetSet
    /\ pending \in [AssetSet -> NoTarget .. FullWeight]
    /\ plan \in [TradingDays -> [AssetSet -> NoTarget .. FullWeight]]
    /\ exits \subseteq [day : TradingDays, asset : AssetSet, left : 0 .. FullWeight]
    /\ book \in [cash : Int, shares : [AssetSet -> Nat], bought : [AssetSet -> 0 .. Len(Weekday)],
                fills : Seq([day : TradingDays, asset : AssetSet, qty : Int, price : Nat])]

\* A full exit outside of a rebalance is in force until the next rebalance.
InForce(e, d) ==
    /\ e.left = 0 /\ ~IsRebalance(e.day) /\ e.day <= d
    /\ \A f \in e.day + 1 .. d - 1 : ~IsRebalance(f)

\* That rebalance plans the next day, and still without the asset.  (Exits of
\* the next day itself may plan for the asset again, if it is a rebalance.)
KeepsOut(e, d) == InForce(e, d) \/ (InForce(e, d - 1) /\ ~IsRebalance(d))

\* What the loop of _check_tiers_one_side does: whatever the prices, gaps
\* through several tiers and recoveries included, the tiers that have fired are
\* the shallowest ones.  The comment above the loop says otherwise: see
\* DeepestTierFires.
LadderIsPrefix ==
    \A a \in AssetSet :
        /\ \A i \in tracked[a].loss : 1 .. i - 1 \subseteq tracked[a].loss
        /\ \A i \in tracked[a].gain : 1 .. i - 1 \subseteq tracked[a].gain

\* The comment of _check_tiers_one_side, "Fire the deepest breached tier that
\* hasn't fired yet": when a tier fires at a day's close, no deeper tier of its
\* side that the close breaches, too, is left unfired.
DeepestTierFires ==
    [][phase = "plan" =>
          \A a \in AssetSet :
             LET price == close'[day][a]
                 entry == tracked'[a].entry
             IN  /\ \A i \in tracked'[a].loss \ tracked[a].loss,
                       j \in DOMAIN LossTiers \ tracked'[a].loss :
                          i < j => ~LossBreached(j, price, entry)
                 /\ \A i \in tracked'[a].gain \ tracked[a].gain,
                       j \in DOMAIN GainTiers \ tracked'[a].gain :
                          i < j => ~GainBreached(j, price, entry)]_vectorVars

\* Every committed asset that had a price on a day of the loop is protected:
\* its entry price is a close it really had, and its peak is not below it.
CommittedIsProtected ==
    \A a \in AssetSet :
        /\ tracked[a].weight > 0 /\ phase = "plan" /\ day > 1 /\ close[day - 1][a] > 0
           => tracked[a].entry > 0
        /\ tracked[a].entry <= tracked[a].peak
        /\ tracked[a].entry > 0 =>
              \E d \in TradingDays : close[d][a] = tracked[a].entry

\* A full exit between two rebalances is carried out and lasts: up to the day
\* after the next rebalance no day of the simulator buys the asset, and every
\* one on which it can be traded sells all of it, or as much of it as the
\* volume allows; unless it is worth no more than the tolerance, a thousandth
\* of the morning's net asset value.
StopIsCarriedOut ==
    [][phase = "simulate" =>
          \A e \in exits :
             LET held == book.shares[e.asset]
                 bar == BarsOf(day)[e.asset]
                 nav == Nav(book, BarsOf(day))
             IN  KeepsOut(e, day) =>
                    /\ book'.shares[e.asset] <= held
                    /\ /\ InForce(e, day) \/ Targeted(day)
                       /\ Tradable(bar) /\ nav > 0 /\ Above(held * bar.close, 0, nav)
                       => book'.shares[e.asset] = held - WithinVolume(held)]_vectorVars

\* What a fill traded, and what it cost.
Notional(f) == (IF f.qty > 0 THEN f.qty ELSE -f.qty) * f.price
CostOf(f) == FillCost(Notional(f), IF f.qty > 0 THEN "buy" ELSE "sell")

\* The 2% of the cash that a purchase leaves covers its costs, whatever the
\* number of purchases of the day: cash is negative only after a purchase that
\* cost more than 2/98 of its notional, or a sale that cost more than it
\* brought in, as the minimum commission makes small orders do.
CashIsCovered ==
    book.cash < 0 =>
        \E i \in DOMAIN book.fills :
            LET f == book.fills[i]
            IN  CostOf(f) > IF f.qty > 0 THEN Notional(f) \div 49 ELSE Notional(f)

\* The docstring of _execute_forced_exit, "injects the remaining weight as the
\* new target, so FillSimulator sells only the exited fraction": on a day
\* with nothing but forced exits, the other assets are not sold.
OnlyStoppedIsSold ==
    \A i \in DOMAIN book.fills :
        book.fills[i].qty < 0 /\ book.fills[i].day # 1
        /\ ~IsRebalance(book.fills[i].day - 1) =>
            \E e \in exits : e.asset = book.fills[i].asset /\ e.day <= book.fills[i].day
=============================================================================
