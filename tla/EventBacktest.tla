---------------------------- MODULE EventBacktest ----------------------------
(***************************************************************************)
(* The event backtest (backtest_event/event_engine.py): every trading day  *)
(* the signals become intents, the intents fills, the fills cash and       *)
(* positions; a ledger (PortfolioLedger) is fed the same fills, as its     *)
(* header proposes for an audit.                                           *)
(*                                                                         *)
(* The day is one step.  Its intents are sized by the cash of the morning, *)
(* not by the net asset value; the purchases are queued and executed       *)
(* before the sales, and nothing asks whether the cash pays for them.      *)
(***************************************************************************)
EXTENDS CostModel, SequencesExt, FiniteSets, PortfolioLedger

CONSTANTS
    Assets,         \* in the order of the signal rows, each once
    InitialCash,
    LotSize,        \* 100 in the code
    ClipQty,        \* approved_qty of a policy that clips
    Closes,         \* closing prices; 0 is a day without a row
    MaxDay          \* trading days of the window

AssetSet == ToSet(Assets)

ASSUME EventAssumption ==
    /\ Assets \in Seq(AssetSet)
    /\ \A i, j \in DOMAIN Assets : i # j => Assets[i] # Assets[j]
    /\ InitialCash \in Nat
    /\ LotSize \in Nat \ {0}
    /\ ClipQty \in Nat
    /\ Closes \subseteq Nat
    /\ MaxDay \in Nat

VARIABLES
    today,          \* days processed
    latest,         \* the close of an asset's latest row (prev_close)
    policies,       \* TRUE when risk_policies is not empty
    cash,
    positions,      \* shares by asset
    fills,          \* the fills of the day
    ledger          \* the audit

eventVars == <<today, latest, policies, cash, positions, fills, ledger>>

\* A bar of the day.  extreme: the close is the high and the low of the day;
\* no row: a close of 0.
Bars == {bar \in [close : Closes, suspended : BOOLEAN, extreme : BOOLEAN] :
            /\ bar.close = 0 => ~bar.suspended
            /\ bar.extreme => ~bar.suspended /\ bar.close > 0}

\* _is_at_limit_up and _is_at_limit_down; the first row has itself as prev_close.
AtLimitUp(bar, prev) ==
    prev > 0 /\ bar.extreme /\ 1000 * bar.close >= 1095 * prev

AtLimitDown(bar, prev) ==
    prev > 0 /\ bar.extreme /\ 1000 * bar.close <= 905 * prev

PrevClose(a, bar) == IF latest[a] = 0 THEN bar.close ELSE latest[a]

WholeLots(q) == (q \div LotSize) * LotSize

\* _apply_risk_checks for one asset: the quantity of an equal part of the
\* cash, as the policies leave it; a clip is below what was requested.
Approved(n, price, verdict) ==
    LET requested == IF price = 0 THEN 0 ELSE WholeLots(cash \div (n * price))
    IN  IF requested <= 0 \/ verdict = "rejected" THEN 0
        ELSE IF verdict = "clipped" /\ ClipQty < requested THEN ClipQty ELSE requested

\* What a policy may say, when there is one.
Verdicts == IF policies THEN {"approved", "clipped", "rejected"} ELSE {"approved"}

\* target_weights: the active assets, without those the policies drop.
Targets(active, bars, verdict) ==
    IF policies
    THEN {a \in active : Approved(Cardinality(active), bars[a].close, verdict[a]) > 0}
    ELSE active

\* Mutant of BuyQty: lots are forgotten.
BuyQtyOdd(a, active, bars, verdict) ==
    LET n == Cardinality(active)
        price == bars[a].close
    IN  IF price = 0 THEN 0
        ELSE IF policies THEN Approved(n, price, verdict[a]) - positions[a]
        ELSE (cash - n * positions[a] * price) \div (n * price)

\* Mutant of BuyQty: every target has the whole cash.
BuyQtyUnshared(a, active, bars, verdict) ==
    LET price == bars[a].close
    IN  IF price = 0 THEN 0
        ELSE WholeLots((IF policies THEN Approved(1, price, verdict[a])
                        ELSE cash \div price) - positions[a])

\* The quantity of the intent to buy: what is missing to the target value.
BuyQty(a, active, bars, verdict) ==
    LET n == Cardinality(active)
        price == bars[a].close
        missing == IF policies THEN Approved(n, price, verdict[a]) - positions[a]
                   ELSE (cash - n * positions[a] * price) \div (n * price)
    IN  IF price = 0 THEN 0 ELSE WholeLots(missing)

Fill(a, side, q, price) ==
    [asset |-> a, side |-> side, qty |-> q, price |-> price,
     cost |-> TotalCost(q * price, side)]

\* Steps 3 and 5 for a target: the quantity bought, 0 when the market or the
\* size of the intent forbids it.
QtyBought(a, active, bars, verdict) ==
    IF /\ a \in Targets(active, bars, verdict)
       /\ BuyQty(a, active, bars, verdict) > 0
       /\ ~bars[a].suspended /\ ~AtLimitUp(bars[a], PrevClose(a, bars[a]))
    THEN BuyQty(a, active, bars, verdict) ELSE 0

\* Steps 4 and 5: whole positions without a target are sold.  None of them was
\* bought today, which is all that T+1 asks.
QtySold(a, active, bars, verdict) ==
    IF /\ positions[a] > 0 /\ a \notin Targets(active, bars, verdict)
       /\ bars[a].close > 0
       /\ ~bars[a].suspended /\ ~AtLimitDown(bars[a], PrevClose(a, bars[a]))
    THEN positions[a] ELSE 0

\* The day's purchases, then its sales, in the order of the signals.
Filled(fs, f) == IF f.qty > 0 THEN Append(fs, f) ELSE fs

Purchases(active, bars, verdict) ==
    FoldLeft(Filled, <<>>, [i \in DOMAIN Assets |->
        Fill(Assets[i], "buy", QtyBought(Assets[i], active, bars, verdict),
             bars[Assets[i]].close)])

Sales(active, bars, verdict) ==
    FoldLeft(Filled, <<>>, [i \in DOMAIN Assets |->
        Fill(Assets[i], "sell", QtySold(Assets[i], active, bars, verdict),
             bars[Assets[i]].close)])

\* The cash and the positions after a fill, and after fills.
CashAfter(c, f) ==
    IF f.side = "buy" THEN c - f.qty * f.price - f.cost ELSE c + f.qty * f.price - f.cost

HeldAfter(held, f) ==
    [held EXCEPT ![f.asset] = IF f.side = "buy" THEN @ + f.qty ELSE @ - f.qty]

Settled(c, fs) == FoldLeft(CashAfter, c, fs)

Held(held, fs) == FoldLeft(HeldAfter, held, fs)
-----------------------------------------------------------------------------
EventInit ==
    /\ today = 0
    /\ latest = [a \in AssetSet |-> 0]
    /\ policies \in BOOLEAN
    /\ cash = InitialCash
    /\ positions = [a \in AssetSet |-> 0]
    /\ fills = <<>>
    /\ ledger = NewLedger(InitialCash, AssetSet)

Observed(bars) ==
    /\ today < MaxDay
    /\ today' = today + 1
    /\ latest' = [a \in AssetSet |-> IF bars[a].close > 0 THEN bars[a].close ELSE latest[a]]

\* A day without any signal row is skipped: nothing is sold, no snapshot.
SilentDay(bars) ==
    /\ Observed(bars)
    /\ fills' = <<>>
    /\ UNCHANGED <<policies, cash, positions, ledger>>

\* A day with signals; active are the assets whose strength is positive.
SignalDay(bars, active, verdict) ==
    /\ Observed(bars)
    /\ fills' = Purchases(active, bars, verdict) \o Sales(active, bars, verdict)
    /\ cash' = Settled(cash, fills')
    /\ positions' = Held(positions, fills')
    /\ ledger' = FoldLeft(Booked, ledger, fills')
    /\ UNCHANGED policies

EventNext ==
    \E bars \in [AssetSet -> Bars] :
        \/ SilentDay(bars)
        \/ \E active \in SUBSET AssetSet,
              verdict \in [AssetSet -> Verdicts] :
              SignalDay(bars, active, verdict)

EventSpec == EventInit /\ [][EventNext]_eventVars
-----------------------------------------------------------------------------
EventTypeOK ==
    /\ today \in 0 .. MaxDay
    /\ latest \in [AssetSet -> Closes \cup {0}]
    /\ policies \in BOOLEAN
    /\ cash \in Int
    /\ positions \in [AssetSet -> Nat]
    /\ \A a \in AssetSet : positions[a] % LotSize = 0
    /\ \A i \in DOMAIN fills : fills[i].qty > 0 /\ fills[i].price > 0

AddCost(sum, f) == sum + f.cost

CostsOf(fs) == FoldLeft(AddCost, 0, fs)

\* Purchases are not checked against the cash, but all targets of a day share
\* the cash of its morning: what a day can overdraw is its costs, never the
\* price of a share.
OverdraftIsCosts ==
    [][cash' >= (IF cash < 0 THEN cash ELSE 0) - CostsOf(fills')]_eventVars

\* The engine and the audit agree on the cash and on every position.
Agree == cash = ledger.cash /\ positions = ledger.qty

\* As long as the cash of the morning pays the purchases of the day, engine
\* and ledger go on agreeing; only an overdraft makes the ledger cut a fill.
PaidAfter(c, f) == IF f.side = "buy" THEN CashAfter(c, f) ELSE c

LedgerReconciles ==
    [][Agree /\ FoldLeft(PaidAfter, cash, fills') >= 0 => Agree']_eventVars

\* After an overdraft the ledger holds less than the engine, never more, so
\* every later sale closes its position.
LedgerIsBehind == \A a \in AssetSet : ledger.qty[a] <= positions[a]

\* The audit balances whatever was cut: cash and cost basis are the initial
\* cash, plus the realized result, minus the costs charged.
LedgerBalances ==
    ledger.cash + SumFunctionOnSet(ledger.basis, AssetSet)
        = InitialCash + ledger.realized - ledger.charged
=============================================================================
