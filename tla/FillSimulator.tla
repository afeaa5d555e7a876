---------------------------- MODULE FillSimulator ----------------------------
(***************************************************************************)
(* AShareFillSimulator (backtest_vector/fill_simulator.py): the trades of  *)
(* one day, from the target weights of that day.  A book is the cash, the  *)
(* shares by asset, the day of the latest purchase by asset and the fills  *)
(* so far; a bar is the close and the previous close of an asset (0: no    *)
(* row for the day).  Money is an integer, weights are parts of            *)
(* FullWeight, which is also the initial cash.                             *)
(*                                                                         *)
(* The market rules are the CN ones that the constructor loads: a bar at   *)
(* either price limit cannot be traded in either direction, and the        *)
(* suspension flag of the bar is not consulted.  The tracker of delistings *)
(* is created empty and nothing fills it.                                  *)
(***************************************************************************)
EXTENDS CostModel, Sequences, SequencesExt

CONSTANTS
    Assets,         \* assets, in the order in which targets are inserted
    FullWeight,
    LotSize,
    MaxLots,        \* volume * max_volume_pct of every bar, in lots
    LimitPct        \* limit_pct * limit_tolerance, in thousandths

AssetSet == ToSet(Assets)

\* Targets are keyed by asset; lots and weights are positive.
ASSUME FillAssumption ==
    /\ Assets \in Seq(AssetSet)
    /\ \A i, j \in DOMAIN Assets : i # j => Assets[i] # Assets[j]
    /\ FullWeight \in Nat \ {0}
    /\ LotSize \in Nat \ {0}
    /\ MaxLots \in Nat

\* A target of a day: a weight, or no row for the asset.
NoTarget == -1

\* No row: the target weight counts as 0.
TargetWeight(w) == IF w = NoTarget THEN 0 ELSE w

LeastOf(m, n) == IF m <= n THEN m ELSE n

RoundLot(q) == (q \div LotSize) * LotSize

\* check_tradable, and then _is_price_valid: no limit day, no jump by half or
\* to the double, a row with a price.
Tradable(bar) ==
    /\ bar.close > 0 /\ bar.prev > 0
    /\ 1000 * (bar.close - bar.prev) < LimitPct * bar.prev
    /\ 1000 * (bar.prev - bar.close) < LimitPct * bar.prev
    /\ 2 * bar.close >= bar.prev /\ bar.close <= 2 * bar.prev

\* _calculate_nav: an asset without a row counts for nothing.
PlusValue(sum, value) == sum + value

Nav(book, bars) ==
    FoldLeft(PlusValue, book.cash,
             [i \in DOMAIN Assets |-> book.shares[Assets[i]] * bars[Assets[i]].close])

\* _apply_volume_constraint; its additional slippage is taken at its largest,
\* a thousandth of the notional.
WithinVolume(q) == LeastOf(q, MaxLots * LotSize)

VolumeSlippage(n) == Rounded(n, 1000)

FillCost(n, side) == TotalCost(n, side) + VolumeSlippage(n)

\* The value at price over the weight w of nav exceeds the 0.1% tolerance.
Above(value, w, nav) == 1000 * value * FullWeight > nav * (1000 * w + FullWeight)
Below(value, w, nav) == 1000 * value * FullWeight < nav * (1000 * w - FullWeight)

\* Mutant of SellLots: a started lot is sold, too, held or not.
SellLotsStarted(qty, w, nav, price) ==
    RoundLot((qty * price * FullWeight - w * nav) \div (FullWeight * price) + LotSize)

\* _calculate_sell_qty behind its guards.
SellLots(qty, w, nav, price) ==
    LeastOf(RoundLot((qty * price * FullWeight - w * nav) \div (FullWeight * price)), qty)

\* Mutant of BuyLots: the cash is not looked at.
BuyLotsOnCredit(cash, qty, w, nav, price) ==
    RoundLot((w * nav - qty * price * FullWeight) \div (FullWeight * price))

\* _calculate_buy_qty behind its guards.
BuyLots(cash, qty, w, nav, price) ==
    RoundLot(LeastOf((w * nav - qty * price * FullWeight) \div (FullWeight * price),
                     (98 * cash) \div (100 * price)))

\* A trade of q shares (negative: a sale) on day d.
Traded(book, d, a, q, price) ==
    LET side == IF q > 0 THEN "buy" ELSE "sell"
        n == (IF q > 0 THEN q ELSE -q) * price
    IN  [cash |-> book.cash - q * price - FillCost(n, side),
         shares |-> [book.shares EXCEPT ![a] = @ + q],
         bought |-> IF q > 0 THEN [book.bought EXCEPT ![a] = d] ELSE book.bought,
         fills |-> Append(book.fills, [day |-> d, asset |-> a, qty |-> q, price |-> price])]

\* A target of day d as the loops meet it: asset, weight, the net asset value
\* of the morning and the bar.
Orders(d, targets, nav, bars) ==
    [i \in DOMAIN Assets |->
        [day |-> d, asset |-> Assets[i], weight |-> TargetWeight(targets[Assets[i]]),
         nav |-> nav, bar |-> bars[Assets[i]]]]

\* One position in the loop of the sales: sold down to its target if it is
\* above it, was not bought today (T+1) and can be traded.
AfterSell(book, o) ==
    LET held == book.shares[o.asset]
        q == WithinVolume(SellLots(held, o.weight, o.nav, o.bar.close))
    IN  IF /\ held > 0 /\ o.nav > 0
           /\ Above(held * o.bar.close, o.weight, o.nav)
           /\ book.bought[o.asset] < o.day /\ Tradable(o.bar) /\ q > 0
        THEN Traded(book, o.day, o.asset, -q, o.bar.close) ELSE book

\* One target in the loop of the purchases.
AfterBuy(book, o) ==
    LET held == book.shares[o.asset]
        q == WithinVolume(BuyLots(book.cash, held, o.weight, o.nav, o.bar.close))
    IN  IF /\ o.weight > 0
           /\ IF o.nav > 0 THEN Below(held * o.bar.close, o.weight, o.nav)
              ELSE o.weight * 1000 > FullWeight
           /\ Tradable(o.bar) /\ q > 0
        THEN Traded(book, o.day, o.asset, q, o.bar.close) ELSE book

\* One day of simulate: all sales, then all purchases, sized by the net asset
\* value of the morning.
AfterDay(book, d, targets, bars) ==
    LET orders == Orders(d, targets, Nav(book, bars), bars)
    IN  FoldLeft(AfterBuy, FoldLeft(AfterSell, book, orders), orders)
=============================================================================
