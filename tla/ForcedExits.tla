----------------------------- MODULE ForcedExits -----------------------------
(***************************************************************************)
(* The policies that close positions: the ladder of GlobalStopPolicy       *)
(* (riskguard/policies/global_stop.py), the trailing stop                  *)
(* (riskguard/policies/stop_loss.py), and what the vectorised engine does  *)
(* with the exits they ask for (backtest_vector/engine.py).  Everything    *)
(* here concerns one asset on one day: the policies look at the assets one *)
(* by one.                                                                 *)
(*                                                                         *)
(* A tracked asset is the engine's knowledge of it: the committed weight   *)
(* (0: not in committed_weights), entry and peak price (0: no entry), and  *)
(* the tiers of either ladder that have fired.  Weights are integers,       *)
(* thresholds are in thousandths, fractions in hundredths.                 *)
(***************************************************************************)
EXTENDS Integers, Sequences

CONSTANTS
    MinRemaining,   \* MIN_REMAINING_WEIGHT: 1% of the whole portfolio
    LossTiers,      \* stop_loss_tiers, shallowest first
    GainTiers,      \* take_profit_tiers, shallowest first
    RearmBuffer,    \* tier_rearm_buffer
    TrailPct        \* trail_pct of the trailing stop

\* _validate_tiers: signs, fractions in (0, 1], sorted shallowest first.
ASSUME TierAssumption ==
    /\ MinRemaining \in Nat
    /\ RearmBuffer \in Nat
    /\ TrailPct \in Int
    /\ LossTiers \in Seq([threshold : Int, fraction : 1 .. 100])
    /\ GainTiers \in Seq([threshold : Int, fraction : 1 .. 100])
    /\ \A i \in DOMAIN LossTiers : LossTiers[i].threshold <= 0
    /\ \A i \in DOMAIN GainTiers : GainTiers[i].threshold >= 0
    /\ \A i, j \in DOMAIN LossTiers :
          i <= j => LossTiers[j].threshold <= LossTiers[i].threshold
    /\ \A i, j \in DOMAIN GainTiers :
          i <= j => GainTiers[i].threshold <= GainTiers[j].threshold

Untracked == [weight |-> 0, entry |-> 0, peak |-> 0, loss |-> {}, gain |-> {}]

Tracked(weight, entry, peak, loss, gain) ==
    [weight |-> weight, entry |-> entry, peak |-> peak, loss |-> loss, gain |-> gain]

\* The move from one price to another reaches pct thousandths, down or up.
FellTo(price, from, pct) == 1000 * (price - from) <= pct * from
RoseTo(price, from, pct) == 1000 * (price - from) >= pct * from

LossBreached(i, price, entry) == FellTo(price, entry, LossTiers[i].threshold)
GainBreached(i, price, entry) == RoseTo(price, entry, GainTiers[i].threshold)

\* Rearm: the tiers of a side that are still fired at this price.
StillFiredLoss(fired, price, entry) ==
    {i \in fired : FellTo(price, entry, LossTiers[i].threshold + RearmBuffer)}

StillFiredGain(fired, price, entry) ==
    {i \in fired : RoseTo(price, entry, GainTiers[i].threshold - RearmBuffer)}

\* The tier that fires: the first one, from the shallowest, that is breached
\* and has not fired (none: the empty set).
LossFiring(fired, price, entry) ==
    {i \in DOMAIN LossTiers \ fired :
        /\ LossBreached(i, price, entry)
        /\ \A j \in 1 .. i - 1 : j \in fired \/ ~LossBreached(j, price, entry)}

GainFiring(fired, price, entry) ==
    {i \in DOMAIN GainTiers \ fired :
        /\ GainBreached(i, price, entry)
        /\ \A j \in 1 .. i - 1 : j \in fired \/ ~GainBreached(j, price, entry)}

\* The asset after one check of its two ladders, before any exit.
Laddered(t, price) ==
    LET loss == StillFiredLoss(t.loss, price, t.entry)
        gain == StillFiredGain(t.gain, price, t.entry)
    IN  Tracked(t.weight, t.entry, t.peak,
                loss \cup LossFiring(loss, price, t.entry),
                gain \cup GainFiring(gain, price, t.entry))

\* _execute_forced_exit: what is left of a weight, nothing when the remainder
\* is below MIN_REMAINING_WEIGHT.
Remaining(weight, fraction) ==
    LET rest == (weight * (100 - fraction)) \div 100
    IN  IF rest < MinRemaining THEN 0 ELSE rest

\* Mutant of AfterExit: a partial exit forgets the entry, too.
AfterExitForgets(t, fraction) ==
    IF t.weight = 0 THEN t
    ELSE LET rest == Remaining(t.weight, fraction)
         IN  IF rest = 0 THEN Untracked ELSE Tracked(rest, 0, 0, t.loss, t.gain)

\* An exit is executed unless the asset has left committed_weights; a full
\* exit forgets everything about the asset.
AfterExit(t, fraction) ==
    IF t.weight = 0 THEN t
    ELSE LET rest == Remaining(t.weight, fraction)
         IN  IF rest = 0 THEN Untracked
             ELSE Tracked(rest, t.entry, t.peak, t.loss, t.gain)

\* GlobalStopPolicy.check_exits and the execution of its exits: first the
\* exit of the loss ladder, then that of the gain ladder.
AfterGlobalStop(t, price) ==
    IF t.weight = 0 \/ price = 0 \/ t.entry = 0 THEN t
    ELSE LET loss == LossFiring(StillFiredLoss(t.loss, price, t.entry), price, t.entry)
             gain == GainFiring(StillFiredGain(t.gain, price, t.entry), price, t.entry)
             checked == Laddered(t, price)
             stopped == IF loss = {} THEN checked
                        ELSE AfterExit(checked, LossTiers[CHOOSE i \in loss : TRUE].fraction)
         IN  IF gain = {} THEN stopped
             ELSE AfterExit(stopped, GainTiers[CHOOSE i \in gain : TRUE].fraction)

\* TrailingStopLossPolicy.check_exits, a full exit when the price has fallen
\* from the peak by more than trail_pct.
AfterTrailingStop(t, price) ==
    IF t.weight > 0 /\ price > 0 /\ t.peak > 0
       /\ 1000 * (price - t.peak) < TrailPct * t.peak
    THEN AfterExit(t, 100) ELSE t

\* The day's close enters the books of a committed asset: the first one is
\* its entry price, the highest one its peak.
Priced(t, price) ==
    IF t.weight = 0 \/ price = 0 THEN t
    ELSE Tracked(t.weight, IF t.entry = 0 THEN price ELSE t.entry,
                 IF price > t.peak THEN price ELSE t.peak, t.loss, t.gain)

\* The policies in the order of risk_policies: the ladder, the trailing stop.
AfterPolicies(t, price) == AfterTrailingStop(AfterGlobalStop(t, price), price)
=============================================================================
