------------------------- MODULE VectorBacktestProofs -------------------------
(***************************************************************************)
(* Theorems about the loop of VectorBacktest, the exits of ForcedExits and *)
(* the trades of FillSimulator, for all assets, ladders, calendars, closes *)
(* and costs.                                                              *)
(*                                                                         *)
(* VectorInv is about the loop that plans, StopInv about what it has       *)
(* planned for the assets that were stopped, BookInv about the simulator's *)
(* book.  A day of the simulator is two folds over the targets; what one   *)
(* order does is stated once per loop (SellStep, BuyStep) and carried      *)
(* through the folds by FoldKeeps and FoldInduction.                       *)
(***************************************************************************)
EXTENDS VectorBacktest, FiniteSetTheorems, FunctionTheorems, SumTheorems, SequenceTheorems, TLAPS

\* The tiers of a set are the shallowest ones.
Shallowest(fired) == \A i \in fired : 1 .. i - 1 \subseteq fired

\* What the loop keeps of one asset.
Tracks == [weight : 0 .. FullWeight, entry : Nat, peak : Nat,
           loss : SUBSET DOMAIN LossTiers, gain : SUBSET DOMAIN GainTiers]

Sound(t) ==
    /\ t \in Tracks
    /\ t.entry <= t.peak
    /\ Shallowest(t.loss)
    /\ Shallowest(t.gain)

\* What one day keeps of an asset: its entry and its protection.
SameEntry(t, u) ==
    /\ u.entry \in {0, t.entry}
    /\ u.weight # 0 => t.weight # 0 /\ u.entry = t.entry

\* The tiers of a ladder are numbered from 1, with integer thresholds.
LEMMA LadderShape ==
    ASSUME NEW fractions, NEW s \in Seq([threshold : Int, fraction : fractions])
    PROVE  /\ Len(s) \in Nat /\ DOMAIN s = 1 .. Len(s)
           /\ \A i \in DOMAIN s : s[i].threshold \in Int
  <1> DEFINE T == [threshold : Int, fraction : fractions]
  <1>1. \A t \in T : t.threshold \in Int
    OBVIOUS
  <1> HIDE DEF T
  <1>2. s \in Seq(T)
    BY DEF T
  <1>3. Len(s) \in Nat /\ DOMAIN s = 1 .. Len(s)
    BY <1>2
  <1>4. \A i \in DOMAIN s : s[i] \in T
    BY <1>2, <1>3
  <1> QED
    BY <1>1, <1>3, <1>4

\* What the proofs use of the two ladders: their numbering and their order.
LEMMA TierFacts ==
    /\ Len(LossTiers) \in Nat /\ DOMAIN LossTiers = 1 .. Len(LossTiers)
    /\ Len(GainTiers) \in Nat /\ DOMAIN GainTiers = 1 .. Len(GainTiers)
    /\ \A i \in DOMAIN LossTiers : LossTiers[i].threshold \in Int
    /\ \A i \in DOMAIN GainTiers : GainTiers[i].threshold \in Int
    /\ \A i, j \in DOMAIN LossTiers :
          i <= j => LossTiers[j].threshold <= LossTiers[i].threshold
    /\ \A i, j \in DOMAIN GainTiers :
          i <= j => GainTiers[i].threshold <= GainTiers[j].threshold
    /\ RearmBuffer \in Nat
  <1>1. /\ LossTiers \in Seq([threshold : Int, fraction : 1 .. 100])
        /\ GainTiers \in Seq([threshold : Int, fraction : 1 .. 100])
        /\ RearmBuffer \in Nat
    BY TierAssumption
  <1>2. /\ Len(LossTiers) \in Nat /\ DOMAIN LossTiers = 1 .. Len(LossTiers)
        /\ \A i \in DOMAIN LossTiers : LossTiers[i].threshold \in Int
    BY <1>1, LadderShape
  <1>3. /\ Len(GainTiers) \in Nat /\ DOMAIN GainTiers = 1 .. Len(GainTiers)
        /\ \A i \in DOMAIN GainTiers : GainTiers[i].threshold \in Int
    BY <1>1, LadderShape
  <1>4. /\ \A i, j \in DOMAIN LossTiers :
               i <= j => LossTiers[j].threshold <= LossTiers[i].threshold
        /\ \A i, j \in DOMAIN GainTiers :
               i <= j => GainTiers[i].threshold <= GainTiers[j].threshold
    BY TierAssumption
  <1> QED
    BY <1>1, <1>2, <1>3, <1>4

\* For the solver: a product by a natural number keeps the order.
LEMMA Scaled ==
    ASSUME NEW x \in Int, NEW y \in Int, NEW n \in Nat, x <= y
    PROVE  x * n <= y * n
  <1>1. (y - x) * n >= 0
    OBVIOUS
  <1>2. (y - x) * n = y * n - x * n
    OBVIOUS
  <1> QED
    BY <1>1, <1>2

\* A loss that reaches a tier reaches every shallower one, and likewise for
\* the rearming thresholds and for gains.
LEMMA DeeperIsFurther ==
    ASSUME NEW p \in Nat, NEW e \in Nat
    PROVE  /\ \A i \in DOMAIN LossTiers : \A j \in 1 .. i - 1 :
                 /\ LossBreached(i, p, e) => LossBreached(j, p, e)
                 /\ FellTo(p, e, LossTiers[i].threshold + RearmBuffer)
                       => FellTo(p, e, LossTiers[j].threshold + RearmBuffer)
           /\ \A i \in DOMAIN GainTiers : \A j \in 1 .. i - 1 :
                 /\ GainBreached(i, p, e) => GainBreached(j, p, e)
                 /\ RoseTo(p, e, GainTiers[i].threshold - RearmBuffer)
                       => RoseTo(p, e, GainTiers[j].threshold - RearmBuffer)
  <1>1. ASSUME NEW i \in DOMAIN LossTiers, NEW j \in 1 .. i - 1
        PROVE  /\ LossBreached(i, p, e) => LossBreached(j, p, e)
               /\ FellTo(p, e, LossTiers[i].threshold + RearmBuffer)
                     => FellTo(p, e, LossTiers[j].threshold + RearmBuffer)
    <2> DEFINE x == LossTiers[i].threshold
               y == LossTiers[j].threshold
    <2>1. x \in Int /\ y \in Int /\ x <= y /\ RearmBuffer \in Nat
      BY <1>1, TierFacts
    <2> HIDE DEF x, y
    <2>2. x * e <= y * e
      BY <2>1, Scaled
    <2>3. (x + RearmBuffer) * e <= (y + RearmBuffer) * e
      BY <2>1, Scaled
    <2>4. x * e \in Int /\ y * e \in Int /\ (x + RearmBuffer) * e \in Int
          /\ (y + RearmBuffer) * e \in Int /\ 1000 * (p - e) \in Int
      BY <2>1
    <2>5. FellTo(p, e, x) => FellTo(p, e, y)
      BY <2>2, <2>4 DEF FellTo
    <2>6. FellTo(p, e, x + RearmBuffer) => FellTo(p, e, y + RearmBuffer)
      BY <2>3, <2>4 DEF FellTo
    <2> QED
      BY <2>5, <2>6 DEF x, y, LossBreached
  <1>2. ASSUME NEW i \in DOMAIN GainTiers, NEW j \in 1 .. i - 1
        PROVE  /\ GainBreached(i, p, e) => GainBreached(j, p, e)
               /\ RoseTo(p, e, GainTiers[i].threshold - RearmBuffer)
                     => RoseTo(p, e, GainTiers[j].threshold - RearmBuffer)
    <2> DEFINE x == GainTiers[i].threshold
               y == GainTiers[j].threshold
    <2>1. x \in Int /\ y \in Int /\ y <= x /\ RearmBuffer \in Nat
      BY <1>2, TierFacts
    <2> HIDE DEF x, y
    <2>2. y * e <= x * e
      BY <2>1, Scaled
    <2>3. (y - RearmBuffer) * e <= (x - RearmBuffer) * e
      BY <2>1, Scaled
    <2>4. x * e \in Int /\ y * e \in Int /\ (x - RearmBuffer) * e \in Int
          /\ (y - RearmBuffer) * e \in Int /\ 1000 * (p - e) \in Int
      BY <2>1
    <2>5. RoseTo(p, e, x) => RoseTo(p, e, y)
      BY <2>2, <2>4 DEF RoseTo
    <2>6. RoseTo(p, e, x - RearmBuffer) => RoseTo(p, e, y - RearmBuffer)
      BY <2>3, <2>4 DEF RoseTo
    <2> QED
      BY <2>5, <2>6 DEF x, y, GainBreached
  <1> QED
    BY <1>1, <1>2

\* The fields of what the loop keeps.
LEMMA SoundHas ==
    ASSUME NEW t, Sound(t)
    PROVE  /\ t.weight \in 0 .. FullWeight /\ t.weight \in Nat
           /\ t.entry \in Nat /\ t.peak \in Nat /\ t.entry <= t.peak
           /\ t.loss \subseteq DOMAIN LossTiers /\ Shallowest(t.loss)
           /\ t.gain \subseteq DOMAIN GainTiers /\ Shallowest(t.gain)
  BY DEF Sound, Tracks

\* And the other way around.
LEMMA SoundIf ==
    ASSUME NEW w \in 0 .. FullWeight, NEW e \in Nat, NEW p \in Nat, e <= p,
           NEW loss \in SUBSET DOMAIN LossTiers, NEW gain \in SUBSET DOMAIN GainTiers,
           Shallowest(loss), Shallowest(gain)
    PROVE  Sound(Tracked(w, e, p, loss, gain))
  BY DEF Sound, Tracks, Tracked

\* Nothing known is sound.
LEMMA UntrackedIsSound == Sound(Untracked)
  <1>1. FullWeight \in Nat /\ 0 \in 0 .. FullWeight
    BY FillAssumption
  <1>2. Untracked = Tracked(0, 0, 0, {}, {})
    BY DEF Untracked, Tracked
  <1> QED
    BY <1>1, <1>2, SoundIf DEF Shallowest

\* One check leaves the shallowest tiers fired: rearming takes the deeper ones
\* first, and only the first tier not fired can fire.
LEMMA LadderStep ==
    ASSUME NEW p \in Nat, NEW t, Sound(t)
    PROVE  Sound(Laddered(t, p))
  <1> DEFINE loss == StillFiredLoss(t.loss, p, t.entry)
             gain == StillFiredGain(t.gain, p, t.entry)
             loss1 == loss \cup LossFiring(loss, p, t.entry)
             gain1 == gain \cup GainFiring(gain, p, t.entry)
  <1>1. /\ t.weight \in 0 .. FullWeight
        /\ t.entry \in Nat /\ t.peak \in Nat /\ t.entry <= t.peak
        /\ t.loss \subseteq DOMAIN LossTiers /\ t.gain \subseteq DOMAIN GainTiers
        /\ Shallowest(t.loss) /\ Shallowest(t.gain)
    BY SoundHas
  <1>2. loss \subseteq DOMAIN LossTiers /\ Shallowest(loss)
    BY <1>1, DeeperIsFurther DEF StillFiredLoss, Shallowest
  <1>3. gain \subseteq DOMAIN GainTiers /\ Shallowest(gain)
    BY <1>1, DeeperIsFurther DEF StillFiredGain, Shallowest
  <1>6. Laddered(t, p) = Tracked(t.weight, t.entry, t.peak, loss1, gain1)
    BY DEF Laddered
  <1> HIDE DEF loss, gain
  <1>4. \A i \in LossFiring(loss, p, t.entry) :
           i \in DOMAIN LossTiers /\ 1 .. i - 1 \subseteq loss
    BY <1>1, DeeperIsFurther DEF LossFiring
  <1>5. \A i \in GainFiring(gain, p, t.entry) :
           i \in DOMAIN GainTiers /\ 1 .. i - 1 \subseteq gain
    BY <1>1, DeeperIsFurther DEF GainFiring
  <1>7. loss1 \subseteq DOMAIN LossTiers /\ Shallowest(loss1)
    BY <1>2, <1>4 DEF Shallowest
  <1>8. gain1 \subseteq DOMAIN GainTiers /\ Shallowest(gain1)
    BY <1>3, <1>5 DEF Shallowest
  <1> HIDE DEF loss1, gain1
  <1> QED
    BY <1>1, <1>6, <1>7, <1>8, SoundIf

\* What is left of a weight is a part of it.
LEMMA RemainingIsLess ==
    ASSUME NEW w \in 0 .. FullWeight, NEW f \in 0 .. 100
    PROVE  Remaining(w, f) \in 0 .. FullWeight
  <1>0. FullWeight \in Nat /\ MinRemaining \in Nat /\ w \in Nat /\ w <= FullWeight
    BY FillAssumption, TierAssumption
  <1>1. PICK k : k = 100 - f /\ k \in Nat /\ k <= 100
    OBVIOUS
  <1>2. PICK x : x = w * k /\ x \in Nat
    BY <1>0, <1>1
  <1>3. k * w <= 100 * w
    BY <1>0, <1>1, Scaled
  <1>4. x <= 100 * w
    BY <1>0, <1>1, <1>2, <1>3
  <1>5. x \div 100 \in 0 .. w
    BY <1>0, <1>2, <1>4
  <1>6. Remaining(w, f) \in {0, x \div 100}
    BY <1>1, <1>2 DEF Remaining
  <1> QED
    BY <1>0, <1>5, <1>6

\* An exit keeps the entry of what it leaves, and nothing of the rest.
LEMMA ExitStep ==
    ASSUME NEW t, Sound(t), NEW fraction \in 0 .. 100
    PROVE  Sound(AfterExit(t, fraction)) /\ SameEntry(t, AfterExit(t, fraction))
  <1>1. CASE t.weight = 0
    BY <1>1 DEF AfterExit, SameEntry
  <1>2. CASE t.weight # 0 /\ Remaining(t.weight, fraction) = 0
    <2>1. AfterExit(t, fraction) = Untracked
      BY <1>2 DEF AfterExit
    <2>2. Untracked.entry = 0 /\ Untracked.weight = 0
      BY DEF Untracked
    <2> QED
      BY <2>1, <2>2, UntrackedIsSound DEF SameEntry
  <1>3. CASE t.weight # 0 /\ Remaining(t.weight, fraction) # 0
    <2> DEFINE u == Tracked(Remaining(t.weight, fraction), t.entry, t.peak, t.loss, t.gain)
    <2>1. AfterExit(t, fraction) = u
      BY <1>3 DEF AfterExit
    <2>2. Remaining(t.weight, fraction) \in 0 .. FullWeight
      BY SoundHas, RemainingIsLess
    <2>3. Sound(u)
      BY <2>2, SoundHas, SoundIf
    <2>4. u.entry = t.entry
      BY DEF Tracked
    <2> QED
      BY <1>3, <2>1, <2>3, <2>4 DEF SameEntry
  <1> QED
    BY <1>1, <1>2, <1>3

\* The fractions of the tiers are hundredths.
LEMMA FractionType ==
    /\ \A i \in DOMAIN LossTiers : LossTiers[i].fraction \in 0 .. 100
    /\ \A i \in DOMAIN GainTiers : GainTiers[i].fraction \in 0 .. 100
  <1> DEFINE T == [threshold : Int, fraction : 1 .. 100]
  <1>1. \A t \in T : t.fraction \in 0 .. 100
    OBVIOUS
  <1>2. LossTiers \in Seq(T) /\ GainTiers \in Seq(T)
    BY TierAssumption
  <1> HIDE DEF T
  <1>3. /\ \A i \in DOMAIN LossTiers : LossTiers[i] \in T
        /\ \A i \in DOMAIN GainTiers : GainTiers[i] \in T
    BY <1>2
  <1> QED
    BY <1>1, <1>3

\* The policies of a day keep what the loop knows sound.
LEMMA StopStep ==
    ASSUME NEW p \in Nat, NEW t, Sound(t)
    PROVE  Sound(AfterPolicies(t, p)) /\ SameEntry(t, AfterPolicies(t, p))
  <1>1. Sound(Laddered(t, p)) /\ SameEntry(t, Laddered(t, p))
    BY LadderStep DEF SameEntry, Laddered, Tracked
  <1>2. Sound(AfterGlobalStop(t, p)) /\ SameEntry(t, AfterGlobalStop(t, p))
    <2>1. CASE t.weight = 0 \/ p = 0 \/ t.entry = 0
      BY <2>1 DEF AfterGlobalStop, SameEntry
    <2>2. CASE ~(t.weight = 0 \/ p = 0 \/ t.entry = 0)
      <3> DEFINE loss == LossFiring(StillFiredLoss(t.loss, p, t.entry), p, t.entry)
                 gain == GainFiring(StillFiredGain(t.gain, p, t.entry), p, t.entry)
                 lf == LossTiers[CHOOSE i \in loss : TRUE].fraction
                 gf == GainTiers[CHOOSE i \in gain : TRUE].fraction
                 stopped == IF loss = {} THEN Laddered(t, p) ELSE AfterExit(Laddered(t, p), lf)
      <3>1. AfterGlobalStop(t, p) = IF gain = {} THEN stopped ELSE AfterExit(stopped, gf)
        BY <2>2 DEF AfterGlobalStop
      <3>a. loss \subseteq DOMAIN LossTiers /\ gain \subseteq DOMAIN GainTiers
        BY DEF LossFiring, GainFiring
      <3>b. /\ loss # {} => (CHOOSE i \in loss : TRUE) \in loss
            /\ gain # {} => (CHOOSE i \in gain : TRUE) \in gain
        <4> HIDE DEF loss, gain
        <4> QED
          OBVIOUS
      <3>c. (loss # {} => lf \in 0 .. 100) /\ (gain # {} => gf \in 0 .. 100)
        <4> HIDE DEF loss, gain
        <4> QED
          BY <3>a, <3>b, FractionType
      <3> HIDE DEF loss, gain, lf, gf
      <3>2. Sound(stopped) /\ SameEntry(t, stopped)
        BY <1>1, <3>c, ExitStep DEF SameEntry
      <3> HIDE DEF stopped
      <3>3. gain # {} =>
               Sound(AfterExit(stopped, gf)) /\ SameEntry(stopped, AfterExit(stopped, gf))
        BY <3>2, <3>c, ExitStep
      <3> QED
        BY <3>1, <3>2, <3>3 DEF SameEntry
    <2> QED
      BY <2>1, <2>2
  <1> DEFINE s == AfterGlobalStop(t, p)
  <1> HIDE DEF s
  <1>3. Sound(s) /\ SameEntry(t, s)
    BY <1>2 DEF s
  <1>4. Sound(AfterExit(s, 100)) /\ SameEntry(s, AfterExit(s, 100))
    BY <1>3, ExitStep
  <1>5. AfterPolicies(t, p) \in {s, AfterExit(s, 100)}
    BY DEF AfterPolicies, AfterTrailingStop, s
  <1> QED
    BY <1>3, <1>4, <1>5 DEF SameEntry

\* A day of one asset: what stays committed and had a price has an entry, old
\* or of today.
LEMMA DayOfAsset ==
    ASSUME NEW p \in Nat, NEW t, Sound(t)
    PROVE  LET u == AfterPolicies(Priced(t, p), p)
           IN  /\ Sound(u)
               /\ u.weight # 0 /\ p > 0 => u.entry > 0
               /\ u.entry \in {0, t.entry, p}
  <1> DEFINE r == Priced(t, p)
             e == IF t.entry = 0 THEN p ELSE t.entry
             k == IF p > t.peak THEN p ELSE t.peak
  <1>0. /\ t.weight \in 0 .. FullWeight
        /\ t.entry \in Nat /\ t.peak \in Nat /\ t.entry <= t.peak
        /\ t.loss \subseteq DOMAIN LossTiers /\ t.gain \subseteq DOMAIN GainTiers
        /\ Shallowest(t.loss) /\ Shallowest(t.gain)
    BY SoundHas
  <1>1. Sound(r) /\ (r.weight # 0 /\ p > 0 => r.entry > 0) /\ r.entry \in {t.entry, p}
    <2>1. CASE t.weight = 0 \/ p = 0
      <3>1. r = t
        BY <2>1 DEF Priced
      <3> HIDE DEF r
      <3> QED
        BY <1>0, <2>1, <3>1
    <2>2. CASE ~(t.weight = 0 \/ p = 0)
      <3>1. r = Tracked(t.weight, e, k, t.loss, t.gain)
        BY <2>2 DEF Priced
      <3>2. e \in Nat /\ k \in Nat /\ e <= k /\ e > 0 /\ e \in {t.entry, p}
        BY <1>0, <2>2
      <3> HIDE DEF e, k, r
      <3>3. Sound(r)
        BY <1>0, <3>1, <3>2, SoundIf
      <3>4. r.entry = e
        BY <3>1 DEF Tracked
      <3> QED
        BY <3>2, <3>3, <3>4
    <2> QED
      BY <2>1, <2>2
  <1> HIDE DEF r
  <1>3. Sound(AfterPolicies(r, p)) /\ SameEntry(r, AfterPolicies(r, p))
    BY <1>1, StopStep
  <1> QED
    BY <1>1, <1>3 DEF SameEntry, r

\* The loop has not reached today's closes: what comes is not known yet.
FutureIsUnknown ==
    phase = "plan" => \A d \in TradingDays, a \in AssetSet : d >= day => close[d][a] = 0

LoopTypes ==
    /\ day \in TradingDays
    /\ close \in [TradingDays -> [AssetSet -> Nat]]

\* The types of what the loop plans.
PlanTypes ==
    /\ phase \in {"plan", "simulate", "done", "failed"}
    /\ close \in [TradingDays -> [AssetSet -> Closes \cup {0}]]
    /\ tracked \in [AssetSet -> Tracks]
    /\ cooldown \subseteq AssetSet
    /\ pending \in [AssetSet -> NoTarget .. FullWeight]
    /\ plan \in [TradingDays -> [AssetSet -> NoTarget .. FullWeight]]
    /\ exits \subseteq [day : TradingDays, asset : AssetSet, left : 0 .. FullWeight]

VectorInv ==
    /\ LoopTypes
    /\ PlanTypes
    /\ \A a \in AssetSet : Sound(tracked[a])
    /\ FutureIsUnknown
    /\ CommittedIsProtected

\* The calendar has days.
LEMMA DayFacts == TradingDays = 1 .. Len(Weekday) /\ Len(Weekday) \in Nat \ {0}
  <1>1. Weekday \in Seq(0 .. 6) /\ Len(Weekday) > 0
    BY VectorAssumption
  <1>2. DOMAIN Weekday = 1 .. Len(Weekday) /\ Len(Weekday) \in Nat
    BY <1>1
  <1> QED
    BY <1>1, <1>2 DEF TradingDays

\* No target, no weight and the full weight are targets.
LEMMA TargetFacts ==
    /\ FullWeight \in Nat \ {0}
    /\ NoTarget = -1 /\ NoTarget \in NoTarget .. FullWeight
    /\ 0 .. FullWeight \subseteq NoTarget .. FullWeight
    /\ NoTargets \in [AssetSet -> NoTarget .. FullWeight]
  <1>1. FullWeight \in Nat \ {0}
    BY FillAssumption
  <1>2. NoTarget = -1 /\ NoTarget \in NoTarget .. FullWeight
        /\ 0 .. FullWeight \subseteq NoTarget .. FullWeight
    BY <1>1 DEF NoTarget
  <1> QED
    BY <1>1, <1>2 DEF NoTargets

\* Nothing is known before the first day.
LEMMA VectorInvInit == VectorInit => VectorInv
  <1> SUFFICES ASSUME VectorInit
               PROVE  VectorInv
    OBVIOUS
  <1>1. LoopTypes /\ FutureIsUnknown
    BY DayFacts DEF LoopTypes, FutureIsUnknown, VectorInit
  <1>2. \A a \in AssetSet : tracked[a] = Untracked
    BY DEF VectorInit
  <1>3. CommittedIsProtected
    BY <1>2 DEF CommittedIsProtected, Untracked
  <1>4. Untracked \in Tracks
    BY UntrackedIsSound DEF Sound
  <1>5. PlanTypes
    BY <1>4, TargetFacts DEF PlanTypes, VectorInit
  <1> QED
    BY <1>1, <1>2, <1>3, <1>5, UntrackedIsSound DEF VectorInv

\* The rest of a day, from an opening that keeps the entries.
LEMMA EndOfDayStep ==
    ASSUME VectorInv, phase = "plan",
           NEW prices \in [AssetSet -> Nat], NEW open, NEW cooling \in SUBSET AssetSet,
           NEW waiting \in [AssetSet -> NoTarget .. FullWeight],
           NEW weights \in [AssetSet -> NoTarget .. FullWeight],
           prices \in [AssetSet -> Closes],
           \A a \in AssetSet : Sound(open[a]) /\ open[a].entry = tracked[a].entry,
           EndOfDay(prices, open, cooling, waiting, weights)
    PROVE  VectorInv'
  <1> DEFINE closing == [a \in AssetSet |-> AfterPolicies(Priced(open[a], prices[a]), prices[a])]
  <1>1. /\ tracked' = closing
        /\ close' = [close EXCEPT ![day] = prices]
        /\ \/ phase' = phase /\ day' = day + 1 /\ day < Len(Weekday)
           \/ phase' \in {"failed", "simulate"} /\ day' = 1
    BY DEF EndOfDay
  <1>2. \A a \in AssetSet :
           /\ Sound(closing[a])
           /\ closing[a].weight # 0 /\ prices[a] > 0 => closing[a].entry > 0
           /\ closing[a].entry \in {0, tracked[a].entry, prices[a]}
    BY DayOfAsset
  <1>a. PlanTypes'
    <2> DEFINE exited == {a \in AssetSet : closing[a].weight # open[a].weight}
               left == [a \in AssetSet |->
                           IF a \in exited THEN closing[a].weight ELSE waiting[a]]
               tomorrow == [a \in AssetSet |->
                               IF weights[a] # NoTarget THEN weights[a] ELSE left[a]]
               today == [a \in AssetSet |->
                            IF a \in exited THEN closing[a].weight ELSE plan[day][a]]
               gone == {[day |-> day, asset |-> a, left |-> closing[a].weight] : a \in exited}
    <2>1. /\ cooldown' = cooling \cup {a \in exited : closing[a].weight = 0}
          /\ pending' = left
          /\ exits' = exits \cup gone
      BY DEF EndOfDay
    <2>2. plan' = [d \in TradingDays |->
                      IF d = day THEN today ELSE IF d = day + 1 THEN tomorrow ELSE plan[d]]
      BY DEF EndOfDay
    <2>3. /\ \A a \in AssetSet : closing[a] \in Tracks /\ closing[a].weight \in 0 .. FullWeight
          /\ closing = [a \in AssetSet |-> closing[a]]
      <3>1. \A a \in AssetSet : Sound(closing[a])
        BY <1>2
      <3>2. closing = [a \in AssetSet |-> closing[a]]
        OBVIOUS
      <3> HIDE DEF closing
      <3>3. \A a \in AssetSet : closing[a] \in Tracks /\ closing[a].weight \in 0 .. FullWeight
        BY <3>1, SoundHas DEF Sound
      <3> QED
        BY <3>2, <3>3
    <2> HIDE DEF closing
    <2>4. /\ plan \in [TradingDays -> [AssetSet -> NoTarget .. FullWeight]]
          /\ day \in TradingDays /\ day \in Int
          /\ exits \subseteq [day : TradingDays, asset : AssetSet, left : 0 .. FullWeight]
          /\ close \in [TradingDays -> [AssetSet -> Closes \cup {0}]]
      BY DayFacts DEF VectorInv, PlanTypes, LoopTypes
    <2>5. exited \subseteq AssetSet
      OBVIOUS
    <2>6. gone \subseteq [day : TradingDays, asset : AssetSet, left : 0 .. FullWeight]
      <3> HIDE DEF exited
      <3> QED
        BY <2>3, <2>4, <2>5
    <2>7. left \in [AssetSet -> NoTarget .. FullWeight]
      <3> HIDE DEF exited
      <3> QED
        BY <2>3, TargetFacts
    <2>8. today \in [AssetSet -> NoTarget .. FullWeight]
      <3> HIDE DEF exited
      <3>1. plan[day] \in [AssetSet -> NoTarget .. FullWeight]
        BY <2>4
      <3> QED
        BY <2>3, <3>1, TargetFacts
    <2> HIDE DEF left, today, gone
    <2>9. tomorrow \in [AssetSet -> NoTarget .. FullWeight]
      BY <2>7
    <2> HIDE DEF tomorrow, exited
    <2>10. plan' \in [TradingDays -> [AssetSet -> NoTarget .. FullWeight]]
      <3>1. \A d \in TradingDays : d = day => d # day + 1
        BY <2>4
      <3> QED
        BY <2>2, <2>4, <2>8, <2>9, <3>1
    <2>11. tracked' \in [AssetSet -> Tracks]
      BY <1>1, <2>3
    <2>12. close' \in [TradingDays -> [AssetSet -> Closes \cup {0}]]
      <3>1. prices \in [AssetSet -> Closes \cup {0}]
        OBVIOUS
      <3> QED
        BY <1>1, <2>4, <3>1
    <2>13. cooldown' \subseteq AssetSet
      BY <2>1, <2>5
    <2> QED
      BY <1>1, <2>1, <2>4, <2>6, <2>7, <2>10, <2>11, <2>12, <2>13 DEF PlanTypes
  <1> HIDE DEF closing
  <1>3. LoopTypes'
    BY <1>1, DayFacts DEF VectorInv, LoopTypes
  <1>4. FutureIsUnknown'
    BY <1>1, DayFacts DEF VectorInv, LoopTypes, FutureIsUnknown
  <1>5. CommittedIsProtected'
    <2> SUFFICES ASSUME NEW a \in AssetSet
                 PROVE  /\ tracked'[a].weight > 0 /\ phase' = "plan" /\ day' > 1
                              /\ close'[day' - 1][a] > 0 => tracked'[a].entry > 0
                        /\ tracked'[a].entry <= tracked'[a].peak
                        /\ tracked'[a].entry > 0 =>
                              \E d \in TradingDays : close'[d][a] = tracked'[a].entry
      BY DEF CommittedIsProtected
    <2>1. tracked'[a] = closing[a]
      BY <1>1
    <2>2. closing[a].entry <= closing[a].peak
      BY <1>2 DEF Sound
    <2>3. phase' = "plan" => close'[day' - 1][a] = prices[a]
      BY <1>1, DayFacts DEF VectorInv, LoopTypes
    <2>4. closing[a].weight > 0 => closing[a].weight # 0
      OBVIOUS
    <2>5. closing[a].entry > 0 => \E d \in TradingDays : close'[d][a] = closing[a].entry
      <3>1. CASE closing[a].entry = prices[a]
        BY <1>1, <3>1 DEF VectorInv, LoopTypes
      <3>2. CASE closing[a].entry = tracked[a].entry /\ closing[a].entry > 0
        <4>1. PICK d \in TradingDays : close[d][a] = tracked[a].entry
          BY <3>2 DEF VectorInv, CommittedIsProtected
        <4>2. d # day
          BY <3>2, <4>1, DayFacts DEF VectorInv, LoopTypes, FutureIsUnknown
        <4> QED
          BY <1>1, <3>2, <4>1, <4>2 DEF VectorInv, LoopTypes
      <3> QED
        BY <1>2, <3>1, <3>2
    <2> QED
      BY <1>2, <2>1, <2>2, <2>3, <2>4, <2>5
  <1>6. \A a \in AssetSet : Sound(tracked'[a])
    BY <1>1, <1>2
  <1> QED
    BY <1>a, <1>3, <1>4, <1>5, <1>6 DEF VectorInv

\* A quotient times its divisor is no more than what was divided.
LEMMA QuotientBelow ==
    ASSUME NEW x \in Nat, NEW d \in Nat \ {0}
    PROVE  x \div d \in Nat /\ (x \div d) * d <= x /\ x \div d <= x
  <1>1. PICK q : q = x \div d /\ q \in Nat
    OBVIOUS
  <1>2. x = d * q + (x % d) /\ x % d \in Nat
    BY <1>1
  <1>3. d * q \in Nat /\ d * q <= x
    BY <1>1, <1>2
  <1>4. q <= d * q
    <2>1. 1 * q <= d * q
      BY <1>1, Scaled
    <2> QED
      BY <1>1, <2>1
  <1> QED
    BY <1>1, <1>3, <1>4

\* The assets are finitely many.
LEMMA AssetsAreFinite == IsFiniteSet(AssetSet)
  <1>1. PICK n \in Nat : DOMAIN Assets = 1 .. n
    <2>1. Assets \in Seq(AssetSet)
      BY FillAssumption
    <2> QED
      BY <2>1
  <1>2. AssetSet = {Assets[i] : i \in 1 .. n}
    BY <1>1 DEF AssetSet, ToSet
  <1> DEFINE f == [i \in 1 .. n |-> Assets[i]]
  <1>3. f \in [1 .. n -> AssetSet] /\ \A a \in AssetSet : \E i \in 1 .. n : f[i] = a
    BY <1>2
  <1> HIDE DEF f
  <1>4. f \in Surjection(1 .. n, AssetSet)
    BY <1>3 DEF Surjection
  <1>5. IsFiniteSet(1 .. n)
    BY FS_Interval
  <1> QED
    BY <1>4, <1>5, FS_Surjection

\* The weights of a rebalance are parts of the whole: an equal part, rounded
\* down to lots and to what the gate approves.
LEMMA RiskCheckedType ==
    ASSUME NEW active \in SUBSET AssetSet, NEW prices \in [AssetSet -> Nat], NEW granted,
           \A a \in DOMAIN granted : granted[a] \in Nat
    PROVE  RiskChecked(EqualWeights(active), prices, granted) \in [AssetSet -> 0 .. FullWeight]
  <1> DEFINE w == EqualWeights(active)
             r == RiskChecked(w, prices, granted)
  <1>0. FullWeight \in Nat /\ LotSize \in Nat \ {0}
    BY FillAssumption
  <1>1. ASSUME NEW a \in AssetSet
        PROVE  w[a] \in 0 .. FullWeight
    <2>1. CASE a \notin active
      BY <1>0, <2>1 DEF EqualWeights
    <2>2. CASE a \in active
      <3>1. IsFiniteSet(active)
        BY AssetsAreFinite, FS_Subset
      <3>2. PICK n : n = Cardinality(active) /\ n \in Nat /\ n # 0
        <4>1. Cardinality(active) \in Nat
          BY <3>1, FS_CardinalityType
        <4>2. Cardinality(active) # 0
          BY <2>2, <3>1, FS_EmptySet
        <4> QED
          BY <4>1, <4>2
      <3>3. w[a] = FullWeight \div n
        BY <2>2, <3>2 DEF EqualWeights
      <3>4. FullWeight \div n \in Nat /\ FullWeight \div n <= FullWeight
        BY <1>0, <3>2, QuotientBelow
      <3> QED
        BY <1>0, <3>3, <3>4
    <2> QED
      BY <2>1, <2>2
  <1> HIDE DEF w
  <1>2. ASSUME NEW a \in AssetSet
        PROVE  r[a] \in 0 .. FullWeight
    <2>1. CASE a \notin DOMAIN granted \/ prices[a] = 0
      BY <1>0, <2>1 DEF RiskChecked
    <2>2. CASE ~ (a \notin DOMAIN granted \/ prices[a] = 0)
      <3>1. PICK p : p = prices[a] /\ p \in Nat \ {0}
        BY <2>2
      <3>2. PICK v : v = w[a] /\ v \in Nat /\ v <= FullWeight
        BY <1>0, <1>1
      <3>3. PICK q : q = v \div p /\ q \in Nat /\ q * p <= v
        BY <3>1, <3>2, QuotientBelow
      <3>4. PICK l : l = RoundLot(q) /\ l \in Nat /\ l <= q
        <4>1. PICK k : k = q \div LotSize /\ k \in Nat /\ k * LotSize <= q
          BY <1>0, <3>3, QuotientBelow
        <4>2. k * LotSize \in Nat
          BY <1>0, <4>1
        <4> QED
          BY <4>1, <4>2 DEF RoundLot
      <3>7. PICK c : c = Clipped(l, granted[a]) /\ c \in Nat /\ c <= l
        BY <2>2, <3>4 DEF Clipped
      <3>8. c <= q
        BY <3>3, <3>4, <3>7
      <3>5. c * p <= q * p /\ c * p \in Nat /\ q * p \in Nat
        BY <3>1, <3>3, <3>7, <3>8, Scaled
      <3>6. r[a] = c * p
        BY <2>2, <3>1, <3>2, <3>3, <3>4, <3>7 DEF RiskChecked
      <3> QED
        BY <1>0, <3>2, <3>3, <3>5, <3>6
    <2> QED
      BY <2>1, <2>2
  <1>3. r = [a \in AssetSet |-> r[a]]
    BY DEF RiskChecked
  <1> HIDE DEF r
  <1>4. r \in [AssetSet -> 0 .. FullWeight]
    BY <1>2, <1>3
  <1> QED
    BY <1>4 DEF r, w

\* VectorInv is kept by every step.
LEMMA VectorInvStep ==
    ASSUME VectorInv, [VectorNext]_vectorVars
    PROVE  VectorInv'
  <1>a. \A prices \in Quotes : prices \in [AssetSet -> Nat] /\ prices \in [AssetSet -> Closes]
    BY VectorAssumption DEF Quotes
  <1>b. /\ \A a \in AssetSet : Sound(tracked[a])
        /\ cooldown \in SUBSET AssetSet
        /\ pending \in [AssetSet -> NoTarget .. FullWeight]
    BY DEF VectorInv, PlanTypes
  <1>1. ASSUME NEW prices \in Quotes, HoldDay(prices)
        PROVE  VectorInv'
    <2>1. phase = "plan" /\ EndOfDay(prices, tracked, cooldown, pending, NoTargets)
      BY <1>1 DEF HoldDay
    <2> QED
      BY <1>a, <1>b, <2>1, EndOfDayStep, TargetFacts
  <1>2. ASSUME NEW prices \in Quotes, NEW rows \in SUBSET AssetSet,
               RebalanceWithoutSignals(prices, rows)
        PROVE  VectorInv'
    <2>1. phase = "plan" /\ EndOfDay(prices, tracked, cooldown, pending, NoTargets)
      BY <1>2 DEF RebalanceWithoutSignals
    <2> QED
      BY <1>a, <1>b, <2>1, EndOfDayStep, TargetFacts
  <1>3. ASSUME NEW prices \in Quotes, NEW rows \in SUBSET AssetSet,
               NEW active \in SUBSET rows, NEW granted \in [active -> Grants],
               Rebalance(prices, rows, active, granted)
        PROVE  VectorInv'
    <2> DEFINE w == RiskChecked(EqualWeights(active \ cooldown), prices, granted)
               kept(a) == IF \A b \in AssetSet : w[b] = 0 THEN tracked[a].weight ELSE w[a]
               open == [a \in AssetSet |->
                           Tracked(kept(a), tracked[a].entry, tracked[a].peak, {}, {})]
    <2>1. phase = "plan" /\ EndOfDay(prices, open, {}, NoTargets, Positive(w))
      BY <1>3 DEF Rebalance
    <2>2. w \in [AssetSet -> 0 .. FullWeight]
      <3>1. \A a \in DOMAIN granted : granted[a] \in Nat
        BY VectorAssumption
      <3>2. active \ cooldown \in SUBSET AssetSet
        OBVIOUS
      <3> QED
        BY <1>a, <3>1, <3>2, RiskCheckedType
    <2> HIDE DEF w
    <2>3. Positive(w) \in [AssetSet -> NoTarget .. FullWeight]
      BY <2>2, TargetFacts DEF Positive
    <2>4. ASSUME NEW a \in AssetSet
          PROVE  Sound(open[a]) /\ open[a].entry = tracked[a].entry
      <3>1. kept(a) \in 0 .. FullWeight
        BY <1>b, <2>2, SoundHas
      <3> HIDE DEF kept
      <3>2. open[a] = Tracked(kept(a), tracked[a].entry, tracked[a].peak, {}, {})
        OBVIOUS
      <3>3. Shallowest({})
        BY DEF Shallowest
      <3>4. tracked[a].entry \in Nat /\ tracked[a].peak \in Nat
            /\ tracked[a].entry <= tracked[a].peak
        BY <1>b, SoundHas
      <3>5. Sound(open[a])
        BY <3>1, <3>2, <3>3, <3>4, SoundIf
      <3> QED
        BY <3>2, <3>5 DEF Tracked
    <2> HIDE DEF open
    <2> QED
      BY <1>a, <2>1, <2>3, <2>4, EndOfDayStep, TargetFacts
  <1>4. CASE SimulateDay
    <2>1. UNCHANGED <<close, tracked, cooldown, pending, plan, exits>>
          /\ phase = "simulate" /\ phase' \in {"simulate", "done"} /\ day' \in TradingDays
      BY <1>4, DayFacts DEF SimulateDay, VectorInv, LoopTypes
    <2>2. PlanTypes'
      BY <2>1 DEF VectorInv, PlanTypes
    <2>3. \A a \in AssetSet : Sound(tracked[a])'
      BY <2>1 DEF VectorInv, Sound
    <2> QED
      BY <2>1, <2>2, <2>3 DEF VectorInv, LoopTypes, FutureIsUnknown, CommittedIsProtected
  <1>5. CASE UNCHANGED vectorVars
    <2>1. \A a \in AssetSet : Sound(tracked[a])'
      BY <1>5 DEF vectorVars, VectorInv, Sound
    <2> QED
      BY <1>5, <2>1
      DEF vectorVars, VectorInv, PlanTypes, LoopTypes, FutureIsUnknown, CommittedIsProtected
  <1> QED
    BY <1>1, <1>2, <1>3, <1>4, <1>5 DEF VectorNext

\* The books of the policies are sound in every reachable state.
THEOREM VectorInvariant == VectorSpec => []VectorInv
  <1>1. VectorInit => VectorInv
    BY VectorInvInit
  <1>2. VectorInv /\ [VectorNext]_vectorVars => VectorInv'
    BY VectorInvStep
  <1> QED
    BY <1>1, <1>2, PTL DEF VectorSpec

\* LadderIsPrefix: whatever the closes, the policies fire the tiers of either
\* ladder from the shallowest on.  It is how the loop works, and why the comment
\* above it, of which DeepestTierFires is the statement, is not met.
THEOREM LaddersInOrder == VectorSpec => []LadderIsPrefix
  <1>1. VectorInv => LadderIsPrefix
    BY DEF VectorInv, Sound, Shallowest, LadderIsPrefix
  <1> QED
    BY <1>1, VectorInvariant, PTL

\* CommittedIsProtected: a committed asset has an entry price, which is one of
\* its closes, and a peak not below it.
THEOREM CommittedHasEntry == VectorSpec => []CommittedIsProtected
  <1>1. VectorInv => CommittedIsProtected
    BY DEF VectorInv
  <1> QED
    BY <1>1, VectorInvariant, PTL
-----------------------------------------------------------------------------
(***************************************************************************)
(* Stops: what the loop plans for an asset after its full exit.            *)
(***************************************************************************)

\* Of a full exit outside of a rebalance: until the next rebalance the plan of
\* every day sells, the asset is not committed and cools down, so that this
\* rebalance plans nothing for it either.
StopKept(e) ==
    LET a == e.asset
    IN  /\ phase = "plan" => e.day < day
        /\ \A d \in TradingDays :
              InForce(e, d) /\ (phase = "plan" => d <= day) => plan[d][a] = 0
        /\ \A d \in TradingDays :
              InForce(e, d - 1) /\ ~IsRebalance(d) /\ (phase = "plan" => d <= day)
                 => plan[d][a] \in {0, NoTarget}
        /\ phase = "plan" /\ InForce(e, day) =>
              tracked[a].weight = 0 /\ pending[a] = 0 /\ a \in cooldown
        /\ phase = "plan" /\ InForce(e, day - 1) => tracked[a].weight = 0

StopInv == \A e \in exits : e.left = 0 /\ ~IsRebalance(e.day) => StopKept(e)

\* A stop in force was so the day before, and that was no rebalance.
LEMMA InForceBefore ==
    ASSUME NEW e, NEW d \in Int, e.day \in Int, InForce(e, d + 1), e.day <= d
    PROVE  InForce(e, d) /\ ~IsRebalance(d)
  <1>1. ~IsRebalance(e.day) /\ \A f \in e.day + 1 .. (d + 1) - 1 : ~IsRebalance(f)
    BY DEF InForce
  <1>2. d = e.day \/ d \in e.day + 1 .. (d + 1) - 1
    OBVIOUS
  <1>3. \A f \in e.day + 1 .. d - 1 : f \in e.day + 1 .. (d + 1) - 1
    OBVIOUS
  <1> QED
    BY <1>1, <1>2, <1>3 DEF InForce

\* The policies leave alone what is not committed.
LEMMA IdleStays ==
    ASSUME NEW t, NEW p, t.weight = 0
    PROVE  AfterPolicies(Priced(t, p), p) = t
  <1>1. Priced(t, p) = t
    BY DEF Priced
  <1>2. AfterGlobalStop(t, p) = t
    BY DEF AfterGlobalStop
  <1>3. AfterTrailingStop(t, p) = t
    <2>1. ~ (t.weight > 0)
      OBVIOUS
    <2> QED
      BY <2>1 DEF AfterTrailingStop
  <1> QED
    BY <1>1, <1>2, <1>3 DEF AfterPolicies

\* A day of the loop, asset by asset.
DayIs(prices, open, cooling, waiting, weights, closing) ==
    /\ \A a \in AssetSet :
          /\ closing[a] = AfterPolicies(Priced(open[a], prices[a]), prices[a])
          /\ tracked'[a] = closing[a]
          /\ closing[a].weight = open[a].weight =>
                plan'[day][a] = plan[day][a] /\ pending'[a] = waiting[a]
          /\ closing[a].weight # open[a].weight =>
                /\ plan'[day][a] = closing[a].weight
                /\ pending'[a] = closing[a].weight
                /\ closing[a].weight = 0 => a \in cooldown'
          /\ day + 1 \in TradingDays =>
                plan'[day + 1][a] =
                    IF weights[a] # NoTarget THEN weights[a] ELSE pending'[a]
    /\ \A d \in TradingDays : d # day /\ d # day + 1 => plan'[d] = plan[d]
    /\ cooling \subseteq cooldown'
    /\ \A e \in exits' : e \in exits \/ \E a \in AssetSet :
          /\ e = [day |-> day, asset |-> a, left |-> closing[a].weight]
          /\ closing[a].weight # open[a].weight
    /\ \/ phase' = "plan" /\ day' = day + 1 /\ day < Len(Weekday)
       \/ phase' # "plan" /\ day = Len(Weekday)

\* The end of a day of the loop, in the terms of the proofs.
LEMMA DayOfLoop ==
    ASSUME VectorInv, phase = "plan",
           NEW prices, NEW open, NEW cooling, NEW waiting, NEW weights,
           EndOfDay(prices, open, cooling, waiting, weights)
    PROVE  \E closing : DayIs(prices, open, cooling, waiting, weights, closing)
  <1> DEFINE closing == [a \in AssetSet |-> AfterPolicies(Priced(open[a], prices[a]), prices[a])]
             exited == {a \in AssetSet : closing[a].weight # open[a].weight}
             left == [a \in AssetSet |-> IF a \in exited THEN closing[a].weight ELSE waiting[a]]
             tomorrow == [a \in AssetSet |->
                             IF weights[a] # NoTarget THEN weights[a] ELSE left[a]]
             today == [a \in AssetSet |->
                          IF a \in exited THEN closing[a].weight ELSE plan[day][a]]
             gone == {[day |-> day, asset |-> a, left |-> closing[a].weight] : a \in exited}
  <1>1. /\ tracked' = closing
        /\ cooldown' = cooling \cup {a \in exited : closing[a].weight = 0}
        /\ pending' = left
        /\ exits' = exits \cup gone
        /\ \/ phase' = phase /\ day' = day + 1 /\ day < Len(Weekday)
           \/ phase' \in {"failed", "simulate"} /\ ~ (day < Len(Weekday))
    BY DEF EndOfDay
  <1>2. plan' = [d \in TradingDays |->
                    IF d = day THEN today ELSE IF d = day + 1 THEN tomorrow ELSE plan[d]]
    BY DEF EndOfDay
  <1>3. \A a \in AssetSet :
           closing[a] = AfterPolicies(Priced(open[a], prices[a]), prices[a])
    OBVIOUS
  <1> HIDE DEF closing
  <1>4. day \in TradingDays /\ day \in Int /\ day # day + 1 /\ day <= Len(Weekday)
        /\ Len(Weekday) \in Int
    BY DayFacts DEF VectorInv, LoopTypes
  <1>5. \A a \in AssetSet : a \in exited <=> closing[a].weight # open[a].weight
    OBVIOUS
  <1>6. exited \subseteq AssetSet
    OBVIOUS
  <1> HIDE DEF exited
  <1>7. \A a \in AssetSet :
           /\ left[a] = IF a \in exited THEN closing[a].weight ELSE waiting[a]
           /\ today[a] = IF a \in exited THEN closing[a].weight ELSE plan[day][a]
           /\ tomorrow[a] = IF weights[a] # NoTarget THEN weights[a] ELSE left[a]
    OBVIOUS
  <1> HIDE DEF left, today, tomorrow
  <1>8. \A a \in AssetSet :
          /\ closing[a] = AfterPolicies(Priced(open[a], prices[a]), prices[a])
          /\ tracked'[a] = closing[a]
          /\ closing[a].weight = open[a].weight =>
                plan'[day][a] = plan[day][a] /\ pending'[a] = waiting[a]
          /\ closing[a].weight # open[a].weight =>
                /\ plan'[day][a] = closing[a].weight
                /\ pending'[a] = closing[a].weight
                /\ closing[a].weight = 0 => a \in cooldown'
          /\ day + 1 \in TradingDays =>
                plan'[day + 1][a] =
                    IF weights[a] # NoTarget THEN weights[a] ELSE pending'[a]
    BY <1>1, <1>2, <1>3, <1>4, <1>5, <1>7
  <1>9. \A d \in TradingDays : d # day /\ d # day + 1 => plan'[d] = plan[d]
    BY <1>2
  <1>10. \A e \in exits' : e \in exits \/ \E a \in AssetSet :
            /\ e = [day |-> day, asset |-> a, left |-> closing[a].weight]
            /\ closing[a].weight # open[a].weight
    BY <1>1, <1>5, <1>6
  <1>11. \/ phase' = "plan" /\ day' = day + 1 /\ day < Len(Weekday)
         \/ phase' # "plan" /\ day = Len(Weekday)
    BY <1>1, <1>4
  <1>12. DayIs(prices, open, cooling, waiting, weights, closing)
    BY <1>1, <1>8, <1>9, <1>10, <1>11 DEF DayIs
  <1> QED
    BY <1>12

\* A day of the loop keeps the stops: an asset that cools down is neither
\* committed nor planned for, and outside of a rebalance what waits is planned
\* again.
LEMMA StopDay ==
    ASSUME VectorInv, StopInv, phase = "plan",
           NEW prices, NEW open, NEW cooling, NEW waiting, NEW weights,
           EndOfDay(prices, open, cooling, waiting, weights),
           \A a \in AssetSet : tracked[a].weight = 0 /\ a \in cooldown =>
              open[a].weight = 0 /\ weights[a] = NoTarget,
           \A a \in AssetSet : waiting[a] \in {pending[a], NoTarget},
           ~IsRebalance(day) =>
              open = tracked /\ cooling = cooldown /\ waiting = pending /\ weights = NoTargets
    PROVE  StopInv'
  <1>0. /\ day \in TradingDays /\ day \in Int /\ TradingDays = 1 .. Len(Weekday)
        /\ Len(Weekday) \in Int
        /\ exits \subseteq [day : TradingDays, asset : AssetSet, left : 0 .. FullWeight]
    BY DayFacts DEF VectorInv, LoopTypes, PlanTypes
  <1>1. PICK closing : DayIs(prices, open, cooling, waiting, weights, closing)
    BY DayOfLoop
  <1>2. ASSUME NEW a \in AssetSet, open[a].weight = 0
        PROVE  /\ tracked'[a].weight = 0
               /\ plan'[day][a] = plan[day][a] /\ pending'[a] = waiting[a]
               /\ day + 1 \in TradingDays =>
                     plan'[day + 1][a] =
                         IF weights[a] # NoTarget THEN weights[a] ELSE waiting[a]
    <2>1. closing[a] = open[a]
      BY <1>1, <1>2, IdleStays DEF DayIs
    <2> QED
      BY <1>1, <1>2, <2>1 DEF DayIs
  <1>3. ASSUME NEW e \in exits, e.left = 0, ~IsRebalance(e.day)
        PROVE  StopKept(e)'
    <2> DEFINE a == e.asset
    <2>1. a \in AssetSet /\ e.day \in TradingDays /\ e.day \in Int
      BY <1>0
    <2>2. StopKept(e) /\ e.day < day
      BY <1>3 DEF StopInv, StopKept
    <2> HIDE DEF a
    <2>3. InForce(e, day) =>
             tracked[a].weight = 0 /\ pending[a] = 0 /\ a \in cooldown
      BY <2>2 DEF StopKept, a
    <2>4. InForce(e, day) =>
             /\ tracked'[a].weight = 0
             /\ plan'[day][a] = plan[day][a]
             /\ day + 1 \in TradingDays => plan'[day + 1][a] \in {0, NoTarget}
      BY <1>2, <2>1, <2>3
    <2>5. InForce(e, day - 1) /\ ~IsRebalance(day) => plan'[day][a] = plan[day][a]
      <3>1. InForce(e, day - 1) => tracked[a].weight = 0
        BY <2>2 DEF StopKept, a
      <3> QED
        BY <1>2, <2>1, <3>1
    <2>6. InForce(e, day + 1) =>
             /\ pending'[a] = 0 /\ a \in cooldown'
             /\ day + 1 \in TradingDays => plan'[day + 1][a] = 0
      <3> SUFFICES ASSUME InForce(e, day + 1)
                   PROVE  /\ pending'[a] = 0 /\ a \in cooldown'
                          /\ day + 1 \in TradingDays => plan'[day + 1][a] = 0
        OBVIOUS
      <3>1. InForce(e, day) /\ ~IsRebalance(day)
        BY <1>0, <2>1, <2>2, InForceBefore
      <3>2. open = tracked /\ cooling = cooldown /\ waiting = pending /\ weights[a] = NoTarget
        BY <2>1, <3>1 DEF NoTargets
      <3>3. cooling \subseteq cooldown'
        BY <1>1 DEF DayIs
      <3> QED
        BY <1>2, <2>1, <2>3, <3>1, <3>2, <3>3
    <2>7. /\ \A d \in TradingDays : d < day => plan'[d] = plan[d]
          /\ phase' = "plan" => day' = day + 1
          /\ phase' # "plan" => day = Len(Weekday)
      BY <1>0, <1>1 DEF DayIs
    <2>8. \A d \in TradingDays : (phase' = "plan" => d <= day') => d <= day \/ d = day + 1
      BY <1>0, <2>7
    <2>9. ASSUME NEW d \in TradingDays, InForce(e, d), phase' = "plan" => d <= day'
          PROVE  plan'[d][a] = 0
      <3>1. CASE d < day
        BY <1>0, <2>2, <2>7, <2>9, <3>1 DEF StopKept, a
      <3>2. CASE d = day
        BY <1>0, <2>2, <2>4, <2>9, <3>2 DEF StopKept, a
      <3>3. CASE d = day + 1
        BY <2>6, <2>9, <3>3
      <3> QED
        BY <1>0, <2>8, <2>9, <3>1, <3>2, <3>3
    <2>10. ASSUME NEW d \in TradingDays, InForce(e, d - 1), ~IsRebalance(d),
                  phase' = "plan" => d <= day'
           PROVE  plan'[d][a] \in {0, NoTarget}
      <3>1. CASE d < day
        BY <1>0, <2>2, <2>7, <2>10, <3>1 DEF StopKept, a
      <3>2. CASE d = day
        BY <1>0, <2>2, <2>5, <2>10, <3>2 DEF StopKept, a
      <3>3. CASE d = day + 1
        <4>1. d - 1 = day
          BY <1>0, <3>3
        <4> QED
          BY <2>4, <2>10, <3>3, <4>1
      <3> QED
        BY <1>0, <2>8, <2>10, <3>1, <3>2, <3>3
    <2>11. phase' = "plan" => e.day < day'
      BY <1>0, <2>1, <2>2, <2>7
    <2>12. phase' = "plan" /\ InForce(e, day') =>
              tracked'[a].weight = 0 /\ pending'[a] = 0 /\ a \in cooldown'
      <3>1. phase' = "plan" /\ InForce(e, day') => InForce(e, day + 1) /\ InForce(e, day)
        BY <1>0, <2>1, <2>2, <2>7, InForceBefore
      <3> QED
        BY <2>4, <2>6, <3>1
    <2>13. phase' = "plan" /\ InForce(e, day' - 1) => tracked'[a].weight = 0
      <3>1. phase' = "plan" => day' - 1 = day
        BY <1>0, <2>7
      <3> QED
        BY <2>4, <3>1
    <2> QED
      BY <2>9, <2>10, <2>11, <2>12, <2>13 DEF StopKept, InForce, a
  <1>4. ASSUME NEW a \in AssetSet, closing[a].weight = 0, closing[a].weight # open[a].weight,
               NEW e, e = [day |-> day, asset |-> a, left |-> closing[a].weight],
               ~IsRebalance(e.day)
        PROVE  StopKept(e)'
    <2>1. /\ e.day = day /\ e.asset = a /\ ~IsRebalance(day)
          /\ weights[a] = NoTarget
      BY <1>4 DEF NoTargets
    <2>2. /\ plan'[day][a] = 0 /\ pending'[a] = 0 /\ a \in cooldown' /\ tracked'[a].weight = 0
          /\ day + 1 \in TradingDays => plan'[day + 1][a] = 0
          /\ phase' = "plan" => day' = day + 1
          /\ phase' # "plan" => day = Len(Weekday)
      BY <1>1, <1>4, <2>1 DEF DayIs
    <2>3. \A d \in TradingDays : (phase' = "plan" => d <= day') => d <= day \/ d = day + 1
      BY <1>0, <2>2
    <2>4. \A d : InForce(e, d) => day <= d
      BY <2>1 DEF InForce
    <2>5. \A d \in TradingDays :
             InForce(e, d) /\ (phase' = "plan" => d <= day') => plan'[d][a] = 0
      BY <1>0, <2>2, <2>3, <2>4
    <2>6. \A d \in TradingDays :
             InForce(e, d - 1) /\ (phase' = "plan" => d <= day') => plan'[d][a] = 0
      <3>1. \A d \in TradingDays : InForce(e, d - 1) => day < d
        BY <1>0, <2>4
      <3> QED
        BY <1>0, <2>2, <2>3, <3>1
    <2>7. phase' = "plan" => e.day < day'
      BY <1>0, <2>1, <2>2
    <2> QED
      BY <2>1, <2>2, <2>5, <2>6, <2>7 DEF StopKept, InForce
  <1>5. ASSUME NEW e \in exits', e.left = 0, ~IsRebalance(e.day)
        PROVE  StopKept(e)'
    <2>1. CASE e \in exits
      BY <1>3, <1>5, <2>1
    <2>2. CASE \E a \in AssetSet :
                  /\ e = [day |-> day, asset |-> a, left |-> closing[a].weight]
                  /\ closing[a].weight # open[a].weight
      <3>1. PICK a \in AssetSet : /\ e = [day |-> day, asset |-> a, left |-> closing[a].weight]
                                  /\ closing[a].weight # open[a].weight
        BY <2>2
      <3>2. closing[a].weight = 0
        BY <1>5, <3>1
      <3> QED
        BY <1>4, <1>5, <3>1, <3>2
    <2> QED
      BY <1>1, <2>1, <2>2 DEF DayIs
  <1> QED
    BY <1>5 DEF StopInv, IsRebalance

\* Every step keeps the stops.
LEMMA StopInvStep ==
    ASSUME VectorInv, StopInv, [VectorNext]_vectorVars
    PROVE  StopInv'
  <1>a. \A a \in AssetSet : pending[a] \in {pending[a], NoTarget} /\ NoTargets[a] = NoTarget
    BY DEF NoTargets
  <1>1. ASSUME NEW prices \in Quotes, HoldDay(prices)
        PROVE  StopInv'
    <2>1. phase = "plan" /\ EndOfDay(prices, tracked, cooldown, pending, NoTargets)
      BY <1>1 DEF HoldDay
    <2> QED
      BY <1>a, <2>1, StopDay
  <1>2. ASSUME NEW prices \in Quotes, NEW rows \in SUBSET AssetSet,
               RebalanceWithoutSignals(prices, rows)
        PROVE  StopInv'
    <2>1. phase = "plan" /\ EndOfDay(prices, tracked, cooldown, pending, NoTargets)
      BY <1>2 DEF RebalanceWithoutSignals
    <2> QED
      BY <1>a, <2>1, StopDay
  <1>3. ASSUME NEW prices \in Quotes, NEW rows \in SUBSET AssetSet,
               NEW active \in SUBSET rows, NEW granted \in [active -> Grants],
               Rebalance(prices, rows, active, granted)
        PROVE  StopInv'
    <2> DEFINE w == RiskChecked(EqualWeights(active \ cooldown), prices, granted)
               kept(a) == IF \A b \in AssetSet : w[b] = 0 THEN tracked[a].weight ELSE w[a]
               open == [a \in AssetSet |->
                           Tracked(kept(a), tracked[a].entry, tracked[a].peak, {}, {})]
    <2>1. /\ phase = "plan" /\ EndOfDay(prices, open, {}, NoTargets, Positive(w))
          /\ IsRebalance(day)
      BY <1>3 DEF Rebalance
    <2>2. ASSUME NEW a \in AssetSet, a \in cooldown
          PROVE  w[a] = 0
      <3>1. EqualWeights(active \ cooldown)[a] = 0
        BY <2>2 DEF EqualWeights
      <3>3. prices[a] \in Nat /\ (a \in DOMAIN granted => granted[a] \in Nat)
        BY VectorAssumption DEF Quotes
      <3>4. \A p \in Nat \ {0}, g \in Nat : Clipped(RoundLot(0 \div p), g) = 0
        <4>1. LotSize \in Nat \ {0}
          BY FillAssumption
        <4>2. \A p \in Nat \ {0} : 0 \div p = 0
          OBVIOUS
        <4>3. 0 \div LotSize = 0 /\ 0 * LotSize = 0
          BY <4>1
        <4> QED
          BY <4>2, <4>3 DEF RoundLot, Clipped
      <3> QED
        BY <3>1, <3>3, <3>4 DEF RiskChecked
    <2> HIDE DEF w
    <2>3. \A a \in AssetSet : tracked[a].weight = 0 /\ a \in cooldown =>
             open[a].weight = 0 /\ Positive(w)[a] = NoTarget
      BY <2>2 DEF Tracked, Positive
    <2> HIDE DEF open
    <2> QED
      BY <1>a, <2>1, <2>3, StopDay
  <1>4. CASE SimulateDay
    BY <1>4 DEF SimulateDay, StopInv, StopKept, InForce, IsRebalance
  <1>5. CASE UNCHANGED vectorVars
    BY <1>5 DEF vectorVars, StopInv, StopKept, InForce, IsRebalance
  <1> QED
    BY <1>1, <1>2, <1>3, <1>4, <1>5 DEF VectorNext

-----------------------------------------------------------------------------
(***************************************************************************)
(* The simulator: what one order does to the book.                         *)
(***************************************************************************)

Lots == {k * LotSize : k \in Nat}

FillRow == [day : TradingDays, asset : AssetSet, qty : Int, price : Nat]

\* The book after day d: positions are whole lots, nothing was bought later.
Books(d) == [cash : Int, shares : [AssetSet -> Lots], bought : [AssetSet -> 0 .. d],
             fills : Seq(FillRow)]

\* A fill that cost more than a purchase leaves, or than a sale brings in.
Dear(f) == CostOf(f) > IF f.qty > 0 THEN Notional(f) \div 49 ELSE Notional(f)

Covered(b) == b.cash < 0 => \E i \in DOMAIN b.fills : Dear(b.fills[i])

Bars == [close : Nat, prev : Nat]

OrderSet(d) == [day : {d}, asset : AssetSet, weight : 0 .. FullWeight, nav : Int, bar : Bars]

\* The constants of the simulator.
LEMMA SimFacts ==
    /\ FullWeight \in Nat \ {0} /\ LotSize \in Nat \ {0} /\ MaxLots \in Nat
    /\ Lots \subseteq Nat /\ 0 \in Lots
  <1>1. FullWeight \in Nat \ {0} /\ LotSize \in Nat \ {0} /\ MaxLots \in Nat
    BY FillAssumption
  <1>2. \A k \in Nat : k * LotSize \in Nat
    BY <1>1
  <1>3. 0 = 0 * LotSize
    BY <1>1
  <1> QED
    BY <1>1, <1>2, <1>3 DEF Lots

\* A product divided by its factor.
LEMMA DivExact ==
    ASSUME NEW k \in Int, NEW y \in Nat \ {0}
    PROVE  (k * y) \div y = k
  <1>1. PICK x : x = k * y /\ x \in Int
    OBVIOUS
  <1>2. PICK q, r : q = x \div y /\ r = x % y
    OBVIOUS
  <1>3. q \in Int /\ r \in Int /\ x = y * q + r /\ 0 <= r /\ r < y
    BY <1>1, <1>2
  <1>4. PICK e : e = k - q /\ e \in Int
    BY <1>3
  <1>5. r = y * e
    BY <1>1, <1>3, <1>4
  <1>6. ~ (e >= 1)
    <2>1. e >= 1 => y * e >= y
      BY <1>4
    <2> QED
      BY <1>3, <1>5, <2>1
  <1>7. ~ (e <= -1)
    <2>1. e <= -1 => y * e <= -y
      BY <1>4
    <2> QED
      BY <1>3, <1>5, <2>1
  <1>8. e = 0
    BY <1>4, <1>6, <1>7
  <1> QED
    BY <1>1, <1>2, <1>3, <1>4, <1>8

\* Rounding to lots: no more than what was asked, and lots stay what they are.
LEMMA RoundLotFacts ==
    ASSUME NEW q \in Int
    PROVE  /\ RoundLot(q) \in Int /\ RoundLot(q) <= q
           /\ RoundLot(q) > 0 => RoundLot(q) \in Lots
           /\ q \in Lots => RoundLot(q) = q
  <1>0. LotSize \in Nat \ {0}
    BY SimFacts
  <1>1. PICK k : k = q \div LotSize /\ k \in Int
    BY <1>0
  <1>2. PICK x : x = k * LotSize /\ x \in Int
    BY <1>0, <1>1
  <1>3. x <= q
    <2>1. q = LotSize * k + (q % LotSize) /\ q % LotSize \in Nat
      BY <1>0, <1>1
    <2>2. LotSize * k = x
      BY <1>0, <1>1, <1>2
    <2> QED
      BY <1>2, <2>1, <2>2
  <1>4. RoundLot(q) = x
    BY <1>1, <1>2 DEF RoundLot
  <1>5. x > 0 => x \in Lots
    <2>1. k <= 0 => k * LotSize <= 0 * LotSize
      BY <1>0, <1>1, Scaled
    <2>2. x > 0 => k \in Nat
      BY <1>0, <1>1, <1>2, <2>1
    <2> QED
      BY <1>2, <2>2 DEF Lots
  <1>6. q \in Lots => x = q
    <2> SUFFICES ASSUME q \in Lots
                 PROVE  x = q
      OBVIOUS
    <2>1. PICK l \in Nat : q = l * LotSize
      BY DEF Lots
    <2>2. k = l
      BY <1>0, <1>1, <2>1, DivExact
    <2> QED
      BY <1>2, <2>1, <2>2
  <1> QED
    BY <1>2, <1>3, <1>4, <1>5, <1>6

\* The volume of a bar allows whole lots.
LEMMA WithinVolumeFacts ==
    ASSUME NEW q \in Int
    PROVE  /\ WithinVolume(q) \in Int /\ WithinVolume(q) <= q
           /\ q \in Lots => WithinVolume(q) \in Lots
           /\ WithinVolume(q) > 0 => q > 0
  <1>0. LotSize \in Nat \ {0} /\ MaxLots \in Nat /\ Lots \subseteq Nat
    BY SimFacts
  <1>1. PICK m : m = MaxLots * LotSize /\ m \in Nat /\ m \in Lots
    BY <1>0 DEF Lots
  <1>2. WithinVolume(q) = IF q <= m THEN q ELSE m
    BY <1>1 DEF WithinVolume, LeastOf
  <1> QED
    BY <1>0, <1>1, <1>2

\* The quantity to sell is part of what is held, in lots; without a target it
\* is all of it.
LEMMA SellLotsFacts ==
    ASSUME NEW held \in Lots, NEW w \in Nat, NEW nav \in Int, NEW price \in Nat \ {0}
    PROVE  /\ SellLots(held, w, nav, price) \in Int
           /\ SellLots(held, w, nav, price) <= held
           /\ SellLots(held, w, nav, price) > 0 => SellLots(held, w, nav, price) \in Lots
           /\ w = 0 => SellLots(held, w, nav, price) = held
  <1>0. held \in Nat /\ FullWeight \in Nat \ {0}
    BY SimFacts
  <1>1. PICK y : y = FullWeight * price /\ y \in Nat \ {0}
    BY <1>0
  <1>2. PICK x : x = held * price * FullWeight - w * nav /\ x \in Int
    BY <1>0
  <1>3. PICK z : z = x \div y /\ z \in Int
    BY <1>1, <1>2
  <1>4. SellLots(held, w, nav, price) = IF RoundLot(z) <= held THEN RoundLot(z) ELSE held
    BY <1>1, <1>2, <1>3 DEF SellLots, LeastOf
  <1>5. RoundLot(z) \in Int /\ (RoundLot(z) > 0 => RoundLot(z) \in Lots)
    BY <1>3, RoundLotFacts
  <1>6. w = 0 => RoundLot(z) = held
    <2> SUFFICES ASSUME w = 0
                 PROVE  RoundLot(z) = held
      OBVIOUS
    <2>1. w * nav = 0
      OBVIOUS
    <2>2. x = held * y
      BY <1>0, <1>1, <1>2, <2>1
    <2>3. z = held
      BY <1>0, <1>1, <1>3, <2>2, DivExact
    <2> QED
      BY <1>0, <2>3, RoundLotFacts
  <1> QED
    BY <1>0, <1>4, <1>5, <1>6

\* A quotient times its divisor is no more than what was divided, whatever
\* its sign.
LEMMA FloorBelow ==
    ASSUME NEW x \in Int, NEW y \in Nat \ {0}
    PROVE  (x \div y) * y <= x
  <1>1. PICK q, r : q = x \div y /\ r = x % y
    OBVIOUS
  <1>2. q \in Int /\ r \in Int /\ x = y * q + r /\ 0 <= r /\ r < y
    BY <1>1
  <1>3. q * y \in Int /\ q * y = y * q
    BY <1>2
  <1> QED
    BY <1>1, <1>2, <1>3

\* The quantity to buy is paid from 98% of the cash, in lots.
LEMMA BuyLotsFacts ==
    ASSUME NEW cash \in Int, NEW held \in Nat, NEW w \in Nat, NEW nav \in Int,
           NEW price \in Nat \ {0}
    PROVE  /\ BuyLots(cash, held, w, nav, price) \in Int
           /\ BuyLots(cash, held, w, nav, price) > 0 =>
                 BuyLots(cash, held, w, nav, price) \in Lots
           /\ 100 * (BuyLots(cash, held, w, nav, price) * price) <= 98 * cash
  <1>0. FullWeight \in Nat \ {0}
    BY SimFacts
  <1>1. PICK y : y = FullWeight * price /\ y \in Nat \ {0}
    BY <1>0
  <1>2. PICK x : x = w * nav - held * price * FullWeight /\ x \in Int
    BY <1>0
  <1>3. PICK z : z = x \div y /\ z \in Int
    BY <1>1, <1>2
  <1>4. PICK h : h = 100 * price /\ h \in Nat \ {0}
    OBVIOUS
  <1>5. PICK v : v = (98 * cash) \div h /\ v \in Int
    BY <1>4
  <1>6. v * h <= 98 * cash
    <2>1. PICK x98 : x98 = 98 * cash /\ x98 \in Int
      OBVIOUS
    <2> QED
      BY <1>4, <1>5, <2>1, FloorBelow
  <1>7. PICK l : l = LeastOf(z, v) /\ l \in Int /\ l <= v
    BY <1>3, <1>5 DEF LeastOf
  <1>8. BuyLots(cash, held, w, nav, price) = RoundLot(l)
    BY <1>1, <1>2, <1>3, <1>4, <1>5, <1>7 DEF BuyLots
  <1>9. PICK r : r = RoundLot(l) /\ r \in Int /\ r <= l /\ (r > 0 => r \in Lots)
    BY <1>7, RoundLotFacts
  <1>10. r <= v
    BY <1>5, <1>7, <1>9
  <1>11. r * h <= v * h
    BY <1>4, <1>5, <1>9, <1>10, Scaled
  <1>12. 100 * (r * price) = r * h /\ r * h \in Int /\ v * h \in Int
    BY <1>4, <1>5, <1>9
  <1> QED
    BY <1>6, <1>8, <1>9, <1>11, <1>12

\* The costs of a fill are an amount.
LEMMA FillCostType ==
    ASSUME NEW n \in Nat, NEW side
    PROVE  FillCost(n, side) \in Nat
  <1>1. ASSUME NEW d \in Nat \ {0}
        PROVE  Rounded(n, d) \in Nat
    BY DEF Rounded
  <1>2. TotalCost(n, side) \in Nat
    BY <1>1, CostAssumption DEF TotalCost, Commission, StampDuty, Slippage
  <1>3. VolumeSlippage(n) \in Nat
    BY <1>1 DEF VolumeSlippage
  <1> QED
    BY <1>2, <1>3 DEF FillCost

\* A trade, and the fill that records it.
LEMMA TradedStep ==
    ASSUME NEW d \in TradingDays, NEW c \in 0 .. d, NEW b \in Books(c), NEW a \in AssetSet,
           NEW q \in Int, NEW price \in Nat, b.shares[a] + q \in Lots
    PROVE  LET u == Traded(b, d, a, q, price)
               f == [day |-> d, asset |-> a, qty |-> q, price |-> price]
           IN  /\ u \in Books(IF q > 0 THEN d ELSE c)
               /\ \A x \in AssetSet :
                     u.shares[x] = IF x = a THEN b.shares[a] + q ELSE b.shares[x]
               /\ u.cash = b.cash - q * price - CostOf(f)
               /\ Covered(b) /\ (b.cash >= 0 /\ u.cash < 0 => Dear(f)) => Covered(u)
  <1> DEFINE u == Traded(b, d, a, q, price)
             f == [day |-> d, asset |-> a, qty |-> q, price |-> price]
             n == (IF q > 0 THEN q ELSE -q) * price
             side == IF q > 0 THEN "buy" ELSE "sell"
  <1>0. d \in Nat /\ c \in Nat /\ c <= d /\ d \in 0 .. d /\ 0 .. c \subseteq 0 .. d
    BY DayFacts
  <1>1. /\ b.cash \in Int /\ b.shares \in [AssetSet -> Lots]
        /\ b.bought \in [AssetSet -> 0 .. c] /\ b.fills \in Seq(FillRow)
    BY DEF Books
  <1>2. n \in Nat
    <2>1. PICK m : m = (IF q > 0 THEN q ELSE -q) /\ m \in Nat
      OBVIOUS
    <2>2. m * price \in Nat
      BY <2>1
    <2> QED
      BY <2>1, <2>2
  <1>3. FillCost(n, side) \in Nat
    BY <1>2, FillCostType
  <1>4. f \in FillRow
    BY DEF FillRow
  <1>5. CostOf(f) = FillCost(n, side)
    BY DEF CostOf, Notional
  <1>6. /\ u.cash = b.cash - q * price - FillCost(n, side)
        /\ u.shares = [b.shares EXCEPT ![a] = @ + q]
        /\ u.bought = IF q > 0 THEN [b.bought EXCEPT ![a] = d] ELSE b.bought
        /\ u.fills = Append(b.fills, f)
        /\ u = [cash |-> u.cash, shares |-> u.shares, bought |-> u.bought, fills |-> u.fills]
    BY DEF Traded
  <1> HIDE DEF u, n, side
  <1>7. q * price \in Int
    OBVIOUS
  <1>8. u.cash \in Int
    BY <1>1, <1>3, <1>6, <1>7
  <1>9. u.shares \in [AssetSet -> Lots]
    BY <1>1, <1>6
  <1>10. u.bought \in [AssetSet -> 0 .. (IF q > 0 THEN d ELSE c)]
    BY <1>0, <1>1, <1>6
  <1> HIDE DEF f
  <1>11. /\ u.fills \in Seq(FillRow)
         /\ Len(u.fills) = Len(b.fills) + 1
         /\ u.fills[Len(b.fills) + 1] = f
         /\ \A i \in 1 .. Len(b.fills) : u.fills[i] = b.fills[i]
    BY <1>1, <1>4, <1>6, AppendProperties
  <1>12. u \in Books(IF q > 0 THEN d ELSE c)
    BY <1>6, <1>8, <1>9, <1>10, <1>11 DEF Books
  <1>13. \A x \in AssetSet :
            u.shares[x] = IF x = a THEN b.shares[a] + q ELSE b.shares[x]
    BY <1>1, <1>6
  <1>14. ASSUME Covered(b), b.cash >= 0 /\ u.cash < 0 => Dear(f)
         PROVE  Covered(u)
    <2>1. /\ DOMAIN b.fills = 1 .. Len(b.fills) /\ DOMAIN u.fills = 1 .. Len(u.fills)
          /\ Len(b.fills) \in Nat
      BY <1>1, <1>11
    <2>2. CASE b.cash < 0
      <3>1. PICK i \in 1 .. Len(b.fills) : Dear(b.fills[i])
        BY <1>14, <2>1, <2>2 DEF Covered
      <3>2. i \in DOMAIN u.fills /\ u.fills[i] = b.fills[i]
        BY <1>11, <2>1, <3>1
      <3> QED
        BY <3>1, <3>2 DEF Covered
    <2>3. CASE b.cash >= 0
      <3>1. Len(b.fills) + 1 \in DOMAIN u.fills
        BY <1>11, <2>1
      <3> QED
        BY <1>11, <1>14, <2>3, <3>1 DEF Covered
    <2> QED
      BY <1>1, <2>2, <2>3
  <1>15. u.cash = b.cash - q * price - CostOf(f)
    BY <1>5, <1>6
  <1>16. /\ u \in Books(IF q > 0 THEN d ELSE c)
         /\ \A x \in AssetSet :
               u.shares[x] = IF x = a THEN b.shares[a] + q ELSE b.shares[x]
         /\ u.cash = b.cash - q * price - CostOf(f)
         /\ Covered(b) /\ (b.cash >= 0 /\ u.cash < 0 => Dear(f)) => Covered(u)
    BY <1>12, <1>13, <1>14, <1>15
  <1> QED
    BY <1>16 DEF u, f

\* The parts of a book.
LEMMA BooksHas ==
    ASSUME NEW d \in TradingDays, NEW c \in 0 .. d, NEW b \in Books(c), NEW a \in AssetSet
    PROVE  /\ b.cash \in Int /\ b.bought[a] \in 0 .. c
           /\ b.shares[a] \in Lots /\ b.shares[a] \in Nat
           /\ c \in Nat /\ d \in Nat /\ d \in 0 .. d
  <1>1. /\ b.cash \in Int /\ b.shares \in [AssetSet -> Lots]
        /\ b.bought \in [AssetSet -> 0 .. c]
    BY DEF Books
  <1>2. c \in Nat /\ d \in Nat /\ d \in 0 .. d
    BY DayFacts
  <1> QED
    BY <1>1, <1>2, SimFacts

\* One order of the loop of the sales: it touches its own asset only, never
\* buys, and without a target sells what the volume allows, if the market and
\* the tolerance do.
LEMMA SellStep ==
    ASSUME NEW d \in TradingDays, NEW c \in 0 .. d, NEW b \in Books(c), Covered(b),
           NEW o \in OrderSet(d)
    PROVE  LET u == AfterSell(b, o)
               held == b.shares[o.asset]
           IN  /\ u \in Books(c) /\ Covered(u)
               /\ \A x \in AssetSet : x # o.asset => u.shares[x] = b.shares[x]
               /\ u.shares[o.asset] <= held
               /\ /\ o.weight = 0 /\ c < d /\ Tradable(o.bar) /\ o.nav > 0
                  /\ Above(held * o.bar.close, 0, o.nav)
                  => u.shares[o.asset] = held - WithinVolume(held)
  <1> DEFINE u == AfterSell(b, o)
             a == o.asset
             held == b.shares[a]
             lots == SellLots(held, o.weight, o.nav, o.bar.close)
             q == WithinVolume(lots)
             f == [day |-> d, asset |-> a, qty |-> -q, price |-> o.bar.close]
  <1>0. /\ o.day = d /\ a \in AssetSet /\ o.weight \in Nat /\ o.nav \in Int
        /\ o.bar.close \in Nat /\ o.bar.prev \in Nat /\ FullWeight \in Nat \ {0}
    BY SimFacts DEF OrderSet, Bars
  <1>1. /\ b.cash \in Int /\ b.bought[a] \in 0 .. c /\ b.bought[a] <= c /\ c \in Nat /\ d \in Nat
        /\ held \in Lots /\ held \in Nat
    <2>1. /\ b.cash \in Int /\ b.bought[a] \in 0 .. c
          /\ held \in Lots /\ held \in Nat /\ c \in Nat /\ d \in Nat
      BY <1>0, BooksHas
    <2> HIDE DEF a, held
    <2> QED
      BY <2>1
  <1>2. u = IF /\ held > 0 /\ o.nav > 0 /\ Above(held * o.bar.close, o.weight, o.nav)
               /\ b.bought[a] < d /\ Tradable(o.bar) /\ q > 0
            THEN Traded(b, d, a, -q, o.bar.close) ELSE b
    BY <1>0 DEF AfterSell
  <1> HIDE DEF u, a, held
  <1>3. CASE /\ held > 0 /\ o.nav > 0 /\ Above(held * o.bar.close, o.weight, o.nav)
             /\ b.bought[a] < d /\ Tradable(o.bar) /\ q > 0
    <2>1. u = Traded(b, d, a, -q, o.bar.close)
      BY <1>2, <1>3
    <2>2. o.bar.close \in Nat \ {0}
      BY <1>0, <1>3 DEF Tradable
    <2>3. /\ lots \in Int /\ lots <= held /\ (lots > 0 => lots \in Lots)
          /\ (o.weight = 0 => lots = held)
      BY <1>0, <1>1, <2>2, SellLotsFacts
    <2> HIDE DEF lots
    <2>4. q \in Int /\ q <= lots /\ q \in Lots /\ q \in Nat
      BY <1>3, <2>3, SimFacts, WithinVolumeFacts
    <2>5. held - q \in Lots
      <3>0. LotSize \in Nat \ {0}
        BY SimFacts
      <3>1. PICK k \in Nat, l \in Nat : held = k * LotSize /\ q = l * LotSize
        BY <1>1, <2>4 DEF Lots
      <3>2. l <= k
        <4>1. k + 1 <= l => (k + 1) * LotSize <= l * LotSize
          BY <3>0, <3>1, Scaled
        <4>2. (k + 1) * LotSize = k * LotSize + LotSize
          BY <3>0, <3>1
        <4>3. q <= held
          BY <1>1, <2>3, <2>4
        <4>4. ~ (k + 1 <= l)
          BY <1>1, <2>4, <3>0, <3>1, <4>1, <4>2, <4>3
        <4> QED
          BY <3>1, <4>4
      <3>3. PICK m : m = k - l /\ m \in Nat
        BY <3>1, <3>2
      <3>4. held - q = m * LotSize
        BY <3>0, <3>1, <3>3
      <3> QED
        BY <3>3, <3>4 DEF Lots
    <2>6. held + (-q) = held - q /\ -q \in Int /\ ~ (-q > 0)
      BY <1>1, <1>3, <2>4
    <2> HIDE DEF q
    <2>7. /\ u \in Books(c)
          /\ \A x \in AssetSet : u.shares[x] = IF x = a THEN held - q ELSE b.shares[x]
          /\ u.cash = b.cash - (-q) * o.bar.close - CostOf(f)
          /\ Covered(b) /\ (b.cash >= 0 /\ u.cash < 0 => Dear(f)) => Covered(u)
      BY <1>0, <2>1, <2>2, <2>5, <2>6, TradedStep DEF held, a
    <2>8. b.cash >= 0 /\ u.cash < 0 => Dear(f)
      <3>1. f.qty = -q /\ f.price = o.bar.close
        OBVIOUS
      <3>2. Notional(f) = q * o.bar.close
        <4>1. -(-q) = q
          BY <2>4
        <4> QED
          BY <2>6, <3>1, <4>1 DEF Notional
      <3> HIDE DEF f
      <3>3. PICK n : n = q * o.bar.close /\ n \in Nat
        BY <1>0, <2>4
      <3>4. (-q) * o.bar.close = -n
        BY <1>0, <2>4, <3>3
      <3>5. CostOf(f) \in Nat
        BY <3>2, <3>3, FillCostType DEF CostOf
      <3>6. b.cash >= 0 /\ u.cash < 0 => CostOf(f) > n
        BY <1>1, <2>7, <3>3, <3>4, <3>5
      <3> QED
        BY <2>6, <3>1, <3>2, <3>3, <3>6 DEF Dear
    <2>9. held - q <= held
      BY <1>1, <2>4
    <2>10. o.weight = 0 => held - q = held - WithinVolume(held)
      BY <2>3 DEF q
    <2>11. u.shares[a] = held - q /\ \A x \in AssetSet : x # a => u.shares[x] = b.shares[x]
      BY <1>0, <2>7 DEF a
    <2> QED
      BY <2>7, <2>8, <2>9, <2>10, <2>11 DEF u, a, held
  <1>4. CASE ~ (/\ held > 0 /\ o.nav > 0 /\ Above(held * o.bar.close, o.weight, o.nav)
                /\ b.bought[a] < d /\ Tradable(o.bar) /\ q > 0)
    <2>1. u = b
      BY <1>2, <1>4
    <2>2. ASSUME o.weight = 0, c < d, Tradable(o.bar), o.nav > 0,
                 Above(held * o.bar.close, 0, o.nav)
          PROVE  held = held - WithinVolume(held)
      <3>1. o.bar.close \in Nat \ {0}
        BY <1>0, <2>2 DEF Tradable
      <3>2. lots = held
        <4>1. held \in Lots /\ o.weight \in Nat /\ o.nav \in Int
          BY <1>0, <1>1
        <4>2. SellLots(held, o.weight, o.nav, o.bar.close) = held
          BY <2>2, <3>1, <4>1, SellLotsFacts
        <4> QED
          BY <4>2 DEF lots
      <3>3. held # 0
        <4>1. held = 0 => held * o.bar.close = 0
          BY <1>0
        <4>2. ~ Above(0, 0, o.nav)
          <5>1. o.nav * (1000 * 0 + FullWeight) > 0
            <6>1. PICK v : v = 1000 * 0 + FullWeight /\ v \in Nat \ {0}
              BY <1>0
            <6>2. o.nav \in Nat \ {0}
              BY <1>0, <2>2
            <6>3. o.nav * v > 0
              BY <6>1, <6>2
            <6> QED
              BY <6>1, <6>3
          <5>2. 1000 * 0 * FullWeight = 0
            BY <1>0
          <5> QED
            BY <1>0, <5>1, <5>2 DEF Above
        <4> QED
          BY <2>2, <4>1, <4>2
      <3>4. b.bought[a] < d
        BY <1>1, <2>2
      <3>5. ~ (WithinVolume(held) > 0)
        BY <1>1, <1>4, <2>2, <3>2, <3>3, <3>4
      <3>6. WithinVolume(held) \in Nat
        BY <1>1, SimFacts, WithinVolumeFacts
      <3> QED
        BY <1>1, <3>5, <3>6
    <2> QED
      BY <1>1, <2>1, <2>2 DEF u, a, held
  <1> QED
    BY <1>3, <1>4

\* One order of the loop of the purchases: it touches its own asset only, and
\* nothing without a target.
LEMMA BuyStep ==
    ASSUME NEW d \in TradingDays, NEW b \in Books(d), Covered(b), NEW o \in OrderSet(d)
    PROVE  LET u == AfterBuy(b, o)
           IN  /\ u \in Books(d) /\ Covered(u)
               /\ \A x \in AssetSet : x # o.asset => u.shares[x] = b.shares[x]
               /\ o.weight = 0 => u = b
  <1> DEFINE u == AfterBuy(b, o)
             a == o.asset
             held == b.shares[a]
             lots == BuyLots(b.cash, held, o.weight, o.nav, o.bar.close)
             q == WithinVolume(lots)
             f == [day |-> d, asset |-> a, qty |-> q, price |-> o.bar.close]
             ready == /\ o.weight > 0
                      /\ IF o.nav > 0 THEN Below(held * o.bar.close, o.weight, o.nav)
                         ELSE o.weight * 1000 > FullWeight
                      /\ Tradable(o.bar) /\ q > 0
  <1>0. /\ o.day = d /\ a \in AssetSet /\ o.weight \in Nat /\ o.nav \in Int
        /\ o.bar.close \in Nat /\ o.bar.prev \in Nat
    BY SimFacts DEF OrderSet, Bars
  <1>1. b.cash \in Int /\ d \in Nat /\ d \in 0 .. d /\ held \in Lots /\ held \in Nat
    <2>1. d \in 0 .. d
      BY DayFacts
    <2> QED
      BY <1>0, <2>1, BooksHas
  <1>2. u = IF ready THEN Traded(b, d, a, q, o.bar.close) ELSE b
    BY <1>0 DEF AfterBuy
  <1>3. ready => o.weight > 0 /\ Tradable(o.bar) /\ q > 0
    OBVIOUS
  <1> HIDE DEF u, a, held, ready
  <1>4. CASE ready
    <2>1. u = Traded(b, d, a, q, o.bar.close)
      BY <1>2, <1>4
    <2>2. o.bar.close \in Nat \ {0}
      BY <1>0, <1>3, <1>4 DEF Tradable
    <2>3. /\ lots \in Int /\ (lots > 0 => lots \in Lots)
          /\ 100 * (lots * o.bar.close) <= 98 * b.cash
      BY <1>0, <1>1, <2>2, BuyLotsFacts
    <2> HIDE DEF lots
    <2>4. q \in Int /\ q > 0 /\ q <= lots /\ q \in Lots /\ q \in Nat
      <3>1. q > 0
        BY <1>3, <1>4
      <3>2. q \in Int /\ q <= lots /\ lots > 0
        BY <2>3, <3>1, WithinVolumeFacts
      <3>3. q \in Lots
        BY <2>3, <3>2, WithinVolumeFacts
      <3> QED
        BY <3>1, <3>2, <3>3, SimFacts
    <2> HIDE DEF q
    <2>5. held + q \in Lots
      <3>0. LotSize \in Nat \ {0}
        BY SimFacts
      <3>1. PICK k \in Nat, l \in Nat : held = k * LotSize /\ q = l * LotSize
        BY <1>1, <2>4 DEF Lots
      <3>2. PICK m : m = k + l /\ m \in Nat
        BY <3>1
      <3>3. held + q = m * LotSize
        BY <3>0, <3>1, <3>2
      <3> QED
        BY <3>2, <3>3 DEF Lots
    <2>6. /\ u \in Books(d)
          /\ \A x \in AssetSet : u.shares[x] = IF x = a THEN held + q ELSE b.shares[x]
          /\ u.cash = b.cash - q * o.bar.close - CostOf(f)
          /\ Covered(b) /\ (b.cash >= 0 /\ u.cash < 0 => Dear(f)) => Covered(u)
      BY <1>0, <1>1, <2>1, <2>2, <2>4, <2>5, TradedStep DEF held, a
    <2>7. u.cash < 0 => Dear(f)
      <3>1. f.qty = q /\ f.price = o.bar.close
        OBVIOUS
      <3>2. Notional(f) = q * o.bar.close
        BY <2>4, <3>1 DEF Notional
      <3> HIDE DEF f
      <3>3. PICK n : n = q * o.bar.close /\ n \in Nat
        BY <1>0, <2>4
      <3>4. CostOf(f) \in Nat
        BY <3>2, <3>3, FillCostType DEF CostOf
      <3>5. q * o.bar.close <= lots * o.bar.close /\ lots * o.bar.close \in Int
        BY <1>0, <2>3, <2>4, Scaled
      <3>6. 100 * n <= 98 * b.cash
        BY <1>1, <2>3, <3>3, <3>5
      <3>7. u.cash < 0 => 49 * CostOf(f) > n
        BY <1>1, <2>6, <3>3, <3>4, <3>6
      <3>8. 49 * CostOf(f) > n => CostOf(f) > n \div 49
        BY <3>3, <3>4
      <3> QED
        BY <2>4, <3>1, <3>2, <3>3, <3>7, <3>8 DEF Dear
    <2>8. \A x \in AssetSet : x # a => u.shares[x] = b.shares[x]
      BY <2>6
    <2>9. o.weight # 0
      BY <1>0, <1>3, <1>4
    <2> QED
      BY <2>6, <2>7, <2>8, <2>9 DEF u, a
  <1>5. CASE ~ready
    BY <1>2, <1>5 DEF u, a
  <1>6. o.weight = 0 => ~ready
    BY <1>0, <1>3
  <1> QED
    BY <1>4, <1>5

-----------------------------------------------------------------------------
(***************************************************************************)
(* The simulator: a day, which is two folds over the orders.               *)
(***************************************************************************)
SellFold == INSTANCE FoldTheorems WITH Op <- AfterSell
BuyFold == INSTANCE FoldTheorems WITH Op <- AfterBuy
ValueFold == INSTANCE FoldTheorems WITH Op <- PlusValue

\* The folds written with the library's operator are those of the theory.
LEMMA SellFoldIs ==
    ASSUME NEW base, NEW s
    PROVE  FoldLeft(AfterSell, base, s) = SellFold!Fold(base, s)
  BY DEF SellFold!Fold, SellFold!FoldLeft, FoldLeft,
         SellFold!MapThenFoldSet, MapThenFoldSet, SellFold!Max, Max

\* The same for the purchases.
LEMMA BuyFoldIs ==
    ASSUME NEW base, NEW s
    PROVE  FoldLeft(AfterBuy, base, s) = BuyFold!Fold(base, s)
  BY DEF BuyFold!Fold, BuyFold!FoldLeft, FoldLeft,
         BuyFold!MapThenFoldSet, MapThenFoldSet, BuyFold!Max, Max

\* The same for the net asset value.
LEMMA ValueFoldIs ==
    ASSUME NEW base, NEW s
    PROVE  FoldLeft(PlusValue, base, s) = ValueFold!Fold(base, s)
  BY DEF ValueFold!Fold, ValueFold!FoldLeft, FoldLeft,
         ValueFold!MapThenFoldSet, MapThenFoldSet, ValueFold!Max, Max

\* The targets are a sequence of different assets.
LEMMA AssetFacts ==
    /\ Len(Assets) \in Nat /\ DOMAIN Assets = 1 .. Len(Assets)
    /\ \A i \in 1 .. Len(Assets) : Assets[i] \in AssetSet
    /\ \A i, j \in 1 .. Len(Assets) : i # j => Assets[i] # Assets[j]
    /\ \A a \in AssetSet : \E i \in 1 .. Len(Assets) : a = Assets[i]
  <1>1. Assets \in Seq(AssetSet)
    BY FillAssumption
  <1>2. Len(Assets) \in Nat /\ DOMAIN Assets = 1 .. Len(Assets)
    BY <1>1
  <1> QED
    BY <1>2, FillAssumption DEF AssetSet, ToSet

\* The net asset value is an amount, of either sign.
LEMMA NavType ==
    ASSUME NEW d \in TradingDays, NEW c \in 0 .. d, NEW b \in Books(c),
           NEW bars \in [AssetSet -> Bars]
    PROVE  Nav(b, bars) \in Int
  <1> DEFINE s == [i \in DOMAIN Assets |-> b.shares[Assets[i]] * bars[Assets[i]].close]
  <1>1. \A a \in AssetSet : b.shares[a] * bars[a].close \in Int
    <2> SUFFICES ASSUME NEW a \in AssetSet
                 PROVE  b.shares[a] * bars[a].close \in Int
      OBVIOUS
    <2>1. b.shares[a] \in Nat
      BY BooksHas
    <2>2. bars[a].close \in Nat
      BY DEF Bars
    <2> QED
      BY <2>1, <2>2
  <1>2. s \in Seq(Int)
    BY <1>1, AssetFacts
  <1>3. b.cash \in Int
    BY DEF Books
  <1>4. \A x \in Int, y \in Int : PlusValue(x, y) \in Int
    BY DEF PlusValue
  <1> HIDE DEF s
  <1>5. ValueFold!Fold(b.cash, s) \in Int
    BY <1>2, <1>3, <1>4, ValueFold!FoldKeeps
  <1>6. FoldLeft(PlusValue, b.cash, s) \in Int
    BY <1>5, ValueFoldIs
  <1> QED
    BY <1>6 DEF Nav, s

\* The orders of a day.
LEMMA OrdersFacts ==
    ASSUME NEW d \in TradingDays, NEW targets \in [AssetSet -> NoTarget .. FullWeight],
           NEW nav \in Int, NEW bars \in [AssetSet -> Bars]
    PROVE  LET s == Orders(d, targets, nav, bars)
           IN  /\ s \in Seq(OrderSet(d)) /\ Len(s) = Len(Assets)
               /\ \A i \in 1 .. Len(Assets) :
                     /\ s[i].asset = Assets[i] /\ s[i].nav = nav
                     /\ s[i].bar = bars[Assets[i]]
                     /\ targets[Assets[i]] \in {0, NoTarget} => s[i].weight = 0
  <1> DEFINE s == Orders(d, targets, nav, bars)
  <1>1. ASSUME NEW a \in AssetSet
        PROVE  /\ TargetWeight(targets[a]) \in 0 .. FullWeight
               /\ targets[a] \in {0, NoTarget} => TargetWeight(targets[a]) = 0
    BY <1>1, TargetFacts DEF TargetWeight
  <1>2. /\ DOMAIN s = 1 .. Len(Assets)
        /\ \A i \in 1 .. Len(Assets) :
              s[i] = [day |-> d, asset |-> Assets[i], weight |-> TargetWeight(targets[Assets[i]]),
                      nav |-> nav, bar |-> bars[Assets[i]]]
    BY AssetFacts DEF Orders
  <1>3. s = [i \in 1 .. Len(Assets) |-> s[i]]
    BY AssetFacts DEF Orders
  <1> HIDE DEF s
  <1>4. \A i \in 1 .. Len(Assets) :
           /\ s[i] \in OrderSet(d)
           /\ s[i].asset = Assets[i] /\ s[i].nav = nav /\ s[i].bar = bars[Assets[i]]
           /\ targets[Assets[i]] \in {0, NoTarget} => s[i].weight = 0
    BY <1>1, <1>2, AssetFacts DEF OrderSet
  <1>5. s \in Seq(OrderSet(d)) /\ Len(s) = Len(Assets)
    BY <1>3, <1>4, AssetFacts
  <1> QED
    BY <1>4, <1>5 DEF s

\* What is left of a position after a day without a target for it.
Left(held, bar, nav) ==
    {x \in Nat : /\ x <= held
                 /\ Tradable(bar) /\ nav > 0 /\ Above(held * bar.close, 0, nav)
                    => x = held - WithinVolume(held)}

\* A day: the book stays a book, and a position without a target is sold as
\* far as the market lets it and never bought.
LEMMA DayStep ==
    ASSUME NEW d \in TradingDays, NEW b \in Books(d - 1), Covered(b),
           NEW targets \in [AssetSet -> NoTarget .. FullWeight],
           NEW bars \in [AssetSet -> Bars], NEW a \in AssetSet
    PROVE  LET u == AfterDay(b, d, targets, bars)
           IN  /\ u \in Books(d) /\ Covered(u)
               /\ targets[a] \in {0, NoTarget} =>
                     u.shares[a] \in Left(b.shares[a], bars[a], Nav(b, bars))
  <1> DEFINE nav == Nav(b, bars)
             held == b.shares[a]
             s == Orders(d, targets, nav, bars)
             left == IF targets[a] \in {0, NoTarget} THEN Left(held, bars[a], nav) ELSE Lots
  <1>0. PICK c : c = d - 1 /\ c \in 0 .. d /\ c \in Nat /\ d \in Nat /\ d \in 0 .. d /\ c < d
    BY DayFacts
  <1>1. b \in Books(c) /\ held \in Lots /\ held \in Nat
    <2>1. b \in Books(c)
      BY <1>0
    <2> QED
      BY <1>0, <2>1, BooksHas
  <1>2. nav \in Int
    BY <1>0, <1>1, NavType
  <1> HIDE DEF nav
  <1>3. /\ s \in Seq(OrderSet(d)) /\ Len(s) = Len(Assets)
        /\ \A i \in 1 .. Len(s) :
              /\ s[i].asset = Assets[i] /\ s[i].nav = nav /\ s[i].bar = bars[Assets[i]]
              /\ targets[Assets[i]] \in {0, NoTarget} => s[i].weight = 0
    BY <1>2, OrdersFacts
  <1> HIDE DEF s, held
  <1>4. PICK n \in 1 .. Len(s) : a = Assets[n]
    BY <1>3, AssetFacts
  <1>5. \A i \in 1 .. Len(s) : s[i] \in OrderSet(d)
    BY <1>3
  <1>6. \A i \in 1 .. Len(s) : i # n => s[i].asset # a
    BY <1>3, <1>4, AssetFacts
  <1>7. /\ s[n].asset = a /\ s[n].nav = nav /\ s[n].bar = bars[a]
        /\ targets[a] \in {0, NoTarget} => s[n].weight = 0
    BY <1>3, <1>4
  <1>8. FoldLeft(AfterSell, b, s) \in {u \in Books(c) : Covered(u) /\ u.shares[a] \in left}
    <2> DEFINE A == [k \in 0 .. Len(s) |->
                        {u \in Books(c) : /\ Covered(u)
                                          /\ u.shares[a] \in IF k < n THEN {held} ELSE left}]
    <2>1. b \in A[0]
      <3>1. 0 \in 0 .. Len(s) /\ 0 < n
        BY <1>3, AssetFacts
      <3> QED
        BY <1>1, <3>1 DEF held
    <2>2. ASSUME NEW k \in 1 .. Len(s), NEW u \in A[k - 1]
          PROVE  AfterSell(u, s[k]) \in A[k]
      <3>1. PICK j : j = k - 1 /\ j \in 0 .. Len(s) /\ k \in 0 .. Len(s) /\ k = j + 1
        BY <1>3, AssetFacts
      <3>2. u \in Books(c) /\ Covered(u) /\ u.shares[a] \in IF j < n THEN {held} ELSE left
        <4>1. A[j] = {v \in Books(c) : /\ Covered(v)
                                       /\ v.shares[a] \in IF j < n THEN {held} ELSE left}
          BY <3>1
        <4> HIDE DEF A, left
        <4> QED
          BY <2>2, <3>1, <4>1
      <3> DEFINE v == AfterSell(u, s[k])
      <3>3. /\ v \in Books(c) /\ Covered(v)
            /\ \A x \in AssetSet : x # s[k].asset => v.shares[x] = u.shares[x]
            /\ v.shares[s[k].asset] <= u.shares[s[k].asset]
            /\ /\ s[k].weight = 0 /\ Tradable(s[k].bar) /\ s[k].nav > 0
               /\ Above(u.shares[s[k].asset] * s[k].bar.close, 0, s[k].nav)
               => v.shares[s[k].asset]
                      = u.shares[s[k].asset] - WithinVolume(u.shares[s[k].asset])
        BY <1>0, <1>5, <3>2, SellStep
      <3> HIDE DEF v
      <3>4. v.shares[a] \in IF k < n THEN {held} ELSE left
        <4>1. CASE k = n
          <5>1. u.shares[a] = held /\ s[k].asset = a
            BY <1>4, <1>7, <3>1, <3>2, <4>1
          <5>2. v.shares[a] \in Lots /\ v.shares[a] \in Nat
            BY <1>0, <3>3, BooksHas
          <5>3. targets[a] \in {0, NoTarget} => v.shares[a] \in Left(held, bars[a], nav)
            BY <1>7, <3>3, <4>1, <5>1, <5>2 DEF Left
          <5>4. v.shares[a] \in left
            BY <5>2, <5>3
          <5> HIDE DEF left
          <5> QED
            BY <1>4, <4>1, <5>4
        <4>2. CASE k # n
          <5>1. v.shares[a] = u.shares[a]
            BY <1>6, <3>3, <4>2
          <5>2. (k < n) <=> (j < n)
            BY <1>3, <1>4, <3>1, <4>2
          <5> HIDE DEF left
          <5> QED
            BY <3>2, <5>1, <5>2
        <4> QED
          BY <4>1, <4>2
      <3>5. A[k] = {w \in Books(c) : /\ Covered(w)
                                     /\ w.shares[a] \in IF k < n THEN {held} ELSE left}
        BY <3>1
      <3> HIDE DEF A, left
      <3> QED
        BY <3>3, <3>4, <3>5 DEF v
    <2>3. A[Len(s)] = {u \in Books(c) : Covered(u) /\ u.shares[a] \in left}
      <3>1. Len(s) \in 0 .. Len(s) /\ ~ (Len(s) < n)
        BY <1>3, <1>4, AssetFacts
      <3> HIDE DEF left
      <3> QED
        BY <3>1
    <2> HIDE DEF A, left
    <2>4. SellFold!Fold(b, s) \in A[Len(s)]
      BY <1>3, <2>1, <2>2, SellFold!FoldInduction
    <2> QED
      BY <2>3, <2>4, SellFoldIs
  <1>9. PICK sold : sold = FoldLeft(AfterSell, b, s)
    OBVIOUS
  <1>10. sold \in Books(d) /\ Covered(sold) /\ sold.shares[a] \in left
    <2> HIDE DEF left
    <2>1. Books(c) \subseteq Books(d)
      <3>1. 0 .. c \subseteq 0 .. d
        BY <1>0
      <3> QED
        BY <3>1 DEF Books
    <2> QED
      BY <1>8, <1>9, <2>1
  <1>11. FoldLeft(AfterBuy, sold, s)
             \in {u \in Books(d) : /\ Covered(u)
                                   /\ targets[a] \in {0, NoTarget} => u.shares[a] \in left}
    <2> DEFINE A == {u \in Books(d) : /\ Covered(u)
                                      /\ targets[a] \in {0, NoTarget} => u.shares[a] \in left}
               S == {o \in OrderSet(d) :
                        o.asset = a /\ targets[a] \in {0, NoTarget} => o.weight = 0}
    <2> HIDE DEF left
    <2>1. sold \in A
      BY <1>10
    <2>2. s \in Seq(S)
      <3>1. \A i \in 1 .. Len(s) : s[i] \in S
        BY <1>3, <1>5
      <3> HIDE DEF S
      <3> QED
        BY <1>3, <3>1
    <2>3. ASSUME NEW u \in A, NEW o \in S
          PROVE  AfterBuy(u, o) \in A
      <3>1. u \in Books(d) /\ Covered(u) /\ o \in OrderSet(d)
        OBVIOUS
      <3>2. /\ AfterBuy(u, o) \in Books(d) /\ Covered(AfterBuy(u, o))
            /\ \A x \in AssetSet : x # o.asset => AfterBuy(u, o).shares[x] = u.shares[x]
            /\ o.weight = 0 => AfterBuy(u, o) = u
        BY <3>1, BuyStep
      <3> QED
        BY <3>2
    <2> HIDE DEF A, S
    <2>4. BuyFold!Fold(sold, s) \in A
      BY <2>1, <2>2, <2>3, BuyFold!FoldKeeps
    <2> QED
      BY <2>4, BuyFoldIs DEF A
  <1>12. AfterDay(b, d, targets, bars) = FoldLeft(AfterBuy, sold, s)
    BY <1>9 DEF AfterDay, s, nav
  <1> QED
    BY <1>11, <1>12 DEF held, nav

\* The bars of a day: the latest of the earlier closes, or the day's own.
LEMMA BarsType ==
    ASSUME LoopTypes, NEW d \in TradingDays
    PROVE  BarsOf(d) \in [AssetSet -> Bars]
  <1>1. ASSUME NEW a \in AssetSet
        PROVE  PrevClose(d, a) \in Nat /\ close[d][a] \in Nat
    <2> DEFINE before == {e \in 1 .. d - 1 : close[e][a] > 0}
    <2>1. before \subseteq TradingDays /\ d \in Nat /\ before \subseteq 1 .. d - 1
      BY DayFacts
    <2>2. \A e \in TradingDays : close[e][a] \in Nat
      BY DEF LoopTypes
    <2>3. CASE before = {}
      BY <2>2, <2>3 DEF PrevClose
    <2>4. CASE before # {}
      <3> HIDE DEF before
      <3> DEFINE T == {d - e : e \in before}
      <3>1. T \subseteq Nat /\ T # {}
        BY <2>1, <2>4
      <3>2. PICK m \in T : \A k \in T : m <= k
        <4> HIDE DEF T
        <4> QED
          BY <3>1, LeastNatural
      <3>3. PICK e \in before : m = d - e
        BY <3>2
      <3>4. \A f \in before : f <= e
        <4> SUFFICES ASSUME NEW f \in before
                     PROVE  f <= e
          OBVIOUS
        <4>1. d - f \in T
          OBVIOUS
        <4>2. m <= d - f
          BY <3>2, <4>1
        <4>3. e \in Int /\ f \in Int /\ d \in Int
          BY <2>1
        <4> QED
          BY <3>3, <4>2, <4>3
      <3>5. (CHOOSE g \in before : \A f \in before : f <= g) \in before
        BY <3>4
      <3>6. PrevClose(d, a) = close[CHOOSE g \in before : \A f \in before : f <= g][a]
        BY <2>4 DEF PrevClose, before
      <3> QED
        BY <2>1, <2>2, <3>5, <3>6
    <2> QED
      BY <2>2, <2>3, <2>4
  <1> QED
    BY <1>1 DEF BarsOf, Bars

\* How far the simulator has come.
DaysDone == IF phase = "simulate" THEN day - 1 ELSE IF phase = "done" THEN day ELSE 0

BookInv ==
    /\ book \in Books(DaysDone)
    /\ Covered(book)

\* The first book: cash, and nothing else.
LEMMA BookInvInit == VectorInit => BookInv
  <1> SUFFICES ASSUME VectorInit
               PROVE  BookInv
    OBVIOUS
  <1>1. DaysDone = 0
    BY DEF VectorInit, DaysDone
  <1>2. book = [cash |-> FullWeight, shares |-> [a \in AssetSet |-> 0],
                bought |-> [a \in AssetSet |-> 0], fills |-> <<>>]
    BY DEF VectorInit
  <1>3. FullWeight \in Int /\ FullWeight > 0 /\ 0 \in Lots /\ 0 \in 0 .. 0
    BY SimFacts
  <1>4. <<>> \in Seq(FillRow)
    OBVIOUS
  <1>5. book \in Books(0)
    BY <1>2, <1>3, <1>4 DEF Books
  <1>6. Covered(book)
    BY <1>2, <1>3 DEF Covered
  <1> QED
    BY <1>1, <1>5, <1>6 DEF BookInv

\* What a simulated day does to the book.
LEMMA SimulatedStep ==
    ASSUME VectorInv, BookInv, SimulateDay, Targeted(day), NEW a \in AssetSet
    PROVE  /\ day \in TradingDays
           /\ book' \in Books(day) /\ Covered(book')
           /\ plan[day][a] \in {0, NoTarget} =>
                 book'.shares[a] \in Left(book.shares[a], BarsOf(day)[a], Nav(book, BarsOf(day)))
  <1>1. /\ day \in TradingDays /\ LoopTypes
        /\ plan[day] \in [AssetSet -> NoTarget .. FullWeight]
    BY DEF VectorInv, LoopTypes, PlanTypes
  <1>2. book \in Books(day - 1) /\ Covered(book)
    BY DEF BookInv, DaysDone, SimulateDay
  <1>3. BarsOf(day) \in [AssetSet -> Bars]
    BY <1>1, BarsType
  <1>4. book' = AfterDay(book, day, plan[day], BarsOf(day))
    BY DEF SimulateDay
  <1> QED
    BY <1>1, <1>2, <1>3, <1>4, DayStep

\* Every step keeps the book in order.
LEMMA BookInvStep ==
    ASSUME VectorInv, BookInv, [VectorNext]_vectorVars
    PROVE  BookInv'
  <1>1. ASSUME phase = "plan", book' = book, phase' \in {"plan", "failed"} \/ day' = 1,
               phase' # "done"
        PROVE  BookInv'
    <2>1. DaysDone = 0 /\ DaysDone' = 0
      BY <1>1 DEF DaysDone
    <2> QED
      BY <1>1, <2>1 DEF BookInv
  <1>2. ASSUME NEW prices, NEW open, NEW cooling, NEW waiting, NEW weights, phase = "plan",
               EndOfDay(prices, open, cooling, waiting, weights)
        PROVE  BookInv'
    <2>1. book' = book /\ (\/ phase' = phase
                           \/ phase' \in {"failed", "simulate"} /\ day' = 1)
      BY <1>2 DEF EndOfDay
    <2> QED
      BY <1>1, <1>2, <2>1
  <1>3. ASSUME NEW prices \in Quotes, HoldDay(prices)
        PROVE  BookInv'
    BY <1>2, <1>3 DEF HoldDay
  <1>4. ASSUME NEW prices \in Quotes, NEW rows \in SUBSET AssetSet,
               RebalanceWithoutSignals(prices, rows)
        PROVE  BookInv'
    BY <1>2, <1>4 DEF RebalanceWithoutSignals
  <1>5. ASSUME NEW prices \in Quotes, NEW rows \in SUBSET AssetSet,
               NEW active \in SUBSET rows, NEW granted \in [active -> Grants],
               Rebalance(prices, rows, active, granted)
        PROVE  BookInv'
    BY <1>2, <1>5 DEF Rebalance
  <1>6. CASE SimulateDay
    <2>1. /\ day \in TradingDays /\ day \in Nat /\ phase = "simulate"
          /\ DaysDone = day - 1 /\ DaysDone' = day
      BY <1>6, DayFacts DEF VectorInv, LoopTypes, SimulateDay, DaysDone
    <2>2. CASE Targeted(day)
      <3>1. AssetSet # {}
        BY <2>2 DEF Targeted, NoTargets, VectorInv, PlanTypes, LoopTypes
      <3> QED
        BY <1>6, <2>1, <2>2, <3>1, SimulatedStep DEF BookInv
    <2>3. CASE ~Targeted(day)
      <3>1. book' = book
        BY <1>6, <2>3 DEF SimulateDay
      <3>2. 0 .. day - 1 \subseteq 0 .. day
        BY <2>1
      <3>3. Books(day - 1) \subseteq Books(day)
        BY <3>2 DEF Books
      <3> QED
        BY <2>1, <3>1, <3>3 DEF BookInv
    <2> QED
      BY <2>2, <2>3
  <1>7. CASE UNCHANGED vectorVars
    BY <1>7 DEF vectorVars, BookInv, DaysDone
  <1> QED
    BY <1>3, <1>4, <1>5, <1>6, <1>7 DEF VectorNext

\* The stops and the book stay in order in every reachable state.
THEOREM StopInvariant == VectorSpec => [](StopInv /\ BookInv)
  <1>1. VectorInit => StopInv /\ BookInv
    <2>1. VectorInit => StopInv
      BY DEF VectorInit, StopInv
    <2> QED
      BY <2>1, BookInvInit
  <1>2. VectorInv /\ (StopInv /\ BookInv) /\ [VectorNext]_vectorVars => (StopInv /\ BookInv)'
    BY StopInvStep, BookInvStep
  <1> QED
    BY <1>1, <1>2, VectorInvariant, PTL DEF VectorSpec

\* VectorTypeOK: weights stay between nothing and the whole through every exit
\* and rebalance, and no position of the simulator is negative.
THEOREM VectorTypeCorrect == VectorSpec => []VectorTypeOK
  <1>1. VectorInv /\ BookInv => VectorTypeOK
    <2> SUFFICES ASSUME VectorInv, BookInv
                 PROVE  VectorTypeOK
      OBVIOUS
    <2>1. LoopTypes /\ PlanTypes
      BY DEF VectorInv
    <2>2. DaysDone \in Int /\ DaysDone <= Len(Weekday)
      BY <2>1, DayFacts DEF LoopTypes, DaysDone
    <2>3. 0 .. DaysDone \subseteq 0 .. Len(Weekday) /\ Lots \subseteq Nat
      BY <2>2, DayFacts, SimFacts
    <2>4. book \in [cash : Int, shares : [AssetSet -> Nat],
                    bought : [AssetSet -> 0 .. Len(Weekday)], fills : Seq(FillRow)]
      BY <2>3 DEF BookInv, Books
    <2> QED
      BY <2>1, <2>4 DEF VectorTypeOK, LoopTypes, PlanTypes, Tracks, FillRow
  <1> QED
    BY <1>1, VectorInvariant, StopInvariant, PTL

\* CashIsCovered: only an order whose costs exceed what the buffer of 2% leaves,
\* or what the sale brings in, can make the cash negative.
THEOREM CashCovered == VectorSpec => []CashIsCovered
  <1>1. BookInv => CashIsCovered
    BY DEF BookInv, Covered, Dear, CashIsCovered
  <1> QED
    BY <1>1, StopInvariant, PTL

\* StopIsCarriedOut: whatever the closes, the volume and the other assets, a
\* full exit between two rebalances sells until nothing is left, and nothing
\* buys the asset back before the day after the next rebalance is over.
THEOREM StopsAreCarriedOut == VectorSpec => StopIsCarriedOut
  <1> DEFINE P ==
         phase = "simulate" =>
          \A e \in exits :
             LET held == book.shares[e.asset]
                 bar == BarsOf(day)[e.asset]
                 nav == Nav(book, BarsOf(day))
             IN  KeepsOut(e, day) =>
                    /\ book'.shares[e.asset] <= held
                    /\ /\ InForce(e, day) \/ Targeted(day)
                       /\ Tradable(bar) /\ nav > 0 /\ Above(held * bar.close, 0, nav)
                       => book'.shares[e.asset] = held - WithinVolume(held)
  <1>1. ASSUME VectorInv, StopInv, BookInv, [VectorNext]_vectorVars
        PROVE  [P]_vectorVars
    <2> SUFFICES ASSUME VectorNext, phase = "simulate", NEW e \in exits, KeepsOut(e, day)
                 PROVE  LET held == book.shares[e.asset]
                            bar == BarsOf(day)[e.asset]
                            nav == Nav(book, BarsOf(day))
                        IN  /\ book'.shares[e.asset] <= held
                            /\ /\ InForce(e, day) \/ Targeted(day)
                               /\ Tradable(bar) /\ nav > 0 /\ Above(held * bar.close, 0, nav)
                               => book'.shares[e.asset] = held - WithinVolume(held)
      BY <1>1
    <2> DEFINE a == e.asset
    <2>1. SimulateDay
      BY DEF VectorNext, HoldDay, RebalanceWithoutSignals, Rebalance
    <2>2. a \in AssetSet /\ day \in TradingDays /\ LoopTypes /\ day \in Nat
      BY <1>1, DayFacts DEF VectorInv, PlanTypes, LoopTypes
    <2>3. e.left = 0 /\ ~IsRebalance(e.day)
      BY DEF KeepsOut, InForce
    <2>4. StopKept(e)
      BY <1>1, <2>3 DEF StopInv
    <2>5. InForce(e, day) => plan[day][a] = 0
      BY <2>2, <2>4 DEF StopKept
    <2>6. plan[day][a] \in {0, NoTarget}
      BY <2>2, <2>4, <2>5 DEF StopKept, KeepsOut
    <2> HIDE DEF a
    <2>7. InForce(e, day) => Targeted(day)
      <3>1. NoTargets[a] = -1
        BY <2>2 DEF NoTargets, NoTarget
      <3> QED
        BY <2>5, <3>1 DEF Targeted
    <2>8. CASE Targeted(day)
      <3>1. book'.shares[a] \in Left(book.shares[a], BarsOf(day)[a], Nav(book, BarsOf(day)))
        BY <1>1, <2>1, <2>2, <2>6, <2>8, SimulatedStep
      <3> QED
        BY <3>1 DEF Left, a
    <2>9. CASE ~Targeted(day)
      <3>1. book' = book
        BY <2>1, <2>9 DEF SimulateDay
      <3>2. book.shares[a] \in Nat
        <4>1. book \in Books(day - 1) /\ day - 1 \in 0 .. day
          BY <1>1, <2>2, DayFacts DEF BookInv, DaysDone
        <4> QED
          BY <2>2, <4>1, BooksHas
      <3> QED
        BY <2>7, <2>9, <3>1, <3>2 DEF a
    <2> QED
      BY <2>8, <2>9
  <1> QED
    BY <1>1, VectorInvariant, StopInvariant, PTL DEF VectorSpec, StopIsCarriedOut
=============================================================================
