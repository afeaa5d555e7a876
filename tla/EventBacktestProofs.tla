------------------------- MODULE EventBacktestProofs -------------------------
(***************************************************************************)
(* Proofs about the event backtest and the ledger that audits it.          *)
(*                                                                         *)
(* A day's fills are one sequence: purchases of different assets, each     *)
(* paid by an equal part of the morning's cash, then sales of whole        *)
(* positions (DayFills).  Cash, positions and ledger are folds over it;    *)
(* their values after every prefix (FoldTrace) are compared by counting up *)
(* (CountUp).                                                              *)
(***************************************************************************)
EXTENDS EventBacktest, SumTheorems, SequenceTheorems, TLAPS

-----------------------------------------------------------------------------
\* The folds of a day, as instances of the theory of folds.
FilledFold == INSTANCE FoldTheorems WITH Op <- Filled
CashFold == INSTANCE FoldTheorems WITH Op <- CashAfter
HeldFold == INSTANCE FoldTheorems WITH Op <- HeldAfter
CostFold == INSTANCE FoldTheorems WITH Op <- AddCost
PaidFold == INSTANCE FoldTheorems WITH Op <- PaidAfter
BookFold == INSTANCE FoldTheorems WITH Op <- Booked

\* The folds written with the library's operator are those of the theory.
LEMMA FilledFoldIs ==
    ASSUME NEW base, NEW s
    PROVE  FoldLeft(Filled, base, s) = FilledFold!Fold(base, s)
  BY DEF FilledFold!Fold, FilledFold!FoldLeft, FoldLeft,
         FilledFold!MapThenFoldSet, MapThenFoldSet, FilledFold!Max, Max

\* The same for the cash.
LEMMA CashFoldIs ==
    ASSUME NEW base, NEW s
    PROVE  FoldLeft(CashAfter, base, s) = CashFold!Fold(base, s)
  BY DEF CashFold!Fold, CashFold!FoldLeft, FoldLeft, CashFold!MapThenFoldSet,
         MapThenFoldSet, CashFold!Max, Max

\* The same for the positions.
LEMMA HeldFoldIs ==
    ASSUME NEW base, NEW s
    PROVE  FoldLeft(HeldAfter, base, s) = HeldFold!Fold(base, s)
  BY DEF HeldFold!Fold, HeldFold!FoldLeft, FoldLeft, HeldFold!MapThenFoldSet,
         MapThenFoldSet, HeldFold!Max, Max

\* The same for the costs.
LEMMA CostFoldIs ==
    ASSUME NEW base, NEW s
    PROVE  FoldLeft(AddCost, base, s) = CostFold!Fold(base, s)
  BY DEF CostFold!Fold, CostFold!FoldLeft, FoldLeft, CostFold!MapThenFoldSet,
         MapThenFoldSet, CostFold!Max, Max

\* The same for the payments.
LEMMA PaidFoldIs ==
    ASSUME NEW base, NEW s
    PROVE  FoldLeft(PaidAfter, base, s) = PaidFold!Fold(base, s)
  BY DEF PaidFold!Fold, PaidFold!FoldLeft, FoldLeft, PaidFold!MapThenFoldSet,
         MapThenFoldSet, PaidFold!Max, Max

\* The same for the ledger.
LEMMA BookFoldIs ==
    ASSUME NEW base, NEW s
    PROVE  FoldLeft(Booked, base, s) = BookFold!Fold(base, s)
  BY DEF BookFold!Fold, BookFold!FoldLeft, FoldLeft, BookFold!MapThenFoldSet,
         MapThenFoldSet, BookFold!Max, Max

-----------------------------------------------------------------------------
FillRow == [asset : AssetSet, side : {"buy", "sell"}, qty : Nat, price : Nat, cost : Nat]

\* Fills have shares and a price.
BuyFill == {f \in FillRow : f.side = "buy" /\ f.qty > 0 /\ f.price > 0}
SellFill == {f \in FillRow : f.side = "sell" /\ f.qty > 0 /\ f.price > 0}

OneEach(fs) == \A m, n \in 1 .. Len(fs) : m # n => fs[m].asset # fs[n].asset

\* What is filled of a list of intents with different assets: those with
\* shares, each once.
LEMMA FilledOf ==
    ASSUME NEW S, NEW s \in Seq(S), OneEach(s)
    PROVE  LET fs == FoldLeft(Filled, <<>>, s)
           IN  /\ fs \in Seq(S) /\ OneEach(fs)
               /\ \A m \in 1 .. Len(fs) : \E i \in 1 .. Len(s) : fs[m] = s[i] /\ s[i].qty > 0
  <1> DEFINE From(fs, k) ==
                 \A m \in 1 .. Len(fs) : \E i \in 1 .. k : fs[m] = s[i] /\ s[i].qty > 0
             A == [k \in 0 .. Len(s) |-> {fs \in Seq(S) : OneEach(fs) /\ From(fs, k)}]
  <1>1. <<>> \in A[0]
    <2>1. 0 \in 0 .. Len(s) /\ <<>> \in Seq(S) /\ Len(<<>>) = 0
      OBVIOUS
    <2>2. OneEach(<<>>) /\ From(<<>>, 0)
      BY <2>1 DEF OneEach
    <2>3. A[0] = {fs \in Seq(S) : OneEach(fs) /\ From(fs, 0)}
      BY <2>1
    <2> HIDE DEF A, From
    <2> QED
      BY <2>1, <2>2, <2>3
  <1>2. ASSUME NEW k \in 1 .. Len(s), NEW fs \in A[k - 1]
        PROVE  Filled(fs, s[k]) \in A[k]
    <2>1. PICK j : j = k - 1 /\ j \in 0 .. Len(s) /\ k = j + 1 /\ k \in 0 .. Len(s)
      OBVIOUS
    <2>2. fs \in Seq(S) /\ OneEach(fs) /\ From(fs, j)
      <3>1. A[j] = {gs \in Seq(S) : OneEach(gs) /\ From(gs, j)}
        BY <2>1
      <3> HIDE DEF A, From
      <3> QED
        BY <1>2, <2>1, <3>1
    <2>3. PICK f : f = s[k] /\ f \in S
      OBVIOUS
    <2>4. A[k] = {gs \in Seq(S) : OneEach(gs) /\ From(gs, k)}
      BY <2>1
    <2>5. 1 .. j \subseteq 1 .. k
      BY <2>1
    <2>6. CASE f.qty > 0
      <3>1. PICK gs : gs = Append(fs, f)
        OBVIOUS
      <3>2. /\ gs \in Seq(S) /\ Len(gs) = Len(fs) + 1 /\ gs[Len(fs) + 1] = f
            /\ \A m \in 1 .. Len(fs) : gs[m] = fs[m]
        BY <2>2, <2>3, <3>1, AppendProperties
      <3>3. PICK n : n = Len(fs) + 1 /\ n \in Nat /\ Len(gs) = n /\ gs[n] = f
        BY <2>2, <3>2
      <3>4. \A m \in 1 .. n : m = n \/ m \in 1 .. Len(fs)
        BY <2>2, <3>3
      <3>5. From(gs, k)
        <4>1. \A m \in 1 .. Len(fs) : \E i \in 1 .. k : gs[m] = s[i] /\ s[i].qty > 0
          BY <2>2, <2>5, <3>2
        <4>2. gs[n] = s[k] /\ s[k].qty > 0
          BY <2>3, <2>6, <3>3
        <4>3. \A m \in 1 .. n : \E i \in 1 .. k : gs[m] = s[i] /\ s[i].qty > 0
          BY <3>4, <4>1, <4>2
        <4>4. DOMAIN gs = 1 .. n
          BY <3>2, <3>3
        <4> QED
          BY <3>3, <4>3, <4>4
      <3>6. \A m \in 1 .. Len(fs) : gs[m].asset # f.asset
        <4> SUFFICES ASSUME NEW m \in 1 .. Len(fs)
                     PROVE  gs[m].asset # f.asset
          OBVIOUS
        <4>1. PICK i \in 1 .. j : fs[m] = s[i]
          BY <2>2
        <4>2. i \in 1 .. Len(s) /\ k \in 1 .. Len(s) /\ i # k
          BY <2>1
        <4>3. s[i].asset # s[k].asset
          BY <4>2 DEF OneEach
        <4> QED
          BY <2>3, <3>2, <4>1, <4>3
      <3>7. OneEach(gs)
        <4> SUFFICES ASSUME NEW m \in 1 .. n, NEW o \in 1 .. n, m # o
                     PROVE  gs[m].asset # gs[o].asset
          BY <3>3 DEF OneEach
        <4>1. CASE m = n \/ o = n
          BY <3>3, <3>4, <3>6, <4>1
        <4>2. CASE m # n /\ o # n
          <5>1. m \in 1 .. Len(fs) /\ o \in 1 .. Len(fs)
            BY <3>4, <4>2
          <5> QED
            BY <2>2, <3>2, <5>1 DEF OneEach
        <4> QED
          BY <4>1, <4>2
      <3>8. Filled(fs, s[k]) = gs
        BY <2>3, <2>6, <3>1 DEF Filled
      <3> HIDE DEF A, From
      <3> QED
        BY <2>4, <3>2, <3>5, <3>7, <3>8
    <2>7. CASE ~ (f.qty > 0)
      <3>1. Filled(fs, s[k]) = fs
        BY <2>3, <2>7 DEF Filled
      <3>2. From(fs, k)
        BY <2>2, <2>5
      <3> HIDE DEF A, From
      <3> QED
        BY <2>2, <2>4, <3>1, <3>2
    <2> QED
      BY <2>6, <2>7
  <1>3. Len(s) \in 0 .. Len(s)
    OBVIOUS
  <1>4. A[Len(s)] = {fs \in Seq(S) : OneEach(fs) /\ From(fs, Len(s))}
    BY <1>3
  <1>5. FoldLeft(Filled, <<>>, s) \in A[Len(s)]
    <2> HIDE DEF A
    <2>1. FilledFold!Fold(<<>>, s) \in A[Len(s)]
      BY <1>1, <1>2, FilledFold!FoldInduction
    <2> QED
      BY <2>1, FilledFoldIs
  <1>6. PICK fs : fs = FoldLeft(Filled, <<>>, s)
    OBVIOUS
  <1>7. fs \in Seq(S) /\ OneEach(fs) /\ From(fs, Len(s))
    <2> HIDE DEF A, From
    <2> QED
      BY <1>4, <1>5, <1>6
  <1> QED
    BY <1>6, <1>7

-----------------------------------------------------------------------------
\* A multiple leaves no remainder.
LEMMA MultipleMod ==
    ASSUME NEW k \in Int, NEW d \in Nat \ {0}
    PROVE  (k * d) % d = 0
  <1>1. PICK x : x = k * d /\ x \in Int
    OBVIOUS
  <1>2. PICK q, r : q = x \div d /\ r = x % d
    OBVIOUS
  <1>3. q \in Int /\ r \in Int /\ x = d * q + r /\ 0 <= r /\ r < d
    BY <1>1, <1>2
  <1>4. PICK e : e = k - q /\ e \in Int
    BY <1>3
  <1>5. r = d * e
    BY <1>1, <1>3, <1>4
  <1>6. ~ (e >= 1)
    <2>1. e >= 1 => d * e >= d
      BY <1>4
    <2> QED
      BY <1>3, <1>5, <2>1
  <1>7. ~ (e <= -1)
    <2>1. e <= -1 => d * e <= -d
      BY <1>4
    <2> QED
      BY <1>3, <1>5, <2>1
  <1>8. e = 0
    BY <1>4, <1>6, <1>7
  <1> QED
    BY <1>1, <1>2, <1>5, <1>8

\* A number without remainder is a multiple.
LEMMA ModMultiple ==
    ASSUME NEW x \in Int, NEW d \in Nat \ {0}, x % d = 0
    PROVE  \E k \in Int : x = k * d
  <1>1. PICK q : q = x \div d /\ q \in Int
    OBVIOUS
  <1>2. x = d * q + (x % d)
    BY <1>1
  <1> QED
    BY <1>1, <1>2

\* Whole lots add up to whole lots.
LEMMA LotsAdd ==
    ASSUME NEW x \in Int, NEW y \in Int, NEW d \in Nat \ {0}, x % d = 0, y % d = 0
    PROVE  (x + y) % d = 0
  <1>1. PICK k \in Int : x = k * d
    BY ModMultiple
  <1>2. PICK l \in Int : y = l * d
    BY ModMultiple
  <1>3. PICK m : m = k + l /\ m \in Int
    OBVIOUS
  <1>4. x + y = m * d
    BY <1>1, <1>2, <1>3
  <1>5. (m * d) % d = 0
    BY <1>3, MultipleMod
  <1> QED
    BY <1>4, <1>5

\* Whole lots: at most what was asked for, and no remainder.
LEMMA WholeLotsFacts ==
    ASSUME NEW q \in Int
    PROVE  /\ WholeLots(q) \in Int /\ WholeLots(q) <= q
           /\ WholeLots(q) % LotSize = 0
  <1>1. LotSize \in Nat \ {0}
    BY EventAssumption
  <1>2. PICK d : d = q \div LotSize /\ d \in Int
    BY <1>1
  <1>3. d * LotSize <= q
    BY <1>1, <1>2
  <1>4. (d * LotSize) % LotSize = 0
    BY <1>1, <1>2, MultipleMod
  <1> QED
    BY <1>1, <1>2, <1>3, <1>4 DEF WholeLots

\* The assets are finitely many.
LEMMA AssetsFinite == IsFiniteSet(AssetSet)
  <1>1. PICK n \in Nat : DOMAIN Assets = 1 .. n
    <2>1. Assets \in Seq(AssetSet)
      BY EventAssumption
    <2> QED
      BY <2>1
  <1>2. AssetSet = {Assets[i] : i \in 1 .. n}
    BY <1>1 DEF AssetSet, ToSet
  <1> DEFINE f == [i \in 1 .. n |-> Assets[i]]
  <1>3. f \in [1 .. n -> AssetSet] /\ \A a \in AssetSet : \E i \in 1 .. n : f[i] = a
    BY <1>2
  <1> HIDE DEF f
  <1>4. f \in Surjection(1 .. n, AssetSet)
    BY <1>3 DEF Surjection
  <1>5. IsFiniteSet(1 .. n)
    BY FS_Interval
  <1> QED
    BY <1>4, <1>5, FS_Surjection

\* The costs of a fill are an amount.
LEMMA CostType ==
    ASSUME NEW n \in Nat, NEW side
    PROVE  TotalCost(n, side) \in Nat
  <1>1. ASSUME NEW d \in Nat \ {0}
        PROVE  Rounded(n, d) \in Nat
    BY DEF Rounded
  <1> QED
    BY <1>1, CostAssumption DEF TotalCost, Commission, StampDuty, Slippage

\* The share of one target: what c pays at n targets of price p.
LEMMA ShareIsPaid ==
    ASSUME NEW c \in Int, NEW n \in Nat \ {0}, NEW p \in Nat \ {0}, NEW q \in Int,
           q <= c \div (n * p)
    PROVE  n * (q * p) <= c
  <1>1. PICK x : x = n * p /\ x \in Nat \ {0}
    OBVIOUS
  <1>2. PICK d : d = c \div x /\ d \in Int
    BY <1>1
  <1>3. d * x <= c
    BY <1>1, <1>2
  <1>4. q * x <= d * x
    BY <1>1, <1>2
  <1>5. q * x \in Int /\ d * x \in Int
    BY <1>1, <1>2
  <1>6. n * (q * p) = q * x
    BY <1>1
  <1> QED
    BY <1>3, <1>4, <1>5, <1>6

-----------------------------------------------------------------------------
\* What a policy leaves of a request is not more than the request.
LEMMA ApprovedFacts ==
    ASSUME cash \in Int, NEW n \in Nat \ {0}, NEW p \in Nat, NEW v, p > 0
    PROVE  /\ Approved(n, p, v) \in Nat
           /\ Approved(n, p, v) > 0 => Approved(n, p, v) <= cash \div (n * p)
  <1>1. PICK x : x = n * p /\ x \in Nat \ {0}
    OBVIOUS
  <1>2. PICK c : c = cash \div x /\ c \in Int
    BY <1>1
  <1>3. PICK r : r = WholeLots(c) /\ r \in Int /\ r <= c
    BY <1>2, WholeLotsFacts
  <1>4. /\ r <= 0 => Approved(n, p, v) = 0
        /\ r > 0 => Approved(n, p, v) \in {0, r, IF ClipQty < r THEN ClipQty ELSE r}
    BY <1>1, <1>2, <1>3 DEF Approved
  <1>5. ClipQty \in Nat
    BY EventAssumption
  <1> QED
    BY <1>1, <1>2, <1>3, <1>4, <1>5

\* The purchase of one asset: whole lots, of a target with a price, and paid by
\* its part of the cash.
LEMMA BoughtFacts ==
    ASSUME EventTypeOK, NEW bars \in [AssetSet -> Bars], NEW active \in SUBSET AssetSet,
           NEW verdict, NEW a \in AssetSet
    PROVE  LET q == QtyBought(a, active, bars, verdict)
               p == bars[a].close
           IN  /\ q \in Nat /\ q % LotSize = 0 /\ p \in Nat
               /\ q > 0 => /\ a \in active /\ a \in Targets(active, bars, verdict)
                           /\ p > 0 /\ Cardinality(active) * (q * p) <= cash
  <1>1. PICK q, p : q = QtyBought(a, active, bars, verdict) /\ p = bars[a].close
    OBVIOUS
  <1>2. bars[a] \in Bars /\ p \in Nat
    <2>1. bars[a] \in Bars
      OBVIOUS
    <2>2. bars[a].close \in Closes
      BY <2>1 DEF Bars
    <2> QED
      BY <1>1, <2>1, <2>2, EventAssumption
  <1>3. LotSize \in Nat \ {0} /\ 0 % LotSize = 0
    BY EventAssumption
  <1>4. CASE ~ (/\ a \in Targets(active, bars, verdict)
                /\ BuyQty(a, active, bars, verdict) > 0)
    <2>1. q = 0
      BY <1>1, <1>4 DEF QtyBought
    <2> QED
      BY <1>1, <1>2, <1>3, <2>1
  <1>5. CASE /\ a \in Targets(active, bars, verdict)
             /\ BuyQty(a, active, bars, verdict) > 0
    <2>1. a \in active
      BY <1>5 DEF Targets
    <2>2. PICK n : n = Cardinality(active) /\ n \in Nat \ {0}
      <3>1. IsFiniteSet(active)
        BY AssetsFinite, FS_Subset
      <3> QED
        BY <2>1, <3>1, FS_CardinalityType, FS_EmptySet
    <2>3. p # 0
      BY <1>1, <1>2, <1>5 DEF BuyQty
    <2>4. cash \in Int /\ positions[a] \in Nat
      BY DEF EventTypeOK
    <2>5. PICK b : b = BuyQty(a, active, bars, verdict) /\ b > 0
      BY <1>5
    <2>6. b \in Int /\ b % LotSize = 0 /\ b <= cash \div (n * p)
      <3>1. PICK x : x = n * p /\ x \in Nat \ {0}
        BY <1>2, <2>2, <2>3
      <3>2. CASE policies
        <4>1. PICK w : w = Approved(n, p, verdict[a]) /\ w \in Nat
                       /\ (w > 0 => w <= cash \div x)
          BY <1>2, <2>2, <2>3, <2>4, <3>1, ApprovedFacts
        <4>2. PICK m : m = w - positions[a] /\ m \in Int /\ m <= w
          BY <2>4, <4>1
        <4>3. b = WholeLots(m)
          BY <1>1, <2>2, <2>3, <2>5, <3>2, <4>1, <4>2 DEF BuyQty
        <4>4. b \in Int /\ b % LotSize = 0 /\ b <= m
          BY <4>2, <4>3, WholeLotsFacts
        <4>5. w > 0 /\ cash \div x \in Int
          BY <2>4, <2>5, <3>1, <4>1, <4>2, <4>4
        <4> QED
          BY <3>1, <4>1, <4>2, <4>4, <4>5
      <3>3. CASE ~policies
        <4>1. PICK h : h = n * positions[a] * p /\ h \in Nat
          BY <1>2, <2>2, <2>4
        <4>2. PICK m : m = (cash - h) \div x /\ m \in Int
          BY <2>4, <3>1, <4>1
        <4>3. b = WholeLots(m)
          BY <1>1, <2>2, <2>3, <2>5, <3>1, <3>3, <4>1, <4>2 DEF BuyQty
        <4>4. b \in Int /\ b % LotSize = 0 /\ b <= m
          BY <4>2, <4>3, WholeLotsFacts
        <4>5. m <= cash \div x /\ cash \div x \in Int
          <5>1. PICK c : c = cash \div x /\ c \in Int /\ cash < (c + 1) * x
            BY <2>4, <3>1
          <5>2. m * x <= cash - h
            BY <2>4, <3>1, <4>1, <4>2
          <5>3. m * x < (c + 1) * x
            BY <2>4, <3>1, <4>1, <4>2, <5>1, <5>2
          <5>4. m < c + 1
            BY <3>1, <4>2, <5>1, <5>3
          <5> QED
            BY <4>2, <5>1, <5>4
        <4> QED
          BY <3>1, <4>2, <4>4, <4>5
      <3> QED
        BY <3>2, <3>3
    <2>7. n * (b * p) <= cash
      BY <1>2, <2>2, <2>3, <2>4, <2>6, ShareIsPaid
    <2>8. q \in {0, b}
      BY <1>1, <2>5 DEF QtyBought
    <2> QED
      BY <1>1, <1>2, <1>3, <1>5, <2>1, <2>2, <2>3, <2>5, <2>6, <2>7, <2>8
  <1> QED
    BY <1>4, <1>5

-----------------------------------------------------------------------------
\* The sale of one asset: its whole position, which no target asks for, at a
\* price.
LEMMA SoldFacts ==
    ASSUME EventTypeOK, NEW bars \in [AssetSet -> Bars], NEW active \in SUBSET AssetSet,
           NEW verdict, NEW a \in AssetSet
    PROVE  LET q == QtySold(a, active, bars, verdict)
               p == bars[a].close
           IN  /\ q \in Nat /\ q % LotSize = 0 /\ p \in Nat
               /\ q > 0 => /\ a \notin Targets(active, bars, verdict)
                           /\ p > 0 /\ q = positions[a]
  <1>1. bars[a].close \in Nat
    <2>1. bars[a] \in Bars
      OBVIOUS
    <2>2. bars[a].close \in Closes
      BY <2>1 DEF Bars
    <2> QED
      BY <2>2, EventAssumption
  <1>2. positions[a] \in Nat /\ positions[a] % LotSize = 0
    BY DEF EventTypeOK
  <1>3. LotSize \in Nat \ {0} /\ 0 % LotSize = 0
    BY EventAssumption
  <1>4. QtySold(a, active, bars, verdict) \in {0, positions[a]}
    BY DEF QtySold
  <1>5. QtySold(a, active, bars, verdict) > 0
          => a \notin Targets(active, bars, verdict) /\ bars[a].close > 0
    BY <1>3 DEF QtySold
  <1> QED
    BY <1>1, <1>2, <1>3, <1>4, <1>5

\* What the day's fills are: b purchases of different assets, each paid by one
\* of n parts of the cash, then sales of whole positions in other assets.
DayOf(fs, n, b) ==
    /\ fs \in Seq(FillRow) /\ OneEach(fs) /\ b <= Len(fs)
    /\ \A m \in 1 .. Len(fs) :
          fs[m].qty > 0 /\ fs[m].price > 0 /\ fs[m].qty % LotSize = 0
    /\ \A m \in 1 .. b : fs[m].side = "buy" /\ n * (fs[m].qty * fs[m].price) <= cash
    /\ \A m \in b + 1 .. Len(fs) : fs[m].side = "sell" /\ fs[m].qty = positions[fs[m].asset]

\* The purchases of a day.
LEMMA PurchasesAre ==
    ASSUME EventTypeOK, NEW bars \in [AssetSet -> Bars], NEW active \in SUBSET AssetSet,
           NEW verdict
    PROVE  LET P == Purchases(active, bars, verdict)
           IN  /\ P \in Seq(FillRow) /\ OneEach(P)
               /\ \A m \in 1 .. Len(P) :
                     /\ P[m].side = "buy" /\ P[m].qty > 0 /\ P[m].price > 0
                     /\ P[m].qty % LotSize = 0
                     /\ P[m].asset \in active
                     /\ P[m].asset \in Targets(active, bars, verdict)
                     /\ Cardinality(active) * (P[m].qty * P[m].price) <= cash
  <1> DEFINE Row(a) == Fill(a, "buy", QtyBought(a, active, bars, verdict), bars[a].close)
             s == [i \in DOMAIN Assets |-> Row(Assets[i])]
  <1>1. ASSUME NEW a \in AssetSet
        PROVE  /\ Row(a) \in FillRow
               /\ Row(a).asset = a /\ Row(a).side = "buy"
               /\ Row(a).qty % LotSize = 0
               /\ Row(a).qty > 0 => /\ Row(a).price > 0
                                    /\ a \in active /\ a \in Targets(active, bars, verdict)
                                    /\ Cardinality(active) * (Row(a).qty * Row(a).price) <= cash
    <2>1. PICK q, p : q = QtyBought(a, active, bars, verdict) /\ p = bars[a].close
      OBVIOUS
    <2>2. /\ q \in Nat /\ q % LotSize = 0 /\ p \in Nat
          /\ q > 0 => /\ a \in active /\ a \in Targets(active, bars, verdict)
                      /\ p > 0 /\ Cardinality(active) * (q * p) <= cash
      BY <2>1, BoughtFacts
    <2>3. PICK c : c = TotalCost(q * p, "buy") /\ c \in Nat
      <3>1. q * p \in Nat
        BY <2>2
      <3> QED
        BY <3>1, CostType
    <2>4. Row(a) = [asset |-> a, side |-> "buy", qty |-> q, price |-> p, cost |-> c]
      BY <2>1, <2>3 DEF Fill
    <2> HIDE DEF Row
    <2> QED
      BY <2>2, <2>3, <2>4 DEF FillRow
  <1>2. PICK k \in Nat : /\ DOMAIN Assets = 1 .. k
                         /\ \A i \in 1 .. k : Assets[i] \in AssetSet
                         /\ \A i, j \in 1 .. k : i # j => Assets[i] # Assets[j]
    BY EventAssumption
  <1> HIDE DEF Row
  <1>3. s \in Seq(FillRow) /\ Len(s) = k /\ \A i \in 1 .. k : s[i] = Row(Assets[i])
    <2>1. \A i \in 1 .. k : Row(Assets[i]) \in FillRow
      BY <1>1, <1>2
    <2> QED
      BY <1>2, <2>1
  <1>4. Purchases(active, bars, verdict) = FoldLeft(Filled, <<>>, s)
    BY DEF Purchases, Row
  <1> HIDE DEF s
  <1>5. OneEach(s)
    BY <1>1, <1>2, <1>3 DEF OneEach
  <1>6. PICK P : P = Purchases(active, bars, verdict)
    OBVIOUS
  <1>7. /\ P \in Seq(FillRow) /\ OneEach(P)
        /\ \A m \in 1 .. Len(P) : \E i \in 1 .. Len(s) : P[m] = s[i] /\ s[i].qty > 0
    BY <1>3, <1>4, <1>5, <1>6, FilledOf
  <1>8. ASSUME NEW m \in 1 .. Len(P)
        PROVE  /\ P[m].side = "buy" /\ P[m].qty > 0 /\ P[m].price > 0
               /\ P[m].qty % LotSize = 0
               /\ P[m].asset \in active
               /\ P[m].asset \in Targets(active, bars, verdict)
               /\ Cardinality(active) * (P[m].qty * P[m].price) <= cash
    <2>1. PICK i \in 1 .. k : P[m] = s[i] /\ s[i].qty > 0
      BY <1>3, <1>7
    <2>2. PICK a \in AssetSet : a = Assets[i]
      BY <1>2
    <2>3. P[m] = Row(a) /\ Row(a).qty > 0
      BY <1>3, <2>1, <2>2
    <2> QED
      BY <1>1, <2>3
  <1> QED
    BY <1>6, <1>7, <1>8

\* The sales of a day.
LEMMA SalesAre ==
    ASSUME EventTypeOK, NEW bars \in [AssetSet -> Bars], NEW active \in SUBSET AssetSet,
           NEW verdict
    PROVE  LET S == Sales(active, bars, verdict)
           IN  /\ S \in Seq(FillRow) /\ OneEach(S)
               /\ \A m \in 1 .. Len(S) :
                     /\ S[m].side = "sell" /\ S[m].qty > 0 /\ S[m].price > 0
                     /\ S[m].qty % LotSize = 0
                     /\ S[m].asset \notin Targets(active, bars, verdict)
                     /\ S[m].qty = positions[S[m].asset]
  <1> DEFINE Row(a) == Fill(a, "sell", QtySold(a, active, bars, verdict), bars[a].close)
             s == [i \in DOMAIN Assets |-> Row(Assets[i])]
  <1>1. ASSUME NEW a \in AssetSet
        PROVE  /\ Row(a) \in FillRow
               /\ Row(a).asset = a /\ Row(a).side = "sell"
               /\ Row(a).qty % LotSize = 0
               /\ Row(a).qty > 0 => /\ Row(a).price > 0
                                    /\ a \notin Targets(active, bars, verdict)
                                    /\ Row(a).qty = positions[a]
    <2>1. PICK q, p : q = QtySold(a, active, bars, verdict) /\ p = bars[a].close
      OBVIOUS
    <2>2. /\ q \in Nat /\ q % LotSize = 0 /\ p \in Nat
          /\ q > 0 => /\ a \notin Targets(active, bars, verdict)
                      /\ p > 0 /\ q = positions[a]
      BY <2>1, SoldFacts
    <2>3. PICK c : c = TotalCost(q * p, "sell") /\ c \in Nat
      <3>1. q * p \in Nat
        BY <2>2
      <3> QED
        BY <3>1, CostType
    <2>4. Row(a) = [asset |-> a, side |-> "sell", qty |-> q, price |-> p, cost |-> c]
      BY <2>1, <2>3 DEF Fill
    <2> HIDE DEF Row
    <2> QED
      BY <2>2, <2>3, <2>4 DEF FillRow
  <1>2. PICK k \in Nat : /\ DOMAIN Assets = 1 .. k
                         /\ \A i \in 1 .. k : Assets[i] \in AssetSet
                         /\ \A i, j \in 1 .. k : i # j => Assets[i] # Assets[j]
    BY EventAssumption
  <1> HIDE DEF Row
  <1>3. s \in Seq(FillRow) /\ Len(s) = k /\ \A i \in 1 .. k : s[i] = Row(Assets[i])
    <2>1. \A i \in 1 .. k : Row(Assets[i]) \in FillRow
      BY <1>1, <1>2
    <2> QED
      BY <1>2, <2>1
  <1>4. Sales(active, bars, verdict) = FoldLeft(Filled, <<>>, s)
    BY DEF Sales, Row
  <1> HIDE DEF s
  <1>5. OneEach(s)
    BY <1>1, <1>2, <1>3 DEF OneEach
  <1>6. PICK S : S = Sales(active, bars, verdict)
    OBVIOUS
  <1>7. /\ S \in Seq(FillRow) /\ OneEach(S)
        /\ \A m \in 1 .. Len(S) : \E i \in 1 .. Len(s) : S[m] = s[i] /\ s[i].qty > 0
    BY <1>3, <1>4, <1>5, <1>6, FilledOf
  <1>8. ASSUME NEW m \in 1 .. Len(S)
        PROVE  /\ S[m].side = "sell" /\ S[m].qty > 0 /\ S[m].price > 0
               /\ S[m].qty % LotSize = 0
               /\ S[m].asset \notin Targets(active, bars, verdict)
               /\ S[m].qty = positions[S[m].asset]
    <2>1. PICK i \in 1 .. k : S[m] = s[i] /\ s[i].qty > 0
      BY <1>3, <1>7
    <2>2. PICK a \in AssetSet : a = Assets[i]
      BY <1>2
    <2>3. S[m] = Row(a) /\ Row(a).qty > 0
      BY <1>3, <2>1, <2>2
    <2> QED
      BY <1>1, <2>3
  <1> QED
    BY <1>6, <1>7, <1>8

\* The fills of a day are as DayOf says, with no more purchases than parts.
LEMMA DayFills ==
    ASSUME EventTypeOK, NEW bars \in [AssetSet -> Bars], NEW active \in SUBSET AssetSet,
           NEW verdict
    PROVE  \E n \in Nat : \E b \in 0 .. n :
               DayOf(Purchases(active, bars, verdict) \o Sales(active, bars, verdict), n, b)
  <1>1. PICK P : P = Purchases(active, bars, verdict)
    OBVIOUS
  <1>2. PICK S : S = Sales(active, bars, verdict)
    OBVIOUS
  <1>3. PICK T : T = Targets(active, bars, verdict)
    OBVIOUS
  <1>4. PICK n : n = Cardinality(active) /\ n \in Nat
    <2>1. IsFiniteSet(active)
      BY AssetsFinite, FS_Subset
    <2> QED
      BY <2>1, FS_CardinalityType
  <1>5. /\ P \in Seq(FillRow) /\ OneEach(P)
        /\ \A m \in 1 .. Len(P) :
              /\ P[m].side = "buy" /\ P[m].qty > 0 /\ P[m].price > 0
              /\ P[m].qty % LotSize = 0
              /\ P[m].asset \in active /\ P[m].asset \in T
              /\ n * (P[m].qty * P[m].price) <= cash
    BY <1>1, <1>3, <1>4, PurchasesAre
  <1>6. /\ S \in Seq(FillRow) /\ OneEach(S)
        /\ \A m \in 1 .. Len(S) :
              /\ S[m].side = "sell" /\ S[m].qty > 0 /\ S[m].price > 0
              /\ S[m].qty % LotSize = 0
              /\ S[m].asset \notin T /\ S[m].qty = positions[S[m].asset]
    BY <1>2, <1>3, SalesAre
  <1>7. PICK b : b = Len(P) /\ b \in Nat
    BY <1>5
  <1>8. PICK d : d = Len(S) /\ d \in Nat
    BY <1>6
  <1>9. b <= n
    <2> DEFINE f == [m \in 1 .. b |-> P[m].asset]
    <2>1. f \in Injection(1 .. b, active)
      <3>1. f \in [1 .. b -> active]
        BY <1>5, <1>7
      <3>2. \A i, j \in 1 .. b : f[i] = f[j] => i = j
        BY <1>5, <1>7 DEF OneEach
      <3> HIDE DEF f
      <3> QED
        BY <3>1, <3>2 DEF Injection, IsInjective
    <2>2. IsFiniteSet(active)
      BY AssetsFinite, FS_Subset
    <2> HIDE DEF f
    <2>3. Cardinality(1 .. b) <= n
      BY <1>4, <2>1, <2>2, FS_Injection
    <2>4. Cardinality(1 .. b) = b
      <3>1. 1 \in Int /\ b \in Int
        BY <1>7
      <3>2. Cardinality(1 .. b) = IF 1 > b THEN 0 ELSE b - 1 + 1
        BY <3>1, FS_Interval, Zenon
      <3> QED
        BY <1>7, <3>2
    <2> QED
      BY <2>3, <2>4
  <1>10. PICK fs : fs = P \o S
    OBVIOUS
  <1>11. /\ fs \in Seq(FillRow) /\ Len(fs) = b + d
         /\ \A m \in 1 .. b : fs[m] = P[m]
         /\ \A m \in b + 1 .. b + d : m - b \in 1 .. d /\ fs[m] = S[m - b]
    BY <1>5, <1>6, <1>7, <1>8, <1>10
  <1>12. \A m \in 1 .. b + d : m \in 1 .. b \/ m \in b + 1 .. b + d
    BY <1>7, <1>8
  <1>13. ASSUME NEW m \in 1 .. b
         PROVE  /\ fs[m].side = "buy" /\ fs[m].qty > 0 /\ fs[m].price > 0
                /\ fs[m].qty % LotSize = 0
                /\ fs[m].asset \in active /\ fs[m].asset \in T
                /\ n * (fs[m].qty * fs[m].price) <= cash
    BY <1>5, <1>7, <1>11
  <1>14. ASSUME NEW m \in b + 1 .. b + d
         PROVE  /\ fs[m].side = "sell" /\ fs[m].qty > 0 /\ fs[m].price > 0
                /\ fs[m].qty % LotSize = 0
                /\ fs[m].asset \notin T /\ fs[m].qty = positions[fs[m].asset]
    BY <1>6, <1>8, <1>11
  <1>15. OneEach(fs)
    <2> SUFFICES ASSUME NEW m \in 1 .. b + d, NEW o \in 1 .. b + d, m # o
                 PROVE  fs[m].asset # fs[o].asset
      BY <1>11 DEF OneEach
    <2>1. CASE m \in 1 .. b /\ o \in 1 .. b
      BY <1>5, <1>7, <1>11, <2>1 DEF OneEach
    <2>2. CASE m \in b + 1 .. b + d /\ o \in b + 1 .. b + d
      <3>1. m - b # o - b /\ m - b \in 1 .. d /\ o - b \in 1 .. d
        BY <1>7, <1>8, <2>2
      <3>2. S[m - b].asset # S[o - b].asset
        BY <1>6, <1>8, <3>1 DEF OneEach
      <3> QED
        BY <1>11, <2>2, <3>2
    <2>3. CASE m \in 1 .. b /\ o \in b + 1 .. b + d
      BY <1>13, <1>14, <2>3
    <2>4. CASE m \in b + 1 .. b + d /\ o \in 1 .. b
      BY <1>13, <1>14, <2>4
    <2> QED
      BY <1>12, <2>1, <2>2, <2>3, <2>4
  <1>16. b <= Len(fs) /\ b \in 0 .. n
    BY <1>4, <1>7, <1>8, <1>9, <1>11
  <1>17. DayOf(fs, n, b)
    BY <1>11, <1>12, <1>13, <1>14, <1>15, <1>16 DEF DayOf
  <1> QED
    BY <1>1, <1>2, <1>4, <1>10, <1>16, <1>17

-----------------------------------------------------------------------------
LedgerRow == [cash : Int, qty : [AssetSet -> Nat], basis : [AssetSet -> Int],
              realized : Int, charged : Int]

Balanced(l) ==
    l.cash + SumFunctionOnSet(l.basis, AssetSet) = InitialCash + l.realized - l.charged

\* Booking an amount on one asset's basis moves the sum of the bases by it.
LEMMA BasisMoves ==
    ASSUME NEW basis \in [AssetSet -> Int], NEW a \in AssetSet, NEW x \in Int
    PROVE  /\ SumFunctionOnSet(basis, AssetSet) \in Int
           /\ SumFunctionOnSet([basis EXCEPT ![a] = @ + x], AssetSet)
                = SumFunctionOnSet(basis, AssetSet) + x
  <1>1. IsFiniteSet(AssetSet)
    BY AssetsFinite
  <1>2. PICK moved : moved = [basis EXCEPT ![a] = @ + x]
    OBVIOUS
  <1>3. moved[a] = basis[a] + x
    BY <1>2
  <1>4. \A y \in AssetSet : basis[y] \in Int /\ moved[y] \in Int
    BY <1>2
  <1>5. \A y \in AssetSet \ {a} : basis[y] = moved[y]
    BY <1>2
  <1>6. SumFunctionOnSet(basis, AssetSet) \in Int
    BY <1>1, <1>4, SumType
  <1>7. SumFunctionOnSet(moved, AssetSet)
          = SumFunctionOnSet(basis, AssetSet) - basis[a] + moved[a]
    BY <1>1, <1>4, <1>5, SumChange
  <1> QED
    BY <1>2, <1>3, <1>4, <1>6, <1>7

\* A quotient rounds down.
LEMMA QuotientBounds ==
    ASSUME NEW x \in Int, NEW d \in Nat \ {0}
    PROVE  /\ x \div d \in Int
           /\ (x \div d) * d <= x /\ x < (x \div d + 1) * d
  <1>1. PICK q : q = x \div d /\ q \in Int
    OBVIOUS
  <1>2. x = d * q + (x % d) /\ x % d \in 0 .. d - 1
    BY <1>1
  <1>3. q * d = d * q /\ (q + 1) * d = d * q + d
    BY <1>1
  <1> QED
    BY <1>1, <1>2, <1>3

\* A purchase in the ledger: at most the shares of the fill, all of them when
\* the cash pays for them, and the accounts stay balanced.
LEMMA BoughtStep ==
    ASSUME NEW l \in LedgerRow, NEW f \in FillRow, f.qty > 0, f.price > 0
    PROVE  LET m == Bought(l, f)
           IN  /\ m \in LedgerRow
               /\ m.qty[f.asset] <= l.qty[f.asset] + f.qty
               /\ \A a \in AssetSet \ {f.asset} : m.qty[a] = l.qty[a]
               /\ Balanced(l) => Balanced(m)
               /\ f.qty * f.price + f.cost <= l.cash =>
                     /\ m.cash = l.cash - f.qty * f.price - f.cost
                     /\ m.qty = [l.qty EXCEPT ![f.asset] = @ + f.qty]
  <1>1. /\ l.cash \in Int /\ l.qty \in [AssetSet -> Nat] /\ l.basis \in [AssetSet -> Int]
        /\ l.realized \in Int /\ l.charged \in Int
    BY DEF LedgerRow
  <1>2. f.asset \in AssetSet /\ f.qty \in Nat /\ f.price \in Nat /\ f.cost \in Nat
    BY DEF FillRow
  <1>3. PICK x : x = f.qty * f.price /\ x \in Nat
    BY <1>2
  <1>4. PICK q : q = Affordable(l, f)
    OBVIOUS
  <1>5. q \in Nat /\ q <= f.qty /\ (x + f.cost <= l.cash => q = f.qty)
    <2>1. CASE x + f.cost <= l.cash
      BY <1>2, <1>3, <1>4, <2>1 DEF Affordable
    <2>2. CASE ~ (x + f.cost <= l.cash) /\ l.cash <= f.cost
      BY <1>2, <1>3, <1>4, <2>2 DEF Affordable
    <2>3. CASE ~ (x + f.cost <= l.cash) /\ ~ (l.cash <= f.cost)
      <3>1. q = (l.cash - f.cost) \div f.price
        BY <1>2, <1>3, <1>4, <2>3 DEF Affordable
      <3>2. PICK r : r = l.cash - f.cost /\ r \in Nat /\ r < x
        BY <1>1, <1>2, <1>3, <2>3
      <3>3. PICK p : p = f.price /\ p \in Nat \ {0}
        BY <1>2
      <3>4. q = r \div p
        BY <3>1, <3>2, <3>3
      <3>5. q \in Int /\ q * p <= r /\ r < (q + 1) * p
        <4>1. r \in Int /\ p \in Nat \ {0}
          BY <3>2, <3>3
        <4>2. r \div p \in Int /\ (r \div p) * p <= r /\ r < (r \div p + 1) * p
          BY <4>1, QuotientBounds, Zenon
        <4> QED
          BY <3>4, <4>2, Zenon
      <3>6. q >= 0
        BY <3>2, <3>3, <3>5
      <3>7. q <= f.qty
        BY <1>2, <1>3, <3>2, <3>3, <3>5
      <3> QED
        BY <2>3, <3>5, <3>6, <3>7
    <2> QED
      BY <2>1, <2>2, <2>3
  <1>6. CASE q = 0
    <2>1. Bought(l, f) = l
      BY <1>4, <1>6 DEF Bought
    <2>2. l.qty[f.asset] \in Nat
      BY <1>1, <1>2
    <2>3. ~ (x + f.cost <= l.cash)
      BY <1>5, <1>6
    <2> QED
      BY <1>2, <1>3, <2>1, <2>2, <2>3
  <1>7. CASE q # 0
    <2>1. PICK y : y = q * f.price /\ y \in Nat
      BY <1>2, <1>5
    <2>2. Bought(l, f) = [cash |-> l.cash - y - f.cost,
                          qty |-> [l.qty EXCEPT ![f.asset] = @ + q],
                          basis |-> [l.basis EXCEPT ![f.asset] = @ + y],
                          realized |-> l.realized, charged |-> l.charged + f.cost]
      BY <1>4, <1>7, <2>1 DEF Bought
    <2>3. PICK basis : basis = [l.basis EXCEPT ![f.asset] = @ + y] /\ basis \in [AssetSet -> Int]
      <3>1. [l.basis EXCEPT ![f.asset] = @ + y] \in [AssetSet -> Int]
        BY <1>1, <1>2, <2>1
      <3> QED
        BY <3>1
    <2>4. PICK qty : qty = [l.qty EXCEPT ![f.asset] = @ + q] /\ qty \in [AssetSet -> Nat]
      <3>1. [l.qty EXCEPT ![f.asset] = @ + q] \in [AssetSet -> Nat]
        BY <1>1, <1>2, <1>5
      <3> QED
        BY <3>1
    <2>5. PICK m : m = Bought(l, f)
      OBVIOUS
    <2>6. /\ m.cash = l.cash - y - f.cost /\ m.qty = qty /\ m.basis = basis
          /\ m.realized = l.realized /\ m.charged = l.charged + f.cost
      BY <2>2, <2>3, <2>4, <2>5
    <2>7. m \in LedgerRow
      BY <1>1, <1>2, <2>1, <2>2, <2>3, <2>4, <2>5 DEF LedgerRow
    <2>8. /\ m.qty[f.asset] = l.qty[f.asset] + q
          /\ \A a \in AssetSet \ {f.asset} : m.qty[a] = l.qty[a]
      BY <1>1, <1>2, <2>4, <2>6
    <2>9. Balanced(l) => Balanced(m)
      <3>1. /\ SumFunctionOnSet(l.basis, AssetSet) \in Int
            /\ SumFunctionOnSet(basis, AssetSet) = SumFunctionOnSet(l.basis, AssetSet) + y
        BY <1>1, <1>2, <2>1, <2>3, BasisMoves
      <3>2. InitialCash \in Int
        BY EventAssumption
      <3> QED
        BY <1>1, <1>2, <2>1, <2>6, <3>1, <3>2 DEF Balanced
    <2>10. m.qty[f.asset] <= l.qty[f.asset] + f.qty
      BY <1>1, <1>2, <1>5, <2>8
    <2>11. x + f.cost <= l.cash =>
              m.cash = l.cash - x - f.cost /\ m.qty = [l.qty EXCEPT ![f.asset] = @ + f.qty]
      BY <1>3, <1>5, <2>1, <2>4, <2>6
    <2> QED
      BY <1>3, <2>5, <2>7, <2>8, <2>9, <2>10, <2>11
  <1> QED
    BY <1>6, <1>7

\* A sale in the ledger of no less than the position closes it; a sale of the
\* very position is booked as the engine settles it.
LEMMA SoldStep ==
    ASSUME NEW l \in LedgerRow, NEW f \in FillRow, f.qty > 0, l.qty[f.asset] <= f.qty
    PROVE  LET m == Sold(l, f)
           IN  /\ m \in LedgerRow
               /\ m.qty[f.asset] = 0
               /\ \A a \in AssetSet \ {f.asset} : m.qty[a] = l.qty[a]
               /\ Balanced(l) => Balanced(m)
               /\ l.qty[f.asset] = f.qty =>
                     /\ m.cash = l.cash + f.qty * f.price - f.cost
                     /\ m.qty = [l.qty EXCEPT ![f.asset] = @ - f.qty]
  <1>1. /\ l.cash \in Int /\ l.qty \in [AssetSet -> Nat] /\ l.basis \in [AssetSet -> Int]
        /\ l.realized \in Int /\ l.charged \in Int
    BY DEF LedgerRow
  <1>2. f.asset \in AssetSet /\ f.qty \in Nat /\ f.price \in Nat /\ f.cost \in Nat
    BY DEF FillRow
  <1>3. PICK held : held = l.qty[f.asset] /\ held \in Nat /\ held <= f.qty
    BY <1>1, <1>2
  <1>4. CASE held = 0
    <2>1. Sold(l, f) = l
      BY <1>3, <1>4 DEF Sold
    <2>2. l.qty[f.asset] # f.qty
      BY <1>2, <1>3, <1>4
    <2>3. l.qty[f.asset] = 0
      BY <1>3, <1>4
    <2> QED
      BY <2>1, <2>2, <2>3
  <1>5. CASE held # 0
    <2>1. (IF f.qty > held THEN held ELSE f.qty) = held
      BY <1>2, <1>3
    <2>2. PICK share : share = (l.basis[f.asset] * held) \div held /\ share \in Int
      <3>1. l.basis[f.asset] \in Int /\ l.basis[f.asset] * held \in Int
        BY <1>1, <1>2, <1>3
      <3>2. (l.basis[f.asset] * held) \div held \in Int
        BY <1>3, <1>5, <3>1
      <3> QED
        BY <3>2
    <2>3. PICK y : y = held * f.price /\ y \in Nat
      BY <1>2, <1>3
    <2>4. Sold(l, f) = [cash |-> l.cash + y - f.cost,
                        qty |-> [l.qty EXCEPT ![f.asset] = @ - held],
                        basis |-> [l.basis EXCEPT ![f.asset] = @ - share],
                        realized |-> l.realized + y - share,
                        charged |-> l.charged + f.cost]
      BY <1>3, <1>5, <2>1, <2>2, <2>3 DEF Sold
    <2>5. PICK z : z = -share /\ z \in Int
      BY <2>2
    <2>6. PICK basis : basis = [l.basis EXCEPT ![f.asset] = @ - share]
                       /\ basis = [l.basis EXCEPT ![f.asset] = @ + z]
                       /\ basis \in [AssetSet -> Int]
      <3>1. l.basis[f.asset] - share = l.basis[f.asset] + z /\ l.basis[f.asset] - share \in Int
        BY <1>1, <1>2, <2>2, <2>5
      <3>2. [l.basis EXCEPT ![f.asset] = @ - share] = [l.basis EXCEPT ![f.asset] = @ + z]
        BY <1>1, <1>2, <3>1
      <3>3. [l.basis EXCEPT ![f.asset] = @ - share] \in [AssetSet -> Int]
        BY <1>1, <1>2, <3>1
      <3> QED
        BY <3>2, <3>3
    <2>7. PICK qty : qty = [l.qty EXCEPT ![f.asset] = @ - held] /\ qty \in [AssetSet -> Nat]
                     /\ qty[f.asset] = 0
      <3>1. l.qty[f.asset] - held = 0
        BY <1>3
      <3>2. /\ [l.qty EXCEPT ![f.asset] = @ - held] \in [AssetSet -> Nat]
            /\ [l.qty EXCEPT ![f.asset] = @ - held][f.asset] = 0
        BY <1>1, <1>2, <3>1
      <3> QED
        BY <3>2
    <2>8. PICK m : m = Sold(l, f)
      OBVIOUS
    <2>9. /\ m.cash = l.cash + y - f.cost /\ m.qty = qty /\ m.basis = basis
          /\ m.realized = l.realized + y - share /\ m.charged = l.charged + f.cost
      BY <2>4, <2>6, <2>7, <2>8
    <2>10. m \in LedgerRow
      BY <1>1, <1>2, <2>2, <2>3, <2>4, <2>6, <2>7, <2>8 DEF LedgerRow
    <2>11. m.qty[f.asset] = 0 /\ \A a \in AssetSet \ {f.asset} : m.qty[a] = l.qty[a]
      BY <1>1, <1>2, <2>7, <2>9
    <2>12. Balanced(l) => Balanced(m)
      <3>1. /\ SumFunctionOnSet(l.basis, AssetSet) \in Int
            /\ SumFunctionOnSet(basis, AssetSet) = SumFunctionOnSet(l.basis, AssetSet) + z
        BY <1>1, <1>2, <2>5, <2>6, BasisMoves
      <3>2. InitialCash \in Int
        BY EventAssumption
      <3> QED
        BY <1>1, <1>2, <2>2, <2>3, <2>5, <2>9, <3>1, <3>2 DEF Balanced
    <2>13. held = f.qty => /\ m.cash = l.cash + f.qty * f.price - f.cost
                           /\ m.qty = [l.qty EXCEPT ![f.asset] = @ - f.qty]
      BY <2>3, <2>7, <2>9
    <2> QED
      BY <1>3, <2>8, <2>10, <2>11, <2>12, <2>13
  <1> QED
    BY <1>4, <1>5

-----------------------------------------------------------------------------
\* C has the cash after every prefix of the fills.
CashTraced(C, c, fs) ==
    /\ C[0] = c /\ C[Len(fs)] = Settled(c, fs)
    /\ \A k \in 1 .. Len(fs) : C[k] = CashAfter(C[k - 1], fs[k])

\* R has what the purchases of every prefix leave of the cash.
PaidTraced(R, c, fs) ==
    /\ R[0] = c /\ R[Len(fs)] = FoldLeft(PaidAfter, c, fs)
    /\ \A k \in 1 .. Len(fs) : R[k] = PaidAfter(R[k - 1], fs[k])

\* H has the positions after every prefix of the fills.
HeldTraced(H, held, fs) ==
    /\ H[0] = held /\ H[Len(fs)] = Held(held, fs)
    /\ \A k \in 1 .. Len(fs) : H[k] = HeldAfter(H[k - 1], fs[k])

\* L has the ledger after every prefix of the fills.
BookTraced(L, l, fs) ==
    /\ L[0] = l /\ L[Len(fs)] = FoldLeft(Booked, l, fs)
    /\ \A k \in 1 .. Len(fs) : L[k] = Booked(L[k - 1], fs[k])

\* K has the costs of every prefix of the fills.
CostTraced(K, fs) ==
    /\ K[0] = 0 /\ K[Len(fs)] = CostsOf(fs)
    /\ \A k \in 1 .. Len(fs) : K[k] = AddCost(K[k - 1], fs[k])

\* The cash can be followed through the fills.
LEMMA CashTrace ==
    ASSUME NEW c, NEW fs \in Seq(FillRow)
    PROVE  \E C : CashTraced(C, c, fs)
  <1>1. PICK C : /\ C[0] = c /\ C[Len(fs)] = CashFold!Fold(c, fs)
                 /\ \A k \in 1 .. Len(fs) : C[k] = CashAfter(C[k - 1], fs[k])
    BY CashFold!FoldTrace
  <1>2. Settled(c, fs) = CashFold!Fold(c, fs)
    BY CashFoldIs DEF Settled
  <1> QED
    BY <1>1, <1>2 DEF CashTraced

\* The payments can be followed through the fills.
LEMMA PaidTrace ==
    ASSUME NEW c, NEW fs \in Seq(FillRow)
    PROVE  \E R : PaidTraced(R, c, fs)
  <1>1. PICK R : /\ R[0] = c /\ R[Len(fs)] = PaidFold!Fold(c, fs)
                 /\ \A k \in 1 .. Len(fs) : R[k] = PaidAfter(R[k - 1], fs[k])
    BY PaidFold!FoldTrace
  <1>2. FoldLeft(PaidAfter, c, fs) = PaidFold!Fold(c, fs)
    BY PaidFoldIs
  <1> QED
    BY <1>1, <1>2 DEF PaidTraced

\* The positions can be followed through the fills.
LEMMA HeldTrace ==
    ASSUME NEW held, NEW fs \in Seq(FillRow)
    PROVE  \E H : HeldTraced(H, held, fs)
  <1>1. PICK H : /\ H[0] = held /\ H[Len(fs)] = HeldFold!Fold(held, fs)
                 /\ \A k \in 1 .. Len(fs) : H[k] = HeldAfter(H[k - 1], fs[k])
    BY HeldFold!FoldTrace
  <1>2. Held(held, fs) = HeldFold!Fold(held, fs)
    BY HeldFoldIs DEF Held
  <1> QED
    BY <1>1, <1>2 DEF HeldTraced

\* The ledger can be followed through the fills.
LEMMA BookTrace ==
    ASSUME NEW l, NEW fs \in Seq(FillRow)
    PROVE  \E L : BookTraced(L, l, fs)
  <1>1. PICK L : /\ L[0] = l /\ L[Len(fs)] = BookFold!Fold(l, fs)
                 /\ \A k \in 1 .. Len(fs) : L[k] = Booked(L[k - 1], fs[k])
    BY BookFold!FoldTrace
  <1>2. FoldLeft(Booked, l, fs) = BookFold!Fold(l, fs)
    BY BookFoldIs
  <1> QED
    BY <1>1, <1>2 DEF BookTraced

\* The costs can be followed through the fills.
LEMMA CostTrace ==
    ASSUME NEW fs \in Seq(FillRow)
    PROVE  \E K : CostTraced(K, fs)
  <1>1. PICK K : /\ K[0] = 0 /\ K[Len(fs)] = CostFold!Fold(0, fs)
                 /\ \A k \in 1 .. Len(fs) : K[k] = AddCost(K[k - 1], fs[k])
    BY CostFold!FoldTrace
  <1>2. CostsOf(fs) = CostFold!Fold(0, fs)
    BY CostFoldIs DEF CostsOf
  <1> QED
    BY <1>1, <1>2 DEF CostTraced

-----------------------------------------------------------------------------
\* The positions during a day's fills: whole lots, and those of the morning
\* wherever nothing was filled yet.
LEMMA HeldDay ==
    ASSUME EventTypeOK, NEW n \in Nat, NEW b \in Nat, NEW fs, DayOf(fs, n, b)
    PROVE  \E H : /\ H[0] = positions /\ H[Len(fs)] = Held(positions, fs)
                  /\ \A k \in 0 .. Len(fs) :
                        /\ H[k] \in [AssetSet -> Nat]
                        /\ \A a \in AssetSet : H[k][a] % LotSize = 0
                  /\ \A k \in 1 .. Len(fs) :
                        /\ H[k] = HeldAfter(H[k - 1], fs[k])
                        /\ H[k - 1][fs[k].asset] = positions[fs[k].asset]
  <1>1. /\ fs \in Seq(FillRow) /\ OneEach(fs) /\ b <= Len(fs)
        /\ \A m \in 1 .. Len(fs) : fs[m].qty % LotSize = 0
        /\ \A m \in 1 .. b : fs[m].side = "buy"
        /\ \A m \in b + 1 .. Len(fs) : fs[m].side = "sell" /\ fs[m].qty = positions[fs[m].asset]
    BY DEF DayOf
  <1>2. PICK e : e = Len(fs) /\ e \in Nat
    BY <1>1
  <1>3. PICK H : /\ H[0] = positions /\ H[e] = Held(positions, fs)
                 /\ \A k \in 1 .. e : H[k] = HeldAfter(H[k - 1], fs[k])
    <2>1. fs \in Seq(FillRow)
      BY <1>1
    <2>2. PICK H : HeldTraced(H, positions, fs)
      BY <2>1, HeldTrace
    <2> QED
      BY <1>2, <2>2 DEF HeldTraced
  <1>4. positions \in [AssetSet -> Nat] /\ \A a \in AssetSet : positions[a] % LotSize = 0
    BY DEF EventTypeOK
  <1>5. LotSize \in Nat \ {0} /\ 0 % LotSize = 0
    BY EventAssumption
  <1> DEFINE Good(k) ==
                 /\ H[k] \in [AssetSet -> Nat]
                 /\ \A a \in AssetSet : H[k][a] % LotSize = 0
                 /\ \A a \in AssetSet :
                       (\A m \in 1 .. k : fs[m].asset # a) => H[k][a] = positions[a]
             G == {k \in 0 .. e : Good(k)}
  <1>6. 0 \in G
    BY <1>2, <1>3, <1>4
  <1>7. ASSUME NEW j \in 0 .. e, Good(j), j + 1 \in 1 .. e
        PROVE  H[j][fs[j + 1].asset] = positions[fs[j + 1].asset]
    <2>1. j + 1 \in 1 .. Len(fs) /\ fs[j + 1].asset \in AssetSet
      <3>1. j + 1 \in 1 .. Len(fs)
        BY <1>2, <1>7
      <3>2. fs[j + 1] \in FillRow
        BY <1>1, <3>1
      <3> QED
        BY <3>1, <3>2 DEF FillRow
    <2>2. \A m \in 1 .. j : m \in 1 .. Len(fs) /\ m # j + 1
      BY <1>2, <1>7
    <2>3. \A m \in 1 .. j : fs[m].asset # fs[j + 1].asset
      BY <1>1, <2>1, <2>2 DEF OneEach
    <2> QED
      BY <1>7, <2>1, <2>3
  <1>8. ASSUME NEW k \in 1 .. e, k - 1 \in G
        PROVE  k \in G
    <2>1. PICK j : j = k - 1 /\ j \in 0 .. e /\ k = j + 1 /\ k \in 1 .. e
      BY <1>2
    <2>2. Good(j)
      BY <1>8, <2>1
    <2>3. PICK f \in FillRow : f = fs[k]
      BY <1>1, <1>2
    <2>4. f.asset \in AssetSet /\ f.qty \in Nat /\ f.qty % LotSize = 0
      BY <1>1, <1>2, <2>3 DEF FillRow
    <2>5. H[j][f.asset] = positions[f.asset]
      <3> HIDE DEF Good
      <3> QED
        BY <1>7, <2>1, <2>2, <2>3
    <2>6. PICK x : x = (IF f.side = "buy" THEN positions[f.asset] + f.qty
                        ELSE positions[f.asset] - f.qty)
      OBVIOUS
    <2>7. x \in Nat /\ x % LotSize = 0
      <3>1. CASE f.side = "buy"
        <4>1. positions[f.asset] \in Nat /\ positions[f.asset] % LotSize = 0
          BY <1>4, <2>4
        <4>2. (positions[f.asset] + f.qty) % LotSize = 0
          BY <1>5, <2>4, <4>1, LotsAdd
        <4> QED
          BY <2>4, <2>6, <3>1, <4>1, <4>2
      <3>2. CASE f.side # "buy"
        <4>1. ~ (k \in 1 .. b)
          BY <1>1, <2>3, <3>2
        <4>2. k \in b + 1 .. Len(fs)
          BY <1>2, <4>1
        <4>3. f.qty = positions[f.asset]
          BY <1>1, <2>3, <4>2
        <4>4. x = 0
          BY <2>4, <2>6, <3>2, <4>3
        <4> QED
          BY <1>5, <4>4
      <3> QED
        BY <3>1, <3>2
    <2>8. H[k] = [H[j] EXCEPT ![f.asset] = x]
      BY <1>3, <2>1, <2>2, <2>3, <2>4, <2>5, <2>6 DEF HeldAfter
    <2>9. H[k] \in [AssetSet -> Nat] /\ H[k][f.asset] = x
          /\ \A a \in AssetSet \ {f.asset} : H[k][a] = H[j][a]
      BY <2>2, <2>4, <2>7, <2>8
    <2>10. \A a \in AssetSet : H[k][a] % LotSize = 0
      BY <2>2, <2>7, <2>9
    <2>11. ASSUME NEW a \in AssetSet, \A m \in 1 .. k : fs[m].asset # a
           PROVE  H[k][a] = positions[a]
      <3>1. a # f.asset /\ \A m \in 1 .. j : fs[m].asset # a
        BY <2>1, <2>3, <2>11
      <3> QED
        BY <2>2, <2>9, <3>1
    <2> QED
      BY <2>1, <2>9, <2>10, <2>11
  <1>9. \A k \in 0 .. e : k \in G
    <2> HIDE DEF G
    <2> QED
      BY <1>2, <1>6, <1>8, CountUp
  <1>10. \A k \in 0 .. e : Good(k)
    BY <1>9
  <1>11. ASSUME NEW k \in 1 .. e
         PROVE  H[k - 1][fs[k].asset] = positions[fs[k].asset]
    <2>1. PICK j : j = k - 1 /\ j \in 0 .. e /\ k = j + 1 /\ j + 1 \in 1 .. e
      BY <1>2
    <2> HIDE DEF Good
    <2> QED
      BY <1>7, <1>10, <2>1
  <1> QED
    BY <1>2, <1>3, <1>10, <1>11

\* The ledger during a day's fills: never ahead of the positions, and its
\* accounts balanced.
LEMMA LedgerDay ==
    ASSUME EventTypeOK, ledger \in LedgerRow, LedgerIsBehind, Balanced(ledger),
           NEW n \in Nat, NEW b \in Nat, NEW fs, DayOf(fs, n, b)
    PROVE  LET l == FoldLeft(Booked, ledger, fs)
           IN  /\ l \in LedgerRow /\ Balanced(l)
               /\ \A a \in AssetSet : l.qty[a] <= Held(positions, fs)[a]
  <1>1. /\ fs \in Seq(FillRow) /\ b <= Len(fs)
        /\ \A m \in 1 .. Len(fs) : fs[m].qty > 0 /\ fs[m].price > 0
        /\ \A m \in 1 .. b : fs[m].side = "buy"
        /\ \A m \in b + 1 .. Len(fs) : fs[m].side = "sell" /\ fs[m].qty = positions[fs[m].asset]
    BY DEF DayOf
  <1>2. PICK e : e = Len(fs) /\ e \in Nat
    BY <1>1
  <1>3. PICK H : /\ H[0] = positions /\ H[e] = Held(positions, fs)
                 /\ \A k \in 0 .. e : H[k] \in [AssetSet -> Nat]
                 /\ \A k \in 1 .. e :
                       /\ H[k] = HeldAfter(H[k - 1], fs[k])
                       /\ H[k - 1][fs[k].asset] = positions[fs[k].asset]
    <2>1. PICK H : /\ H[0] = positions /\ H[Len(fs)] = Held(positions, fs)
                   /\ \A k \in 0 .. Len(fs) : H[k] \in [AssetSet -> Nat]
                   /\ \A k \in 1 .. Len(fs) :
                         /\ H[k] = HeldAfter(H[k - 1], fs[k])
                         /\ H[k - 1][fs[k].asset] = positions[fs[k].asset]
      BY HeldDay
    <2> QED
      BY <1>2, <2>1
  <1>4. PICK L : /\ L[0] = ledger /\ L[e] = FoldLeft(Booked, ledger, fs)
                 /\ \A k \in 1 .. e : L[k] = Booked(L[k - 1], fs[k])
    <2>1. fs \in Seq(FillRow)
      BY <1>1
    <2>2. PICK L : BookTraced(L, ledger, fs)
      BY <2>1, BookTrace
    <2> QED
      BY <1>2, <2>2 DEF BookTraced
  <1> DEFINE Good(k) == /\ L[k] \in LedgerRow /\ Balanced(L[k])
                        /\ \A a \in AssetSet : L[k].qty[a] <= H[k][a]
             G == {k \in 0 .. e : Good(k)}
  <1>5. 0 \in G
    BY <1>2, <1>3, <1>4 DEF LedgerIsBehind
  <1>6. ASSUME NEW k \in 1 .. e, k - 1 \in G
        PROVE  k \in G
    <2>1. PICK j : j = k - 1 /\ j \in 0 .. e /\ k \in 0 .. e
      BY <1>2
    <2>2. Good(j)
      BY <1>6, <2>1
    <2>3. PICK f \in FillRow : f = fs[k]
      BY <1>1, <1>2
    <2>4. f.asset \in AssetSet /\ f.qty \in Nat /\ f.qty > 0 /\ f.price > 0
      BY <1>1, <1>2, <2>3 DEF FillRow
    <2>5. PICK l \in LedgerRow : l = L[j]
      BY <2>2
    <2>6. PICK h \in [AssetSet -> Nat] : h = H[j]
      BY <1>3, <2>1
    <2>7. /\ l.qty \in [AssetSet -> Nat] /\ Balanced(l)
          /\ \A a \in AssetSet : l.qty[a] <= h[a]
      BY <2>2, <2>5, <2>6 DEF LedgerRow
    <2>8. H[k] = HeldAfter(h, f) /\ h[f.asset] = positions[f.asset] /\ L[k] = Booked(l, f)
      BY <1>3, <1>4, <2>1, <2>3, <2>5, <2>6
    <2>9. CASE f.side = "buy"
      <3>1. PICK m : m = Bought(l, f)
        OBVIOUS
      <3>2. /\ m \in LedgerRow /\ Balanced(m)
            /\ m.qty[f.asset] <= l.qty[f.asset] + f.qty
            /\ \A a \in AssetSet \ {f.asset} : m.qty[a] = l.qty[a]
        <4>1. f.qty > 0 /\ f.price > 0 /\ Balanced(l)
          BY <2>4, <2>7
        <4> QED
          BY <3>1, <4>1, BoughtStep
      <3>3. /\ H[k][f.asset] = h[f.asset] + f.qty
            /\ \A a \in AssetSet \ {f.asset} : H[k][a] = h[a]
        BY <2>4, <2>8, <2>9 DEF HeldAfter
      <3>4. m.qty \in [AssetSet -> Nat]
        BY <3>2 DEF LedgerRow
      <3>5. m.qty[f.asset] <= H[k][f.asset]
        BY <2>4, <2>7, <3>2, <3>3, <3>4
      <3>6. \A a \in AssetSet \ {f.asset} : m.qty[a] <= H[k][a]
        BY <2>7, <3>2, <3>3
      <3>7. L[k] = m
        BY <2>8, <2>9, <3>1 DEF Booked
      <3> QED
        BY <2>1, <3>2, <3>5, <3>6, <3>7
    <2>10. CASE f.side # "buy"
      <3>1. ~ (k \in 1 .. b)
        BY <1>1, <2>3, <2>10
      <3>2. k \in b + 1 .. Len(fs)
        BY <1>2, <3>1
      <3>3. f.qty = h[f.asset]
        BY <1>1, <2>3, <2>8, <3>2
      <3>4. PICK m : m = Sold(l, f)
        OBVIOUS
      <3>5. l.qty[f.asset] <= f.qty
        BY <2>4, <2>7, <3>3
      <3>6. /\ m \in LedgerRow /\ Balanced(m)
            /\ m.qty[f.asset] = 0
            /\ \A a \in AssetSet \ {f.asset} : m.qty[a] = l.qty[a]
        BY <2>4, <2>7, <3>4, <3>5, SoldStep
      <3>7. /\ H[k][f.asset] = h[f.asset] - f.qty
            /\ \A a \in AssetSet \ {f.asset} : H[k][a] = h[a]
        BY <2>4, <2>8, <2>10 DEF HeldAfter
      <3>8. H[k][f.asset] = 0
        BY <2>4, <3>3, <3>7
      <3>9. m.qty[f.asset] <= H[k][f.asset]
        BY <3>6, <3>8
      <3>10. \A a \in AssetSet \ {f.asset} : m.qty[a] <= H[k][a]
        BY <2>7, <3>6, <3>7
      <3>11. L[k] = m
        BY <2>8, <2>10, <3>4 DEF Booked
      <3> QED
        BY <2>1, <3>6, <3>9, <3>10, <3>11
    <2> QED
      BY <2>9, <2>10
  <1>7. \A k \in 0 .. e : k \in G
    <2> HIDE DEF G
    <2> QED
      BY <1>2, <1>5, <1>6, CountUp
  <1>8. Good(e)
    BY <1>2, <1>7
  <1> QED
    BY <1>3, <1>4, <1>8

-----------------------------------------------------------------------------
\* The cash after a day's fills is short of the morning's by no more than the
\* costs: each of the b purchases takes at most one of n >= b parts.
LEMMA CashDay ==
    ASSUME EventTypeOK, NEW n \in Nat, NEW b \in 0 .. n, NEW fs, DayOf(fs, n, b)
    PROVE  /\ Settled(cash, fs) \in Int
           /\ Settled(cash, fs) >= (IF cash < 0 THEN cash ELSE 0) - CostsOf(fs)
  <1>1. /\ fs \in Seq(FillRow) /\ b <= Len(fs) /\ b \in Nat /\ b <= n
        /\ \A m \in 1 .. Len(fs) : fs[m].qty > 0 /\ fs[m].price > 0
        /\ \A m \in 1 .. b : fs[m].side = "buy" /\ n * (fs[m].qty * fs[m].price) <= cash
        /\ \A m \in b + 1 .. Len(fs) : fs[m].side = "sell"
    BY DEF DayOf
  <1>2. PICK e : e = Len(fs) /\ e \in Nat
    BY <1>1
  <1>3. PICK C : /\ C[0] = cash /\ C[e] = Settled(cash, fs)
                 /\ \A k \in 1 .. e : C[k] = CashAfter(C[k - 1], fs[k])
    <2>1. fs \in Seq(FillRow)
      BY <1>1
    <2>2. PICK C : CashTraced(C, cash, fs)
      BY <2>1, CashTrace
    <2> QED
      BY <1>2, <2>2 DEF CashTraced
  <1>4. PICK K : /\ K[0] = 0 /\ K[e] = CostsOf(fs)
                 /\ \A k \in 1 .. e : K[k] = AddCost(K[k - 1], fs[k])
    <2>1. fs \in Seq(FillRow)
      BY <1>1
    <2>2. PICK K : CostTraced(K, fs)
      BY <2>1, CostTrace
    <2> QED
      BY <1>2, <2>2 DEF CostTraced
  <1>5. PICK c : c = cash /\ c \in Int
    BY DEF EventTypeOK
  <1> DEFINE Parts(k) == IF k <= b THEN k ELSE b
             Good(k) == /\ C[k] \in Int /\ K[k] \in Int
                        /\ n * (c - C[k] - K[k]) <= Parts(k) * c
                        /\ b = 0 => c - C[k] - K[k] <= 0
             G == {k \in 0 .. e : Good(k)}
  <1>6. 0 \in G
    <2>1. c - C[0] - K[0] = 0 /\ Parts(0) = 0 /\ C[0] \in Int /\ K[0] \in Int
      BY <1>1, <1>3, <1>4, <1>5
    <2>2. n * (c - C[0] - K[0]) = 0 /\ Parts(0) * c = 0
      BY <1>5, <2>1
    <2> QED
      BY <1>2, <2>1, <2>2
  <1>7. ASSUME NEW k \in 1 .. e, k - 1 \in G
        PROVE  k \in G
    <2>1. PICK j : j = k - 1 /\ j \in 0 .. e /\ k = j + 1 /\ k \in 0 .. e
      BY <1>2
    <2>2. PICK f \in FillRow : f = fs[k]
      BY <1>1, <1>2
    <2>3. f.qty \in Nat /\ f.price \in Nat /\ f.cost \in Nat
      BY <2>2 DEF FillRow
    <2>4. PICK x : x = f.qty * f.price /\ x \in Nat
      BY <2>3
    <2>5. PICK t : t = c - C[j] - K[j] /\ t \in Int
      BY <1>5, <1>7, <2>1
    <2>6. C[j] \in Int /\ K[j] \in Int /\ n * t <= Parts(j) * c /\ (b = 0 => t <= 0)
      BY <1>7, <2>1, <2>5
    <2>7. C[k] = CashAfter(C[j], f) /\ K[k] = K[j] + f.cost /\ K[k] \in Int
      BY <1>3, <1>4, <2>1, <2>2, <2>3, <2>6 DEF AddCost
    <2>8. CASE k \in 1 .. b
      <3>1. f.side = "buy" /\ n * x <= c
        BY <1>1, <1>5, <2>2, <2>4, <2>8
      <3>2. C[k] = C[j] - x - f.cost /\ C[k] \in Int
        BY <2>3, <2>4, <2>6, <2>7, <3>1 DEF CashAfter
      <3>3. c - C[k] - K[k] = t + x
        BY <1>5, <2>3, <2>4, <2>5, <2>6, <2>7, <3>2
      <3>4. n * (t + x) = n * t + n * x
        BY <2>4, <2>5
      <3>5. Parts(j) = j /\ Parts(k) = j + 1
        BY <1>1, <2>1, <2>8
      <3>6. (j + 1) * c = j * c + c
        BY <1>5, <2>1
      <3>7. n * (t + x) <= (j + 1) * c
        <4>1. PICK u, v, w : u = n * t /\ v = n * x /\ w = j * c
          OBVIOUS
        <4>2. u \in Int /\ v \in Int /\ w \in Int
          BY <1>5, <2>1, <2>4, <2>5, <4>1
        <4>3. u <= w /\ v <= c
          BY <2>6, <3>1, <3>5, <4>1
        <4>4. u + v <= w + c
          BY <1>5, <4>2, <4>3
        <4> QED
          BY <3>4, <3>6, <4>1, <4>4
      <3>8. b # 0
        BY <1>1, <2>8
      <3> QED
        BY <2>1, <2>7, <3>2, <3>3, <3>5, <3>7, <3>8
    <2>9. CASE ~ (k \in 1 .. b)
      <3>1. k \in b + 1 .. Len(fs)
        BY <1>1, <1>2, <2>9
      <3>2. f.side # "buy"
        BY <1>1, <2>2, <3>1
      <3>3. C[k] = C[j] + x - f.cost /\ C[k] \in Int
        BY <2>3, <2>4, <2>6, <2>7, <3>2 DEF CashAfter
      <3>4. c - C[k] - K[k] = t - x
        BY <1>5, <2>3, <2>4, <2>5, <2>6, <2>7, <3>3
      <3>5. n * (t - x) <= n * t
        BY <2>4, <2>5
      <3>6. Parts(j) = b /\ Parts(k) = b
        BY <1>1, <2>1, <3>1
      <3>7. n * (t - x) <= b * c
        <4>1. n * (t - x) \in Int /\ n * t \in Int /\ b * c \in Int
          BY <1>1, <1>5, <2>4, <2>5
        <4>2. n * t <= b * c
          BY <2>6, <3>6
        <4> QED
          BY <3>5, <4>1, <4>2
      <3>8. b = 0 => t - x <= 0
        BY <2>4, <2>5, <2>6
      <3> QED
        BY <2>1, <2>7, <3>3, <3>4, <3>6, <3>7, <3>8
    <2> QED
      BY <2>8, <2>9
  <1>8. \A k \in 0 .. e : k \in G
    <2> HIDE DEF G
    <2> QED
      BY <1>2, <1>6, <1>7, CountUp
  <1>9. PICK t : t = c - C[e] - K[e]
    OBVIOUS
  <1>10. /\ C[e] \in Int /\ K[e] \in Int /\ t \in Int
         /\ n * t <= b * c /\ (b = 0 => t <= 0)
    <2>1. Good(e) /\ Parts(e) = b
      BY <1>1, <1>2, <1>8
    <2> QED
      BY <1>5, <1>9, <2>1
  <1>11. t <= (IF c < 0 THEN 0 ELSE c)
    <2>1. CASE b = 0
      BY <1>5, <1>10, <2>1
    <2>2. CASE b # 0
      <3>1. 1 \in 1 .. b /\ n > 0 /\ 1 \in 1 .. Len(fs)
        BY <1>1, <2>2
      <3>2. PICK x : x = fs[1].qty * fs[1].price /\ x \in Nat
        <4>1. fs[1] \in FillRow
          BY <1>1, <3>1
        <4>2. fs[1].qty \in Nat /\ fs[1].price \in Nat
          BY <4>1 DEF FillRow
        <4> QED
          BY <4>2
      <3>3. n * x <= c
        BY <1>1, <1>5, <3>1, <3>2
      <3>4. c >= 0
        <4>1. n * x >= 0 /\ n * x \in Int
          BY <3>2
        <4> QED
          BY <1>5, <3>3, <4>1
      <3>5. b * c <= n * c
        BY <1>1, <1>5, <3>4
      <3>6. n * t <= n * c
        <4>1. n * t \in Int /\ n * c \in Int /\ b * c \in Int
          BY <1>1, <1>5, <1>10
        <4> QED
          BY <1>10, <3>5, <4>1
      <3>7. t <= c
        <4>1. CASE t >= c + 1
          <5>1. PICK d : d = t - c - 1 /\ d \in Nat
            BY <1>5, <1>10, <4>1
          <5>2. t = c + 1 + d
            BY <1>5, <1>10, <5>1
          <5>3. n * t = n * c + n + n * d
            BY <1>5, <5>1, <5>2
          <5>4. n * c \in Int /\ n * d \in Nat
            BY <1>5, <5>1
          <5> QED
            BY <3>1, <3>6, <5>3, <5>4
        <4> QED
          BY <1>5, <1>10, <4>1
      <3> QED
        BY <1>5, <3>4, <3>7
    <2> QED
      BY <2>1, <2>2
  <1> QED
    BY <1>3, <1>4, <1>5, <1>9, <1>10, <1>11

\* When the cash pays the day's purchases, the ledger books every fill as the
\* engine settles it.
LEMMA ReconciledDay ==
    ASSUME EventTypeOK, ledger \in LedgerRow, Agree, NEW n \in Nat, NEW b \in Nat, NEW fs,
           DayOf(fs, n, b), FoldLeft(PaidAfter, cash, fs) >= 0
    PROVE  LET l == FoldLeft(Booked, ledger, fs)
           IN  l.cash = Settled(cash, fs) /\ l.qty = Held(positions, fs)
  <1>1. /\ fs \in Seq(FillRow) /\ b <= Len(fs)
        /\ \A m \in 1 .. Len(fs) : fs[m].qty > 0 /\ fs[m].price > 0
        /\ \A m \in 1 .. b : fs[m].side = "buy"
        /\ \A m \in b + 1 .. Len(fs) : fs[m].side = "sell" /\ fs[m].qty = positions[fs[m].asset]
    BY DEF DayOf
  <1>2. PICK e : e = Len(fs) /\ e \in Nat
    BY <1>1
  <1>3. PICK H : /\ H[0] = positions /\ H[e] = Held(positions, fs)
                 /\ \A k \in 0 .. e : H[k] \in [AssetSet -> Nat]
                 /\ \A k \in 1 .. e :
                       /\ H[k] = HeldAfter(H[k - 1], fs[k])
                       /\ H[k - 1][fs[k].asset] = positions[fs[k].asset]
    <2>1. PICK H : /\ H[0] = positions /\ H[Len(fs)] = Held(positions, fs)
                   /\ \A k \in 0 .. Len(fs) : H[k] \in [AssetSet -> Nat]
                   /\ \A k \in 1 .. Len(fs) :
                         /\ H[k] = HeldAfter(H[k - 1], fs[k])
                         /\ H[k - 1][fs[k].asset] = positions[fs[k].asset]
      BY HeldDay
    <2> QED
      BY <1>2, <2>1
  <1>4. PICK L : /\ L[0] = ledger /\ L[e] = FoldLeft(Booked, ledger, fs)
                 /\ \A k \in 1 .. e : L[k] = Booked(L[k - 1], fs[k])
    <2>1. fs \in Seq(FillRow)
      BY <1>1
    <2>2. PICK L : BookTraced(L, ledger, fs)
      BY <2>1, BookTrace
    <2> QED
      BY <1>2, <2>2 DEF BookTraced
  <1>5. PICK C : /\ C[0] = cash /\ C[e] = Settled(cash, fs)
                 /\ \A k \in 1 .. e : C[k] = CashAfter(C[k - 1], fs[k])
    <2>1. fs \in Seq(FillRow)
      BY <1>1
    <2>2. PICK C : CashTraced(C, cash, fs)
      BY <2>1, CashTrace
    <2> QED
      BY <1>2, <2>2 DEF CashTraced
  <1>6. PICK R : /\ R[0] = cash /\ R[e] = FoldLeft(PaidAfter, cash, fs)
                 /\ \A k \in 1 .. e : R[k] = PaidAfter(R[k - 1], fs[k])
    <2>1. fs \in Seq(FillRow)
      BY <1>1
    <2>2. PICK R : PaidTraced(R, cash, fs)
      BY <2>1, PaidTrace
    <2> QED
      BY <1>2, <2>2 DEF PaidTraced
  <1> DEFINE Same(k) == L[k] \in LedgerRow /\ L[k].cash = C[k] /\ L[k].qty = H[k]
             Good(k) == /\ C[k] \in Int /\ R[k] \in Int
                        /\ k <= b => C[k] = R[k]
                        /\ R[k] >= 0 => Same(k)
             G == {k \in 0 .. e : Good(k)}
  <1>7. 0 \in G
    BY <1>2, <1>3, <1>4, <1>5, <1>6 DEF EventTypeOK, Agree
  <1>8. ASSUME NEW k \in 1 .. e, k - 1 \in G
        PROVE  k \in G
    <2>1. PICK j : j = k - 1 /\ j \in 0 .. e /\ k = j + 1 /\ k \in 0 .. e
      BY <1>2
    <2>2. C[j] \in Int /\ R[j] \in Int /\ (j <= b => C[j] = R[j]) /\ (R[j] >= 0 => Same(j))
      BY <1>8, <2>1
    <2>3. PICK f \in FillRow : f = fs[k]
      BY <1>1, <1>2
    <2>4. /\ f.asset \in AssetSet /\ f.qty \in Nat /\ f.price \in Nat /\ f.cost \in Nat
          /\ f.qty > 0 /\ f.price > 0
      BY <1>1, <1>2, <2>3 DEF FillRow
    <2>5. PICK x : x = f.qty * f.price /\ x \in Nat
      BY <2>4
    <2>6. /\ H[k] = HeldAfter(H[j], f) /\ H[j] \in [AssetSet -> Nat]
          /\ H[j][f.asset] = positions[f.asset]
          /\ L[k] = Booked(L[j], f) /\ C[k] = CashAfter(C[j], f) /\ R[k] = PaidAfter(R[j], f)
      BY <1>3, <1>4, <1>5, <1>6, <2>1, <2>3
    <2> HIDE DEF Same
    <2>7. CASE k \in 1 .. b
      <3>1. f.side = "buy" /\ j <= b /\ k <= b
        BY <1>1, <2>1, <2>3, <2>7
      <3>2. C[k] = C[j] - x - f.cost /\ C[k] \in Int
        BY <2>2, <2>4, <2>5, <2>6, <3>1 DEF CashAfter
      <3>3. R[k] = C[k]
        BY <2>2, <2>6, <3>1 DEF PaidAfter
      <3>4. ASSUME R[k] >= 0
            PROVE  Same(k)
        <4>1. R[j] >= 0 /\ x + f.cost <= C[j]
          BY <2>2, <2>4, <2>5, <3>1, <3>2, <3>3, <3>4
        <4>2. Same(j)
          BY <2>2, <4>1
        <4>3. PICK l \in LedgerRow : l = L[j] /\ l.cash = C[j] /\ l.qty = H[j]
          BY <4>2 DEF Same
        <4>4. PICK m : m = Bought(l, f)
          OBVIOUS
        <4>5. /\ m \in LedgerRow
              /\ x + f.cost <= l.cash =>
                    /\ m.cash = l.cash - x - f.cost
                    /\ m.qty = [l.qty EXCEPT ![f.asset] = @ + f.qty]
          BY <2>4, <2>5, <4>4, BoughtStep
        <4>6. L[k] = m
          BY <2>6, <3>1, <4>3, <4>4 DEF Booked
        <4>7. H[k] = [H[j] EXCEPT ![f.asset] = @ + f.qty]
          BY <2>6, <3>1 DEF HeldAfter
        <4> QED
          BY <3>2, <4>1, <4>3, <4>5, <4>6, <4>7 DEF Same
      <3> QED
        BY <2>1, <3>2, <3>3, <3>4
    <2>8. CASE ~ (k \in 1 .. b)
      <3>1. k \in b + 1 .. Len(fs)
        BY <1>1, <1>2, <2>8
      <3>2. f.side # "buy" /\ f.qty = H[j][f.asset] /\ ~ (k <= b)
        BY <1>1, <2>3, <2>6, <3>1
      <3>3. C[k] = C[j] + x - f.cost /\ C[k] \in Int /\ R[k] = R[j]
        <4>1. C[k] = C[j] + x - f.cost
          BY <2>5, <2>6, <3>2 DEF CashAfter
        <4>2. R[k] = R[j]
          BY <2>6, <3>2 DEF PaidAfter
        <4> QED
          BY <2>2, <2>4, <2>5, <4>1, <4>2
      <3>4. ASSUME R[k] >= 0
            PROVE  Same(k)
        <4>1. Same(j)
          BY <2>2, <3>3, <3>4
        <4>2. PICK l \in LedgerRow : l = L[j] /\ l.cash = C[j] /\ l.qty = H[j]
          BY <4>1 DEF Same
        <4>3. PICK m : m = Sold(l, f)
          OBVIOUS
        <4>4. l.qty[f.asset] = f.qty /\ l.qty[f.asset] <= f.qty
          BY <2>4, <3>2, <4>2
        <4>5. /\ m \in LedgerRow
              /\ m.cash = l.cash + x - f.cost
              /\ m.qty = [l.qty EXCEPT ![f.asset] = @ - f.qty]
          BY <2>4, <2>5, <4>3, <4>4, SoldStep
        <4>6. L[k] = m
          BY <2>6, <3>2, <4>2, <4>3 DEF Booked
        <4>7. H[k] = [H[j] EXCEPT ![f.asset] = @ - f.qty]
          BY <2>6, <3>2 DEF HeldAfter
        <4> QED
          BY <3>3, <4>2, <4>5, <4>6, <4>7 DEF Same
      <3> QED
        BY <2>1, <2>2, <3>2, <3>3, <3>4
    <2> QED
      BY <2>7, <2>8
  <1>9. \A k \in 0 .. e : k \in G
    <2> HIDE DEF G
    <2> QED
      BY <1>2, <1>7, <1>8, CountUp
  <1>10. Good(e)
    BY <1>2, <1>9
  <1> QED
    BY <1>3, <1>4, <1>5, <1>6, <1>10

-----------------------------------------------------------------------------
\* The inductive invariant: the types with whole lots, a typed ledger that is
\* behind the engine and balanced.
EventInv ==
    /\ EventTypeOK
    /\ ledger \in LedgerRow
    /\ LedgerIsBehind
    /\ Balanced(ledger)

\* An account of nothing sums up to nothing.
LEMMA EventInitInv == EventInit => EventInv
  <1> SUFFICES ASSUME EventInit
               PROVE  EventInv
    OBVIOUS
  <1>1. LotSize \in Nat \ {0} /\ 0 % LotSize = 0 /\ InitialCash \in Nat /\ MaxDay \in Nat
    BY EventAssumption
  <1>2. /\ ledger.cash = InitialCash
        /\ ledger.qty = [a \in AssetSet |-> 0] /\ ledger.basis = [a \in AssetSet |-> 0]
        /\ ledger.realized = 0 /\ ledger.charged = 0
    BY DEF EventInit, NewLedger
  <1>3. ledger \in LedgerRow
    BY <1>1 DEF EventInit, NewLedger, LedgerRow
  <1>4. SumFunctionOnSet(ledger.basis, AssetSet) = 0
    <2>1. IsFiniteSet(AssetSet) /\ \A a \in AssetSet : ledger.basis[a] = 0
      BY <1>2, AssetsFinite
    <2> QED
      BY <2>1, SumZero
  <1>5. Balanced(ledger)
    BY <1>1, <1>2, <1>4 DEF Balanced
  <1>6. LedgerIsBehind
    BY <1>2 DEF EventInit, LedgerIsBehind
  <1>7. EventTypeOK
    <2>1. today \in 0 .. MaxDay /\ cash \in Int
      BY <1>1 DEF EventInit
    <2>2. latest \in [AssetSet -> Closes \cup {0}] /\ policies \in BOOLEAN
      BY DEF EventInit
    <2>3. positions \in [AssetSet -> Nat] /\ \A a \in AssetSet : positions[a] % LotSize = 0
      BY <1>1 DEF EventInit
    <2>4. DOMAIN fills = {}
      BY DEF EventInit
    <2> QED
      BY <2>1, <2>2, <2>3, <2>4 DEF EventTypeOK
  <1> QED
    BY <1>3, <1>5, <1>6, <1>7 DEF EventInv

\* The calendar and the latest rows, on either kind of day.
LEMMA ObservedStep ==
    ASSUME EventTypeOK, NEW bars \in [AssetSet -> Bars], Observed(bars)
    PROVE  today' \in 0 .. MaxDay /\ latest' \in [AssetSet -> Closes \cup {0}]
  <1>1. today' \in 0 .. MaxDay
    BY EventAssumption DEF EventTypeOK, Observed
  <1>2. \A a \in AssetSet : bars[a].close \in Closes /\ latest[a] \in Closes \cup {0}
    BY DEF EventTypeOK, Bars
  <1>3. latest' \in [AssetSet -> Closes \cup {0}]
    BY <1>2 DEF Observed
  <1> QED
    BY <1>1, <1>3

\* What a day with signals does, in terms of its fills.
LEMMA SignalDayIs ==
    ASSUME EventTypeOK, NEW bars \in [AssetSet -> Bars], NEW active \in SUBSET AssetSet,
           NEW verdict, SignalDay(bars, active, verdict)
    PROVE  \E n \in Nat : \E b \in 0 .. n : DayOf(fills', n, b)
  <1>1. fills' = Purchases(active, bars, verdict) \o Sales(active, bars, verdict)
    BY DEF SignalDay
  <1> QED
    BY <1>1, DayFills

\* A day with signals keeps the invariant.
LEMMA SignalDayInv ==
    ASSUME EventInv, NEW bars \in [AssetSet -> Bars], NEW active \in SUBSET AssetSet,
           NEW verdict, SignalDay(bars, active, verdict)
    PROVE  EventInv'
  <1>1. /\ EventTypeOK /\ ledger \in LedgerRow /\ LedgerIsBehind /\ Balanced(ledger)
    BY DEF EventInv
  <1>2. PICK n \in Nat : \E b \in 0 .. n : DayOf(fills', n, b)
    BY <1>1, SignalDayIs
  <1>3. PICK b \in 0 .. n : DayOf(fills', n, b)
    BY <1>2
  <1>4. b \in Nat
    OBVIOUS
  <1>5. cash' = Settled(cash, fills') /\ positions' = Held(positions, fills')
        /\ ledger' = FoldLeft(Booked, ledger, fills') /\ policies' = policies
    BY DEF SignalDay
  <1>6. cash' \in Int
    <2>1. Settled(cash, fills') \in Int
      BY <1>1, <1>3, CashDay
    <2> QED
      BY <1>5, <2>1
  <1>7. positions' \in [AssetSet -> Nat] /\ \A a \in AssetSet : positions'[a] % LotSize = 0
    <2>1. Len(fills') \in 0 .. Len(fills')
      BY <1>3 DEF DayOf
    <2>2. PICK H : /\ H[Len(fills')] = Held(positions, fills')
                   /\ \A k \in 0 .. Len(fills') :
                         /\ H[k] \in [AssetSet -> Nat]
                         /\ \A a \in AssetSet : H[k][a] % LotSize = 0
      BY <1>1, <1>3, <1>4, HeldDay
    <2> QED
      BY <1>5, <2>1, <2>2
  <1>8. /\ ledger' \in LedgerRow /\ Balanced(ledger')
        /\ \A a \in AssetSet : ledger'.qty[a] <= positions'[a]
    BY <1>1, <1>3, <1>4, <1>5, LedgerDay
  <1>9. \A i \in DOMAIN fills' : fills'[i].qty > 0 /\ fills'[i].price > 0
    <2>1. DOMAIN fills' = 1 .. Len(fills')
      BY <1>3 DEF DayOf
    <2> QED
      BY <1>3, <2>1 DEF DayOf
  <1>10. today' \in 0 .. MaxDay /\ latest' \in [AssetSet -> Closes \cup {0}]
    BY <1>1, ObservedStep DEF SignalDay
  <1>11. EventTypeOK'
    BY <1>1, <1>5, <1>6, <1>7, <1>9, <1>10 DEF EventTypeOK
  <1>12. LedgerIsBehind'
    BY <1>8 DEF LedgerIsBehind
  <1>13. Balanced(ledger)'
    BY <1>8 DEF Balanced
  <1> QED
    BY <1>8, <1>11, <1>12, <1>13 DEF EventInv

\* A day without signals keeps the invariant.
LEMMA SilentDayInv ==
    ASSUME EventInv, NEW bars \in [AssetSet -> Bars], SilentDay(bars)
    PROVE  EventInv'
  <1>1. /\ EventTypeOK /\ ledger \in LedgerRow /\ LedgerIsBehind /\ Balanced(ledger)
    BY DEF EventInv
  <1>2. fills' = <<>> /\ UNCHANGED <<policies, cash, positions, ledger>>
    BY DEF SilentDay
  <1>3. today' \in 0 .. MaxDay /\ latest' \in [AssetSet -> Closes \cup {0}]
    BY <1>1, ObservedStep DEF SilentDay
  <1>4. EventTypeOK'
    BY <1>1, <1>2, <1>3 DEF EventTypeOK
  <1> QED
    BY <1>1, <1>2, <1>4 DEF EventInv, LedgerIsBehind, Balanced

\* Every step keeps the invariant.
LEMMA EventStepInv == EventInv /\ [EventNext]_eventVars => EventInv'
  <1> SUFFICES ASSUME EventInv, [EventNext]_eventVars
               PROVE  EventInv'
    OBVIOUS
  <1>1. CASE EventNext
    <2>1. PICK bars \in [AssetSet -> Bars] :
              \/ SilentDay(bars)
              \/ \E active \in SUBSET AssetSet, verdict \in [AssetSet -> Verdicts] :
                    SignalDay(bars, active, verdict)
      BY <1>1 DEF EventNext
    <2>2. CASE SilentDay(bars)
      BY <2>2, SilentDayInv
    <2>3. CASE \E active \in SUBSET AssetSet, verdict \in [AssetSet -> Verdicts] :
                    SignalDay(bars, active, verdict)
      BY <2>3, SignalDayInv
    <2> QED
      BY <2>1, <2>2, <2>3
  <1>2. CASE UNCHANGED eventVars
    BY <1>2 DEF eventVars, EventInv, EventTypeOK, LedgerIsBehind, Balanced
  <1> QED
    BY <1>1, <1>2

\* The invariant holds in every reachable state.
THEOREM EventInvariant == EventSpec => []EventInv
  BY EventInitInv, EventStepInv, PTL DEF EventSpec

\* EventTypeOK: positions are whole lots, never negative, and no fill is
\* without shares or price.
THEOREM EventTypeCorrect == EventSpec => []EventTypeOK
  <1>1. EventInv => EventTypeOK
    BY DEF EventInv
  <1> QED
    BY <1>1, EventInvariant, PTL

\* LedgerIsBehind: the ledger never holds more of an asset than the engine.
THEOREM LedgerStaysBehind == EventSpec => []LedgerIsBehind
  <1>1. EventInv => LedgerIsBehind
    BY DEF EventInv
  <1> QED
    BY <1>1, EventInvariant, PTL

\* LedgerBalances: cash and cost basis of the ledger are the initial cash, plus
\* the realized result, minus the costs charged.
THEOREM LedgerStaysBalanced == EventSpec => []LedgerBalances
  <1>1. EventInv => LedgerBalances
    BY DEF EventInv, Balanced, LedgerBalances
  <1> QED
    BY <1>1, EventInvariant, PTL

\* OverdraftIsCosts: a day's purchases overdraw its morning's cash by no more
\* than the day's costs.
THEOREM OverdraftBounded == EventSpec => OverdraftIsCosts
  <1>1. ASSUME EventInv, [EventNext]_eventVars
        PROVE  [cash' >= (IF cash < 0 THEN cash ELSE 0) - CostsOf(fills')]_eventVars
    <2> SUFFICES ASSUME EventNext
                 PROVE  cash' >= (IF cash < 0 THEN cash ELSE 0) - CostsOf(fills')
      BY <1>1
    <2>1. EventTypeOK /\ cash \in Int
      BY <1>1 DEF EventInv, EventTypeOK
    <2>2. PICK bars \in [AssetSet -> Bars] :
              \/ SilentDay(bars)
              \/ \E active \in SUBSET AssetSet, verdict \in [AssetSet -> Verdicts] :
                    SignalDay(bars, active, verdict)
      BY DEF EventNext
    <2>3. CASE SilentDay(bars)
      <3>1. fills' = <<>> /\ cash' = cash
        BY <2>3 DEF SilentDay
      <3>2. CostsOf(<<>>) = 0
        <4>1. CostFold!Fold(0, <<>>) = 0
          BY CostFold!FoldEmpty
        <4> QED
          BY <4>1, CostFoldIs DEF CostsOf
      <3> QED
        BY <2>1, <3>1, <3>2
    <2>4. CASE \E active \in SUBSET AssetSet, verdict \in [AssetSet -> Verdicts] :
                    SignalDay(bars, active, verdict)
      <3>1. PICK active \in SUBSET AssetSet, verdict \in [AssetSet -> Verdicts] :
                    SignalDay(bars, active, verdict)
        BY <2>4
      <3>2. PICK n \in Nat : \E b \in 0 .. n : DayOf(fills', n, b)
        BY <2>1, <3>1, SignalDayIs
      <3>3. PICK b \in 0 .. n : DayOf(fills', n, b)
        BY <3>2
      <3>4. Settled(cash, fills') >= (IF cash < 0 THEN cash ELSE 0) - CostsOf(fills')
        BY <2>1, <3>3, CashDay
      <3> QED
        BY <3>1, <3>4 DEF SignalDay
    <2> QED
      BY <2>2, <2>3, <2>4
  <1> QED
    BY <1>1, EventInvariant, PTL DEF EventSpec, OverdraftIsCosts

\* LedgerReconciles: a day whose purchases its morning's cash pays for leaves an
\* agreeing ledger in agreement.
THEOREM LedgerReconciliation == EventSpec => LedgerReconciles
  <1>1. ASSUME EventInv, [EventNext]_eventVars
        PROVE  [Agree /\ FoldLeft(PaidAfter, cash, fills') >= 0 => Agree']_eventVars
    <2> SUFFICES ASSUME EventNext, Agree, FoldLeft(PaidAfter, cash, fills') >= 0
                 PROVE  Agree'
      BY <1>1
    <2>1. EventTypeOK /\ ledger \in LedgerRow
      BY <1>1 DEF EventInv
    <2>2. PICK bars \in [AssetSet -> Bars] :
              \/ SilentDay(bars)
              \/ \E active \in SUBSET AssetSet, verdict \in [AssetSet -> Verdicts] :
                    SignalDay(bars, active, verdict)
      BY DEF EventNext
    <2>3. CASE SilentDay(bars)
      BY <2>3 DEF SilentDay, Agree
    <2>4. CASE \E active \in SUBSET AssetSet, verdict \in [AssetSet -> Verdicts] :
                    SignalDay(bars, active, verdict)
      <3>1. PICK active \in SUBSET AssetSet, verdict \in [AssetSet -> Verdicts] :
                    SignalDay(bars, active, verdict)
        BY <2>4
      <3>2. PICK n \in Nat : \E b \in 0 .. n : DayOf(fills', n, b)
        BY <2>1, <3>1, SignalDayIs
      <3>3. PICK b \in 0 .. n : DayOf(fills', n, b)
        BY <3>2
      <3>4. PICK l : l = FoldLeft(Booked, ledger, fills')
        OBVIOUS
      <3>5. l.cash = Settled(cash, fills') /\ l.qty = Held(positions, fills')
        BY <2>1, <3>3, <3>4, ReconciledDay
      <3> QED
        BY <3>1, <3>4, <3>5 DEF SignalDay, Agree
    <2> QED
      BY <2>2, <2>3, <2>4
  <1> QED
    BY <1>1, EventInvariant, PTL DEF EventSpec, LedgerReconciles
=============================================================================
