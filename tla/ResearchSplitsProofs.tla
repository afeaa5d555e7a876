------------------------- MODULE ResearchSplitsProofs -------------------------
(***************************************************************************)
(* Theorems about ResearchSplits, for all histories, numbers of folds,     *)
(* gaps, purges and embargoes.                                             *)
(***************************************************************************)
EXTENDS ResearchSplits, SumTheorems, FiniteSetTheorems, FunctionTheorems, TLAPS

\* What a method keeps between the rows of one fold (TrainingIsBlind, fold by
\* fold): rows are measured in rows when byRow, else in calendar days.
Blind(f, c, byRow, margin, hold) ==
    \A i \in f.train, t \in f.test :
        /\ i # t
        /\ i < t => (IF byRow THEN t - i ELSE c[t] - c[i]) > margin
        /\ i > t => hold >= 0 /\ (IF byRow THEN i - t ELSE c[i] - c[t]) > hold

\* The embargo of the CPCV (EmbargoIsKept, fold by fold).
Embargoed(f, c, k, embargo) ==
    \A b \in 1 .. k, i \in f.train :
        LET start == BoundStart(Len(c), k, b)
        IN  start \in f.test /\ start < i => c[i] - c[start] > embargo

\* Histories are increasing (SplitAssumption).
LEMMA CalendarFacts ==
    ASSUME NEW c \in Calendars
    PROVE  /\ c \in Seq(Nat)
           /\ Len(c) \in Nat \ {0}
           /\ DOMAIN c = 1 .. Len(c)
           /\ \A i \in 1 .. Len(c) : c[i] \in Nat
           /\ \A i, j \in 1 .. Len(c) : i < j => c[i] < c[j]
           /\ \A i, j \in 1 .. Len(c) : i <= j => c[i] <= c[j]
  <1>1. c \in Seq(Nat) /\ c # <<>> /\ \A i, j \in DOMAIN c : i < j => c[i] < c[j]
    BY SplitAssumption
  <1>2. DOMAIN c = 1 .. Len(c) /\ Len(c) \in Nat /\ \A i \in 1 .. Len(c) : c[i] \in Nat
    BY <1>1
  <1>3. Len(c) # 0
    BY <1>1
  <1>4. \A i, j \in 1 .. Len(c) : i <= j => c[i] <= c[j]
    BY <1>1, <1>2
  <1> QED
    BY <1>1, <1>2, <1>3, <1>4

\* For the solver: a product over a sum.
LEMMA Distribution ==
    ASSUME NEW a \in Int, NEW b \in Int, NEW w \in Int
    PROVE  (a + b) * w = a * w + b * w
  OBVIOUS

\* The test windows of the walk-forward and rolling splits lie in the history
\* and leave at least one row before the first of them.
LEMMA WindowBounds ==
    ASSUME NEW n \in Nat, NEW k \in Nat \ {0}, n > k
    PROVE  /\ Window(n, k) \in Nat \ {0}
           /\ Initial(n, k) \in Nat \ {0}
           /\ \A i \in 1 .. k :
                 /\ FirstTest(n, k, i) \in 1 .. n
                 /\ TestRows(n, k, i) = FirstTest(n, k, i) .. FirstTest(n, k, i) + Window(n, k) - 1
                 /\ FirstTest(n, k, i) + Window(n, k) - 1 <= n
  <1> DEFINE w == Window(n, k)
  <1>1. n \div (k + 1) \in Nat /\ n = (k + 1) * (n \div (k + 1)) + (n % (k + 1))
        /\ (n % (k + 1)) \in 0 .. k
    OBVIOUS
  <1>2. n \div (k + 1) >= 1
    BY <1>1
  <1>3. w \in Nat /\ w >= 1 /\ w = n \div (k + 1)
    BY <1>1, <1>2 DEF Window, Larger
  <1>4. (k + 1) * w = w * k + w /\ w * k \in Nat
    BY <1>3
  <1>5. (k + 1) * w <= n
    BY <1>1, <1>3
  <1>6. Initial(n, k) = n - w * k /\ Initial(n, k) >= 1
    BY <1>3, <1>4, <1>5 DEF Initial
  <1>7. ASSUME NEW i \in 1 .. k
        PROVE  /\ FirstTest(n, k, i) \in 1 .. n
               /\ TestRows(n, k, i) = FirstTest(n, k, i) .. FirstTest(n, k, i) + w - 1
               /\ FirstTest(n, k, i) + w - 1 <= n
    <2>1. (i - 1) * w \in Nat /\ (k - i) * w \in Nat
      BY <1>3
    <2>2. i * w = (i - 1) * w + w
      <3>1. ((i - 1) + 1) * w = (i - 1) * w + 1 * w
        BY <1>3, Distribution
      <3> QED
        BY <1>3, <3>1
    <2>4. i * w + (k - i) * w = w * k
      <3>1. (i + (k - i)) * w = i * w + (k - i) * w
        BY <1>3, Distribution
      <3>2. i + (k - i) = k
        OBVIOUS
      <3>3. k * w = w * k
        BY <1>3
      <3> QED
        BY <3>1, <3>2, <3>3
    <2>3. FirstTest(n, k, i) = n - w * k + (i - 1) * w + 1
      BY <1>6 DEF FirstTest
    <2>5. FirstTest(n, k, i) >= 1
      BY <1>6, <1>3, <1>4, <2>1, <2>3
    <2>6. FirstTest(n, k, i) + w - 1 <= n /\ FirstTest(n, k, i) \in Int
      BY <1>3, <1>4, <2>1, <2>2, <2>3, <2>4
    <2>7. TestRows(n, k, i) = FirstTest(n, k, i) .. FirstTest(n, k, i) + w - 1
      <3>1. FirstTest(n, k, i) = Initial(n, k) + (i - 1) * w + 1
        BY DEF FirstTest
      <3>2. Initial(n, k) + i * w = FirstTest(n, k, i) + w - 1
        <4>1. Initial(n, k) \in Int
          BY <1>3, <1>4, <1>6
        <4>2. ASSUME NEW x \in Int, NEW y \in Int, NEW z \in Int,
                     NEW v \in Int, x = y + z
              PROVE  v + x = (v + y + 1) + z - 1
          BY <4>2
        <4>3. (i - 1) * w \in Int /\ i * w \in Int /\ w \in Int
          BY <1>3, <2>1, <2>2
        <4>4. Initial(n, k) + i * w = (Initial(n, k) + (i - 1) * w + 1) + w - 1
          BY <2>2, <4>1, <4>2, <4>3
        <4> QED
          BY <3>1, <4>4
      <3>3. TestRows(n, k, i) = Initial(n, k) + (i - 1) * w + 1 .. Initial(n, k) + i * w
        BY DEF TestRows
      <3> QED
        BY <3>1, <3>2, <3>3
    <2> QED
      BY <1>3, <2>5, <2>6, <2>7
  <1> QED
    BY <1>3, <1>4, <1>6, <1>7

\* walk_forward.py: the training rows end the margin, in days, before the test.
LEMMA WalkForwardBlind ==
    ASSUME NEW c \in Calendars, NEW k \in Nat \ {0}, NEW gap \in Nat, NEW purge \in Nat,
           Len(c) > k, NEW i \in 1 .. k
    PROVE  Blind(WalkForwardFold(c, Len(c), k, gap, purge, i), c, FALSE, Larger(gap, purge), -1)
  <1> DEFINE n == Len(c)
             first == FirstTest(n, k, i)
             m == Larger(gap, purge)
             f == WalkForwardFold(c, n, k, gap, purge, i)
  <1>1. n \in Nat /\ DOMAIN c = 1 .. n /\ (\A r \in 1 .. n : c[r] \in Nat)
        /\ (\A r, s \in 1 .. n : r < s => c[r] < c[s])
        /\ (\A r, s \in 1 .. n : r <= s => c[r] <= c[s])
    BY CalendarFacts
  <1>2. first \in 1 .. n /\ Window(n, k) \in Nat
        /\ TestRows(n, k, i) = first .. first + Window(n, k) - 1
        /\ first + Window(n, k) - 1 <= n
    BY <1>1, WindowBounds
  <1>3. m \in Nat
    BY DEF Larger
  <1>4. f.train = {r \in 1 .. n : c[r] < c[first] - m}
    BY <1>1 DEF WalkForwardFold, Fold, RowsBefore
  <1>5. f.test = first .. first + Window(n, k) - 1
    BY <1>2 DEF WalkForwardFold, Fold
  <1>6. ASSUME NEW r \in f.train, NEW t \in f.test
        PROVE  r < t /\ c[t] - c[r] > m
    <2>1. r \in 1 .. n /\ c[r] < c[first] - m
      BY <1>4
    <2>2. t \in 1 .. n /\ first <= t
      BY <1>1, <1>2, <1>5
    <2> HIDE DEF f, first, m, n
    <2>3. c[first] <= c[t]
      BY <1>1, <1>2, <2>2
    <2>4. c[r] \in Nat /\ c[t] \in Nat /\ c[first] \in Nat
      BY <1>1, <1>2, <2>1, <2>2
    <2>5. c[t] - c[r] > m
      BY <1>3, <2>1, <2>3, <2>4
    <2>6. ~(t <= r)
      BY <1>1, <1>3, <2>1, <2>2, <2>4, <2>5
    <2> QED
      BY <2>1, <2>2, <2>5, <2>6
  <1>7. \A r \in f.train, t \in f.test : r \in Int /\ t \in Int
    BY <1>1, <1>2, <1>4, <1>5
  <1> QED
    BY <1>6, <1>7 DEF Blind

\* ml_rolling.py: the training rows end the margin, in rows, before the test.
LEMMA RollingBlind ==
    ASSUME NEW c \in Calendars, NEW k \in Nat \ {0}, NEW gap \in Nat, NEW purge \in Nat,
           NEW sliding \in BOOLEAN, Len(c) > k, NEW i \in 1 .. k
    PROVE  Blind(RollingFold(Len(c), k, gap, purge, sliding, i), c, TRUE, Larger(gap, purge), -1)
  <1> DEFINE n == Len(c)
             first == FirstTest(n, k, i)
             m == Larger(gap, purge)
             f == RollingFold(n, k, gap, purge, sliding, i)
             start == RollingStart(n, k, gap, sliding, i)
  <1>1. n \in Nat
    BY CalendarFacts
  <1>2. first \in 1 .. n /\ Window(n, k) \in Nat /\ Initial(n, k) \in Nat
        /\ TestRows(n, k, i) = first .. first + Window(n, k) - 1
    BY <1>1, WindowBounds
  <1>3. m \in Nat /\ start \in Int
    BY <1>2 DEF Larger, RollingStart
  <1>4. f.train = start .. first - m - 1 /\ f.test = first .. first + Window(n, k) - 1
    BY <1>2 DEF RollingFold, RollingEnd, Fold
  <1>5. ASSUME NEW r \in f.train, NEW t \in f.test
        PROVE  r \in Int /\ t \in Int /\ r < t /\ t - r > m
    <2>1. r \in start .. first - m - 1 /\ t \in first .. first + Window(n, k) - 1
      BY <1>4
    <2>2. first \in Int /\ Window(n, k) \in Int
      BY <1>2
    <2> HIDE DEF f, first, m, start, n
    <2> QED
      BY <1>3, <2>1, <2>2
  <1> QED
    BY <1>5 DEF Blind

\* purged_kfold.py: purge before and embargo after the test window.
LEMMA KFoldBlind ==
    ASSUME NEW c \in Calendars, NEW first \in 1 .. Len(c), NEW last \in 1 .. Len(c),
           NEW purge \in Nat, NEW embargo \in Nat
    PROVE  Blind(Fold(KFoldTrain(c, first, last, purge, embargo), first .. last),
                 c, FALSE, purge, embargo)
  <1> DEFINE n == Len(c)
             f == Fold(KFoldTrain(c, first, last, purge, embargo), first .. last)
  <1>1. n \in Nat /\ DOMAIN c = 1 .. n /\ (\A r \in 1 .. n : c[r] \in Nat)
        /\ (\A r, s \in 1 .. n : r < s => c[r] < c[s])
        /\ (\A r, s \in 1 .. n : r <= s => c[r] <= c[s])
    BY CalendarFacts
  <1>2. f.train = {r \in 1 .. n : c[r] < c[first] - purge \/ c[r] > c[last] + embargo}
        /\ f.test = first .. last
    BY <1>1 DEF KFoldTrain, Fold
  <1>3. SUFFICES ASSUME NEW r \in f.train, NEW t \in f.test
                 PROVE  /\ r # t
                        /\ r < t => c[t] - c[r] > purge
                        /\ r > t => embargo >= 0 /\ c[r] - c[t] > embargo
    BY DEF Blind
  <1>4. r \in 1 .. n /\ t \in 1 .. n /\ first <= t /\ t <= last
    BY <1>1, <1>2
  <1>5. c[first] <= c[t] /\ c[t] <= c[last]
    BY <1>1, <1>4
  <1>6. c[r] \in Nat /\ c[t] \in Nat /\ c[first] \in Nat /\ c[last] \in Nat
    BY <1>1, <1>4
  <1> HIDE DEF f, n
  <1>7. CASE c[r] < c[first] - purge
    <2>1. c[t] - c[r] > purge
      BY <1>5, <1>6, <1>7
    <2>2. ~(t <= r)
      BY <1>1, <1>4, <1>6, <2>1
    <2> QED
      BY <1>4, <2>1, <2>2
  <1>8. CASE c[r] > c[last] + embargo
    <2>1. c[r] - c[t] > embargo
      BY <1>5, <1>6, <1>8
    <2>2. ~(r <= t)
      BY <1>1, <1>4, <1>6, <2>1
    <2> QED
      BY <1>4, <2>1, <2>2
  <1> QED
    BY <1>2, <1>7, <1>8

\* The folds of PurgedKFold lie in the history.
LEMMA KFoldBounds ==
    ASSUME NEW n \in Nat, NEW k \in Nat \ {0}, n > k, NEW i \in 1 .. k
    PROVE  /\ (i - 1) * (n \div k) + 1 \in 1 .. n
           /\ (IF i = k THEN n ELSE i * (n \div k)) \in 1 .. n
           /\ (i - 1) * (n \div k) + 1 <= (IF i = k THEN n ELSE i * (n \div k))
  <1> DEFINE q == n \div k
  <1>1. q \in Nat /\ k * q <= n /\ q >= 1
    <2>1. q \in Nat /\ n = k * q + (n % k) /\ (n % k) \in 0 .. k - 1
      OBVIOUS
    <2>2. k * q \in Nat
      BY <2>1
    <2> QED
      BY <2>1, <2>2
  <1>2. k * q = (i - 1) * q + (k - i) * q + q /\ i * q = (i - 1) * q + q
    <2>0. i - 1 \in Int /\ k - i \in Int /\ 1 \in Int /\ i \in Int /\ q \in Int
      BY <1>1
    <2> HIDE DEF q
    <2>1. ((i - 1) + 1) * q = (i - 1) * q + 1 * q
      BY <2>0, Distribution
    <2>2. (i + (k - i)) * q = i * q + (k - i) * q
      BY <2>0, Distribution
    <2>3. i + (k - i) = k /\ (i - 1) + 1 = i /\ 1 * q = q
      BY <1>1
    <2> QED
      BY <1>1, <2>1, <2>2, <2>3
  <1>3. (i - 1) * q \in Nat /\ (k - i) * q \in Nat
    BY <1>1
  <1>4. (i - 1) * q + 1 \in 1 .. n
    BY <1>1, <1>2, <1>3
  <1>5. i * q \in 1 .. n /\ n \in 1 .. n /\ (i - 1) * q + 1 <= i * q
    BY <1>1, <1>2, <1>3
  <1> QED
    BY <1>4, <1>5

\* The bounds of the CPCV folds: they grow, from the first row to the last.
LEMMA BoundFacts ==
    ASSUME NEW n \in Nat, NEW k \in Nat \ {0}, n > k, NEW i \in 1 .. k
    PROVE  /\ BoundStart(n, k, i) \in 1 .. n
           /\ BoundStart(n, k, i + 1) - 1 \in 1 .. n
           /\ BoundStart(n, k, i) <= BoundStart(n, k, i + 1) - 1
  <1> DEFINE q == n \div k
             r == n % k
  <1>1. q \in Nat /\ r \in 0 .. k - 1 /\ n = k * q + r /\ q >= 1
    <2>1. q \in Nat /\ n = k * q + (n % k) /\ (n % k) \in 0 .. k - 1
      OBVIOUS
    <2> QED
      BY <2>1
  <1>2. i - 1 \in Int /\ k - i \in Int /\ 1 \in Int /\ i \in Int /\ q \in Int /\ i + 1 \in Int
    BY <1>1
  <1>3. (i - 1) * q + q = i * q /\ i * q + (k - i) * q = k * q
    <2> HIDE DEF q
    <2>1. ((i - 1) + 1) * q = (i - 1) * q + 1 * q
      BY <1>2, Distribution
    <2>2. (i + (k - i)) * q = i * q + (k - i) * q
      BY <1>2, Distribution
    <2>3. i + (k - i) = k /\ (i - 1) + 1 = i /\ 1 * q = q
      BY <1>2
    <2> QED
      BY <1>2, <2>1, <2>2, <2>3
  <1>4. (i - 1) * q \in Nat /\ (k - i) * q \in Nat /\ i * q \in Nat
    BY <1>1
  <1>5. Smaller(i - 1, r) \in 0 .. r /\ Smaller(i, r) \in 0 .. r
        /\ Smaller(i - 1, r) <= Smaller(i, r)
    BY <1>1 DEF Smaller
  <1>6. BoundStart(n, k, i) = (i - 1) * q + Smaller(i - 1, r) + 1
    BY DEF BoundStart
  <1>7. BoundStart(n, k, i + 1) = i * q + Smaller(i, r) + 1
    <2>1. (i + 1) - 1 = i
      BY <1>2
    <2> QED
      BY <2>1 DEF BoundStart
  <1> HIDE DEF q, r
  <1>8. BoundStart(n, k, i) \in 1 .. n
    BY <1>1, <1>3, <1>4, <1>5, <1>6
  <1>9. BoundStart(n, k, i + 1) - 1 \in 1 .. n
    BY <1>1, <1>3, <1>4, <1>5, <1>7
  <1>10. BoundStart(n, k, i) <= BoundStart(n, k, i + 1) - 1
    BY <1>1, <1>3, <1>4, <1>5, <1>6, <1>7
  <1> QED
    BY <1>8, <1>9, <1>10

\* cpcv.py: every chosen group is purged from the training rows on both sides.
LEMMA CpcvBlind ==
    ASSUME NEW c \in Calendars, NEW k \in Nat \ {0}, Len(c) > k, NEW gap \in Nat,
           NEW embargo \in Nat, NEW chosen \in SUBSET (1 .. k)
    PROVE  Blind(Fold(CpcvTrain(c, Len(c), k, chosen, gap, embargo),
                      UNION {BoundRows(Len(c), k, i) : i \in chosen}), c, FALSE, gap, gap)
  <1> DEFINE n == Len(c)
             f == Fold(CpcvTrain(c, n, k, chosen, gap, embargo),
                       UNION {BoundRows(n, k, i) : i \in chosen})
  <1>1. n \in Nat /\ DOMAIN c = 1 .. n /\ (\A r \in 1 .. n : c[r] \in Nat)
        /\ (\A r, s \in 1 .. n : r < s => c[r] < c[s])
        /\ (\A r, s \in 1 .. n : r <= s => c[r] <= c[s])
    BY CalendarFacts
  <1>2. SUFFICES ASSUME NEW r \in f.train, NEW t \in f.test
                 PROVE  /\ r # t
                        /\ r < t => c[t] - c[r] > gap
                        /\ r > t => gap >= 0 /\ c[r] - c[t] > gap
    BY DEF Blind
  <1>3. PICK i \in chosen : t \in BoundRows(n, k, i)
    BY DEF Fold
  <1> DEFINE first == BoundStart(n, k, i)
             last == BoundStart(n, k, i + 1) - 1
  <1>4. first \in 1 .. n /\ last \in 1 .. n
    BY <1>1, BoundFacts
  <1>5. t \in 1 .. n /\ first <= t /\ t <= last
    BY <1>1, <1>3, <1>4 DEF BoundRows
  <1>6. r \in 1 .. n /\ ~(c[first] - gap <= c[r] /\ c[r] <= c[last] + gap)
    BY <1>1 DEF Fold, CpcvTrain
  <1> HIDE DEF first, last
  <1>7. c[first] <= c[t] /\ c[t] <= c[last]
    BY <1>1, <1>4, <1>5
  <1>8. c[r] \in Nat /\ c[t] \in Nat /\ c[first] \in Nat /\ c[last] \in Nat
    BY <1>1, <1>4, <1>5, <1>6
  <1>9. c[t] - c[r] > gap \/ c[r] - c[t] > gap
    <2> DEFINE cr == c[r]
               ct == c[t]
               cf == c[first]
               cl == c[last]
    <2>1. cr \in Int /\ ct \in Int /\ cf \in Int /\ cl \in Int /\ cf <= ct /\ ct <= cl
          /\ ~(cf - gap <= cr /\ cr <= cl + gap)
      BY <1>6, <1>7, <1>8
    <2> HIDE DEF cr, ct, cf, cl
    <2>2. ct - cr > gap \/ cr - ct > gap
      BY <2>1
    <2> QED
      BY <2>2 DEF cr, ct
  <1>10. CASE c[t] - c[r] > gap
    <2>1. ~(t <= r)
      BY <1>1, <1>5, <1>6, <1>8, <1>10
    <2> QED
      BY <1>5, <1>6, <1>10, <2>1
  <1>11. CASE c[r] - c[t] > gap
    <2>1. ~(r <= t)
      BY <1>1, <1>5, <1>6, <1>8, <1>11
    <2> QED
      BY <1>5, <1>6, <1>11, <2>1
  <1> QED
    BY <1>9, <1>10, <1>11

\* An out-of-sample window lies in the history.
LEMMA OosBounds ==
    ASSUME NEW n \in Nat, n >= 3, NEW tenths \in 1 .. 9, NEW k \in Nat \ {0},
           NEW s \in EvenlySpaced(n - OosSize(n, tenths), k)
    PROVE  OosSize(n, tenths) \in Nat \ {0} /\ s \in Nat /\ s + OosSize(n, tenths) <= n
  <1> DEFINE size == OosSize(n, tenths)
  <1>1. size \in 2 .. n - 1
    <2>1. (n * tenths) \div 10 \in Int
      OBVIOUS
    <2> QED
      BY <2>1 DEF OosSize, Larger, Smaller
  <1> HIDE DEF size
  <1>2. n - size \in Nat /\ n - size >= 1
    BY <1>1
  <1>3. CASE n - size <= 1
    BY <1>1, <1>2, <1>3 DEF EvenlySpaced, size
  <1>4. CASE n - size > 1 /\ k = 1
    BY <1>1, <1>2, <1>4 DEF EvenlySpaced, size
  <1>5. CASE n - size > 1 /\ k # 1
    <2>1. PICK i \in 0 .. k - 1 :
             s = Smaller(Larger(1, 1 + RoundedEven(i * (n - size - 1), k - 1)), n - size)
      BY <1>2, <1>5 DEF EvenlySpaced, size
    <2>2. RoundedEven(i * (n - size - 1), k - 1) \in Int
      <3>1. i * (n - size - 1) \in Int /\ k - 1 \in Nat \ {0}
        BY <1>1, <1>5
      <3>2. (i * (n - size - 1)) \div (k - 1) \in Int
        BY <3>1
      <3> QED
        BY <3>2 DEF RoundedEven
    <2> QED
      BY <1>1, <1>2, <2>1, <2>2 DEF Smaller, Larger, size
  <1> QED
    BY <1>2, <1>3, <1>4, <1>5

\* bt_analyzer/walk_forward.py: training ends the gap before the test window.
LEMMA OosBlind ==
    ASSUME NEW c \in Calendars, NEW gap \in Nat, NEW size \in Nat, NEW start \in Nat,
           start + size <= Len(c)
    PROVE  Blind(OosFold(c, size, start, gap), c, FALSE, gap, -1)
  <1> DEFINE n == Len(c)
             f == OosFold(c, size, start, gap)
  <1>1. n \in Nat /\ DOMAIN c = 1 .. n /\ (\A r \in 1 .. n : c[r] \in Nat)
        /\ (\A r, s \in 1 .. n : r < s => c[r] < c[s])
        /\ (\A r, s \in 1 .. n : r <= s => c[r] <= c[s])
    BY CalendarFacts
  <1>2. f.train = {r \in 1 .. n : c[r] < c[start + 1] - gap} /\ f.test = start + 1 .. start + size
    BY <1>1 DEF OosFold, Fold, RowsBefore
  <1>3. SUFFICES ASSUME NEW r \in f.train, NEW t \in f.test
                 PROVE  r < t /\ c[t] - c[r] > gap /\ r \in Int /\ t \in Int
    BY DEF Blind
  <1>4. r \in 1 .. n /\ t \in 1 .. n /\ start + 1 \in 1 .. n /\ start + 1 <= t
    BY <1>1, <1>2
  <1>5. c[r] \in Nat /\ c[t] \in Nat /\ c[start + 1] \in Nat /\ c[start + 1] <= c[t]
        /\ c[r] < c[start + 1] - gap
    BY <1>1, <1>2, <1>4
  <1>6. c[t] - c[r] > gap
    BY <1>5
  <1>7. ~(t <= r)
    BY <1>1, <1>4, <1>5, <1>6
  <1> QED
    BY <1>4, <1>6, <1>7
-----------------------------------------------------------------------------
\* Sets that a function matches one to one have the same size.
LEMMA SameSize ==
    ASSUME NEW S, NEW T, NEW f \in [S -> T], IsFiniteSet(S),
           \A x, y \in S : f[x] = f[y] => x = y,
           \A t \in T : \E x \in S : f[x] = t
    PROVE  IsFiniteSet(T) /\ Cardinality(T) = Cardinality(S)
  <1>1. f \in Injection(S, T)
    BY Fun_IsInj
  <1>2. f \in Surjection(S, T)
    BY Fun_IsSurj
  <1> QED
    BY <1>1, <1>2, FS_Surjection

\* Boundaries that grow cut a range into consecutive blocks, none empty.
Boundaries(s, k) ==
    /\ s \in [1 .. k + 1 -> Int]
    /\ \A i \in 1 .. k : s[i] < s[i + 1]

Block(s, i) == s[i] .. s[i + 1] - 1

\* Boundaries that grow from each to the next grow from any to any later one.
LEMMA BlocksInOrder ==
    ASSUME NEW k \in Nat \ {0}, NEW s, Boundaries(s, k)
    PROVE  \A i, j \in 1 .. k + 1 : i < j => s[i] < s[j]
  <1>1. s \in [1 .. k + 1 -> Int] /\ \A i \in 1 .. k : s[i] < s[i + 1]
    BY DEF Boundaries
  <1>2. SUFFICES ASSUME NEW i \in 1 .. k + 1
                 PROVE  \A j \in 1 .. k + 1 : i < j => s[i] < s[j]
    OBVIOUS
  <1> DEFINE G == {m \in 0 .. k + 1 : m \in 1 .. k + 1 /\ i < m => s[i] < s[m]}
  <1>3. 0 \in G
    OBVIOUS
  <1>4. ASSUME NEW m \in 1 .. k + 1, m - 1 \in G PROVE m \in G
    <2>1. SUFFICES ASSUME i < m PROVE s[i] < s[m]
      OBVIOUS
    <2>2. m - 1 \in 1 .. k /\ (m - 1) + 1 = m
      BY <2>1
    <2>3. s[m - 1] < s[m] /\ s[m - 1] \in Int /\ s[m] \in Int /\ s[i] \in Int
      BY <1>1, <2>2
    <2>4. CASE m - 1 = i
      BY <2>3, <2>4
    <2>5. CASE i < m - 1
      <3>1. s[i] < s[m - 1]
        BY <1>4, <2>2, <2>5
      <3> QED
        BY <2>3, <3>1
    <2> QED
      BY <2>1, <2>4, <2>5
  <1> HIDE DEF G
  <1>5. \A m \in 0 .. k + 1 : m \in G
    BY <1>3, <1>4, CountUp
  <1> QED
    BY <1>5 DEF G

\* Every row of the range is in a block, and in no other.
LEMMA BlocksTile ==
    ASSUME NEW k \in Nat \ {0}, NEW s, Boundaries(s, k)
    PROVE  /\ \A i \in 1 .. k : s[i] \in Block(s, i)
           /\ \A i, j \in 1 .. k : i # j => Block(s, i) \cap Block(s, j) = {}
           /\ \A i \in 1 .. k : Block(s, i) \subseteq s[1] .. s[k + 1] - 1
           /\ \A r \in s[1] .. s[k + 1] - 1 : \E i \in 1 .. k : r \in Block(s, i)
  <1>1. s \in [1 .. k + 1 -> Int] /\ \A i \in 1 .. k : s[i] < s[i + 1]
    BY DEF Boundaries
  <1>2. \A i, j \in 1 .. k + 1 : i < j => s[i] < s[j]
    BY BlocksInOrder
  <1>3. ASSUME NEW i \in 1 .. k + 1, NEW j \in 1 .. k + 1, i <= j
        PROVE  s[i] <= s[j]
    <2>1. s[i] \in Int /\ s[j] \in Int /\ (i < j \/ i = j)
      BY <1>1, <1>3
    <2> QED
      BY <1>2, <2>1
  <1>4. \A i \in 1 .. k : i \in 1 .. k + 1 /\ i + 1 \in 1 .. k + 1
                          /\ s[i] \in Int /\ s[i + 1] \in Int
    BY <1>1
  <1>5. \A i \in 1 .. k : s[i] \in Block(s, i)
    BY <1>1, <1>4 DEF Block
  <1>6. ASSUME NEW i \in 1 .. k, NEW j \in 1 .. k, i < j
        PROVE  Block(s, i) \cap Block(s, j) = {}
    <2>1. s[i + 1] <= s[j]
      BY <1>3, <1>4, <1>6
    <2> QED
      BY <1>4, <2>1 DEF Block
  <1>7. \A i, j \in 1 .. k : i # j => Block(s, i) \cap Block(s, j) = {}
    BY <1>6
  <1>8. ASSUME NEW i \in 1 .. k
        PROVE  Block(s, i) \subseteq s[1] .. s[k + 1] - 1
    <2>1. s[1] <= s[i] /\ s[i + 1] <= s[k + 1] /\ s[1] \in Int /\ s[k + 1] \in Int
      BY <1>1, <1>3, <1>4
    <2> QED
      BY <1>4, <2>1 DEF Block
  <1>9. ASSUME NEW r \in s[1] .. s[k + 1] - 1
        PROVE  \E i \in 1 .. k : r \in Block(s, i)
    <2> DEFINE G == {m \in 0 .. k : r < s[m + 1] => \E i \in 1 .. k : r \in Block(s, i)}
    <2>1. 0 \in G
      BY <1>1
    <2>2. ASSUME NEW m \in 1 .. k, m - 1 \in G PROVE m \in G
      <3>1. s[m] \in Int /\ s[m + 1] \in Int /\ r \in Int /\ (m - 1) + 1 = m
        BY <1>1, <1>4
      <3>2. CASE r < s[m]
        BY <2>2, <3>1, <3>2
      <3>3. CASE ~(r < s[m])
        <4>1. r < s[m + 1] => r \in Block(s, m)
          BY <3>1, <3>3 DEF Block
        <4> QED
          BY <4>1
      <3> QED
        BY <3>2, <3>3
    <2> HIDE DEF G
    <2>3. k \in G
      <3>1. \A m \in 0 .. k : m \in G
        BY <2>1, <2>2, CountUp
      <3> QED
        BY <3>1
    <2>4. r < s[k + 1]
      BY <1>1
    <2> QED
      BY <2>3, <2>4 DEF G
  <1> QED
    BY <1>5, <1>7, <1>8, <1>9
-----------------------------------------------------------------------------
\* The choices of m numbers among 1 .. l, of which Choices counts the number.
ChosenOf(l, m) == {c \in SUBSET (1 .. l) : Cardinality(c) = m}

\* The choices of m out of l are finite in number, as are their members.
LEMMA ChosenFinite ==
    ASSUME NEW l \in Nat, NEW m
    PROVE  /\ IsFiniteSet(ChosenOf(l, m)) /\ Cardinality(ChosenOf(l, m)) \in Nat
           /\ Choices(l, m) = Cardinality(ChosenOf(l, m))
           /\ \A c \in SUBSET (1 .. l) : IsFiniteSet(c) /\ Cardinality(c) \in Nat
  <1>1. 1 \in Int /\ l \in Int
    OBVIOUS
  <1>2. IsFiniteSet(1 .. l)
    BY <1>1, FS_Interval, Zenon
  <1>3. IsFiniteSet(SUBSET (1 .. l))
    BY <1>2, FS_SUBSET
  <1>4. IsFiniteSet(ChosenOf(l, m))
    <2>1. ChosenOf(l, m) \in SUBSET (SUBSET (1 .. l))
      BY DEF ChosenOf
    <2> QED
      BY <1>3, <2>1, FS_Subset
  <1>5. \A c \in SUBSET (1 .. l) : IsFiniteSet(c) /\ Cardinality(c) \in Nat
    BY <1>2, FS_Subset, FS_CardinalityType
  <1> QED
    BY <1>4, <1>5, FS_CardinalityType DEF Choices, ChosenOf

\* Leaving out one of the chosen numbers and closing the hole.
Closed(i, x) == IF x < i THEN x ELSE x - 1
Opened(i, y) == IF y < i THEN y ELSE y + 1

\* Closing the hole and opening it again are inverse to each other.
LEMMA HoleFacts ==
    ASSUME NEW k \in Nat \ {0}, NEW i \in 1 .. k
    PROVE  /\ \A x \in (1 .. k) \ {i} : Closed(i, x) \in 1 .. k - 1 /\ Opened(i, Closed(i, x)) = x
           /\ \A y \in 1 .. k - 1 : /\ Opened(i, y) \in (1 .. k) \ {i}
                                    /\ Closed(i, Opened(i, y)) = y
  BY DEF Closed, Opened

\* The choices that have i are as many as the choices of the others.
LEMMA ChoicesWith ==
    ASSUME NEW k \in Nat \ {0}, NEW m \in 1 .. k, NEW i \in 1 .. k
    PROVE  LET With == {c \in ChosenOf(k, m) : i \in c}
           IN  IsFiniteSet(With) /\ Cardinality(With) = Choices(k - 1, m - 1)
  <1> DEFINE With == {c \in ChosenOf(k, m) : i \in c}
             T == ChosenOf(k - 1, m - 1)
             close == [x \in (1 .. k) \ {i} |-> Closed(i, x)]
             open == [y \in 1 .. k - 1 |-> Opened(i, y)]
             f == [c \in With |-> {close[x] : x \in c \ {i}}]
  <1>1. k - 1 \in Nat /\ m - 1 \in Nat
    OBVIOUS
  <1>2. /\ close \in [(1 .. k) \ {i} -> 1 .. k - 1] /\ open \in [1 .. k - 1 -> (1 .. k) \ {i}]
        /\ \A x \in (1 .. k) \ {i} : open[close[x]] = x
        /\ \A y \in 1 .. k - 1 : close[open[y]] = y
    BY HoleFacts
  <1> HIDE DEF close, open
  <1>3. IsFiniteSet(With)
    <2>1. With \in SUBSET ChosenOf(k, m)
      OBVIOUS
    <2> QED
      BY <2>1, ChosenFinite, FS_Subset
  <1>4. \A c \in With : /\ c \in SUBSET (1 .. k) /\ Cardinality(c) = m /\ i \in c
                        /\ IsFiniteSet(c)
    BY ChosenFinite DEF ChosenOf
  <1>5. ASSUME NEW c \in With
        PROVE  {close[x] : x \in c \ {i}} \in T
    <2> DEFINE d == c \ {i}
               e == {close[x] : x \in d}
               g == [x \in d |-> close[x]]
    <2>1. d \subseteq (1 .. k) \ {i} /\ e \subseteq 1 .. k - 1
      BY <1>2, <1>4
    <2>2. IsFiniteSet(d) /\ Cardinality(d) = m - 1
      BY <1>4, FS_RemoveElement
    <2>3. g \in [d -> e]
      OBVIOUS
    <2>4. \A x, y \in d : g[x] = g[y] => x = y
      BY <1>2, <2>1
    <2>5. \A t \in e : \E x \in d : g[x] = t
      OBVIOUS
    <2> HIDE DEF d, e, g
    <2>6. Cardinality(e) = m - 1
      BY <2>2, <2>3, <2>4, <2>5, SameSize
    <2> QED
      BY <2>1, <2>6 DEF ChosenOf, e, d
  <1>6. f \in [With -> T]
    BY <1>5
  <1>7. \A c, b \in With : f[c] = f[b] => c = b
    <2>1. SUFFICES ASSUME NEW c \in With, NEW b \in With, f[c] = f[b]
                   PROVE  c \subseteq b
      OBVIOUS
    <2>2. {close[x] : x \in c \ {i}} = {close[x] : x \in b \ {i}}
      BY <2>1
    <2>3. SUFFICES ASSUME NEW x \in c \ {i} PROVE x \in b
      BY <1>4
    <2>4. PICK z \in b \ {i} : close[x] = close[z]
      BY <2>2
    <2>5. x \in (1 .. k) \ {i} /\ z \in (1 .. k) \ {i}
      BY <1>4
    <2>6. x = z
      BY <1>2, <2>4, <2>5
    <2> QED
      BY <2>6
  <1>8. ASSUME NEW t \in T
        PROVE  \E c \in With : f[c] = t
    <2> DEFINE d == {open[y] : y \in t}
               c == d \cup {i}
               g == [y \in t |-> open[y]]
    <2>1. t \in SUBSET (1 .. k - 1) /\ Cardinality(t) = m - 1 /\ IsFiniteSet(t)
      BY <1>1, ChosenFinite DEF ChosenOf
    <2>2. d \subseteq (1 .. k) \ {i}
      BY <1>2, <2>1
    <2>3. g \in [t -> d] /\ (\A x, y \in t : g[x] = g[y] => x = y)
          /\ \A u \in d : \E y \in t : g[y] = u
      <3>1. g \in [t -> d]
        OBVIOUS
      <3>2. \A x, y \in t : g[x] = g[y] => x = y
        BY <1>2, <2>1
      <3>3. \A u \in d : \E y \in t : g[y] = u
        OBVIOUS
      <3> QED
        BY <3>1, <3>2, <3>3
    <2>4. IsFiniteSet(d) /\ Cardinality(d) = m - 1
      <3> HIDE DEF d, g
      <3> QED
        BY <2>1, <2>3, SameSize
    <2>5. i \notin d
      BY <2>2
    <2>6. Cardinality(c) = m
      <3>1. Cardinality(c) = Cardinality(d) + 1
        BY <2>4, <2>5, FS_AddElement
      <3> QED
        BY <2>4, <3>1
    <2>7. c \in With
      BY <2>2, <2>6 DEF ChosenOf
    <2>8. {close[x] : x \in c \ {i}} = t
      <3>1. c \ {i} = d
        BY <2>5
      <3>2. {close[x] : x \in d} = t
        <4>1. \A y \in t : open[y] \in d /\ close[open[y]] = y
          BY <1>2, <2>1
        <4>2. \A x \in d : close[x] \in t
          BY <1>2, <2>1
        <4> HIDE DEF d
        <4> QED
          BY <4>1, <4>2
      <3> QED
        BY <3>1, <3>2
    <2>9. f[c] = t
      BY <2>7, <2>8
    <2> QED
      BY <2>7, <2>9
  <1> HIDE DEF With, T, f
  <1>9. Cardinality(T) = Cardinality(With)
    BY <1>3, <1>6, <1>7, <1>8, SameSize
  <1>10. Cardinality(T) = Choices(k - 1, m - 1)
    BY <1>1, ChosenFinite DEF T
  <1> QED
    BY <1>3, <1>9, <1>10 DEF With

\* A study that tests every choice of m of k blocks: G[c] is the fold of the
\* choice c.  If none of the folds is missing, every row is tested equally often.
LEMMA RowsTestedEqually ==
    ASSUME NEW k \in Nat \ {0}, NEW m \in 1 .. k, NEW s, Boundaries(s, k), NEW fs, NEW G,
           DOMAIN G = ChosenOf(k, m),
           \A c \in ChosenOf(k, m) : G[c].test = UNION {Block(s, i) : i \in c},
           \A f \in fs : \E c \in ChosenOf(k, m) : f = G[c],
           Cardinality(fs) = Choices(k, m),
           NEW r \in s[1] .. s[k + 1] - 1
    PROVE  Cardinality({f \in fs : r \in f.test}) = Choices(k - 1, m - 1)
  <1> DEFINE C == ChosenOf(k, m)
             all == {G[c] : c \in C}
             g == [c \in C |-> G[c]]
  <1>1. IsFiniteSet(C) /\ Cardinality(C) = Choices(k, m)
    BY ChosenFinite
  <1>2. \A c \in C : c \subseteq 1 .. k
    BY DEF ChosenOf
  <1>3. /\ \A i \in 1 .. k : s[i] \in Block(s, i)
        /\ \A i, j \in 1 .. k : i # j => Block(s, i) \cap Block(s, j) = {}
    BY BlocksTile
  <1>4. \A c \in C : \A i \in 1 .. k : i \in c <=> s[i] \in G[c].test
    BY <1>2, <1>3
  <1>5. ASSUME NEW c \in C, NEW b \in C, G[c] = G[b] PROVE c = b
    <2>1. \A i \in 1 .. k : i \in c <=> i \in b
      BY <1>4, <1>5
    <2> QED
      BY <1>2, <2>1
  <1>6. g \in [C -> all] /\ (\A c, b \in C : g[c] = g[b] => c = b)
        /\ \A f \in all : \E c \in C : g[c] = f
    BY <1>5
  <1> HIDE DEF C, g, all
  <1>7. IsFiniteSet(all) /\ Cardinality(all) = Choices(k, m)
    BY <1>1, <1>6, SameSize
  <1>8. fs = all
    <2>1. fs \in SUBSET all
      BY DEF all, C
    <2> QED
      BY <1>7, <2>1, FS_Subset
  <1>9. PICK i \in 1 .. k : r \in Block(s, i)
    BY BlocksTile
  <1>10. \A j \in 1 .. k : r \in Block(s, j) <=> j = i
    BY <1>3, <1>9
  <1>11. ASSUME NEW c \in C PROVE r \in G[c].test <=> i \in c
    <2>1. G[c].test = UNION {Block(s, j) : j \in c}
      BY DEF C
    <2> QED
      BY <1>2, <1>10, <2>1
  <1> DEFINE With == {c \in ChosenOf(k, m) : i \in c}
             T == {f \in fs : r \in f.test}
             h == [c \in With |-> G[c]]
  <1>12. IsFiniteSet(With) /\ Cardinality(With) = Choices(k - 1, m - 1)
    BY ChoicesWith
  <1>13. h \in [With -> T]
    BY <1>8, <1>11 DEF all, C
  <1>14. \A c, b \in With : h[c] = h[b] => c = b
    BY <1>5 DEF C
  <1>15. \A f \in T : \E c \in With : h[c] = f
    BY <1>8, <1>11 DEF all, C
  <1> HIDE DEF With, T, h
  <1>16. Cardinality(T) = Cardinality(With)
    BY <1>12, <1>13, <1>14, <1>15, SameSize
  <1> QED
    BY <1>12, <1>16 DEF T
-----------------------------------------------------------------------------
\* The boundaries of each method, as functions.
WindowStarts(n, k) == [i \in 1 .. k + 1 |-> FirstTest(n, k, i)]
KFoldStarts(n, k) == [i \in 1 .. k + 1 |-> IF i = k + 1 THEN n + 1 ELSE (i - 1) * (n \div k) + 1]
CpcvStarts(n, k) == [i \in 1 .. k + 1 |-> BoundStart(n, k, i)]

\* Test windows of the walk-forward and rolling splits.
LEMMA WindowBlocks ==
    ASSUME NEW n \in Nat, NEW k \in Nat \ {0}, n > k
    PROVE  LET s == WindowStarts(n, k)
           IN  /\ Boundaries(s, k)
               /\ \A i \in 1 .. k : TestRows(n, k, i) = Block(s, i)
               /\ s[1] \in 1 .. n /\ s[k + 1] = n + 1
  <1> DEFINE w == Window(n, k)
             s == WindowStarts(n, k)
  <1>1. w \in Nat \ {0} /\ Initial(n, k) \in Nat \ {0}
        /\ \A i \in 1 .. k : /\ FirstTest(n, k, i) \in 1 .. n
                            /\ TestRows(n, k, i) = FirstTest(n, k, i) .. FirstTest(n, k, i) + w - 1
    BY WindowBounds
  <1>2. \A i \in 1 .. k + 1 : s[i] = FirstTest(n, k, i)
    BY DEF WindowStarts
  <1>3. \A i \in 1 .. k + 1 : FirstTest(n, k, i) = Initial(n, k) + (i - 1) * w + 1
    BY DEF FirstTest
  <1> HIDE DEF w, s
  <1>4. \A i \in 1 .. k + 1 : (i - 1) * w \in Int /\ FirstTest(n, k, i) \in Int
    BY <1>1, <1>3
  <1>5. ASSUME NEW i \in 1 .. k PROVE FirstTest(n, k, i + 1) = FirstTest(n, k, i) + w
    <2>1. ((i - 1) + 1) * w = (i - 1) * w + 1 * w
      BY <1>1, Distribution
    <2>2. i + 1 \in 1 .. k + 1 /\ i \in 1 .. k + 1 /\ (i - 1) + 1 = (i + 1) - 1 /\ 1 * w = w
      BY <1>1
    <2>3. ((i + 1) - 1) * w = (i - 1) * w + w
      BY <2>1, <2>2
    <2> QED
      BY <1>1, <1>3, <1>4, <2>2, <2>3
  <1>6. \A i \in 1 .. k : s[i + 1] = s[i] + w /\ s[i] \in Int
    BY <1>2, <1>4, <1>5
  <1>7. s \in [1 .. k + 1 -> Int]
    <2>1. \A i \in 1 .. k + 1 : s[i] \in Int
      BY <1>2, <1>4
    <2>2. s = [i \in 1 .. k + 1 |-> s[i]]
      BY DEF s, WindowStarts
    <2> HIDE DEF s
    <2> QED
      BY <2>1, <2>2
  <1>8. Boundaries(s, k)
    <2>1. w \in Nat /\ w > 0
      BY <1>1
    <2>2. \A i \in 1 .. k : s[i] < s[i + 1]
      BY <1>6, <2>1
    <2> QED
      BY <1>7, <2>2 DEF Boundaries
  <1>9. ASSUME NEW i \in 1 .. k PROVE TestRows(n, k, i) = Block(s, i)
    <2>1. TestRows(n, k, i) = FirstTest(n, k, i) .. FirstTest(n, k, i) + w - 1
      BY <1>1
    <2>2. s[i] = FirstTest(n, k, i) /\ s[i + 1] = FirstTest(n, k, i) + w
      BY <1>2, <1>6
    <2>3. FirstTest(n, k, i) \in Int /\ w \in Int
      BY <1>1, <1>4
    <2>4. s[i + 1] - 1 = FirstTest(n, k, i) + w - 1
      BY <2>2, <2>3
    <2> QED
      BY <2>1, <2>2, <2>4 DEF Block
  <1>10. s[1] \in 1 .. n
    BY <1>1, <1>2
  <1>11. s[k + 1] = n + 1
    <2>1. FirstTest(n, k, k + 1) = Initial(n, k) + k * w + 1
      BY <1>3
    <2>2. Initial(n, k) = n - w * k
      BY DEF Initial, w
    <2>3. w * k = k * w /\ k * w \in Int
      BY <1>1
    <2> QED
      BY <1>2, <2>1, <2>2, <2>3
  <1> QED
    BY <1>8, <1>9, <1>10, <1>11 DEF s

\* Folds of PurgedKFold.
LEMMA KFoldBlocks ==
    ASSUME NEW n \in Nat, NEW k \in Nat \ {0}, n > k
    PROVE  LET s == KFoldStarts(n, k)
           IN  /\ Boundaries(s, k)
               /\ \A i \in 1 .. k : KFoldRows(n, k, i) = Block(s, i)
               /\ s[1] = 1 /\ s[k + 1] = n + 1
  <1> DEFINE q == n \div k
             s == KFoldStarts(n, k)
  <1>1. q \in Nat /\ q >= 1 /\ k * q \in Nat /\ k * q <= n
    <2>1. q \in Nat /\ n = k * q + (n % k) /\ (n % k) \in 0 .. k - 1
      OBVIOUS
    <2>2. k * q \in Nat
      BY <2>1
    <2> QED
      BY <2>1, <2>2
  <1>2. \A i \in 1 .. k : s[i] = (i - 1) * q + 1
    BY DEF KFoldStarts
  <1>3. s[k + 1] = n + 1 /\ s[1] = 1
    <2>1. s[k + 1] = n + 1
      BY DEF KFoldStarts
    <2>2. s[1] = (1 - 1) * q + 1
      BY <1>2
    <2>3. (1 - 1) * q = 0
      BY <1>1
    <2> QED
      BY <2>1, <2>2, <2>3
  <1>4. \A i \in 1 .. k : KFoldRows(n, k, i) = (i - 1) * q + 1 .. (IF i = k THEN n ELSE i * q)
    BY DEF KFoldRows
  <1>5. DOMAIN s = 1 .. k + 1 /\ s = [i \in 1 .. k + 1 |-> s[i]]
    BY DEF KFoldStarts
  <1> HIDE DEF q, s
  <1>6. ASSUME NEW i \in 1 .. k PROVE i * q = (i - 1) * q + q /\ (i - 1) * q \in Int
    <2>1. ((i - 1) + 1) * q = (i - 1) * q + 1 * q
      BY <1>1, Distribution
    <2>2. (i - 1) + 1 = i /\ 1 * q = q /\ (i - 1) * q \in Int
      BY <1>1
    <2> QED
      BY <2>1, <2>2
  <1>7. \A i \in 1 .. k : s[i + 1] = IF i = k THEN n + 1 ELSE i * q + 1
    <2> SUFFICES ASSUME NEW i \in 1 .. k
                 PROVE  s[i + 1] = IF i = k THEN n + 1 ELSE i * q + 1
      OBVIOUS
    <2>1. CASE i = k
      BY <1>3, <2>1
    <2>2. CASE i # k
      <3>1. i + 1 \in 1 .. k /\ (i + 1) - 1 = i
        BY <2>2
      <3> QED
        BY <1>2, <2>2, <3>1
    <2> QED
      BY <2>1, <2>2
  <1>8. \A i \in 1 .. k : s[i] < s[i + 1] /\ s[i] \in Int /\ s[i + 1] \in Int
    BY <1>1, <1>2, <1>6, <1>7
  <1>9. Boundaries(s, k)
    <2>1. \A i \in 1 .. k + 1 : s[i] \in Int
      BY <1>3, <1>8
    <2> QED
      BY <1>5, <1>8, <2>1 DEF Boundaries
  <1>10. \A i \in 1 .. k : KFoldRows(n, k, i) = Block(s, i)
    <2> SUFFICES ASSUME NEW i \in 1 .. k PROVE KFoldRows(n, k, i) = Block(s, i)
      OBVIOUS
    <2>1. s[i + 1] - 1 = IF i = k THEN n ELSE i * q
      BY <1>1, <1>6, <1>7
    <2> QED
      BY <1>2, <1>4, <2>1 DEF Block
  <1> QED
    BY <1>3, <1>9, <1>10 DEF s

\* Folds of the CPCV.
LEMMA CpcvBlocks ==
    ASSUME NEW n \in Nat, NEW k \in Nat \ {0}, n > k
    PROVE  LET s == CpcvStarts(n, k)
           IN  /\ Boundaries(s, k)
               /\ \A i \in 1 .. k : BoundRows(n, k, i) = Block(s, i)
               /\ s[1] = 1 /\ s[k + 1] = n + 1
  <1> DEFINE q == n \div k
             r == n % k
             s == CpcvStarts(n, k)
  <1>1. q \in Nat /\ q >= 1 /\ r \in 0 .. k - 1 /\ n = k * q + r /\ k * q \in Nat
    <2>1. q \in Nat /\ n = k * q + (n % k) /\ (n % k) \in 0 .. k - 1
      OBVIOUS
    <2>2. k * q \in Nat
      BY <2>1
    <2> QED
      BY <2>1, <2>2
  <1>2. \A i \in 1 .. k + 1 : BoundStart(n, k, i) = (i - 1) * q + Smaller(i - 1, r) + 1
    BY DEF BoundStart
  <1>3. \A i \in 1 .. k + 1 : s[i] = BoundStart(n, k, i)
    BY DEF CpcvStarts
  <1>4. DOMAIN s = 1 .. k + 1 /\ s = [i \in 1 .. k + 1 |-> s[i]]
    BY DEF CpcvStarts
  <1> HIDE DEF q, r, s
  <1>5. ASSUME NEW i \in 1 .. k PROVE i * q = (i - 1) * q + q /\ (i - 1) * q \in Int
    <2>1. ((i - 1) + 1) * q = (i - 1) * q + 1 * q
      BY <1>1, Distribution
    <2>2. (i - 1) + 1 = i /\ 1 * q = q /\ (i - 1) * q \in Int
      BY <1>1
    <2> QED
      BY <2>1, <2>2
  <1>6. \A i \in 1 .. k : BoundStart(n, k, i + 1) = i * q + Smaller(i, r) + 1
    <2> SUFFICES ASSUME NEW i \in 1 .. k
                 PROVE  BoundStart(n, k, i + 1) = i * q + Smaller(i, r) + 1
      OBVIOUS
    <2>1. i + 1 \in 1 .. k + 1 /\ (i + 1) - 1 = i
      OBVIOUS
    <2> QED
      BY <1>2, <2>1
  <1>7. \A i \in 1 .. k : Smaller(i - 1, r) \in Int /\ Smaller(i, r) \in Int
                          /\ Smaller(i - 1, r) <= Smaller(i, r)
    BY <1>1 DEF Smaller
  <1>8. \A i \in 1 .. k : /\ BoundStart(n, k, i) < BoundStart(n, k, i + 1)
                          /\ BoundStart(n, k, i) \in Int /\ BoundStart(n, k, i + 1) \in Int
    BY <1>1, <1>2, <1>5, <1>6, <1>7
  <1>9. BoundStart(n, k, 1) = 1
    <2>1. Smaller(0, r) = 0 /\ 0 * q = 0
      BY <1>1 DEF Smaller
    <2>2. BoundStart(n, k, 1) = (1 - 1) * q + Smaller(1 - 1, r) + 1
      BY <1>2
    <2> QED
      BY <2>1, <2>2
  <1>10. BoundStart(n, k, k + 1) = n + 1
    <2>1. Smaller(k, r) = r
      BY <1>1 DEF Smaller
    <2>2. BoundStart(n, k, k + 1) = k * q + Smaller(k, r) + 1
      BY <1>6
    <2> QED
      BY <1>1, <2>1, <2>2
  <1>11. Boundaries(s, k)
    <2>1. \A i \in 1 .. k + 1 : s[i] \in Int
      <3> SUFFICES ASSUME NEW i \in 1 .. k + 1 PROVE s[i] \in Int
        OBVIOUS
      <3>1. CASE i = k + 1
        BY <1>3, <1>10, <3>1
      <3>2. CASE i # k + 1
        BY <1>3, <1>8, <3>2
      <3> QED
        BY <3>1, <3>2
    <2>2. \A i \in 1 .. k : s[i] < s[i + 1]
      BY <1>3, <1>8
    <2> QED
      BY <1>4, <2>1, <2>2 DEF Boundaries
  <1>12. \A i \in 1 .. k : BoundRows(n, k, i) = Block(s, i)
    BY <1>3 DEF BoundRows, Block
  <1>13. s[1] = 1 /\ s[k + 1] = n + 1
    BY <1>3, <1>9, <1>10
  <1> QED
    BY <1>11, <1>12, <1>13 DEF s
-----------------------------------------------------------------------------
\* Test windows without overlap, from some row to the last one.
TileTheEnd(fs, n) ==
    /\ \A f, g \in fs : f # g => f.test \cap g.test = {}
    /\ \E first \in 1 .. n : UNION {f.test : f \in fs} = first .. n

\* The windows of a study that kept all its folds tile the end of the history.
LEMMA WindowsTile ==
    ASSUME NEW n \in Nat, NEW k \in Nat \ {0}, n > k, NEW G,
           \A i \in 1 .. k : G[i].test = TestRows(n, k, i),
           NEW fs, fs = {G[i] : i \in 1 .. k}
    PROVE  TileTheEnd(fs, n)
  <1> DEFINE s == WindowStarts(n, k)
  <1>1. /\ Boundaries(s, k) /\ s[1] \in 1 .. n /\ s[k + 1] = n + 1
        /\ \A i \in 1 .. k : G[i].test = Block(s, i)
    BY WindowBlocks
  <1> HIDE DEF s
  <1>2. /\ \A i, j \in 1 .. k : i # j => Block(s, i) \cap Block(s, j) = {}
        /\ \A i \in 1 .. k : Block(s, i) \subseteq s[1] .. s[k + 1] - 1
        /\ \A r \in s[1] .. s[k + 1] - 1 : \E i \in 1 .. k : r \in Block(s, i)
    BY <1>1, BlocksTile
  <1>3. \A f, g \in fs : f # g => f.test \cap g.test = {}
    BY <1>1, <1>2
  <1>4. s[k + 1] - 1 = n
    BY <1>1
  <1>5. UNION {f.test : f \in fs} = s[1] .. n
    <2>1. \A f \in fs : f.test \subseteq s[1] .. n
      BY <1>1, <1>2, <1>4
    <2>2. \A r \in s[1] .. n : \E f \in fs : r \in f.test
      BY <1>1, <1>2, <1>4
    <2> QED
      BY <2>1, <2>2
  <1> QED
    BY <1>1, <1>3, <1>5 DEF TileTheEnd

\* There is a choice of m of k numbers.
LEMMA SomeChoice ==
    ASSUME NEW k \in Nat, NEW m \in 1 .. k
    PROVE  Choices(k, m) # 0
  <1>1. 1 \in Int /\ m \in Int
    OBVIOUS
  <1>2. Cardinality(1 .. m) = IF 1 > m THEN 0 ELSE m - 1 + 1
    BY <1>1, FS_Interval, Zenon
  <1>3. 1 .. m \in ChosenOf(k, m)
    BY <1>2 DEF ChosenOf
  <1> QED
    BY <1>3, ChosenFinite, FS_EmptySet

\* What a cross-validation that dropped the folds without training rows says.
EquallyTested(fs, n, k, m) ==
    Cardinality(fs) = Choices(k, m) =>
        \A r \in 1 .. n : Cardinality({f \in fs : r \in f.test}) = Choices(k - 1, m - 1)

\* With no fold at all there is nothing to count.
LEMMA NoFoldsTested ==
    ASSUME NEW n, NEW k \in Nat, NEW m \in 1 .. k
    PROVE  EquallyTested({}, n, k, m)
  BY SomeChoice, FS_EmptySet DEF EquallyTested

\* With one fold per choice of groups, each row is tested by the choices that have
\* the group of the row.
LEMMA CpcvTested ==
    ASSUME NEW n \in Nat, NEW k \in Nat \ {0}, n > k, NEW m \in 1 .. k, NEW fs, NEW G,
           DOMAIN G = ChosenOf(k, m),
           \A c \in ChosenOf(k, m) : G[c].test = UNION {BoundRows(n, k, i) : i \in c},
           \A f \in fs : \E c \in ChosenOf(k, m) : f = G[c]
    PROVE  EquallyTested(fs, n, k, m)
  <1> DEFINE s == CpcvStarts(n, k)
  <1>1. /\ Boundaries(s, k) /\ s[1] = 1 /\ s[k + 1] = n + 1
        /\ \A i \in 1 .. k : BoundRows(n, k, i) = Block(s, i)
    BY CpcvBlocks
  <1> HIDE DEF s
  <1>2. ASSUME NEW c \in ChosenOf(k, m)
        PROVE  G[c].test = UNION {Block(s, i) : i \in c}
    BY <1>1 DEF ChosenOf
  <1>3. s[1] .. s[k + 1] - 1 = 1 .. n
    BY <1>1
  <1>4. SUFFICES ASSUME Cardinality(fs) = Choices(k, m), NEW r \in 1 .. n
                 PROVE  Cardinality({f \in fs : r \in f.test}) = Choices(k - 1, m - 1)
    BY DEF EquallyTested
  <1>5. r \in s[1] .. s[k + 1] - 1
    BY <1>3
  <1> QED
    BY <1>1, <1>2, <1>4, <1>5, RowsTestedEqually

\* cpcv.py: no training row lies within the embargo of the first day of a
\* chosen group; only the chosen groups have their first day tested.
LEMMA CpcvEmbargoed ==
    ASSUME NEW c \in Calendars, NEW k \in Nat \ {0}, Len(c) > k, NEW gap \in Nat,
           NEW embargo \in Nat, NEW chosen \in SUBSET (1 .. k)
    PROVE  Embargoed(Fold(CpcvTrain(c, Len(c), k, chosen, gap, embargo),
                          UNION {BoundRows(Len(c), k, i) : i \in chosen}), c, k, embargo)
  <1> DEFINE n == Len(c)
             s == CpcvStarts(n, k)
             f == Fold(CpcvTrain(c, n, k, chosen, gap, embargo),
                       UNION {BoundRows(n, k, i) : i \in chosen})
  <1>1. n \in Nat /\ DOMAIN c = 1 .. n /\ (\A r \in 1 .. n : c[r] \in Nat)
        /\ (\A i, j \in 1 .. n : i < j => c[i] < c[j])
    BY CalendarFacts
  <1>2. SUFFICES ASSUME NEW b \in 1 .. k, NEW i \in f.train,
                        BoundStart(n, k, b) \in f.test, BoundStart(n, k, b) < i
                 PROVE  c[i] - c[BoundStart(n, k, b)] > embargo
    BY DEF Embargoed
  <1>3. PICK j \in chosen : BoundStart(n, k, b) \in BoundRows(n, k, j)
    BY <1>2 DEF Fold
  <1>4. b = j
    <2>1. /\ \A g \in 1 .. k : s[g] \in Block(s, g)
          /\ \A g, h \in 1 .. k : g # h => Block(s, g) \cap Block(s, h) = {}
      BY <1>1, CpcvBlocks, BlocksTile
    <2>3. BoundRows(n, k, j) = Block(s, j)
      <3>1. j \in 1 .. k
        BY <1>3
      <3> QED
        BY <1>1, <3>1, CpcvBlocks
    <2>4. b \in 1 .. k + 1
      OBVIOUS
    <2>2. BoundStart(n, k, b) = s[b] /\ BoundRows(n, k, j) = Block(s, j)
      BY <2>3, <2>4 DEF CpcvStarts
    <2> QED
      BY <1>3, <2>1, <2>2
  <1> DEFINE first == BoundStart(n, k, b)
  <1>5. first \in 1 .. n
    BY <1>1, BoundFacts
  <1>6. i \in 1 .. n /\ (embargo > 0 => ~(c[first] <= c[i] /\ c[i] <= c[first] + embargo))
    BY <1>1, <1>3, <1>4 DEF Fold, CpcvTrain
  <1> HIDE DEF first
  <1>7. c[first] \in Nat /\ c[i] \in Nat /\ c[first] < c[i]
    BY <1>1, <1>2, <1>5, <1>6 DEF first
  <1>8. c[i] - c[first] > embargo
    BY <1>6, <1>7
  <1> QED
    BY <1>8 DEF first

\* PurgedKFold tests one fold at a time.
LEMMA KFoldTested ==
    ASSUME NEW n \in Nat, NEW k \in Nat \ {0}, n > k, NEW fs, NEW F,
           \A i \in 1 .. k : F[i].test = KFoldRows(n, k, i),
           \A f \in fs : \E i \in 1 .. k : f = F[i]
    PROVE  EquallyTested(fs, n, k, 1)
  <1> DEFINE s == KFoldStarts(n, k)
             The(c) == CHOOSE i \in 1 .. k : c = {i}
             G == [c \in ChosenOf(k, 1) |-> F[The(c)]]
  <1>1. /\ Boundaries(s, k) /\ s[1] = 1 /\ s[k + 1] = n + 1
        /\ \A i \in 1 .. k : F[i].test = Block(s, i)
    BY KFoldBlocks
  <1> HIDE DEF s
  <1>2. ASSUME NEW c \in ChosenOf(k, 1)
        PROVE  The(c) \in 1 .. k /\ c = {The(c)}
    <2>1. c \in SUBSET (1 .. k) /\ IsFiniteSet(c) /\ Cardinality(c) = 1
      BY ChosenFinite DEF ChosenOf
    <2>2. \E i : c = {i}
      BY <2>1, FS_Singleton
    <2>3. \E i \in 1 .. k : c = {i}
      BY <2>1, <2>2
    <2> QED
      BY <2>3
  <1>3. \A i \in 1 .. k : {i} \in ChosenOf(k, 1) /\ The({i}) = i
    <2>1. \A i \in 1 .. k : {i} \in ChosenOf(k, 1)
      BY FS_Singleton DEF ChosenOf
    <2> QED
      BY <2>1, <1>2
  <1> HIDE DEF The
  <1>4. ASSUME NEW c \in ChosenOf(k, 1)
        PROVE  G[c].test = UNION {Block(s, i) : i \in c}
    <2>1. G[c].test = Block(s, The(c))
      BY <1>1, <1>2
    <2>2. UNION {Block(s, i) : i \in {The(c)}} = Block(s, The(c))
      OBVIOUS
    <2> QED
      BY <1>2, <2>1, <2>2
  <1>5. \A f \in fs : \E c \in ChosenOf(k, 1) : f = G[c]
    <2> SUFFICES ASSUME NEW f \in fs PROVE \E c \in ChosenOf(k, 1) : f = G[c]
      OBVIOUS
    <2>1. PICK i \in 1 .. k : f = F[i]
      OBVIOUS
    <2>2. {i} \in ChosenOf(k, 1) /\ G[{i}] = F[i]
      BY <1>3
    <2> QED
      BY <2>1, <2>2
  <1>6. DOMAIN G = ChosenOf(k, 1) /\ 1 \in 1 .. k
    OBVIOUS
  <1> HIDE DEF G
  <1>7. s[1] .. s[k + 1] - 1 = 1 .. n
    BY <1>1
  <1>8. SUFFICES ASSUME Cardinality(fs) = Choices(k, 1), NEW r \in 1 .. n
                 PROVE  Cardinality({f \in fs : r \in f.test}) = Choices(k - 1, 1 - 1)
    BY DEF EquallyTested
  <1>9. r \in s[1] .. s[k + 1] - 1
    BY <1>7
  <1> QED
    BY <1>1, <1>4, <1>5, <1>6, <1>8, <1>9, RowsTestedEqually
-----------------------------------------------------------------------------
ByRow == study.method \in {"rolling", "refit"}

\* What the loop of the re-fit keeps, as long as it runs; the last conjunct is
\* why it never breaks early without a gap.
LoopInv ==
    status = "splitting" =>
        /\ study.method = "refit" /\ study.hold = -1
        /\ study.margin \in Nat /\ study.k \in Nat
        /\ loop.fold \in 1 .. study.k
        /\ loop.start \in Nat \ {0} /\ loop.train \in Nat \ {0} /\ loop.test \in Nat \ {0}
        /\ study.k * (loop.train + loop.test) <= Len(dates) - 1
        /\ study.margin = 0 => loop.start = (loop.fold - 1) * (loop.train + loop.test) + 1

\* The folds found so far lie before the next one, one after the other.
FoldsInOrder ==
    study.method = "refit" =>
        /\ status = "splitting" => \A f \in folds : \A i \in f.train \cup f.test :
                                      i \in Int /\ i < loop.start
        /\ \A f, g \in folds : f # g =>
              \/ \A i \in f.train \cup f.test, j \in g.train \cup g.test : i < j
              \/ \A i \in f.train \cup f.test, j \in g.train \cup g.test : i > j

LastDayTested ==
    study.method = "refit" /\ status = "split" /\ study.margin = 0 =>
        \E f \in folds : Len(dates) \in f.test

SplitInv ==
    /\ SplitTypeOK
    /\ status = "idle" => study.method = "none"
    /\ \A f \in folds : Blind(f, dates, ByRow, study.margin, study.hold)
    /\ study.method = "cpcv" => \A f \in folds : Embargoed(f, dates, study.k, study.embargo)
    /\ TestsTile
    /\ LoopInv
    /\ FoldsInOrder
    /\ LastDayTested

\* Rows of a fold of a history of n rows.
FoldOf(f, n) ==
    /\ f.train \subseteq 1 .. n /\ f.train # {}
    /\ f.test \subseteq 1 .. n /\ f.test # {}

\* Nothing is asked yet.
LEMMA SplitInvInit == SplitInit => SplitInv
  <1> SUFFICES ASSUME SplitInit PROVE SplitInv
    OBVIOUS
  <1>1. SplitTypeOK
    BY DEF SplitInit, SplitTypeOK
  <1>2. study.method = "none" /\ status = "idle" /\ folds = {}
    BY DEF SplitInit, Study
  <1> QED
    BY <1>1, <1>2 DEF SplitInv, LoopInv, FoldsInOrder, LastDayTested, TestsTile

\* A call that answers at once, with blind folds, keeps the invariant.
LEMMA AnswerStep ==
    ASSUME SplitInv, dates' = dates, loop' = loop,
           status' = (IF folds' = {} THEN "refused" ELSE "split"),
           study'.method # "refit",
           \A f \in folds' : /\ FoldOf(f, Len(dates))
                             /\ Blind(f, dates, study'.method = "rolling",
                                      study'.margin, study'.hold),
           study'.method = "cpcv" =>
              \A f \in folds' : Embargoed(f, dates, study'.k, study'.embargo),
           TestsTile'
    PROVE  SplitInv'
  <1>1. ByRow' = (study'.method = "rolling")
    BY DEF ByRow
  <1>2. (\A f \in folds : Blind(f, dates, ByRow, study.margin, study.hold))'
    BY <1>1 DEF Blind
  <1>6. (study.method = "cpcv" => \A f \in folds : Embargoed(f, dates, study.k, study.embargo))'
    BY DEF Embargoed
  <1>3. dates \in Calendars /\ loop \in [fold : Nat, start : Nat, train : Nat, test : Nat]
    BY DEF SplitInv, SplitTypeOK
  <1>4. Rows' = 1 .. Len(dates)
    BY <1>3, CalendarFacts DEF Rows
  <1>5. SplitTypeOK'
    BY <1>3, <1>4 DEF SplitTypeOK, FoldOf
  <1> QED
    BY <1>2, <1>5, <1>6 DEF SplitInv, LoopInv, FoldsInOrder, LastDayTested

\* The lengths of a re-fit fold.
LEMMA RefitLengths ==
    ASSUME NEW n \in Nat \ {0}, NEW k \in Nat \ {0}, NEW tenths \in 1 .. 9
    PROVE  /\ RefitTrainDays(n, k, tenths) \in Nat
           /\ RefitFoldDays(n, k) - RefitTrainDays(n, k, tenths) \in Nat
           /\ RefitFoldDays(n, k) \in Nat
           /\ k * RefitFoldDays(n, k) <= n - 1
  <1> DEFINE days == RefitFoldDays(n, k)
  <1>1. days \in Nat /\ k * days <= n - 1
    <2>1. (n - 1) \div k \in Nat /\ n - 1 = k * ((n - 1) \div k) + ((n - 1) % k)
          /\ ((n - 1) % k) \in 0 .. k - 1
      OBVIOUS
    <2>2. k * ((n - 1) \div k) \in Nat
      BY <2>1
    <2> QED
      BY <2>1, <2>2 DEF RefitFoldDays
  <1> HIDE DEF days
  <1>2. days * tenths \in Nat /\ days * tenths <= days * 10
    <2>1. days * (10 - tenths) \in Nat
      BY <1>1
    <2>2. (tenths + (10 - tenths)) * days = tenths * days + (10 - tenths) * days
      BY <1>1, Distribution
    <2>3. tenths * days = days * tenths /\ (10 - tenths) * days = days * (10 - tenths)
          /\ tenths + (10 - tenths) = 10 /\ 10 * days = days * 10
      BY <1>1
    <2> QED
      BY <1>1, <2>1, <2>2, <2>3
  <1>3. (days * tenths) \div 10 \in Nat /\ (days * tenths) \div 10 <= days
    BY <1>1, <1>2
  <1> QED
    BY <1>1, <1>3 DEF RefitTrainDays, days

\* The rows of a fold lie in the history, and some are tested.
LEMMA WalkForwardRows ==
    ASSUME NEW c \in Calendars, NEW k \in Nat \ {0}, NEW gap, NEW purge,
           Len(c) > k, NEW i \in 1 .. k,
           WalkForwardFold(c, Len(c), k, gap, purge, i).train # {}
    PROVE  FoldOf(WalkForwardFold(c, Len(c), k, gap, purge, i), Len(c))
  <1> DEFINE n == Len(c)
             first == FirstTest(n, k, i)
             f == WalkForwardFold(c, n, k, gap, purge, i)
  <1>1. n \in Nat /\ DOMAIN c = 1 .. n
    BY CalendarFacts
  <1>2. first \in 1 .. n /\ Window(n, k) \in Nat \ {0}
        /\ TestRows(n, k, i) = first .. first + Window(n, k) - 1
        /\ first + Window(n, k) - 1 <= n
    BY <1>1, WindowBounds
  <1>3. f.train \subseteq 1 .. n /\ f.test = first .. first + Window(n, k) - 1
    BY <1>1, <1>2 DEF WalkForwardFold, Fold, RowsBefore
  <1> QED
    BY <1>2, <1>3 DEF FoldOf

\* The rows of a rolling fold are rows of the history, and its test is not empty.
LEMMA RollingRows ==
    ASSUME NEW c \in Calendars, NEW k \in Nat \ {0}, NEW gap \in Nat, NEW purge \in Nat,
           NEW sliding \in BOOLEAN, Len(c) > k, NEW i \in 1 .. k,
           RollingFold(Len(c), k, gap, purge, sliding, i).train # {}
    PROVE  FoldOf(RollingFold(Len(c), k, gap, purge, sliding, i), Len(c))
  <1> DEFINE n == Len(c)
             first == FirstTest(n, k, i)
             m == Larger(gap, purge)
             start == RollingStart(n, k, gap, sliding, i)
             f == RollingFold(n, k, gap, purge, sliding, i)
  <1>1. n \in Nat
    BY CalendarFacts
  <1>2. first \in 1 .. n /\ Window(n, k) \in Nat \ {0} /\ Initial(n, k) \in Nat
        /\ TestRows(n, k, i) = first .. first + Window(n, k) - 1
        /\ first + Window(n, k) - 1 <= n
    BY <1>1, WindowBounds
  <1>3. m \in Nat /\ start \in Nat \ {0}
    BY <1>2 DEF Larger, RollingStart
  <1>4. f.train = start .. first - m - 1 /\ f.test = first .. first + Window(n, k) - 1
    BY <1>2 DEF RollingFold, RollingEnd, Fold
  <1>5. f.train \subseteq 1 .. n
    <2>1. first \in 1 .. n
      BY <1>2
    <2> HIDE DEF f, first, m, start, n
    <2> QED
      BY <1>1, <1>3, <1>4, <2>1
  <1> QED
    BY <1>2, <1>4, <1>5 DEF FoldOf

\* The same for the chosen folds of the CPCV.
LEMMA ChosenRows ==
    ASSUME NEW n \in Nat, NEW k \in Nat \ {0}, n > k, NEW m \in 1 .. k,
           NEW c \in ChosenOf(k, m)
    PROVE  LET rows == UNION {BoundRows(n, k, i) : i \in c}
           IN  rows \subseteq 1 .. n /\ rows # {}
  <1>1. c \subseteq 1 .. k /\ c # {}
    BY FS_EmptySet DEF ChosenOf
  <1>2. \A i \in 1 .. k : BoundRows(n, k, i) \subseteq 1 .. n /\ BoundRows(n, k, i) # {}
    BY BoundFacts DEF BoundRows
  <1>3. \A i \in c : BoundRows(n, k, i) \subseteq 1 .. n
    BY <1>1, <1>2
  <1>4. PICK i \in c : TRUE
    BY <1>1
  <1>5. PICK r \in BoundRows(n, k, i) : TRUE
    BY <1>1, <1>2, <1>4
  <1>6. r \in UNION {BoundRows(n, k, j) : j \in c}
    BY <1>4, <1>5
  <1> QED
    BY <1>3, <1>6

\* One call of each method.
LEMMA WalkForwardStep ==
    ASSUME SplitInv, NEW k \in 1 .. MaxSplits, NEW gap \in Gaps, NEW purge \in Gaps,
           WalkForward(k, gap, purge)
    PROVE  SplitInv'
  <1> DEFINE n == Len(dates)
             all == {WalkForwardFold(dates, n, k, gap, purge, i) : i \in 1 .. k}
             fs == IF n <= k \/ \E f \in all : f.train = {} THEN {} ELSE all
  <1>1. dates \in Calendars /\ n \in Nat /\ k \in Nat \ {0} /\ gap \in Nat /\ purge \in Nat
    BY CalendarFacts, SplitAssumption DEF SplitInv, SplitTypeOK, Gaps
  <1>2. /\ folds' = fs /\ study' = Study("walk_forward", k, 1, Larger(gap, purge), -1, 0)
        /\ dates' = dates /\ loop' = loop
        /\ status' = (IF folds' = {} THEN "refused" ELSE "split")
    BY DEF WalkForward, Answer
  <1>3. ASSUME NEW f \in fs
        PROVE  FoldOf(f, n) /\ Blind(f, dates, FALSE, Larger(gap, purge), -1)
    <2>1. n > k /\ f \in all /\ f.train # {}
      BY <1>1, <1>3
    <2>2. PICK i \in 1 .. k : f = WalkForwardFold(dates, n, k, gap, purge, i)
      BY <2>1
    <2>3. FoldOf(f, n)
      BY <1>1, <2>1, <2>2, WalkForwardRows
    <2> QED
      BY <1>1, <2>1, <2>2, <2>3, WalkForwardBlind
  <1>4. study'.method # "refit" /\ FALSE = (study'.method = "rolling")
        /\ study'.margin = Larger(gap, purge) /\ study'.hold = -1 /\ study'.method # "cpcv"
    BY <1>2 DEF Study
  <1>5. \A f \in folds' : /\ FoldOf(f, n)
                          /\ Blind(f, dates, study'.method = "rolling", study'.margin, study'.hold)
    BY <1>2, <1>3, <1>4
  <1>6. status' = "split" => TileTheEnd(fs, n)
    <2> SUFFICES ASSUME status' = "split" PROVE TileTheEnd(fs, n)
      OBVIOUS
    <2> DEFINE G == [i \in 1 .. k |-> WalkForwardFold(dates, n, k, gap, purge, i)]
    <2>1. fs # {}
      BY <1>2
    <2>2. n > k /\ fs = all
      BY <1>1, <2>1
    <2>3. \A i \in 1 .. k : G[i].test = TestRows(n, k, i)
      BY DEF WalkForwardFold, Fold
    <2>4. fs = {G[i] : i \in 1 .. k}
      BY <2>2
    <2>5. n \in Nat /\ k \in Nat \ {0} /\ n > k
      BY <1>1, <2>2
    <2> HIDE DEF G, fs, all, n
    <2> QED
      BY <2>3, <2>4, <2>5, WindowsTile
  <1>7. Rows' = 1 .. n /\ Len(dates') = n /\ study'.method = "walk_forward"
    BY <1>1, <1>2, CalendarFacts DEF Rows, Study
  <1>8. TestsTile'
    <2> HIDE DEF fs, n
    <2> QED
      BY <1>2, <1>6, <1>7 DEF TestsTile, TileTheEnd
  <1> QED
    BY <1>2, <1>4, <1>5, <1>8, AnswerStep

\* The step of rolling splits.
LEMMA RollingStep ==
    ASSUME SplitInv, NEW k \in 1 .. MaxSplits, NEW gap \in Gaps, NEW purge \in Gaps,
           NEW sliding \in BOOLEAN, Rolling(k, gap, purge, sliding)
    PROVE  SplitInv'
  <1> DEFINE n == Len(dates)
             all == {RollingFold(n, k, gap, purge, sliding, i) : i \in 1 .. k}
             fs == IF n <= k \/ \E f \in all : f.train = {} THEN {} ELSE all
  <1>1. dates \in Calendars /\ n \in Nat /\ k \in Nat \ {0} /\ gap \in Nat /\ purge \in Nat
    BY CalendarFacts, SplitAssumption DEF SplitInv, SplitTypeOK, Gaps
  <1>2. /\ folds' = fs /\ study' = Study("rolling", k, 1, Larger(gap, purge), -1, 0)
        /\ dates' = dates /\ loop' = loop
        /\ status' = (IF folds' = {} THEN "refused" ELSE "split")
    BY DEF Rolling, Answer
  <1>3. ASSUME NEW f \in fs
        PROVE  FoldOf(f, n) /\ Blind(f, dates, TRUE, Larger(gap, purge), -1)
    <2>1. n > k /\ f \in all /\ f.train # {}
      BY <1>1, <1>3
    <2>2. PICK i \in 1 .. k : f = RollingFold(n, k, gap, purge, sliding, i)
      BY <2>1
    <2>3. FoldOf(f, n)
      BY <1>1, <2>1, <2>2, RollingRows
    <2> QED
      BY <1>1, <2>1, <2>2, <2>3, RollingBlind
  <1>4. study'.method # "refit" /\ TRUE = (study'.method = "rolling")
        /\ study'.margin = Larger(gap, purge) /\ study'.hold = -1 /\ study'.method # "cpcv"
    BY <1>2 DEF Study
  <1>5. \A f \in folds' : /\ FoldOf(f, n)
                          /\ Blind(f, dates, study'.method = "rolling", study'.margin, study'.hold)
    BY <1>2, <1>3, <1>4
  <1>6. status' = "split" => TileTheEnd(fs, n)
    <2> SUFFICES ASSUME status' = "split" PROVE TileTheEnd(fs, n)
      OBVIOUS
    <2> DEFINE G == [i \in 1 .. k |-> RollingFold(n, k, gap, purge, sliding, i)]
    <2>1. fs # {}
      BY <1>2
    <2>2. n > k /\ fs = all
      BY <1>1, <2>1
    <2>3. \A i \in 1 .. k : G[i].test = TestRows(n, k, i)
      BY DEF RollingFold, Fold
    <2>4. fs = {G[i] : i \in 1 .. k}
      BY <2>2
    <2>5. n \in Nat /\ k \in Nat \ {0} /\ n > k
      BY <1>1, <2>2
    <2> HIDE DEF G, fs, all, n
    <2> QED
      BY <2>3, <2>4, <2>5, WindowsTile
  <1>7. Rows' = 1 .. n /\ Len(dates') = n /\ study'.method = "rolling"
    BY <1>1, <1>2, CalendarFacts DEF Rows, Study
  <1>8. TestsTile'
    <2> HIDE DEF fs, n
    <2> QED
      BY <1>2, <1>6, <1>7 DEF TestsTile, TileTheEnd
  <1> QED
    BY <1>2, <1>4, <1>5, <1>8, AnswerStep

\* The step of the purged k-fold.
LEMMA KFoldStep ==
    ASSUME SplitInv, NEW k \in 2 .. MaxSplits, NEW purge \in Gaps, NEW embargo \in Gaps,
           KFold(k, purge, embargo)
    PROVE  SplitInv'
  <1> DEFINE n == Len(dates)
             first(i) == (i - 1) * (n \div k) + 1
             last(i) == IF i = k THEN n ELSE i * (n \div k)
             all == {Fold(KFoldTrain(dates, first(i), last(i), purge, embargo),
                          KFoldRows(n, k, i)) : i \in 1 .. k}
             fs == IF n <= k THEN {} ELSE {f \in all : f.train # {}}
  <1>1. dates \in Calendars /\ n \in Nat /\ k \in Nat \ {0} /\ purge \in Nat /\ embargo \in Nat
    BY CalendarFacts, SplitAssumption DEF SplitInv, SplitTypeOK, Gaps
  <1>2. /\ folds' = fs /\ study' = Study("kfold", k, 1, purge, embargo, 0)
        /\ dates' = dates /\ loop' = loop
        /\ status' = (IF folds' = {} THEN "refused" ELSE "split")
    BY DEF KFold, Answer
  <1>3. ASSUME NEW f \in fs
        PROVE  FoldOf(f, n) /\ Blind(f, dates, FALSE, purge, embargo)
    <2>1. n > k /\ f \in all /\ f.train # {}
      <3> HIDE DEF all
      <3>1. k \in Nat /\ n \in Nat
        BY <1>1
      <3> HIDE DEF n
      <3> QED
        BY <1>3, <3>1
    <2>2. PICK i \in 1 .. k : f = Fold(KFoldTrain(dates, first(i), last(i), purge, embargo),
                                       KFoldRows(n, k, i))
      <3> HIDE DEF first, last, n
      <3> QED
        BY <2>1
    <2>3. first(i) \in 1 .. n /\ last(i) \in 1 .. n /\ first(i) <= last(i)
      BY <1>1, <2>1, KFoldBounds
    <2>4. KFoldRows(n, k, i) = first(i) .. last(i)
      BY DEF KFoldRows
    <2> HIDE DEF first, last
    <2>5. f.test = first(i) .. last(i)
          /\ f.train = KFoldTrain(dates, first(i), last(i), purge, embargo)
      BY <2>2, <2>4 DEF Fold
    <2>7. f.train \subseteq 1 .. n
      BY <1>1, <2>5, CalendarFacts DEF KFoldTrain
    <2>6. FoldOf(f, n)
      BY <2>1, <2>3, <2>5, <2>7 DEF FoldOf
    <2> QED
      BY <1>1, <2>2, <2>3, <2>4, <2>6, KFoldBlind
  <1>4. study'.method # "refit" /\ FALSE = (study'.method = "rolling")
        /\ study'.margin = purge /\ study'.hold = embargo /\ study'.method # "cpcv"
    BY <1>2 DEF Study
  <1>5. \A f \in folds' : /\ FoldOf(f, n)
                          /\ Blind(f, dates, study'.method = "rolling", study'.margin, study'.hold)
    BY <1>2, <1>3, <1>4
  <1>6. EquallyTested(fs, n, k, 1)
    <2> DEFINE F == [i \in 1 .. k |-> Fold(KFoldTrain(dates, first(i), last(i), purge, embargo),
                                          KFoldRows(n, k, i))]
    <2>1. CASE n <= k
      <3>1. fs = {} /\ k \in Nat /\ 1 \in 1 .. k
        BY <1>1, <2>1
      <3> HIDE DEF fs
      <3> QED
        BY <3>1, NoFoldsTested
    <2>2. CASE n > k
      <3>1. \A i \in 1 .. k : F[i].test = KFoldRows(n, k, i)
        BY DEF Fold
      <3>2. \A f \in fs : \E i \in 1 .. k : f = F[i]
        OBVIOUS
      <3> HIDE DEF fs, F
      <3> QED
        BY <1>1, <2>2, <3>1, <3>2, KFoldTested
    <2> QED
      BY <1>1, <2>1, <2>2
  <1>7. Rows' = 1 .. n /\ study'.method = "kfold" /\ study'.k = k /\ study'.chosen = 1
    BY <1>1, <1>2, CalendarFacts DEF Rows, Study
  <1>8. TestsTile'
    <2> HIDE DEF fs, n
    <2> QED
      BY <1>2, <1>6, <1>7 DEF TestsTile, EquallyTested
  <1> QED
    BY <1>2, <1>4, <1>5, <1>8, AnswerStep

\* The step of the combinatorial cross-validation.
LEMMA CpcvStep ==
    ASSUME SplitInv, NEW k \in 2 .. MaxSplits, NEW gap \in Gaps, NEW embargo \in Gaps,
           NEW chosen \in 1 .. k - 1, Cpcv(k, chosen, gap, embargo)
    PROVE  SplitInv'
  <1> DEFINE n == Len(dates)
             choices == {c \in SUBSET (1 .. k) : Cardinality(c) = chosen}
             all == {Fold(CpcvTrain(dates, n, k, c, gap, embargo),
                          UNION {BoundRows(n, k, i) : i \in c}) : c \in choices}
             fs == IF n <= k THEN {} ELSE {f \in all : f.train # {}}
  <1>1. dates \in Calendars /\ n \in Nat /\ k \in Nat \ {0} /\ gap \in Nat /\ embargo \in Nat
    BY CalendarFacts, SplitAssumption DEF SplitInv, SplitTypeOK, Gaps
  <1>2. /\ folds' = fs /\ study' = Study("cpcv", k, chosen, gap, gap, embargo)
        /\ dates' = dates /\ loop' = loop
        /\ status' = (IF folds' = {} THEN "refused" ELSE "split")
    BY DEF Cpcv, Answer
  <1>3. ASSUME NEW f \in fs
        PROVE  FoldOf(f, n) /\ Blind(f, dates, FALSE, gap, gap) /\ Embargoed(f, dates, k, embargo)
    <2> HIDE DEF all
    <2>1. n > k /\ f \in all /\ f.train # {}
      BY <1>1, <1>3
    <2> USE DEF all
    <2>2. PICK c \in choices :
             f = Fold(CpcvTrain(dates, n, k, c, gap, embargo),
                      UNION {BoundRows(n, k, i) : i \in c})
      BY <2>1
    <2>3. f.test = UNION {BoundRows(n, k, i) : i \in c}
          /\ f.train = CpcvTrain(dates, n, k, c, gap, embargo)
      BY <2>2 DEF Fold
    <2>4. c \in ChosenOf(k, chosen)
      BY DEF ChosenOf
    <2>7. f.train \subseteq 1 .. n
      BY <1>1, <2>3, CalendarFacts DEF CpcvTrain
    <2>8. chosen \in 1 .. k
      BY <1>1
    <2>9. f.test \subseteq 1 .. n /\ f.test # {}
      BY <1>1, <2>1, <2>3, <2>4, <2>8, ChosenRows
    <2>5. FoldOf(f, n)
      BY <2>1, <2>7, <2>9 DEF FoldOf
    <2>6. c \in SUBSET (1 .. k)
      OBVIOUS
    <2> QED
      BY <1>1, <2>1, <2>2, <2>5, <2>6, CpcvBlind, CpcvEmbargoed
  <1>4. study'.method # "refit" /\ FALSE = (study'.method = "rolling")
        /\ study'.margin = gap /\ study'.hold = gap /\ study'.k = k /\ study'.embargo = embargo
    BY <1>2 DEF Study
  <1>5. \A f \in folds' : /\ FoldOf(f, n)
                          /\ Blind(f, dates, study'.method = "rolling", study'.margin, study'.hold)
    BY <1>2, <1>3, <1>4
  <1>9. \A f \in folds' : Embargoed(f, dates, study'.k, study'.embargo)
    BY <1>2, <1>3, <1>4
  <1>6. EquallyTested(fs, n, k, chosen)
    <2> DEFINE G == [c \in ChosenOf(k, chosen) |->
                      Fold(CpcvTrain(dates, n, k, c, gap, embargo),
                           UNION {BoundRows(n, k, i) : i \in c})]
    <2>1. CASE n <= k
      <3>1. fs = {} /\ k \in Nat /\ chosen \in 1 .. k
        BY <1>1, <2>1
      <3> HIDE DEF fs
      <3> QED
        BY <3>1, NoFoldsTested
    <2>2. CASE n > k
      <3>1. \A c \in ChosenOf(k, chosen) : G[c].test = UNION {BoundRows(n, k, i) : i \in c}
        BY DEF Fold
      <3>2. \A f \in fs : \E c \in ChosenOf(k, chosen) : f = G[c]
        BY DEF ChosenOf
      <3>3. DOMAIN G = ChosenOf(k, chosen) /\ chosen \in 1 .. k
        BY <1>1
      <3> HIDE DEF fs, G
      <3> QED
        BY <1>1, <2>2, <3>1, <3>2, <3>3, CpcvTested
    <2> QED
      BY <1>1, <2>1, <2>2
  <1>7. Rows' = 1 .. n /\ study'.method = "cpcv" /\ study'.k = k /\ study'.chosen = chosen
    BY <1>1, <1>2, CalendarFacts DEF Rows, Study
  <1>8. TestsTile'
    <2> HIDE DEF fs, n
    <2> QED
      BY <1>2, <1>6, <1>7 DEF TestsTile, EquallyTested
  <1> QED
    BY <1>2, <1>4, <1>5, <1>8, <1>9, AnswerStep

\* The step of the out-of-sample windows.
LEMMA OosStep ==
    ASSUME SplitInv, NEW k \in 1 .. MaxSplits, NEW tenths \in 1 .. 9, NEW gap \in Gaps,
           OosWindows(k, tenths, gap)
    PROVE  SplitInv'
  <1> DEFINE n == Len(dates)
             size == OosSize(n, tenths)
             all == {OosFold(dates, size, s, gap) : s \in EvenlySpaced(n - size, k)}
             fs == IF n < 3 THEN {} ELSE {f \in all : f.train # {}}
  <1>1. dates \in Calendars /\ n \in Nat /\ k \in Nat \ {0} /\ gap \in Nat
    BY CalendarFacts, SplitAssumption DEF SplitInv, SplitTypeOK, Gaps
  <1>2. /\ folds' = fs /\ study' = Study("oos", k, 1, gap, -1, 0)
        /\ dates' = dates /\ loop' = loop
        /\ status' = (IF folds' = {} THEN "refused" ELSE "split")
    BY DEF OosWindows, Answer
  <1>3. ASSUME NEW f \in fs
        PROVE  FoldOf(f, n) /\ Blind(f, dates, FALSE, gap, -1)
    <2>1. n >= 3 /\ f \in all /\ f.train # {}
      BY <1>1, <1>3
    <2>2. PICK s \in EvenlySpaced(n - size, k) : f = OosFold(dates, size, s, gap)
      BY <2>1
    <2>3. size \in Nat \ {0} /\ s \in Nat /\ s + size <= n
      BY <1>1, <2>1, OosBounds
    <2> HIDE DEF size
    <2>4. f.test = s + 1 .. s + size
          /\ f.train = RowsBefore(dates, dates[s + 1] - gap)
      BY <2>2 DEF OosFold, Fold
    <2>6. f.train \subseteq 1 .. n
      BY <1>1, <2>4, CalendarFacts DEF RowsBefore
    <2>7. f.test \subseteq 1 .. n /\ s + 1 \in f.test
      BY <1>1, <2>3, <2>4
    <2>5. FoldOf(f, n)
      BY <2>1, <2>6, <2>7 DEF FoldOf
    <2> QED
      BY <1>1, <2>2, <2>3, <2>5, OosBlind
  <1>4. study'.method # "refit" /\ FALSE = (study'.method = "rolling")
        /\ study'.margin = gap /\ study'.hold = -1 /\ study'.method # "cpcv"
    BY <1>2 DEF Study
  <1>5. \A f \in folds' : /\ FoldOf(f, n)
                          /\ Blind(f, dates, study'.method = "rolling", study'.margin, study'.hold)
    BY <1>2, <1>3, <1>4
  <1>6. TestsTile'
    BY <1>2 DEF TestsTile, Study
  <1> QED
    BY <1>2, <1>4, <1>5, <1>6, AnswerStep

\* The start of a re-fit: nothing is tested yet.
LEMMA RefitStep ==
    ASSUME SplitInv, NEW k \in 2 .. MaxSplits, NEW tenths \in 1 .. 9, NEW gap \in Gaps,
           Refit(k, tenths, gap)
    PROVE  SplitInv'
  <1> DEFINE n == Len(dates)
             train == RefitTrainDays(n, k, tenths)
             days == RefitFoldDays(n, k)
  <1>1. dates \in Calendars /\ n \in Nat \ {0} /\ k \in Nat \ {0} /\ k >= 2 /\ gap \in Nat
    BY CalendarFacts, SplitAssumption DEF SplitInv, SplitTypeOK, Gaps
  <1>2. train \in Nat /\ days - train \in Nat /\ days \in Nat /\ k * days <= n - 1
    BY <1>1, RefitLengths
  <1>3. /\ status' \in {"refused", "splitting"} /\ dates' = dates /\ folds' = folds
        /\ study' = Study("refit", k, 1, gap, -1, 0)
        /\ loop' = [fold |-> 1, start |-> 1, train |-> train, test |-> days - train]
    BY DEF Refit
  <1>4. folds = {} /\ loop' \in [fold : Nat, start : Nat, train : Nat, test : Nat]
        /\ (status' = "splitting" => train # 0 /\ days - train # 0)
    <2>1. folds = {}
      BY DEF SplitInv, SplitTypeOK, Refit
    <2>2. loop' \in [fold : Nat, start : Nat, train : Nat, test : Nat]
      BY <1>2, <1>3
    <2>3. status' = "splitting" => ~(train < MinFoldDays) /\ ~(days - train < MinFoldDays)
      BY DEF Refit
    <2> QED
      BY <1>2, <2>1, <2>2, <2>3, SplitAssumption
  <1>5. study'.method = "refit" /\ study'.hold = -1 /\ study'.margin = gap /\ study'.k = k
    BY <1>3 DEF Study
  <1>6. loop'.fold = 1 /\ loop'.start = 1 /\ loop'.train = train /\ loop'.test = days - train
    BY <1>3
  <1>7. train + (days - train) = days /\ (1 - 1) * days = 0
    BY <1>2
  <1> HIDE DEF n, train, days
  <1>8. Len(dates') = n
    BY <1>3 DEF n
  <1>9. LoopInv'
    BY <1>1, <1>2, <1>4, <1>5, <1>6, <1>7, <1>8 DEF LoopInv
  <1>10. FoldsInOrder' /\ LastDayTested'
    BY <1>3, <1>4 DEF FoldsInOrder, LastDayTested
  <1>11. SplitTypeOK' /\ TestsTile'
    BY <1>1, <1>3, <1>4, <1>5 DEF SplitTypeOK, TestsTile
  <1> QED
    BY <1>1, <1>3, <1>4, <1>9, <1>10, <1>11 DEF SplitInv

\* One fold of a re-fit starts after all that is tested, or ends the loop.
LEMMA RefitFoldStep ==
    ASSUME SplitInv, RefitFold
    PROVE  SplitInv'
  <1> DEFINE n == Len(dates)
             days == loop.train + loop.test
             from == RefitTestStart(loop.start, loop.train, study.margin)
             end == RefitTestEnd(n, study.k, loop.fold, from, loop.test)
             new == Fold(loop.start .. loop.start + loop.train - 1, from .. end)
  <1>1. dates \in Calendars /\ n \in Nat \ {0} /\ status = "splitting"
    BY CalendarFacts DEF SplitInv, SplitTypeOK, RefitFold
  <1>2. /\ study.method = "refit" /\ study.hold = -1
        /\ study.margin \in Nat /\ study.k \in Nat /\ loop.fold \in 1 .. study.k
        /\ loop.start \in Nat \ {0} /\ loop.train \in Nat \ {0} /\ loop.test \in Nat \ {0}
    BY <1>1 DEF SplitInv, LoopInv
  <1>14. /\ study.k * days <= n - 1
         /\ study.margin = 0 => loop.start = (loop.fold - 1) * days + 1
    BY <1>1 DEF SplitInv, LoopInv
  <1>3. from = loop.start + loop.train + study.margin /\ from \in Nat /\ days \in Nat
    <2>1. /\ loop.start \in Nat /\ loop.train \in Nat /\ loop.test \in Nat
          /\ study.margin \in Nat
      BY <1>2
    <2>2. from = loop.start + loop.train + study.margin
      BY DEF RefitTestStart
    <2> HIDE DEF from
    <2> QED
      BY <2>1, <2>2
  <1>4. dates' = dates /\ study' = study
    BY DEF RefitFold
  <1>5. \A f, g \in folds : f # g =>
           \/ \A i \in f.train \cup f.test, j \in g.train \cup g.test : i < j
           \/ \A i \in f.train \cup f.test, j \in g.train \cup g.test : i > j
    BY <1>2 DEF SplitInv, FoldsInOrder
  <1>6. \A f \in folds : \A i \in f.train \cup f.test : i \in Int /\ i < loop.start
    BY <1>1, <1>2 DEF SplitInv, FoldsInOrder
  <1>7. ByRow = TRUE /\ ByRow' = TRUE
    BY <1>2, <1>4 DEF ByRow
  <1>8. \A f \in folds : Blind(f, dates, TRUE, study.margin, -1)
    BY <1>2, <1>7 DEF SplitInv
  <1>12. /\ \A f \in folds : FoldOf(f, n)
         /\ loop \in [fold : Nat, start : Nat, train : Nat, test : Nat]
         /\ Rows = 1 .. n
    BY <1>1, CalendarFacts DEF SplitInv, SplitTypeOK, FoldOf, Rows
  <1>13. ASSUME \A f \in folds' : FoldOf(f, n), status' \in {"splitting", "split"},
                loop' \in [fold : Nat, start : Nat, train : Nat, test : Nat]
         PROVE  SplitTypeOK' /\ TestsTile'
    <2>1. Rows' = 1 .. n
      BY <1>4, <1>12 DEF Rows
    <2>2. SplitTypeOK'
      BY <1>1, <1>4, <1>13, <2>1 DEF SplitTypeOK, FoldOf
    <2> QED
      BY <1>2, <1>4, <2>2 DEF TestsTile
  \* Without a gap the test of a fold starts in the range, and the fold ends
  \* where the next one of days days begins.
  <1>9. ASSUME study.margin = 0
        PROVE  /\ from + loop.test = loop.fold * days + 1
               /\ loop.fold * days <= n - 1
    <2> HIDE DEF days
    <2>0. study.k \in Nat /\ loop.fold \in 1 .. study.k /\ days \in Nat
      BY <1>2, <1>3
    <2>1. loop.fold - 1 \in Int /\ study.k - loop.fold \in Nat /\ 1 \in Int
          /\ loop.fold \in Int /\ days \in Int
      BY <2>0
    <2>2. ((loop.fold - 1) + 1) * days = (loop.fold - 1) * days + 1 * days
      BY <2>1, Distribution
    <2>3. (loop.fold + (study.k - loop.fold)) * days
              = loop.fold * days + (study.k - loop.fold) * days
      BY <2>1, Distribution
    <2>4. (loop.fold - 1) + 1 = loop.fold /\ loop.fold + (study.k - loop.fold) = study.k
          /\ 1 * days = days
      BY <1>2, <2>1
    <2>5. loop.fold * days = (loop.fold - 1) * days + days
      BY <2>2, <2>4
    <2>6. study.k * days = loop.fold * days + (study.k - loop.fold) * days
      BY <2>3, <2>4
    <2>7. (study.k - loop.fold) * days \in Nat /\ loop.fold * days \in Int
          /\ (loop.fold - 1) * days \in Int
      BY <1>3, <2>1
    <2>8. loop.fold * days <= n - 1
      BY <1>1, <1>14, <2>6, <2>7
    <2>9. loop.start = (loop.fold - 1) * days + 1
      BY <1>9, <1>14
    <2>10. from + loop.test = loop.start + days
      <3>1. loop.start \in Nat /\ loop.train \in Nat /\ loop.test \in Nat
        BY <1>2
      <3>2. from = loop.start + loop.train
        BY <1>9, <3>1 DEF RefitTestStart
      <3> HIDE DEF from
      <3> QED
        BY <3>1, <3>2 DEF days
    <2>11. loop.start + days = loop.fold * days + 1
      BY <1>3, <2>5, <2>7, <2>9
    <2> QED
      BY <2>8, <2>10, <2>11
  <1>10. CASE from > n
    <2>1. status' = "split" /\ folds' = folds /\ loop' = loop
      BY <1>10 DEF RefitFold
    <2>2. study.margin # 0
      <3>1. SUFFICES ASSUME study.margin = 0 PROVE FALSE
        OBVIOUS
      <3>2. from + loop.test = loop.fold * days + 1 /\ loop.fold * days <= n - 1
        BY <1>9, <3>1
      <3>3. from + loop.test <= n
        <4>1. PICK x : x = loop.fold * days
          OBVIOUS
        <4>2. from + loop.test = x + 1 /\ x <= n - 1
          BY <3>2, <4>1
        <4>3. from + loop.test \in Int
          BY <1>2, <1>3
        <4> HIDE DEF from, n
        <4>4. x \in Int
          <5>1. loop.fold \in Int /\ days \in Int
            BY <1>2, <1>3
          <5> HIDE DEF days
          <5> QED
            BY <4>1, <5>1
        <4> QED
          BY <1>1, <4>2, <4>3, <4>4
      <3> QED
        BY <1>1, <1>2, <1>3, <1>10, <3>3
    <2>3. (\A f \in folds : Blind(f, dates, ByRow, study.margin, study.hold))'
      BY <1>2, <1>4, <1>7, <1>8, <2>1 DEF Blind
    <2>4. LoopInv' /\ FoldsInOrder' /\ LastDayTested'
      BY <1>4, <1>5, <2>1, <2>2 DEF LoopInv, FoldsInOrder, LastDayTested
    <2>5. SplitTypeOK' /\ TestsTile'
      BY <1>12, <1>13, <2>1
    <2>6. study'.method # "cpcv"
      BY <1>2, <1>4
    <2> QED
      BY <1>1, <1>4, <2>1, <2>3, <2>4, <2>5, <2>6 DEF SplitInv
  <1>11. CASE from <= n
    <2>1. /\ folds' = folds \cup {new}
          /\ loop' = [fold |-> loop.fold + 1, start |-> end + 1,
                      train |-> loop.train, test |-> loop.test]
          /\ status' = IF loop.fold = study.k THEN "split" ELSE "splitting"
      BY <1>1, <1>3, <1>11 DEF RefitFold
    <2>20. end = IF loop.fold = study.k THEN n
                 ELSE IF n <= from + loop.test - 1 THEN n ELSE from + loop.test - 1
      BY DEF RefitTestEnd, Smaller
    <2>21. /\ loop.test \in Nat \ {0} /\ loop.start \in Nat \ {0}
           /\ loop.train \in Nat \ {0} /\ study.margin \in Nat
      BY <1>2
    <2>22. from = loop.start + loop.train + study.margin /\ from \in Nat
      BY <1>3
    <2>23. loop.fold \in Nat /\ study.k \in Nat /\ loop.fold <= study.k
      BY <1>2
    <2>24. n \in Nat /\ from <= n
      BY <1>1, <1>11
    <2>25. days \in Nat
      BY <1>3
    <2>2. end \in Int /\ end >= from /\ end <= n
      <3> HIDE DEF end, from, n, days, new
      <3> QED
        BY <2>20, <2>21, <2>22, <2>24
    <2>3. new.train = loop.start .. loop.start + loop.train - 1 /\ new.test = from .. end
      BY DEF Fold
    <2> HIDE DEF new, from, end, n, days
    <2>4. \A i \in new.train \cup new.test : i \in Int /\ loop.start <= i /\ i <= end
      <3>1. ASSUME NEW i \in loop.start .. loop.start + loop.train - 1
            PROVE  i \in Int /\ loop.start <= i /\ i <= end
        BY <2>2, <2>21, <2>22
      <3>2. ASSUME NEW i \in from .. end
            PROVE  i \in Int /\ loop.start <= i /\ i <= end
        BY <2>2, <2>21, <2>22
      <3> QED
        BY <2>3, <3>1, <3>2
    <2>5. \A f \in folds, i \in new.train \cup new.test : \A j \in f.train \cup f.test : j < i
      BY <1>2, <1>6, <2>4
    <2>6. Blind(new, dates, TRUE, study.margin, -1)
      <3>1. ASSUME NEW i \in new.train, NEW t \in new.test
            PROVE  i \in Int /\ t \in Int /\ i < t /\ t - i > study.margin
        <4>1. i \in loop.start .. loop.start + loop.train - 1 /\ t \in from .. end
          BY <2>3
        <4> QED
          BY <2>2, <2>21, <2>22, <4>1
      <3> QED
        BY <3>1 DEF Blind
    <2>7. (\A f \in folds : Blind(f, dates, ByRow, study.margin, study.hold))'
      BY <1>2, <1>4, <1>7, <1>8, <2>1, <2>6 DEF Blind
    <2>8. loop'.fold = loop.fold + 1 /\ loop'.start = end + 1 /\ loop'.train = loop.train
          /\ loop'.test = loop.test
      BY <2>1
    <2>9. FoldsInOrder'
      <3>1. \A f \in folds' : \A i \in f.train \cup f.test : i \in Int /\ i < end + 1
        <4>1. \A f \in folds : \A i \in f.train \cup f.test : i \in Int /\ i < end + 1
          BY <1>2, <1>3, <1>6, <2>2
        <4>2. \A i \in new.train \cup new.test : i \in Int /\ i < end + 1
          BY <2>2, <2>4
        <4> QED
          BY <2>1, <4>1, <4>2
      <3>2. \A f, g \in folds' : f # g =>
               \/ \A i \in f.train \cup f.test, j \in g.train \cup g.test : i < j
               \/ \A i \in f.train \cup f.test, j \in g.train \cup g.test : i > j
        <4>1. SUFFICES ASSUME NEW f \in folds', NEW g \in folds', f # g
                       PROVE  \/ \A i \in f.train \cup f.test, j \in g.train \cup g.test : i < j
                              \/ \A i \in f.train \cup f.test, j \in g.train \cup g.test : i > j
          OBVIOUS
        <4>2. CASE f \in folds /\ g \in folds
          BY <1>5, <4>1, <4>2
        <4>3. CASE f = new /\ g \in folds
          <5>1. \A i \in f.train \cup f.test, j \in g.train \cup g.test : i > j
            BY <1>6, <2>4, <2>5, <4>3
          <5> QED
            BY <5>1
        <4>4. CASE f \in folds /\ g = new
          <5>1. \A i \in f.train \cup f.test, j \in g.train \cup g.test : i < j
            BY <2>5, <4>4
          <5> QED
            BY <5>1
        <4> QED
          BY <2>1, <4>1, <4>2, <4>3, <4>4
      <3>3. status' = "splitting" =>
               \A f \in folds' : \A i \in f.train \cup f.test : i \in Int /\ i < loop'.start
        BY <2>8, <3>1
      <3> QED
        BY <3>2, <3>3 DEF FoldsInOrder
    <2>10. LoopInv'
      <3>1. SUFFICES ASSUME status' = "splitting" PROVE LoopInv'
        BY DEF LoopInv
      <3>2. loop.fold < study.k
        BY <2>1, <2>23, <3>1
      <3>3. study.margin = 0 => end + 1 = loop.fold * days + 1
        <4>1. SUFFICES ASSUME study.margin = 0 PROVE end + 1 = loop.fold * days + 1
          OBVIOUS
        <4>2. from + loop.test - 1 = loop.fold * days /\ loop.fold * days <= n
          <5> DEFINE past == loop.fold * days
          <5>1. from + loop.test = past + 1 /\ past <= n - 1
            BY <1>9, <4>1
          <5>2. past \in Int
            BY <2>23, <2>25
          <5>3. n \in Int /\ from \in Int /\ loop.test \in Int
            BY <2>21, <2>22, <2>24
          <5>4. from + loop.test - 1 = past /\ past <= n
            <6> HIDE DEF past
            <6> QED
              BY <5>1, <5>2, <5>3
          <5> QED
            BY <5>4
        <4>3. end = from + loop.test - 1
          <5>1. from + loop.test - 1 <= n
            BY <4>2
          <5>2. loop.fold # study.k
            BY <2>23, <3>2
          <5>3. n \in Int /\ from + loop.test - 1 \in Int
            BY <2>21, <2>22, <2>24
          <5> QED
            BY <2>20, <5>1, <5>2, <5>3
        <4>4. loop.fold * days \in Int /\ from + loop.test - 1 + 1 = from + loop.test
          BY <2>21, <2>22, <2>23, <2>25
        <4> QED
          BY <4>2, <4>3, <4>4
      <3>4. Len(dates') = n /\ study'.k = study.k /\ study'.margin = study.margin
            /\ study'.method = "refit" /\ study'.hold = -1
        BY <1>2, <1>4 DEF n
      <3>5. loop'.train + loop'.test = days
        BY <2>8 DEF days
      <3>6. loop'.fold \in 1 .. study.k /\ loop'.start \in Nat \ {0}
        BY <2>2, <2>22, <2>23, <2>8, <3>2
      <3>7. loop'.train \in Nat \ {0} /\ loop'.test \in Nat \ {0}
        BY <2>8, <2>21
      <3>8. study'.k * (loop'.train + loop'.test) <= Len(dates') - 1
        BY <1>14, <3>4, <3>5
      <3>9. study'.margin = 0 =>
               loop'.start = (loop'.fold - 1) * (loop'.train + loop'.test) + 1
        <4>1. loop'.fold - 1 = loop.fold
          BY <2>8, <2>23
        <4>2. loop'.start = end + 1
          BY <2>8
        <4>3. study'.margin = 0 => end + 1 = (loop'.fold - 1) * days + 1
          BY <3>3, <3>4, <4>1
        <4> QED
          BY <3>5, <4>2, <4>3
      <3>10. study'.margin \in Nat /\ study'.k \in Nat
        BY <2>21, <2>23, <3>4
      <3> QED
        BY <3>4, <3>6, <3>7, <3>8, <3>9, <3>10 DEF LoopInv
    <2>11. LastDayTested'
      <3>1. SUFFICES ASSUME status' = "split" PROVE Len(dates') \in new.test
        BY <2>1 DEF LastDayTested
      <3>2. end = n
        BY <2>1, <3>1 DEF end, RefitTestEnd
      <3>3. Len(dates') = n
        BY <1>4 DEF n
      <3> QED
        BY <1>1, <1>3, <1>11, <2>3, <3>2, <3>3
    <2>12. FoldOf(new, n)
      <3>3. new.train \subseteq 1 .. n
        BY <2>3, <2>21, <2>22, <2>24
      <3>4. new.test \subseteq 1 .. n
        <4>1. from >= 1
          BY <2>21, <2>22
        <4> QED
          BY <2>2, <2>3, <2>22, <2>24, <4>1
      <3>1. new.train \subseteq 1 .. n /\ new.test \subseteq 1 .. n
        BY <3>3, <3>4
      <3>2. loop.start \in new.train /\ from \in new.test
        BY <2>2, <2>3, <2>21, <2>22, <2>24
      <3> QED
        BY <3>1, <3>2 DEF FoldOf
    <2>13. SplitTypeOK' /\ TestsTile'
      <3>1. loop' \in [fold : Nat, start : Nat, train : Nat, test : Nat]
        BY <2>1, <2>2, <2>21, <2>22, <2>23
      <3>2. status' \in {"splitting", "split"}
        BY <2>1
      <3> QED
        BY <1>12, <1>13, <2>1, <2>12, <3>1, <3>2
    <2>14. study'.method # "cpcv"
      BY <1>2, <1>4
    <2> QED
      BY <1>1, <1>4, <2>1, <2>7, <2>9, <2>10, <2>11, <2>13, <2>14 DEF SplitInv
  <1> QED
    BY <1>1, <1>3, <1>10, <1>11

\* Every step keeps SplitInv.
LEMMA SplitInvStep ==
    SplitInv /\ [SplitNext]_splitVars => SplitInv'
  <1> SUFFICES ASSUME SplitInv, [SplitNext]_splitVars PROVE SplitInv'
    OBVIOUS
  <1>1. CASE \E k \in 1 .. MaxSplits, gap, purge \in Gaps : WalkForward(k, gap, purge)
    BY <1>1, WalkForwardStep
  <1>2. CASE \E k \in 1 .. MaxSplits, gap, purge \in Gaps, sliding \in BOOLEAN :
                Rolling(k, gap, purge, sliding)
    BY <1>2, RollingStep
  <1>3. CASE \E k \in 2 .. MaxSplits, purge, embargo \in Gaps : KFold(k, purge, embargo)
    BY <1>3, KFoldStep
  <1>4. CASE \E k \in 2 .. MaxSplits, gap, embargo \in Gaps :
                \E chosen \in 1 .. k - 1 : Cpcv(k, chosen, gap, embargo)
    BY <1>4, CpcvStep
  <1>5. CASE \E k \in 1 .. MaxSplits, tenths \in 1 .. 9, gap \in Gaps :
                OosWindows(k, tenths, gap)
    BY <1>5, OosStep
  <1>6. CASE \E k \in 2 .. MaxSplits, tenths \in 1 .. 9, gap \in Gaps : Refit(k, tenths, gap)
    BY <1>6, RefitStep
  <1>7. CASE RefitFold
    BY <1>7, RefitFoldStep
  <1>8. CASE UNCHANGED splitVars
    <2>1. SplitTypeOK' /\ TestsTile'
      BY <1>8 DEF splitVars, SplitInv, SplitTypeOK, TestsTile, Rows
    <2> QED
      BY <1>8, <2>1 DEF splitVars, SplitInv, ByRow, LoopInv, FoldsInOrder, LastDayTested, Blind,
         Embargoed
  <1> QED
    BY <1>1, <1>2, <1>3, <1>4, <1>5, <1>6, <1>7, <1>8 DEF SplitNext

\* SplitInv holds in every reachable state.
LEMMA SplitInvariant == SplitSpec => []SplitInv
  BY SplitInvInit, SplitInvStep, PTL DEF SplitSpec

\* SplitTypeOK: every answer of every method is made of folds whose training
\* and test rows lie in the history, and no fold is empty on either side.
THEOREM SplitTypeCorrect == SplitSpec => []SplitTypeOK
  <1>1. SplitInv => SplitTypeOK
    BY DEF SplitInv
  <1> QED
    BY <1>1, SplitInvariant, PTL

\* TestsTile: the windows of a walk-forward or rolling study tile the end of
\* the history, and a cross-validation that lost no fold tests every row in
\* as many of them as there are choices of the others.  The out-of-sample
\* windows overlap and the re-fit's leave its gaps untested.
THEOREM TestRowsTile == SplitSpec => []TestsTile
  <1>1. SplitInv => TestsTile
    BY DEF SplitInv
  <1> QED
    BY <1>1, SplitInvariant, PTL

\* TrainingIsBlind, for every history and every configuration of every method:
\* the gap or purge is kept before every test row, the k-fold's embargo and the
\* CPCV's gap behind every one, and the CPCV's embargo behind the first day of
\* every tested fold; the other methods train on nothing behind a test row.
THEOREM ResearchIsBlind == SplitSpec => []TrainingIsBlind
  <1>1. SplitInv => TrainingIsBlind
    <2> SUFFICES ASSUME SplitInv PROVE TrainingIsBlind
      OBVIOUS
    <2>1. \A f \in folds : EmbargoIsKept(f)
      BY DEF SplitInv, EmbargoIsKept, Embargoed
    <2> QED
      BY <2>1 DEF SplitInv, TrainingIsBlind, Blind, ByRow, Distance
  <1> QED
    BY <1>1, SplitInvariant, PTL

\* RefitMovesForward: the folds of a re-fit study share no day, and without a
\* gap the loop never breaks early and tests up to the last day.
THEOREM RefitInOrder == SplitSpec => []RefitMovesForward
  <1>1. SplitInv => RefitMovesForward
    BY DEF SplitInv, RefitMovesForward, FoldsInOrder, LastDayTested
  <1> QED
    BY <1>1, SplitInvariant, PTL
=============================================================================
