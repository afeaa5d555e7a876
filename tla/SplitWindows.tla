----------------------------- MODULE SplitWindows -----------------------------
(***************************************************************************)
(* How the research code cuts a history into training and test rows: the   *)
(* index arithmetic of WalkForwardValidator, PurgedKFold, CPCVAnalyzer,    *)
(* WalkForwardAnalyzer, the rolling splits of the qlib bridge and          *)
(* WalkForwardRefit.  Rows are the distinct dates of the data, in order:   *)
(* row i is the i-th date, where the code counts from 0.  A fold is a      *)
(* record of two sets of rows, train and test.                             *)
(***************************************************************************)
EXTENDS Integers

Larger(m, n) == IF m >= n THEN m ELSE n
Smaller(m, n) == IF m <= n THEN m ELSE n

Fold(train, test) == [train |-> train, test |-> test]

-----------------------------------------------------------------------------
(* Walk-forward and rolling splits share their test windows.                *)

\* valid_window, test_window: rows tested by each of the k splits of n rows.
Window(n, k) == Larger(1, n \div (k + 1))

\* initial_train_periods: rows before the first test window.
Initial(n, k) == n - Window(n, k) * k

\* Mutant of TestRows: one row of the next window is tested too.
TestRowsOverlap(n, k, i) ==
    Initial(n, k) + (i - 1) * Window(n, k) + 1 .. Initial(n, k) + i * Window(n, k) + 1

\* The rows of test window i in 1 .. k.
TestRows(n, k, i) ==
    Initial(n, k) + (i - 1) * Window(n, k) + 1 .. Initial(n, k) + i * Window(n, k)

FirstTest(n, k, i) == Initial(n, k) + (i - 1) * Window(n, k) + 1

\* The rows dated strictly before the cutoff.
RowsBefore(dates, cutoff) == {r \in DOMAIN dates : dates[r] < cutoff}

\* One split of WalkForwardValidator: gap and purge are calendar days.
WalkForwardFold(dates, n, k, gap, purge, i) ==
    Fold(RowsBefore(dates, dates[FirstTest(n, k, i)] - Larger(gap, purge)),
         TestRows(n, k, i))

\* One split of the rolling splits: gap and purge are rows.
RollingStart(n, k, gap, sliding, i) ==
    IF sliding THEN Larger(1, FirstTest(n, k, i) - Initial(n, k) - gap) ELSE 1

RollingEnd(n, k, gap, purge, i) == FirstTest(n, k, i) - Larger(gap, purge) - 1

RollingFold(n, k, gap, purge, sliding, i) ==
    Fold(RollingStart(n, k, gap, sliding, i) .. RollingEnd(n, k, gap, purge, i),
         TestRows(n, k, i))

-----------------------------------------------------------------------------
(* Folds of a cross-validation.                                             *)

\* PurgedKFold: equal folds, the last one takes the rest.
KFoldRows(n, k, i) ==
    (i - 1) * (n \div k) + 1 .. (IF i = k THEN n ELSE i * (n \div k))

\* Its training rows: purged before the fold, embargoed after it.
KFoldTrain(dates, first, last, purge, embargo) ==
    {r \in DOMAIN dates : \/ dates[r] < dates[first] - purge
                          \/ dates[r] > dates[last] + embargo}

\* _fold_bounds: the first n % k folds have one row more.
BoundStart(n, k, i) == (i - 1) * (n \div k) + Smaller(i - 1, n % k) + 1

BoundRows(n, k, i) == BoundStart(n, k, i) .. BoundStart(n, k, i + 1) - 1

\* Mutant of CpcvTrain: there is no embargo.
CpcvTrainNoEmbargo(dates, n, k, chosen, gap, embargo) ==
    {r \in DOMAIN dates : \A i \in chosen :
        LET first == dates[BoundStart(n, k, i)]
            last == dates[BoundStart(n, k, i + 1) - 1]
        IN  r \notin BoundRows(n, k, i) /\ ~(first - gap <= dates[r] /\ dates[r] <= last + gap)}

\* _purged_train: gap days are purged around both ends of a test fold; the
\* embargo counts from its first day.
CpcvTrain(dates, n, k, chosen, gap, embargo) ==
    {r \in DOMAIN dates : \A i \in chosen :
        LET first == dates[BoundStart(n, k, i)]
            last == dates[BoundStart(n, k, i + 1) - 1]
        IN  /\ r \notin BoundRows(n, k, i)
            /\ ~(first - gap <= dates[r] /\ dates[r] <= last + gap)
            /\ embargo > 0 => ~(first <= dates[r] /\ dates[r] <= first + embargo)}

-----------------------------------------------------------------------------
(* Out-of-sample windows of a finished backtest.                            *)

\* round(p / q), halves to even.
RoundedEven(p, q) ==
    LET down == p \div q
        rest == 2 * (p % q)
    IN  IF rest > q \/ (rest = q /\ down % 2 = 1) THEN down + 1 ELSE down

\* oos_size, with oos_fraction in tenths.
OosSize(n, tenths) == Larger(2, Smaller((n * tenths) \div 10, n - 1))

\* _evenly_spaced: start indices, counted from 0 as in the code.
EvenlySpaced(most, k) ==
    IF most <= 1 THEN {1}
    ELSE IF k = 1 THEN {most}
    ELSE {Smaller(Larger(1, 1 + RoundedEven(i * (most - 1), k - 1)), most) : i \in 0 .. k - 1}

OosFold(dates, size, start, gap) ==
    Fold(RowsBefore(dates, dates[start + 1] - gap), start + 1 .. start + size)

-----------------------------------------------------------------------------
(* WalkForwardRefit, over the calendar days 1 .. n of its range.            *)

\* total_days \div n_folds; the difference of the two ends is one less than
\* the days of the range.
RefitFoldDays(n, k) == (n - 1) \div k

RefitTrainDays(n, k, tenths) == (RefitFoldDays(n, k) * tenths) \div 10

\* The first day tested by a fold that starts on day start.
RefitTestStart(start, train, gap) == start + train + gap

\* Mutant of RefitTestEnd: the last fold is not extended.
RefitTestEndShort(n, k, i, from, test) == Smaller(n, from + test - 1)

\* The last day tested by fold i of k, whose test starts on day from.
RefitTestEnd(n, k, i, from, test) ==
    IF i = k THEN n ELSE Smaller(n, from + test - 1)
=============================================================================
