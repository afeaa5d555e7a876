---------------------------- MODULE ResearchSplits ----------------------------
(***************************************************************************)
(* A study over one history: the research code is asked for the splits of  *)
(* one method (SplitWindows) and answers with folds, or refuses the        *)
(* configuration.  The dates are day numbers, with holes where the market  *)
(* is closed.                                                              *)
(*                                                                         *)
(* A label of horizon h, as ml_lab/labels.py builds it, is computed at row *)
(* i from the closes up to row i + h: a training row is of use only if     *)
(* none of them is tested.                                                 *)
(***************************************************************************)
EXTENDS SplitWindows, Sequences, FiniteSets

CONSTANTS
    Calendars,      \* histories: sequences of day numbers
    MaxSplits,      \* bound on n_splits, n_folds and the windows
    MaxGap,         \* bound on gap, purge and embargo
    MaxHorizon,     \* bound on the horizon of labels, in rows
    MinFoldDays     \* min_fold_days of WalkForwardRefit

ASSUME SplitAssumption ==
    /\ MaxSplits \in Nat /\ MaxGap \in Nat /\ MaxHorizon \in Nat
    /\ MinFoldDays \in Nat \ {0}
    /\ \A c \in Calendars :
          /\ c \in Seq(Nat) /\ c # <<>>
          /\ \A i, j \in DOMAIN c : i < j => c[i] < c[j]

VARIABLES
    dates,          \* the history
    study,          \* the method and its parameters, [method |-> "none"] before
    status,         \* "idle", then "split" or "refused"; "splitting" in a loop
    folds,          \* the folds returned
    loop            \* the loop of the re-fit: fold, its first day, its lengths

splitVars == <<dates, study, status, folds, loop>>

Rows == DOMAIN dates

Gaps == 0 .. MaxGap

\* What was asked: the method, its number of folds, how many of them a choice
\* of the CPCV tests, what the code keeps between a training row and a later
\* (margin) or an earlier (hold) test row, -1 if there is none earlier, and
\* the embargo that the CPCV counts from the first day of a tested fold.
Study(method, k, chosen, margin, hold, embargo) ==
    [method |-> method, k |-> k, chosen |-> chosen,
     margin |-> margin, hold |-> hold, embargo |-> embargo]
-----------------------------------------------------------------------------
SplitInit ==
    /\ dates \in Calendars
    /\ study = Study("none", 0, 0, 0, 0, 0)
    /\ status = "idle"
    /\ folds = {}
    /\ loop = [fold |-> 0, start |-> 0, train |-> 0, test |-> 0]

\* A call returns folds, or raises (returns nothing) when it has none.
Answer(s, fs) ==
    /\ status = "idle"
    /\ study' = s
    /\ status' = IF fs = {} THEN "refused" ELSE "split"
    /\ folds' = fs
    /\ UNCHANGED <<dates, loop>>

\* WalkForwardValidator.split: one empty training set refuses them all.
WalkForward(k, gap, purge) ==
    LET n == Len(dates)
        fs == {WalkForwardFold(dates, n, k, gap, purge, i) : i \in 1 .. k}
    IN  Answer(Study("walk_forward", k, 1, Larger(gap, purge), -1, 0),
               IF n <= k \/ \E f \in fs : f.train = {} THEN {} ELSE fs)

\* generate_rolling_splits, without qlib.
Rolling(k, gap, purge, sliding) ==
    LET n == Len(dates)
        fs == {RollingFold(n, k, gap, purge, sliding, i) : i \in 1 .. k}
    IN  Answer(Study("rolling", k, 1, Larger(gap, purge), -1, 0),
               IF n <= k \/ \E f \in fs : f.train = {} THEN {} ELSE fs)

\* Mutant of KFold: a fold without training rows is returned.
KFoldUnfiltered(k, purge, embargo) ==
    LET n == Len(dates)
        rows(i) == KFoldRows(n, k, i)
        first(i) == (i - 1) * (n \div k) + 1
        last(i) == IF i = k THEN n ELSE i * (n \div k)
        fs == {Fold(KFoldTrain(dates, first(i), last(i), purge, embargo), rows(i)) : i \in 1 .. k}
    IN  Answer(Study("kfold", k, 1, purge, embargo, 0), IF n <= k THEN {} ELSE fs)

\* PurgedKFold.split: folds without training rows are left out.
KFold(k, purge, embargo) ==
    LET n == Len(dates)
        rows(i) == KFoldRows(n, k, i)
        first(i) == (i - 1) * (n \div k) + 1
        last(i) == IF i = k THEN n ELSE i * (n \div k)
        fs == {Fold(KFoldTrain(dates, first(i), last(i), purge, embargo), rows(i)) : i \in 1 .. k}
    IN  Answer(Study("kfold", k, 1, purge, embargo, 0),
               IF n <= k THEN {} ELSE {f \in fs : f.train # {}})

\* CPCVAnalyzer.analyze: every choice of chosen test folds.
Cpcv(k, chosen, gap, embargo) ==
    LET n == Len(dates)
        choices == {c \in SUBSET (1 .. k) : Cardinality(c) = chosen}
        fs == {Fold(CpcvTrain(dates, n, k, c, gap, embargo),
                    UNION {BoundRows(n, k, i) : i \in c}) : c \in choices}
    IN  Answer(Study("cpcv", k, chosen, gap, gap, embargo),
               IF n <= k THEN {} ELSE {f \in fs : f.train # {}})

\* WalkForwardAnalyzer.analyze.
OosWindows(k, tenths, gap) ==
    LET n == Len(dates)
        size == OosSize(n, tenths)
        fs == {OosFold(dates, size, s, gap) : s \in EvenlySpaced(n - size, k)}
    IN  Answer(Study("oos", k, 1, gap, -1, 0),
               IF n < 3 THEN {} ELSE {f \in fs : f.train # {}})

\* WalkForwardRefit._split_dates up to its loop, over calendar days.
Refit(k, tenths, gap) ==
    LET n == Len(dates)
        train == RefitTrainDays(n, k, tenths)
        test == RefitFoldDays(n, k) - train
    IN  /\ status = "idle"
        /\ \A i \in Rows : dates[i] = dates[1] + i - 1
        /\ study' = Study("refit", k, 1, gap, -1, 0)
        /\ status' = IF n - 1 < 2 * MinFoldDays \/ train < MinFoldDays \/ test < MinFoldDays
                     THEN "refused" ELSE "splitting"
        /\ loop' = [fold |-> 1, start |-> 1, train |-> train, test |-> test]
        /\ UNCHANGED <<dates, folds>>

\* One iteration of the loop: a fold, and the next one starts on the day
\* after its last test; it breaks at the first test that would start too late.
RefitFold ==
    LET n == Len(dates)
        from == RefitTestStart(loop.start, loop.train, study.margin)
        end == RefitTestEnd(n, study.k, loop.fold, from, loop.test)
    IN  /\ status = "splitting"
        /\ IF from > n
           THEN status' = "split" /\ UNCHANGED <<folds, loop>>
           ELSE /\ folds' = folds \cup {Fold(loop.start .. loop.start + loop.train - 1, from .. end)}
                /\ loop' = [fold |-> loop.fold + 1, start |-> end + 1,
                            train |-> loop.train, test |-> loop.test]
                /\ status' = IF loop.fold = study.k THEN "split" ELSE "splitting"
        /\ UNCHANGED <<dates, study>>

SplitNext ==
    \/ \E k \in 1 .. MaxSplits, gap, purge \in Gaps : WalkForward(k, gap, purge)
    \/ \E k \in 1 .. MaxSplits, gap, purge \in Gaps, sliding \in BOOLEAN :
          Rolling(k, gap, purge, sliding)
    \/ \E k \in 2 .. MaxSplits, purge, embargo \in Gaps : KFold(k, purge, embargo)
    \/ \E k \in 2 .. MaxSplits, gap, embargo \in Gaps :
          \E chosen \in 1 .. k - 1 : Cpcv(k, chosen, gap, embargo)
    \/ \E k \in 1 .. MaxSplits, tenths \in 1 .. 9, gap \in Gaps : OosWindows(k, tenths, gap)
    \/ \E k \in 2 .. MaxSplits, tenths \in 1 .. 9, gap \in Gaps : Refit(k, tenths, gap)
    \/ RefitFold

SplitSpec == SplitInit /\ [][SplitNext]_splitVars
-----------------------------------------------------------------------------
SplitTypeOK ==
    /\ dates \in Calendars
    /\ status \in {"idle", "splitting", "split", "refused"}
    /\ status \in {"idle", "refused"} => folds = {}
    /\ \A f \in folds : f.train \subseteq Rows /\ f.test \subseteq Rows
    /\ loop \in [fold : Nat, start : Nat, train : Nat, test : Nat]
    /\ \A f \in folds : f.train # {} /\ f.test # {}

\* The distance between two rows: in rows for the rolling splits (and for the
\* re-fit, whose rows are days), in calendar days for all others.
Distance(i, j) == IF study.method \in {"rolling", "refit"} THEN j - i ELSE dates[j] - dates[i]

\* The CPCV trains on no row within embargo_days of the first day of a fold
\* that it tests.
EmbargoIsKept(f) ==
    study.method = "cpcv" =>
        \A b \in 1 .. study.k, i \in f.train :
            LET start == BoundStart(Len(dates), study.k, b)
            IN  start \in f.test /\ start < i => dates[i] - dates[start] > study.embargo

\* The guarantee behind "no look-ahead": in every fold of every method, a
\* training row lies further before a test row than the gap or the purge.
\* Behind a test row there is none, but in a cross-validation: there it lies
\* behind by more than the embargo (k-fold), which counts from the last row
\* tested, or by more than the gap and, counted from the first day of a tested
\* fold, by more than the embargo (CPCV).  A label whose window is not longer
\* than the gap then reads no tested close, where both are counted alike.
TrainingIsBlind ==
    \A f \in folds :
        /\ \A i \in f.train, t \in f.test :
              /\ i # t
              /\ i < t => Distance(i, t) > study.margin
              /\ i > t => study.hold >= 0 /\ Distance(t, i) > study.hold
        /\ EmbargoIsKept(f)

\* Choices of m among a set of size l.
Choices(l, m) == Cardinality({c \in SUBSET (1 .. l) : Cardinality(c) = m})

\* The test windows of the walk-forward and of the rolling splits are disjoint,
\* have no hole, and end with the history.  A cross-validation tests every row
\* equally often, unless purging left some fold without training rows.
TestsTile ==
    /\ status = "split" /\ study.method \in {"walk_forward", "rolling"} =>
           /\ \A f, g \in folds : f # g => f.test \cap g.test = {}
           /\ \E first \in Rows : UNION {f.test : f \in folds} = first .. Len(dates)
    /\ /\ study.method \in {"kfold", "cpcv"}
       /\ Cardinality(folds) = Choices(study.k, study.chosen)
       => \A r \in Rows : Cardinality({f \in folds : r \in f.test})
                              = Choices(study.k - 1, study.chosen - 1)

\* The folds of a walk-forward study with re-fitting follow one another and
\* share no day, whatever the gap and the rounding; without a gap the last
\* one tests up to the end of the range.
RefitMovesForward ==
    study.method = "refit" =>
        /\ \A f, g \in folds : f # g =>
              \/ \A i \in f.train \cup f.test, j \in g.train \cup g.test : i < j
              \/ \A i \in f.train \cup f.test, j \in g.train \cup g.test : i > j
        /\ status = "split" /\ study.margin = 0 => \E f \in folds : Len(dates) \in f.test

\* walk_forward.py, "without look-ahead leakage", with the pipeline's own
\* choice of gap_days equal to the horizon of its labels: no label of a
\* training row is computed from a tested close.
LabelsNeverReachTest ==
    study.method = "walk_forward" /\ study.margin = MaxHorizon =>
        \A f \in folds : \A i \in f.train, t \in f.test : t - i > MaxHorizon
=============================================================================
