--------------------------- MODULE TemporalSplits ---------------------------
(* research/splits.py and execution_splits.py: the purged walk-forward folds of an
   evaluation and the calibration window inside each.  Rows are records of a
   decision time, the time their label ends and the class they teach; time counts
   minutes and Day of them make a day. *)
EXTENDS Integers, SequencesExt

CONSTANTS
  Day,
  Embargo,             \* embargo_minutes
  TrainDays, TestDays, \* minimum_train_days, test_days
  CalibrationDays,
  MaximumFolds,
  MinimumTrain, MinimumTest, MinimumCalibration,  \* rows
  SmokeFit,            \* rows a technical smoke needs: max(60, a quarter)
  MinimumDecisions,    \* ten
  Classes              \* the outcomes that every training part must hold

ASSUME SplitsAssumption ==
  /\ Embargo \in Nat
  /\ {MinimumTest, MinimumCalibration, MinimumTrain, SmokeFit} \subseteq Nat \ {0}
  /\ {Day, TrainDays, TestDays, CalibrationDays, MaximumFolds, MinimumDecisions} \subseteq Nat \ {0}

Decisions(rows) == {r.decision : r \in rows}
AllClasses(rows) == {r.class : r \in rows} = Classes

\* The k-th distinct decision from 0, at seven tenths of them; never the one before
\* `least`, never past the last.
SeventyPercent(rows, least) ==
  LET n == Cardinality(Decisions(rows))
      offset == Max({(7 * n) \div 10, least})
      Earlier(d) == {e \in Decisions(rows) : e < d}
  IN CHOOSE d \in Decisions(rows) : Cardinality(Earlier(d)) = Min({offset, n - 1})

-----------------------------------------------------------------------------
\* build_temporal_folds

End(rows) == Max(Decisions(rows)) + 1

TestStarts(rows) ==
  LET first == Min(Decisions(rows))
      starts == {first + (TrainDays + k * TestDays) * Day : k \in 0 .. End(rows)}
  IN {s \in starts : s + TestDays * Day <= End(rows)}

Kept(starts) == {s \in starts : Cardinality({t \in starts : t > s}) < MaximumFolds}

Windows(rows) ==
  IF TestStarts(rows) # {}
    THEN {[start |-> s, end |-> s + TestDays * Day, smoke |-> FALSE] : s \in Kept(TestStarts(rows))}
    ELSE {[start |-> SeventyPercent(rows, 0), end |-> End(rows), smoke |-> TRUE]}

\* Rows decided before the cutoff.
DecidedBefore(rows, at) == {r \in rows : r.decision <= at - Embargo}

\* Rows whose label was known before the cutoff, which lies the embargo before `at`.
KnownBefore(rows, at) == {r \in rows : r.end <= at - Embargo}

\* _fold_for_window
Fold(rows, window) ==
  [window |-> window,
   train |-> KnownBefore(rows, window.start),
   test |-> {r \in rows : window.start <= r.decision /\ r.decision < window.end}]

FoldAccepted(fold) ==
  /\ Cardinality(fold.train) >= MinimumTrain /\ Cardinality(fold.test) >= MinimumTest
  /\ AllClasses(fold.train)

\* The folds, or none when one of them is refused.
Folds(rows) ==
  LET folds == {Fold(rows, w) : w \in Windows(rows)}
  IN IF rows = {} THEN {}
     ELSE IF TestStarts(rows) = {} /\ Cardinality(Decisions(rows)) < MinimumDecisions THEN {}
     ELSE IF \A f \in folds : FoldAccepted(f) THEN folds ELSE {}

-----------------------------------------------------------------------------
\* build_calibration_split

CalibrationStart(fold) ==
  LET desired == fold.window.start - Embargo - CalibrationDays * Day
  IN IF desired > Min(Decisions(fold.train)) THEN desired
     ELSE SeventyPercent(fold.train, 1)

CanCalibrate(fold) ==
  /\ Cardinality(Decisions(fold.train)) >= MinimumDecisions
  /\ fold.window.smoke \/ fold.window.start - Embargo - CalibrationDays * Day > Min(Decisions(fold.train))

Calibration(fold) ==
  LET start == CalibrationStart(fold)
  IN [fit |-> KnownBefore(fold.train, start),
      calibration |-> {r \in fold.train : r.decision >= start}]

CalibrationAccepted(fold, parts) ==
  /\ Cardinality(parts.fit) >= (IF fold.window.smoke THEN SmokeFit ELSE MinimumTrain)
  /\ Cardinality(parts.calibration) >= MinimumCalibration
  /\ AllClasses(parts.fit) /\ AllClasses(parts.calibration)

\* The splits an evaluation uses: none when a fold or its calibration is refused.
Splits(rows) ==
  LET whole == {[fold |-> f, parts |-> Calibration(f)] : f \in Folds(rows)}
  IN IF \A f \in Folds(rows) : CanCalibrate(f)
          /\ CalibrationAccepted(f, Calibration(f)) THEN whole ELSE {}

-----------------------------------------------------------------------------
\* Nothing is learned from what is judged.  Every row that fits the model has its
\* label known the embargo before the first calibration decision, every row of the
\* calibration the embargo before the first test decision; no decision time lies in
\* two parts; and the folds test every row of the span they cover exactly once.
Purged(rows, splits) ==
  /\ \A s \in splits :
       /\ \A r \in s.parts.fit, c \in s.parts.calibration : r.end + Embargo <= c.decision
       /\ \A r \in s.fold.train, t \in s.fold.test : r.end + Embargo <= t.decision
       /\ s.parts.fit \cup s.parts.calibration \subseteq s.fold.train
       /\ AllClasses(s.parts.fit) /\ s.fold.test # {} /\ s.parts.calibration # {}
  /\ \A s, t \in splits : s # t => Decisions(s.fold.test) \cap Decisions(t.fold.test) = {}
  /\ LET tested == UNION {s.fold.test : s \in splits}
     IN \A r \in rows :
          (\E a, b \in tested : a.decision <= r.decision /\ r.decision <= b.decision) => r \in tested
=============================================================================
