------------------------------ MODULE Backtest ------------------------------
(* The replay of an evaluation's predictions with one position at a time:
   run_execution_one_position_backtest of research/execution_backtest.py, whose rows
   with a full fill are those of run_one_position_backtest in research/backtest.py.
   A row is one candidate (symbol, side) of a decision with its expected return, the
   status and the end of its order, and the equity return it realises. *)
EXTENDS Integers, SequencesExt

CONSTANTS
  Window,         \* the rolling 24 hours
  LossLimit,      \* rolling_24h_loss_fraction
  MinimumExpected \* minimum_expected_net_bps

ASSUME BacktestAssumption == Window \in Nat \ {0} /\ LossLimit \in Nat \ {0} /\ MinimumExpected \in Int

\* active_until, realized_24h (with one entry per position that realised anything),
\* rolling_return, attempts, and why decisions were skipped.
Start == [until |-> -1, realised |-> <<>>, rolling |-> 0, attempts |-> <<>>, skipped |-> {}]

\* _actual_full_fill_costs: the hit ends a full position, its horizon otherwise; an
\* order without a full fill holds the slot until its entry window ends.
ExitOf(row) ==
  IF row.status = "FULL_FILL" THEN IF row.hit # -1 THEN row.hit ELSE row.end ELSE row.window

\* The candidates of one decision stand in the order of symbol and side.
Eligible(group) == {r \in group : r.expected >= MinimumExpected}

Preferred(a, b) ==
  \/ a.expected > b.expected
  \/ a.expected = b.expected /\ a.symbol < b.symbol
  \/ a.expected = b.expected /\ a.symbol = b.symbol /\ a.side = "LONG"

Best(group) == CHOOSE r \in Eligible(group) : \A o \in Eligible(group) \ {r} : Preferred(r, o)

Younger(realised, d) ==
  SelectInSeq(realised, LAMBDA entry : entry.at > d - Window)

\* The deque is popped from its head only.
Live(realised, d) ==
  SelectInSeq(realised, LAMBDA entry : ~(entry.at < d - Window))

Expire(book, d) ==
  LET first == Live(book.realised, d)
      gone == IF first = 0 THEN Len(book.realised) ELSE first - 1
  IN [book EXCEPT !.realised = SubSeq(@, gone + 1, Len(@)),
                  !.rolling = FoldLeft(LAMBDA sum, entry : sum - entry.return, @,
                                       SubSeq(book.realised, 1, gone))]

Skip(book, d, reason) == [book EXCEPT !.skipped = @ \cup {[decision |-> d, reason |-> reason]}]

Attempt(book, row) ==
  LET exit == ExitOf(row)
      return == IF row.status = "NO_FILL" THEN 0 ELSE row.return
  IN [book EXCEPT !.until = exit,
        !.attempts = Append(@, [row |-> row, exit |-> exit, return |-> return]),
        !.rolling = @ + return,
        !.realised = IF return = 0 THEN @ ELSE Append(@, [at |-> exit, return |-> return])]

Decide(old, d, group) ==
  LET book == Expire(old, d)
  IN IF d < book.until THEN Skip(book, d, "open")
     ELSE IF book.rolling <= -LossLimit THEN Skip(book, d, "loss")
     ELSE IF Eligible(group) = {} THEN Skip(book, d, "threshold")
     ELSE Attempt(book, Best(group))

\* The decisions in the order of their times: the latest is taken last.
Backtested(rows) ==
  MapThenFoldSet(LAMBDA d, book : Decide(book, d, {r \in rows : r.decision = d}), Start,
                 LAMBDA d : d, Max, {r.decision : r \in rows})

-----------------------------------------------------------------------------
\* What the report claims, told without the passes.  No two attempts overlap in time;
\* none starts while the positions that ended in the 24 hours before it, and no
\* others, have lost the limit together; each is the best candidate of its decision;
\* and a decision is passed over only because an order is open, because of the limit,
\* or because none of its candidates is expected to earn the minimum.
BacktestHonest(rows) ==
  LET report == Backtested(rows)
      tries == Range(report.attempts)
      Lost(d) == MapThenSumSet(LAMBDA a : a.return, {a \in tries : d - Window <= a.exit /\ a.exit <= d})
      Open(d) == \E a \in tries : a.row.decision < d /\ d < a.exit
      Reason(d) == IF Open(d) THEN "open" ELSE IF Lost(d) <= -LossLimit THEN "loss" ELSE "threshold"
      Group(d) == {r \in rows : r.decision = d}
  IN /\ \A a, b \in tries : a.row.decision < b.row.decision => a.exit <= b.row.decision
     /\ \A a \in tries :
          /\ Lost(a.row.decision) > -LossLimit
          /\ a.row.expected >= MinimumExpected
          /\ \A r \in Group(a.row.decision) \ {a.row} :
               r.expected < a.row.expected \/ Preferred(a.row, r)
     /\ \A d \in {r.decision : r \in rows} \ {a.row.decision : a \in tries} :
          /\ Open(d) \/ Lost(d) <= -LossLimit \/ Eligible(Group(d)) = {}
          /\ [decision |-> d, reason |-> Reason(d)] \in report.skipped
=============================================================================
