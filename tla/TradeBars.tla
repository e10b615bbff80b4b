----------------------------- MODULE TradeBars -----------------------------
(* _process_archive of data/bybit_history.py: one pass over the trades of a
   day's archive, which become bars of a second and of a minute, and the checks
   that reject the archive.  Time counts seconds from the start of the day. *)
EXTENDS Integers, SequencesExt

CONSTANTS
  SecondsPerMinute,
  MinutesPerDay,   \* EXPECTED_MINUTES_PER_DAY
  MaximumMissing,  \* maximum_missing_minutes
  AssumedLatency   \* assumed_latency_ms, in seconds

ASSUME TradeBarsAssumption ==
  /\ SecondsPerMinute \in Nat \ {0} /\ MinutesPerDay \in Nat \ {0}
  /\ MaximumMissing \in Nat /\ AssumedLatency \in Nat

DaySeconds == SecondsPerMinute * MinutesPerDay

Larger(a, b) == IF a >= b THEN a ELSE b
Smaller(a, b) == IF a <= b THEN a ELSE b

Bought(t) == IF t.side = "Buy" THEN t.size ELSE 0

\* A bar is opened by its first trade.
FirstTrade(i, t) ==
  [start |-> t.at \div i, first |-> t.at, last |-> t.at,
   open |-> t.price, high |-> t.price, low |-> t.price, close |-> t.price,
   turnover |-> t.price * t.size, bought |-> Bought(t), sold |-> t.size - Bought(t),
   trades |-> 1]

Observe(b, t) ==
  [b EXCEPT !.last = t.at, !.high = Larger(@, t.price), !.low = Smaller(@, t.price),
            !.close = t.price, !.turnover = @ + t.price * t.size,
            !.bought = @ + Bought(t), !.sold = @ + t.size - Bought(t),
            !.trades = @ + 1]

AvailableAt(b, i) == (b.start + 1) * i + AssumedLatency

\* The last bar is the current one, the others are with the writer.
InCurrent(bars, i, t) == bars # <<>> /\ Last(bars).start = t.at \div i

Extend(bars, i, t) ==
  IF InCurrent(bars, i, t)
    THEN [bars EXCEPT ![Len(bars)] = Observe(@, t)]
    ELSE Append(bars, FirstTrade(i, t))

\* A pass that looks for gaps only when a trade comes.
NoTail(bars) == 0

\* The trade-free minutes that a trade ends, and those that follow the last.
GapBefore(bars, t) ==
  IF InCurrent(bars, SecondsPerMinute, t) THEN 0
  ELSE (t.at \div SecondsPerMinute) - (IF bars = <<>> THEN 0 ELSE Last(bars).start + 1)

GapAfter(bars) == MinutesPerDay - (Last(bars).start + 1)

Rejected(acc, t) ==
  \/ t.at \notin 0 .. DaySeconds - 1
  \/ acc.seconds # <<>> /\ t.at < acc.at
  \/ acc.seconds # <<>> /\ t.id = acc.id

Row(acc, t) ==
  IF acc.failed \/ Rejected(acc, t) THEN [acc EXCEPT !.failed = TRUE]
  ELSE [failed |-> FALSE, at |-> t.at, id |-> t.id,
        seconds |-> Extend(acc.seconds, 1, t),
        minutes |-> Extend(acc.minutes, SecondsPerMinute, t),
        longest |-> Larger(acc.longest, GapBefore(acc.minutes, t))]

Scanned(rows) ==
  FoldLeft(Row, [failed |-> FALSE, at |-> 0, id |-> 0, seconds |-> <<>>,
                 minutes |-> <<>>, longest |-> 0], rows)

NoBars == [ok |-> FALSE, seconds |-> <<>>, minutes |-> <<>>, missing |-> 0, longest |-> 0]

Import(rows) ==
  LET acc == Scanned(rows)
      longest == Larger(acc.longest, GapAfter(acc.minutes))
  IN IF acc.failed \/ rows = <<>> THEN NoBars
     ELSE IF longest > MaximumMissing THEN NoBars
     ELSE [ok |-> TRUE, seconds |-> acc.seconds, minutes |-> acc.minutes,
           missing |-> MinutesPerDay - Len(acc.minutes), longest |-> longest]

-----------------------------------------------------------------------------
\* What an import promises, from the rows and not from the pass over them.

Positions(rows, i, start) == {n \in DOMAIN rows : rows[n].at \div i = start}

Busy(rows) == {rows[n].at \div SecondsPerMinute : n \in DOMAIN rows}

Acceptable(rows) ==
  /\ rows # <<>>
  /\ \A n \in DOMAIN rows : rows[n].at \in 0 .. DaySeconds - 1
  /\ \A n \in 2 .. Len(rows) : rows[n - 1].at <= rows[n].at /\ rows[n - 1].id # rows[n].id
  /\ \A m \in 0 .. MinutesPerDay - MaximumMissing - 1 :
        m .. m + MaximumMissing \cap Busy(rows) # {}

Turnovers(rows) == [n \in DOMAIN rows |-> rows[n].price * rows[n].size]
Flows(rows) == [n \in DOMAIN rows |-> IF rows[n].side = "Buy" THEN rows[n].size ELSE -rows[n].size]

Total(amounts, S) == MapThenSumSet(LAMBDA n : amounts[n], S)

Summarises(b, rows, i) ==
  LET at == Positions(rows, i, b.start)
      Price(n) == rows[n].price
  IN /\ at # {} /\ b.trades = Cardinality(at)
     /\ b.open = Price(Min(at)) /\ b.close = Price(Max(at))
     /\ b.high = Max({Price(n) : n \in at}) /\ b.low = Min({Price(n) : n \in at})
     /\ b.turnover = Total(Turnovers(rows), at) /\ b.bought - b.sold = Total(Flows(rows), at)
     /\ \A n \in at : rows[n].at \in b.first .. b.last /\ rows[n].at < AvailableAt(b, i)

BarsSummarise(bars, rows, i) ==
  /\ \A k \in DOMAIN bars : Summarises(bars[k], rows, i)
  /\ {bars[k].start : k \in DOMAIN bars} = {rows[n].at \div i : n \in DOMAIN rows}
  /\ \A k \in 2 .. Len(bars) : bars[k - 1].start < bars[k].start

ImportFaithful(rows, result) ==
  /\ result.ok <=> Acceptable(rows)
  /\ result.ok => /\ BarsSummarise(result.seconds, rows, 1)
                  /\ BarsSummarise(result.minutes, rows, SecondsPerMinute)
                  /\ result.longest <= result.missing
=============================================================================
