-------------------------- MODULE ExecutionLabels --------------------------
(* The labels of one decision for one symbol: research/execution_builder.py with
   the series of research/builder.py.  A maker order at the decision's best price
   meets the first book after submission, public trades deplete the queue before
   it, and after a full fill further trades touch the stop or the target first.
   Time counts ticks, prices count steps of one size.  A SHORT is a LONG with
   mirrored prices and sides. *)
EXTENDS NoValue, Integers, SequencesExt

CONSTANTS
  Latency,          \* submission_latency_ms
  ActivationDelay,  \* activation_max_delay_ms
  Ttl,              \* entry_ttl_seconds
  Horizon,          \* horizon_minutes
  Gap,              \* maximum_continuity_gap_ms
  SecondTicks,      \* a second: the bucket of _TradeSeries
  MinuteTicks,      \* a minute: the interval of kline_1
  Stop,             \* stop distance
  TakeProfit        \* take profit distance

ASSUME LabelsAssumption ==
  /\ {Latency, ActivationDelay} \subseteq Nat
  /\ {Ttl, Horizon, Gap, SecondTicks, MinuteTicks, Stop, TakeProfit} \subseteq Nat \ {0}
  /\ None \notin Int

-----------------------------------------------------------------------------
\* _TradeSeries.__init__: by receive time, event time and sequence (here one
\* number, `order`); trades with one key keep the order they were read in.

KeyBefore(a, b) == a.at < b.at \/ (a.at = b.at /\ a.order < b.order)
Tied(a, b) == a.at = b.at /\ a.order = b.order

Ordered(trades) ==
  LET Rank(n) == 1 + Cardinality({m \in DOMAIN trades :
                      KeyBefore(trades[m], trades[n]) \/ (m < n /\ Tied(trades[m], trades[n]))})
  IN [k \in DOMAIN trades |-> trades[CHOOSE n \in DOMAIN trades : Rank(n) = k]]

LastReceived(trades) == Last(trades).at

\* What a price is worth to the side: more is nearer to the target.
Worth(side, price) == IF side = "LONG" THEN price ELSE -price

-----------------------------------------------------------------------------
\* _ContinuityGuard.covers, for a window that neither starts nor ends off the
\* minute grid of the candles by less than a tick.

BooksBy(books, t) == {n \in DOMAIN books : books[n].at <= t}

OneSession(books, from, to) ==
  /\ from <= to /\ BooksBy(books, from) # {}
  /\ LET left == Max(BooksBy(books, from))
         right == Max(BooksBy(books, to))
     IN /\ from - books[left].at <= Gap /\ to - books[right].at <= Gap
        /\ \A n \in left + 1 .. right :
              /\ books[n].at - books[n - 1].at <= Gap
              /\ books[n].session = books[left].session

\* _KlineSeries.has_complete_coverage: every candle that meets [from, to).
EveryCandle(candles, from, to) ==
  LET end == IF to - 1 >= from THEN to - 1 ELSE from
  IN (from \div MinuteTicks) .. (end \div MinuteTicks) \subseteq candles

Covers(market, from, to) ==
  OneSession(market.books, from, to) /\ EveryCandle(market.candles, from, to)

-----------------------------------------------------------------------------
\* _activation_snapshot: the first book received after submission.

QueueAhead(book, side, entry) ==
  IF Worth(side, entry) > Worth(side, book[side]) THEN 0 ELSE book.sizes[entry]

Opposite(side) == IF side = "LONG" THEN "SHORT" ELSE "LONG"

PostOnly(book, side, entry) == Worth(side, entry) < Worth(side, book[Opposite(side)])

Activation(market, side, entry, submitted) ==
  LET later == {n \in DOMAIN market.books : market.books[n].at >= submitted}
      book == market.books[Min(later)]
  IN IF later = {} \/ (later # {} /\ book.at - submitted > ActivationDelay) THEN None
     ELSE IF ~PostOnly(book, side, entry) THEN [at |-> book.at, queue |-> None]
     ELSE IF QueueAhead(book, side, entry) = None THEN None
     ELSE [at |-> book.at, queue |-> QueueAhead(book, side, entry)]

-----------------------------------------------------------------------------
\* _maker_fills, of one order size: the results of several do not depend on one
\* another.

Contra(side, entry, t) ==
  /\ t.visible /\ t.buy = (side = "SHORT") /\ Worth(side, t.price) <= Worth(side, entry)

Through(side, entry, t) == Worth(side, t.price) < Worth(side, entry)

NoFill == [volume |-> 0, filled |-> 0, first |-> None, full |-> None]

Executable(size, volume, queue) ==
  IF volume <= queue THEN 0 ELSE IF volume - queue < size THEN volume - queue ELSE size

Seen(fill, n, volume, filled, size) ==
  [volume |-> volume, filled |-> filled,
   first |-> IF fill.first = None /\ filled > 0 THEN n ELSE fill.first,
   full |-> IF filled = size THEN n ELSE None]

Deplete(fill, n, t, side, entry, queue, size) ==
  IF fill.full # None \/ ~Contra(side, entry, t) THEN fill
  ELSE IF Through(side, entry, t) THEN Seen(fill, n, fill.volume, size, size)
  ELSE LET volume == fill.volume + t.size
       IN Seen(fill, n, volume, Executable(size, volume, queue), size)

EntryTrades(trades, from, to) == {n \in DOMAIN trades : from < trades[n].at /\ trades[n].at < to}

MakerFill(trades, side, entry, queue, size, from, to) ==
  FoldLeft(LAMBDA fill, n : IF n \in EntryTrades(trades, from, to)
                              THEN Deplete(fill, n, trades[n], side, entry, queue, size) ELSE fill,
           NoFill, [n \in DOMAIN trades |-> n])

Status(fill) ==
  IF fill.full # None THEN "FULL_FILL" ELSE IF fill.filled > 0 THEN "PARTIAL_FILL" ELSE "NO_FILL"

-----------------------------------------------------------------------------
\* _TradeSeries.barrier_outcome: the first second with a touch decides.  Only a label
\* of an execution leaves out the trades that no order on the book meets.

AtTarget(side, entry, t) == Worth(side, t.price) >= Worth(side, entry) + TakeProfit
AtStop(side, entry, t) == Worth(side, t.price) <= Worth(side, entry) - Stop

\* A search by time.
FromFill(trades, full) == {n \in DOMAIN trades : trades[n].at >= trades[full].at}

\* Where the search starts: behind the trade of the full fill.
After(trades, full) == {n \in DOMAIN trades : n > full}

FirstOf(S) == IF S = {} THEN None ELSE Min(S)

BarrierOutcome(trades, side, entry, full, to, eligibleOnly) ==
  LET future == {n \in After(trades, full) : trades[n].at <= to /\ (eligibleOnly => trades[n].visible)}
      hits == {n \in future : AtTarget(side, entry, trades[n]) \/ AtStop(side, entry, trades[n])}
      Bucket(n) == trades[n].at \div SecondTicks
      bucket == {n \in hits : Bucket(n) = Bucket(Min(hits))}
      target == FirstOf({n \in bucket : AtTarget(side, entry, trades[n])})
      stop == FirstOf({n \in bucket : AtStop(side, entry, trades[n])})
  IN IF hits = {} THEN [outcome |-> "TIMEOUT", hit |-> None]
     ELSE IF target # None /\ stop # None /\ Tied(trades[target], trades[stop])
       THEN [outcome |-> "AMBIGUOUS", hit |-> None]
     ELSE IF stop = None \/ (target # None /\ KeyBefore(trades[target], trades[stop]))
       THEN [outcome |-> "TP_FIRST", hit |-> target]
     ELSE [outcome |-> "SL_FIRST", hit |-> stop]

-----------------------------------------------------------------------------
\* _execution_label_rows: the row of one side and order size, None where none is
\* written.  A market has books, candles and trades; a decision a time.

LabelRow(status, outcome, from, fill, hit) ==
  [status |-> status, outcome |-> outcome, activation |-> from, filled |-> fill.filled,
   first |-> fill.first, full |-> fill.full, hit |-> hit]

PositionRow(market, trades, side, entry, from, fill) ==
  LET at == trades[fill.full].at
      result == BarrierOutcome(trades, side, entry, fill.full, at + Horizon, TRUE)
  IN IF ~Covers(market, at, at + Horizon) \/ LastReceived(trades) < at + Horizon THEN None
     ELSE IF AtStop(side, entry, trades[fill.full])
       THEN LabelRow("FULL_FILL", "AMBIGUOUS", from, fill, None)
     ELSE LabelRow("FULL_FILL", result.outcome, from, fill, result.hit)

Label(market, d, side, entry, size) ==
  LET trades == Ordered(market.trades)
      order == Activation(market, side, entry, d + Latency)
      fill == MakerFill(trades, side, entry, order.queue, size, order.at, d + Ttl)
  IN IF order = None THEN None
     ELSE IF order.queue = None THEN LabelRow("NO_FILL", "NO_FILL", order.at, NoFill, None)
     ELSE IF ~Covers(market, order.at, d + Ttl) \/ LastReceived(trades) < d + Ttl THEN None
     ELSE IF fill.full = None THEN LabelRow(Status(fill), Status(fill), order.at, fill, None)
     ELSE PositionRow(market, trades, side, entry, order.at, fill)

-----------------------------------------------------------------------------
\* What a label means, from the trades and not from the passes over them.

\* Visible trades against the order in its window, up to the n-th trade.
Against(trades, side, entry, from, to, n) ==
  {m \in EntryTrades(trades, from, to) : m <= n /\ Contra(side, entry, trades[m])}

Volume(trades, S) == MapThenSumSet(LAMBDA m : trades[m].size, S)

Reaches(trades, side, entry, queue, size, S) ==
  \/ \E m \in S : Through(side, entry, trades[m])
  \/ Volume(trades, S) >= queue + size

\* The order is full with the first trade behind which the queue and the order
\* itself have been traded at its price, or one trade went through it; a smaller
\* order is never filled later, and nothing is filled that was not traded.
FillHonest(market, d, side, entry, sizes) ==
  LET trades == Ordered(market.trades)
      order == Activation(market, side, entry, d + Latency)
      Mine(n) == Against(trades, side, entry, order.at, d + Ttl, n)
      Fill(size) == Label(market, d, side, entry, size)
  IN \A size \in sizes :
       Fill(size) # None /\ order.queue # None =>
         /\ Fill(size).full =
              FirstOf({n \in DOMAIN trades : n \in Mine(n)
                          /\ Reaches(trades, side, entry, order.queue, size, Mine(n))})
         /\ Fill(size).status = "PARTIAL_FILL" =>
              Fill(size).filled = Volume(trades, Mine(Len(trades))) - order.queue
         /\ \A less \in sizes :
              less < size /\ Fill(less) # None /\ Fill(size).full # None =>
                Fill(less).full # None /\ Fill(less).full <= Fill(size).full

\* An outcome is decided by the visible trades behind the fill alone: TP_FIRST and
\* SL_FIRST name the first of them at a barrier, within the horizon, and no trade
\* of the same key is at the other one; TIMEOUT means that none is at a barrier, and
\* AMBIGUOUS that keys leave the order open: of the two barriers, of a barrier and
\* the fill (the code leaves that case to the order of the file, TiesAreAmbiguous), or
\* the fill itself went through the stop.
OutcomeHonest(market, d, side, entry, size) ==
  LET trades == Ordered(market.trades)
      row == Label(market, d, side, entry, size)
      Touch(n) == AtTarget(side, entry, trades[n]) \/ AtStop(side, entry, trades[n])
      future == {n \in DOMAIN trades : n > row.full /\ trades[n].visible
                                       /\ trades[n].at <= trades[row.full].at + Horizon}
      hits == {n \in future : Touch(n)}
  IN row # None /\ row.status = "FULL_FILL" =>
       /\ row.hit # None =>
            /\ row.hit \in hits /\ \A n \in hits : row.hit <= n
            /\ row.outcome = IF AtTarget(side, entry, trades[row.hit]) THEN "TP_FIRST" ELSE "SL_FIRST"
            /\ \A n \in hits : Tied(trades[n], trades[row.hit]) =>
                 (AtTarget(side, entry, trades[n]) <=> AtTarget(side, entry, trades[row.hit]))
       /\ row.outcome = "TIMEOUT" => hits = {}
       /\ row.outcome = "AMBIGUOUS" =>
            \/ AtStop(side, entry, trades[row.full])
            \/ \E n \in hits : Tied(trades[n], trades[row.full])
            \/ \E n, m \in hits : Tied(trades[n], trades[m]) /\ AtStop(side, entry, trades[n])
                                  /\ AtTarget(side, entry, trades[m])

\* From activation to the end of its position a filled order lives in one WebSocket
\* session without a gap, though the two windows are checked one by one.
LabelInOneSession(market, d, side, entry, size) ==
  LET row == Label(market, d, side, entry, size)
      to == Ordered(market.trades)[row.full].at + Horizon
      end == IF to > d + Ttl THEN to ELSE d + Ttl
      mine == {n \in DOMAIN market.books : market.books[n].at \in row.activation .. end}
  IN row # None /\ row.full # None =>
       \A n, m \in mine : market.books[n].session = market.books[m].session

LabelHonest(market, d, side, entry, sizes) ==
  /\ FillHonest(market, d, side, entry, sizes)
  /\ \A size \in sizes :
       /\ OutcomeHonest(market, d, side, entry, size)
       /\ LabelInOneSession(market, d, side, entry, size)

\* EXECUTION_RESEARCH.md: where the exact order cannot be proved, the row is AMBIGUOUS;
\* so no row names as its hit a trade that might have come before the fill.
TiesAreAmbiguous(market, d, side, entry, size) ==
  LET trades == Ordered(market.trades)
      row == Label(market, d, side, entry, size)
  IN row # None /\ row.hit # None => ~Tied(trades[row.hit], trades[row.full])
=============================================================================
