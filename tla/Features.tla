------------------------------ MODULE Features ------------------------------
(* Feature rows and market labels: research/builder.py, and the day by day build of
   research/execution_builder.py.  A market is what one symbol's streams recorded:
   books in the order of their receipt, receive times of tickers, candles with
   start and receive time, trades.  A feature row is the record of what it is
   computed from; how, does not matter here. *)
EXTENDS ExecutionLabels

CONSTANTS
  DayTicks,
  DecisionInterval, DecisionOffset,
  HistoryMinutes,      \* kline_history_minutes
  BookAge, TickerAge,  \* max_orderbook_age_ms, max_ticker_age_ms
  InterestLags,        \* the 5 and 15 minutes of the open interest changes
  TradeWindows,        \* TRADE_WINDOWS_SECONDS
  Delay                \* from the exchange's time stamp to receipt

ASSUME FeaturesAssumption ==
  /\ {DayTicks, DecisionInterval} \subseteq Nat \ {0}
  /\ DecisionOffset \in 0 .. DecisionInterval - 1
  /\ {HistoryMinutes, BookAge, TickerAge, Delay} \cup InterestLags \cup TradeWindows \subseteq Nat
  /\ (HistoryMinutes + 1) * MinuteTicks + Gap + Delay <= DayTicks
  /\ \A span \in {BookAge, TickerAge} \cup TradeWindows : span + Delay <= DayTicks

\* _TickerSeries._position, and the same search of the other series.
NewestBy(times, d) ==
  LET known == {t \in times : t <= d} IN IF known = {} THEN None ELSE Max(known)

Fresh(t, d, age) == t # None /\ d - t <= age

Received(rows) == {rows[n].at : n \in DOMAIN rows}

BookFeatures(market, d) == NewestBy(Received(market.books), d)

\* How old the earlier ticker is, does not matter.
TickerFeatures(market, d) ==
  [now |-> NewestBy(market.tickers, d),
   earlier |-> [lag \in InterestLags |-> NewestBy(market.tickers, d - lag)]]

\* The last closed candle and those before it.
History(d) == (d \div MinuteTicks) - 1 - HistoryMinutes .. (d \div MinuteTicks) - 1

CandleFeatures(market, d) == {c \in market.candles : c.start \in History(d)}

HistoryKnown(market, d) ==
  /\ {c.start : c \in CandleFeatures(market, d)} = History(d)
  /\ \A c \in CandleFeatures(market, d) : c.at <= d

TradeFeatures(market, d) ==
  [w \in TradeWindows |-> {t \in Range(market.trades) : d - w <= t.at /\ t.at <= d}]

\* _build_symbol for one decision: the row, or None for a decision that is skipped.
FeatureRow(market, d) ==
  IF /\ Fresh(BookFeatures(market, d), d, BookAge)
     /\ Fresh(TickerFeatures(market, d).now, d, TickerAge)
     /\ HistoryKnown(market, d)
    THEN [book |-> BookFeatures(market, d), ticker |-> TickerFeatures(market, d),
          candles |-> CandleFeatures(market, d), trades |-> TradeFeatures(market, d)]
    ELSE None

CandleValues == [start : Int, at : Int]
TradeValues == [at : Int, order : Int, price : Int, size : Int, buy : BOOLEAN, visible : BOOLEAN]
FeatureRows ==
  [book : Int, ticker : [now : Int, earlier : [InterestLags -> Int \cup {None}]],
   candles : SUBSET CandleValues, trades : [TradeWindows -> SUBSET TradeValues]]

\* A row is no missing row.
ASSUME RowAssumption == None \notin FeatureRows

Streams(market) == {Received(market.books), market.tickers, Received(market.trades)}

OnGrid(d) == d % DecisionInterval = DecisionOffset

DecisionGrid(market) ==
  {d \in Max({Min(s) : s \in Streams(market)}) .. Min({Max(s) : s \in Streams(market)}) : OnGrid(d)}

\* _add_btc_context: the anchor's row of the same decision, where it has one.
WithContext(market, anchor, d) ==
  [own |-> FeatureRow(market, d),
   btc |-> IF d \in DecisionGrid(anchor) THEN FeatureRow(anchor, d) ELSE None]

-----------------------------------------------------------------------------
\* _label_rows: the market's path after the decision, from the mid price; every public
\* trade counts.

MarketLabel(market, d, side, entry) ==
  LET trades == Ordered(market.trades)
      known == Cardinality({n \in DOMAIN trades : trades[n].at <= d})
      result == BarrierOutcome(trades, side, entry, known, d + Horizon, FALSE)
  IN IF LastReceived(trades) < d + Horizon THEN None
     ELSE [outcome |-> result.outcome,
           hit |-> IF result.hit = None THEN None ELSE trades[result.hit]]

-----------------------------------------------------------------------------
\* _build_execution_symbol: the decisions of a day whose feature window is
\* continuous, from the files of that day and its neighbours (_source_window).

Continuous(market, d) ==
  Covers([books |-> market.books, candles |-> {c.start : c \in market.candles}],
         d - (HistoryMinutes + 1) * MinuteTicks, d)

ExecutionRow(market, d) == IF Continuous(market, d) THEN FeatureRow(market, d) ELSE None

DayOf(t) == t \div DayTicks

\* What was received at the given times.
Within(rows, times) ==
  FoldLeft(LAMBDA kept, r : IF r.at \in times THEN Append(kept, r) ELSE kept, <<>>, rows)

Part(market, times) ==
  [books |-> Within(market.books, times), tickers |-> market.tickers \cap times,
   candles |-> {c \in market.candles : c.at \in times}, trades |-> Within(market.trades, times)]

LastTime(market) == Max({c.at : c \in market.candles} \cup UNION Streams(market))

Days(first, last) == first * DayTicks + Delay .. (last + 1) * DayTicks + Delay - 1

\* A window that begins with the day.
FromOwnDay(market, day) == Part(market, Days(day, day + 1))

\* Files are by the exchange's date.
SourceWindow(market, day) == Part(market, Days(day - 1, day + 1))

\* A window without rows of a stream ends the build.
Buildable(market) == {} \notin Streams(market)

DayDecisions(market, day) == {d \in DecisionGrid(market) : DayOf(d) = day}

-----------------------------------------------------------------------------

KnownAt(market, d) == Part(market, 0 .. d)
BehindOnly(market, d) == Part(market, d + 1 .. LastTime(market))

\* A row is what it would have been had the recording ended with its decision, for
\* the symbol and for the anchor: nothing received later changes it.
RowsCausal(market, anchor) ==
  \A d \in DecisionGrid(market) :
     /\ FeatureRow(market, d) = FeatureRow(KnownAt(market, d), d)
     /\ WithContext(market, anchor, d).btc # None =>
           WithContext(market, anchor, d).btc = FeatureRow(KnownAt(anchor, d), d)

\* A label is what it would be had the recording begun behind its decision: no
\* trade counts in a row and in its label.
LabelsLookAhead(market, entry) ==
  \A d \in DecisionGrid(market), side \in {"LONG", "SHORT"} :
     LET label == MarketLabel(market, d, side, entry)
     IN label # None => label = MarketLabel(BehindOnly(market, d), d, side, entry)

\* Nothing in a window tells that it reached the decision: no trade yet, or a stream
\* that is silent from the decision on.
Silent(window, d) ==
  \/ \A t \in Received(window.trades) : d < t
  \/ \E s \in Streams(window) : \A t \in s : t < d

\* The row of one decision, where the series of a market reach it.
RowOfDay(market, day, d) ==
  IF d \in DayDecisions(market, day) THEN ExecutionRow(market, d) ELSE None

\* The rows agree, but for an open interest change whose earlier ticker is older.
SameRow(row, whole) ==
  /\ row = None <=> whole = None
  /\ row # None =>
       /\ [row EXCEPT !.ticker.earlier = None] = [whole EXCEPT !.ticker.earlier = None]
       /\ \A lag \in InterestLags : row.ticker.earlier[lag] \in {None, whole.ticker.earlier[lag]}

\* From three days of files a day gets the rows it would get from all files, and no
\* other; a row is only lost where the three days hold no trade up to its decision or
\* end a stream before it, while the rest of the recording goes on.
DayByDay(market, day) ==
  LET window == SourceWindow(market, day) IN
  Buildable(window) =>
    /\ DayDecisions(window, day) \subseteq DayDecisions(market, day)
    /\ \A d \in DayDecisions(market, day) :
         \/ SameRow(RowOfDay(window, day, d), RowOfDay(market, day, d))
         \/ d \notin DayDecisions(window, day) /\ Silent(window, d)

FeaturesHonest(market, anchor, day, entry) ==
  RowsCausal(market, anchor) /\ LabelsLookAhead(market, entry) /\ DayByDay(market, day)
=============================================================================
