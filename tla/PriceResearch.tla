--------------------------- MODULE PriceResearch ---------------------------
(* research/price_history_builder.py: features and labels of a range of imported
   days, from the bars of TradeBars.  A day reads the minutes of itself and the day
   before, and the seconds of both its neighbours.  Time counts seconds from the
   start of the first day. *)
EXTENDS TradeBars, ExecutionLabels

CONSTANTS
  PriceInterval, PriceOffset,  \* decision_interval_seconds, decision_offset_seconds
  PriceHistory,                \* kline_history_minutes
  TradeAge,                    \* maximum_trade_age_ms
  PriceHorizon                 \* horizon_minutes

ASSUME PriceAssumption ==
  /\ {PriceInterval, PriceHorizon} \subseteq Nat \ {0} /\ PriceOffset \in 0 .. PriceInterval - 1
  /\ {PriceHistory, TradeAge} \subseteq Nat
  /\ DaySeconds % PriceInterval = 0
  /\ PriceHorizon + AssumedLatency + 1 <= DaySeconds
  /\ (PriceHistory + 1) * SecondsPerMinute <= DaySeconds

\* _load_history_selection: consecutive days, each imported and validated.
Selectable(days) == days # <<>> /\ \A k \in DOMAIN days : Import(days[k]).ok

\* Bars of the k-th day, on the clock of the whole range.
DayBars(days, k, i) ==
  LET result == Import(days[k])
      bars == IF i = 1 THEN result.seconds ELSE result.minutes
  IN {[bars[n] EXCEPT !.start = @ + (k - 1) * (DaySeconds \div i)] : n \in DOMAIN bars}

\* _load_symbol_series: bars are found by their start, in whichever file they are.
Minutes(days, k) == UNION {DayBars(days, j, SecondsPerMinute) : j \in k - 1 .. k \cap DOMAIN days}
Seconds(days, k) == UNION {DayBars(days, j, 1) : j \in k - 1 .. k + 1 \cap DOMAIN days}

\* Second bars available after `from`, not after `to`.
Between(bars, from, to) == {b \in bars : from < AvailableAt(b, 1) /\ AvailableAt(b, 1) <= to}

Earliest(bars) == CHOOSE b \in bars : \A c \in bars : b.start <= c.start
Latest(bars) == CHOOSE b \in bars : \A c \in bars : c.start <= b.start

-----------------------------------------------------------------------------
\* _MinuteSeries.features_at and _SecondSeries.features_at: the bars used, or None.

MinuteFeatures(bars, d) ==
  LET last == d \div SecondsPerMinute - 1
      expected == last - PriceHistory .. last
      used == {b \in bars : b.start \in expected}
  IN IF {b.start : b \in used} = expected /\ \A b \in used : AvailableAt(b, SecondsPerMinute) <= d
       THEN used ELSE None

SecondFeatures(bars, d) ==
  LET used == Between(bars, -1, d)
  IN IF used = {} THEN None
     ELSE IF d - AvailableAt(Latest(used), 1) > TradeAge THEN None ELSE used

\* _build_symbol_day
PriceRow(days, k, d) ==
  LET minutes == MinuteFeatures(Minutes(days, k), d)
      seconds == SecondFeatures(Seconds(days, k), d)
  IN IF minutes = None \/ seconds = None THEN None
     ELSE [minutes |-> minutes, seconds |-> seconds, price |-> Latest(seconds).close]

PriceDecisions(k) ==
  {(k - 1) * DaySeconds + PriceOffset + n * PriceInterval : n \in 0 .. DaySeconds \div PriceInterval - 1}

PriceRows(days, k) ==
  {r \in {[decision |-> d, row |-> PriceRow(days, k, d)] : d \in PriceDecisions(k)} : r.row # None}

-----------------------------------------------------------------------------
\* _SecondSeries.barrier_outcome: the first bar with a touch decides.

BarAtTarget(side, entry, b) ==
  Worth(side, IF side = "LONG" THEN b.high ELSE b.low) >= Worth(side, entry) + TakeProfit
BarAtStop(side, entry, b) ==
  Worth(side, IF side = "LONG" THEN b.low ELSE b.high) <= Worth(side, entry) - Stop

PriceOutcome(future, side, entry) ==
  LET hits == {b \in future : BarAtTarget(side, entry, b) \/ BarAtStop(side, entry, b)}
  IN IF hits = {} THEN "TIMEOUT"
     ELSE IF ~BarAtStop(side, entry, Earliest(hits)) THEN "TP_FIRST"
     ELSE IF ~BarAtTarget(side, entry, Earliest(hits)) THEN "SL_FIRST"
     ELSE "AMBIGUOUS"

\* _label_rows: None for a horizon that passes the end of the range.
PriceLabel(days, k, d, side, entry) ==
  IF d + PriceHorizon > Len(days) * DaySeconds THEN None
  ELSE PriceOutcome(Between(Seconds(days, k), d, d + PriceHorizon), side, entry)

-----------------------------------------------------------------------------
\* The trades themselves, on the clock of the range.
Tape(days) ==
  UNION {{[day |-> k, place |-> n, at |-> days[k][n].at + (k - 1) * DaySeconds, price |-> days[k][n].price] :
            n \in DOMAIN days[k]} : k \in DOMAIN days}

Succeeds(t, u) == u.day < t.day \/ (u.day = t.day /\ u.place <= t.place)

\* A trade is known when its second is over and the latency has passed.
KnownFrom(t) == t.at + 1 + AssumedLatency

\* Of the trades that are known behind the decision and within the horizon, the first
\* at a barrier gives the outcome, for any split of the range into days; a second with
\* both barriers in it is AMBIGUOUS.
OutcomeOfTape(days, d, side, entry, outcome) ==
  LET future == {t \in Tape(days) : d < KnownFrom(t) /\ KnownFrom(t) <= d + PriceHorizon}
      hits == {t \in future : AtTarget(side, entry, t) \/ AtStop(side, entry, t)}
      first == {t \in hits : \A u \in hits : t.at <= u.at}
      target == \E t \in first : AtTarget(side, entry, t)
      stop == \E t \in first : AtStop(side, entry, t)
  IN /\ outcome = "TIMEOUT" <=> hits = {}
     /\ outcome = "AMBIGUOUS" <=> target /\ stop
     /\ outcome = "TP_FIRST" <=> target /\ ~stop

\* A row's bars hold the trades executed before the decision, with no minute left out,
\* and its price is that of the last trade known at the decision, which is not too old.
RowOfTape(days, d, row) ==
  LET known == {t \in Tape(days) : KnownFrom(t) <= d}
      last == d \div SecondsPerMinute - 1
  IN /\ \E t \in known : /\ row.price = t.price /\ d - KnownFrom(t) <= TradeAge
                        /\ \A u \in known : Succeeds(t, u)
     /\ {b.start : b \in row.minutes} = last - PriceHistory .. last
     /\ \A b \in row.minutes :
           /\ (b.start + 1) * SecondsPerMinute <= d
           /\ b.trades = Cardinality({t \in known : t.at \div SecondsPerMinute = b.start})

PriceHonest(days) ==
  Selectable(days) =>
    \A k \in DOMAIN days : \A r \in PriceRows(days, k) :
       /\ RowOfTape(days, r.decision, r.row)
       /\ \A side \in {"LONG", "SHORT"} :
             \A label \in {PriceLabel(days, k, r.decision, side, r.row.price)} \ {None} :
                OutcomeOfTape(days, r.decision, side, r.row.price, label)
=============================================================================
