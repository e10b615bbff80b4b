---------------------------- MODULE MarketWindow ----------------------------
(* The causal market window of shadow/live.py for one symbol: the order-book
   rows of the current WebSocket session, the newest receive time, and what the
   window can say about a decision (features) and about its outcome (label).
   Time is counted in ticks.  A row is a receive time and the session it came
   over; prices and volumes are left out, so whatever depends on them is a
   choice between the outcomes the code can produce. *)
EXTENDS Integers

CONSTANTS
  None,             \* "no value": no session, no receive time, no candidate
  Gap,              \* maximum_continuity_gap_ms
  Retention,        \* retention_minutes of the window
  Warmup,           \* kline_history_minutes + 1
  Latency,          \* submission_latency_ms
  ActivationDelay,  \* activation_max_delay_ms
  Ttl,              \* entry_ttl_seconds
  Horizon           \* position_horizons_minutes[0]

\* ExecutionResearchParameters.validate and LiveMarketWindow.__init__ reject
\* other values: an order is activated, or not, before its time to live is over.
\* None is no receive time and no session.
ASSUME WindowAssumption ==
  /\ {Gap, Retention, Warmup, ActivationDelay, Ttl, Horizon} \subseteq Nat \ {0}
  /\ Latency \in Nat /\ Latency + ActivationDelay < Ttl
  /\ None \notin Int

VARIABLES
  session,  \* current_session_id
  rows,     \* _rows[symbol]["orderbook"]: records [at, session]
  latest    \* latest_received_at_ns

windowVars == <<session, rows, latest>>

WindowInit == session = None /\ rows = {} /\ latest = None

-----------------------------------------------------------------------------
(* Receiving a record.  `book` rows feed the coverage checks; `other` stands
   for the tickers, trades and one-minute klines, which move the newest receive
   time only; `bar` for the five and fifteen minute klines, which are dropped
   once the session change they carry has been noticed. *)
Kinds == {"book", "other", "bar"}

Transition(sid) == session # None /\ session # sid

Newer(t) == IF latest = None \/ latest < t THEN t ELSE latest

Trim(kept, cutoff) == {r \in kept : r.at >= cutoff}

\* A window that forgets to clear itself when the session changes.
KeepAll(sid) == rows

Surviving(sid) == IF Transition(sid) THEN {} ELSE rows

WindowAccept(kind, sid, t) ==
  /\ session' = sid
  /\ IF kind = "bar"
     THEN /\ rows' = Surviving(sid)
          /\ latest' = IF Transition(sid) THEN None ELSE latest
     ELSE LET newest == IF Transition(sid) THEN t ELSE Newer(t)
              new    == IF kind = "book" THEN {[at |-> t, session |-> sid]} ELSE {}
          IN  /\ latest' = newest
              /\ rows' = Trim(Surviving(sid) \cup new, newest - Retention)

-----------------------------------------------------------------------------
\* _OrderBookSeries.has_continuous_coverage: a row at most Gap before each end
\* of the closed interval, no two neighbouring rows further apart, one session.
Before(t) == {r \in rows : r.at <= t}

Neighbours(a, b) == a.at < b.at /\ \A r \in rows : r.at <= a.at \/ r.at >= b.at

\* The rows the interval is judged by: its own and the last one before it.
Observed(start, end) ==
  {r \in Before(end) : \A o \in Before(start) : o.at <= r.at}

ContinuousCoverage(start, end) ==
  /\ start <= end
  /\ \A t \in {start, end} : \E r \in Before(t) : t - r.at <= Gap
  /\ \A a, b \in Observed(start, end) :
       /\ Neighbours(a, b) => b.at - a.at <= Gap
       /\ a.session = b.session

\* Features from whatever rows there are.
NoWarmup(d) == rows # {}

\* features_at: a symbol has features for decision d only if the books cover
\* the warm-up.  The ticker, kline and BTC checks may still drop it.
FeaturesPossible(d) == ContinuousCoverage(d - Warmup, d)

\* _activation_snapshot: the first book at or after submission, if soon enough.
Activations(d) ==
  LET submitted == d + Latency
      later == {r \in rows : r.at >= submitted}
  IN  {r.at : r \in {x \in later : /\ \A o \in later : x.at <= o.at
                                   /\ x.at - submitted <= ActivationDelay}}

(* _execution_label_rows for decision d: the statuses a row may carry.  A
   PostOnly order that would cross at activation is a NO_FILL whatever follows;
   any other order needs the entry window covered, and a full fill the whole
   position after it. *)
Scenarios(d) ==
  UNION {{"NO_FILL"} \cup
         IF ~ContinuousCoverage(a, d + Ttl) THEN {}
         ELSE {"PARTIAL_FILL"} \cup
              IF \E f \in a..(d + Ttl) : ContinuousCoverage(f, f + Horizon)
              THEN {"FULL_FILL", "AMBIGUOUS"} ELSE {} : a \in Activations(d)}

\* execution_label: trades, tickers or klines may be missing, and then there is
\* no label, or no row for the decision's scenario.
Labels(d) == {"unavailable"} \cup Scenarios(d)
=============================================================================
