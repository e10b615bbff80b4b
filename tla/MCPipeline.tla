---------------------------- MODULE MCPipeline ----------------------------
(* The data and research side on small instances.  Its systems share nothing but
   finished files, so a behaviour runs one of them, chosen at the start, and leaves
   the others idle.  An algorithm without a state of its own is one step, from an
   input to its result. *)
EXTENDS OrderBook, HistoryImport, Canonical, ResearchArtifacts,
        Features, PriceResearch, TemporalSplits, Backtest, TLC

CONSTANTS
  p1, p2,  \* processes
  v1, v2   \* parameters, contents and prices

VARIABLES
  system,  \* which system runs
  input,   \* of an algorithm: its input
  done     \* the algorithm has answered

pipelineVars == <<system, input, done, vars, importVars, canonicalVars, artifactVars>>

Interchangeable == Permutations({p1, p2}) \cup Permutations({v1, v2})

MCSymbols == <<"BTC", "ETH">>

-----------------------------------------------------------------------------
\* Audits of one file and another of two lines.

Book == [kind : {"orderbook"}, fits : {TRUE}, date : {1}, received : 1 .. 2, session : {"s"}, sequence : 1 .. 2]
TradesMessage == [kind : {"trades"}, fits : BOOLEAN, date : {1}, received : {1}, ids : {<<1>>, <<1, 2>>}]
Candle == [kind : {"kline"}, fits : {TRUE}, date : 1 .. 2, start : {1, 2, 4}, received : 1 .. 2, payload : {"x", "y"}]

SomeRecords ==
  Book \cup {t \in TradesMessage : ~t.fits => t.ids = <<1>>} \cup {k \in Candle : k.date = 2 => k.start = 4}

FileOf(lines) ==
  [kind |-> lines[1].kind, date |-> lines[1].date, lines |-> lines, recovered |-> FALSE]

MCAudits == {<<FileOf(<<r>>), FileOf(<<s, t>>)>> : r, s, t \in SomeRecords}

-----------------------------------------------------------------------------
\* Up to three rows of an archive, before, in and behind its day.

SomeTrades ==
  [at : {0, 1, 2, 5, 6}, id : {1, 2}, price : {1}, size : {1}, side : {"Sell"}]
    \cup [at : {0, 1, 2, 5, 6}, id : {1, 2}, price : {2}, size : {2}, side : {"Buy"}]

\* Two days of three trades: the first of one price, the second with moves.
Tick3(ts, ps) ==
  [n \in 1 .. 3 |-> [at |-> ts[n], price |-> ps[n], size |-> 1, side |-> "Buy", id |-> n]]

Times == {t \in {1, 2, 3, 4} \X {1, 2, 3, 4, 5} \X {3, 4, 5} : t[1] <= t[2] /\ t[2] <= t[3]}

Moves == {<<1, 3, 4>>, <<3, 4, 1>>, <<4, 1, 3>>, <<3, 3, 4>>, <<1, 4, 4>>}

Ranges ==
  {Tick3(t, <<3, 3, 3>>) : t \in Times} \X {Tick3(t, p) : t \in {u \in Times : u[1] \in {1, 2}}, p \in Moves}

-----------------------------------------------------------------------------
\* Orders of one side in a market of five books, the session changing at or behind
\* the last, and up to two trades in or behind the entry window.

Mirrored(side, price) == IF side = "LONG" THEN price ELSE 4 - price

SomeKinds == {<<2, 1, FALSE, TRUE>>, <<2, 2, FALSE, TRUE>>, <<1, 1, FALSE, TRUE>>,
              <<0, 1, FALSE, TRUE>>, <<3, 1, TRUE, TRUE>>, <<0, 1, FALSE, FALSE>>}

OrderTrades(side) ==
  {[at |-> t, order |-> o, price |-> Mirrored(side, k[1]), size |-> k[2],
    buy |-> (k[3] = (side = "LONG")), visible |-> k[4]] :
     t \in {2, 3, 4}, o \in {1, 2}, k \in SomeKinds}

ClosingTrade == [at |-> 8, order |-> 1, price |-> 2, size |-> 1, buy |-> TRUE, visible |-> FALSE]

OrderBooks(side, change) ==
  [n \in 1 .. 5 |-> [at |-> 2 * n - 1, session |-> IF n > change THEN 1 ELSE 0,
                     LONG |-> IF side = "LONG" THEN 2 ELSE 1,
                     SHORT |-> IF side = "LONG" THEN 3 ELSE 2,
                     sizes |-> [p \in 0 .. 4 |-> 1]]]

Order(side, change, trades) ==
  [side |-> side, market |-> [books |-> OrderBooks(side, change), candles |-> 0 .. 3,
                              trades |-> Append(trades, ClosingTrade)]]

-----------------------------------------------------------------------------
\* Three days of a market, with holes, reconnects and late candles around the day
\* that is built; and the anchor's market, which has all.

Books(change) ==
  [n \in 1 .. 18 |-> [at |-> 2 * n - 1, session |-> IF 2 * n - 1 < change THEN 0 ELSE 1]]

SomeBooks ==
  {Books(36), Within(Books(36), (0 .. 36) \ {13}), Books(11),
   Within(Books(36), 9 .. 36), Within(Books(36), (0 .. 36) \ 8 .. 30)}

OnTime(S) == {[start |-> j, at |-> MinuteTicks * (j + 1)] : j \in S}
Late(S) == {[start |-> j, at |-> MinuteTicks * (j + 1) + Gap] : j \in S}

SomeCandles ==
  {OnTime((0 .. 8) \ {2, 3}) \cup x \cup y :
     x \in {{}, OnTime({2}), Late({2})}, y \in {OnTime({3}), Late({3})}}

Traded(t, p) == [at |-> t, order |-> 1, price |-> p, size |-> 1, buy |-> TRUE, visible |-> t # 15]

AllTrades ==
  <<Traded(0, 2), Traded(5, 2), Traded(13, 3), Traded(14, 3), Traded(15, 0), Traded(30, 2)>>

SomeTapes ==
  {Within(AllTrades, {30} \cup T) : T \in {S \in SUBSET {0, 5, 13, 14, 15} : ~{0, 5} \subseteq S}}

Markets ==
  [books : SomeBooks, tickers : {{11}, {0, 13}, {0, 11, 40}, {13, 15, 30}, {0, 11, 13, 15, 30}},
   candles : SomeCandles, trades : SomeTapes]

Anchor ==
  [books |-> Books(36), tickers |-> {3, 12, 17, 20, 30}, candles |-> OnTime(0 .. 8),
   trades |-> <<Traded(5, 2), Traded(30, 2)>>]

-----------------------------------------------------------------------------
\* Rows of up to seven decisions, of which one cannot make a fold, and of twelve,
\* enough for one fold more than are kept; their labels end soon or late.

LabelEnds == [0 .. 6 -> {0, 1, 3}] \cup [0 .. 11 -> {1, 3}]

Labelled(f) ==
  LET D == {d \in DOMAIN f : f[d] # 0}
  IN {[decision |-> d, end |-> d + f[d], class |-> "SL"] : d \in D}
       \cup {[decision |-> d, end |-> d + 1, class |-> "TP"] : d \in D}

\* Groups of candidates for up to five decisions.
Candidate(d, side, expected, status, hit, return) ==
  [decision |-> d, symbol |-> 1, side |-> side, expected |-> expected, status |-> status,
   hit |-> hit, end |-> d + 3, window |-> d + 1, return |-> return]

Groups(d) ==
  <<{}, {Candidate(d, "LONG", 2, "FULL_FILL", d + 1, -1)}, {Candidate(d, "LONG", 2, "FULL_FILL", -1, 1)},
    {Candidate(d, "LONG", 2, "NO_FILL", -1, 1)}, {Candidate(d, "LONG", 0, "FULL_FILL", d + 1, -1)},
    {Candidate(d, "LONG", 2, "PARTIAL_FILL", -1, -1), Candidate(d, "SHORT", 2, "FULL_FILL", d + 2, 1)},
    {Candidate(d, "LONG", 1, "FULL_FILL", d + 1, 1), Candidate(d, "SHORT", 2, "FULL_FILL", d + 1, -1)}>>

Predictions == [{0, 1, 2, 4, 5} -> 1 .. 7]

Predicted(f) == UNION {Groups(d)[f[d]] : d \in DOMAIN f}

-----------------------------------------------------------------------------

Components == {"order_book", "import", "canonical", "artifacts"}

ChooseSystem ==
  \/ system \in Components /\ input = None
  \/ system = "bars" /\ \E n \in 0 .. 3 : input \in [1 .. n -> SomeTrades]
  \/ system = "price" /\ input \in Ranges
  \/ /\ system = "labels"
     /\ \E side \in {"LONG", "SHORT"}, change \in {3, 5}, n \in 0 .. 2 :
          \E trades \in [1 .. n -> OrderTrades(side)] : input = Order(side, change, trades)
  \/ system = "features" /\ input \in Markets
  \/ system = "splits" /\ input \in LabelEnds
  \/ system = "backtest" /\ input \in Predictions

NothingAudited ==
  audited = <<>> /\ intact = <<>> /\ build = [p \in Builders |-> None] /\ dataset = None

PipelineInit ==
  /\ ChooseSystem /\ done = FALSE
  /\ system # "order_book" => past = <<[p \in Prices |-> 0]>>
  /\ Init /\ ImportInit /\ ArtifactsInit
  /\ IF system = "canonical" THEN CanonicalInit ELSE NothingAudited

Answered ==
  /\ system \notin Components /\ ~done /\ done' = TRUE
  /\ UNCHANGED <<system, input, vars, importVars, canonicalVars, artifactVars>>

BookStep ==
  /\ system = "order_book" /\ Next
  /\ UNCHANGED <<system, input, done, importVars, canonicalVars, artifactVars>>

HistoryStep ==
  /\ system = "import" /\ ImportNext
  /\ UNCHANGED <<system, input, done, vars, canonicalVars, artifactVars>>

CanonicalStep ==
  /\ system = "canonical" /\ CanonicalNext
  /\ UNCHANGED <<system, input, done, vars, importVars, artifactVars>>

ArtifactsStep ==
  /\ system = "artifacts" /\ ArtifactsNext
  /\ UNCHANGED <<system, input, done, vars, importVars, canonicalVars>>

PipelineNext == Answered \/ BookStep \/ HistoryStep \/ CanonicalStep \/ ArtifactsStep

PipelineSpec == PipelineInit /\ [][PipelineNext]_pipelineVars

Result(name) == done /\ system = name

-----------------------------------------------------------------------------
\* Types of the order book and its connection; a level that is kept has a size.
BookTypeOK == system = "order_book" => TypeOK

\* An accepted audit means what acceptance promises, and can be built unless a field
\* that the audit never looks at has another type: of what both judge, the revisions
\* of candles, the build refuses nothing that the audit accepts
\* (assess_archive_payload, audit_dataset, _CanonicalKlines.observe).
AcceptanceHonest ==
  system = "canonical" /\ (\A p \in Builders : build[p] = None) => AcceptanceMeans(audited) /\ AcceptedBuilds(audited)

\* An import takes exactly the archives that are in order, unique and without a long
\* gap, and its bars are those of their trades, at every boundary of a second, a
\* minute and the day (_process_archive); and the rows and labels that are built of
\* imported days say of the trades what they seem to, with nothing known too early,
\* for any split of the range into days (price_history_builder.py).
BarsFaithful ==
  /\ Result("bars") => ImportFaithful(input, Import(input))
  /\ Result("price") => PriceHonest(input)

\* A label tells what the trades tell: when the queue and the order were filled, and
\* what was touched first behind the fill, in one session (_execution_label_rows).
LabelsHonest == Result("labels") => LabelHonest(input.market, 0, input.side, 2, {1, 2})

\* A row whose order of trades cannot be proved is AMBIGUOUS
\* (docs/EXECUTION_RESEARCH.md); the code asks it of the two barriers only, and takes
\* a trade with every key of the fill's for one behind it (barrier_outcome).
AmbiguousWhereTied ==
  Result("labels") => \A size \in {1, 2} : TiesAreAmbiguous(input.market, 0, input.side, 2, size)

\* Nothing received behind a decision enters its features or the anchor's, nothing
\* before it enters its label, and a build day by day gives the rows of a build of
\* everything but those whose decision its three days do not reach (_build_symbol,
\* _label_rows, _source_window).
FeaturesCausal == Result("features") => FeaturesHonest(input, Anchor, 1, 2)

\* No row that a model learns from had a label that was not yet known, with the
\* embargo, when the first row it is judged by was decided, for the folds and for
\* the calibration in each (build_temporal_folds, build_calibration_split).
NothingLeaks == Result("splits") => Purged(Labelled(input), Splits(Labelled(input)))

\* The report of a backtest can be told from its rows: one position at a time, the
\* loss of the 24 hours before, the best candidate, and a true reason for every
\* decision that was passed over (run_execution_one_position_backtest).
BacktestTrue == Result("backtest") => BacktestHonest(Predicted(input))
=============================================================================
