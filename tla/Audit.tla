------------------------------- MODULE Audit -------------------------------
(* audit_dataset and the archive acceptance (data/audit.py, data/quality.py): one
   pass over the completed files in the order of their paths, which counts what is
   wrong.  The streams of one symbol, one kind each; a candle's start counts its
   intervals.  A file has kind and date of its path and its lines; a line that is
   no valid record has kind "broken".  Issues are kept by code. *)
EXTENDS NoValue, Integers, SequencesExt

CONSTANT
  ExpectedKinds  \* streams the audit must find

AllowedWarnings == {"kline_gap"}

IsCandle(r) == r.kind = "kline"

NoFindings ==
  [errors |-> {}, warnings |-> {}, received |-> <<>>, trades |-> {}, books |-> {},
   klines |-> {}, position |-> None, missing |-> 0]

Error(acc, code) == [acc EXCEPT !.errors = @ \cup {code}]
Warning(acc, code) == [acc EXCEPT !.warnings = @ \cup {code}]
ErrorIf(acc, wrong, code) == IF wrong THEN Error(acc, code) ELSE acc

\* _MutableStream.observe_time: in receive order within the stream.
Causal(acc, r) ==
  \/ r.kind \notin DOMAIN acc.received
  \/ r.received >= acc.received[r.kind]

ObserveTime(acc, r) ==
  IF Causal(acc, r)
    THEN [acc EXCEPT !.received = [k \in DOMAIN @ \cup {r.kind} |->
                                     IF k = r.kind THEN r.received ELSE @[k]]]
    ELSE Warning(acc, "causal_order_regression")

PathMatches(acc, r, file) ==
  ErrorIf(ErrorIf(acc, r.kind # file.kind, "path_stream_mismatch"),
          r.date # file.date, "partition_date_mismatch")

NotBehind(last, r) == r.sequence >= last.sequence

\* The sequence must grow within a session.
Advances(last, r) == r.sequence > last.sequence

BookLine(acc, r, causal) ==
  LET previous == {b \in acc.books : b.session = r.session}
  IN IF ~causal THEN acc
     ELSE ErrorIf([acc EXCEPT !.books = (@ \ previous) \cup {r}],
                  \E b \in previous : ~Advances(b, r), "orderbook_sequence_regression")

TradesLine(acc, r) ==
  LET ids == {r.ids[n] : n \in DOMAIN r.ids}
      again == ids \cap acc.trades # {} \/ Cardinality(ids) < Len(r.ids)
  IN ErrorIf([acc EXCEPT !.trades = @ \cup ids], again, "duplicate_trade_id")

SameStart(klines, r) == {k \in klines : k.start = r.start}

Ambiguous(klines, r) ==
  \E k \in SameStart(klines, r) : k.received = r.received /\ k.payload # r.payload

\* The revision received last is the one later revisions are compared with.
KeepLatest(klines, r) ==
  IF SameStart(klines, r) = {} THEN klines \cup {r}
  ELSE {IF k.start = r.start /\ r.received > k.received THEN r ELSE k : k \in klines}

Skipped(acc, r) == r.start - acc.position.start - 1

Position(acc, r, causal) ==
  IF ~causal THEN acc
  ELSE IF acc.position = None THEN [acc EXCEPT !.position = r]
  ELSE IF r.received < acc.position.received THEN acc
  ELSE IF r.start < acc.position.start THEN Error(acc, "kline_start_regression")
  ELSE LET moved == [acc EXCEPT !.position = r]
       IN IF Skipped(acc, r) > 0
            THEN Warning([moved EXCEPT !.missing = @ + Skipped(acc, r)], "kline_gap")
            ELSE moved

CandleLine(acc, r, causal) ==
  Position([ErrorIf(acc, Ambiguous(acc.klines, r), "ambiguous_kline_revision")
              EXCEPT !.klines = KeepLatest(@, r)], r, causal)

\* _AuditState.process_record.
Line(acc, r, file) ==
  IF r.kind = "broken" THEN Error(acc, "invalid_json")
  ELSE LET causal == Causal(acc, r)
           timed == PathMatches(ObserveTime(acc, r), r, file)
       IN CASE r.kind = "orderbook" -> BookLine(timed, r, causal)
            [] r.kind = "trades" -> TradesLine(timed, r)
            [] r.kind = "kline" -> CandleLine(timed, r, causal)
            [] OTHER -> timed

AuditFile(acc, file) ==
  LET read == FoldLeft(LAMBDA a, r : Line(a, r, file), acc, file.lines)
      seen == ErrorIf(read, file.lines = <<>>, "empty_file")
  IN IF file.recovered THEN Warning(seen, "recovered_segments_present") ELSE seen

Findings(files) == FoldLeft(AuditFile, NoFindings, files)

Records(files) == FlattenSeq([i \in DOMAIN files |-> files[i].lines])

Missing(files) == ExpectedKinds \ {r.kind : r \in Range(Records(files))}

Tolerated(warnings) == warnings \subseteq AllowedWarnings

\* assess_archive_payload: no errors, every stream there, and only gaps of candles.
Accepted(files) ==
  LET found == Findings(files) IN
  /\ files # <<>> /\ found.errors = {} /\ Missing(files) = {} /\ Tolerated(found.warnings)

-----------------------------------------------------------------------------
\* What acceptance means, from the records and not from the pass over them.

Earlier(s, Rel(_, _)) == \A n \in DOMAIN s : \A m \in 1 .. n - 1 : Rel(s[m], s[n])

InReceiveOrder(s) == Earlier(s, LAMBDA a, b : a.kind = b.kind => a.received <= b.received)

BooksAdvance(s) ==
  Earlier(s, LAMBDA a, b : a.kind = "orderbook" /\ b.kind = "orderbook" /\ a.session = b.session
                              => a.sequence < b.sequence)

TradesUnique(s) ==
  LET Ids(r) == IF r.kind = "trades" THEN r.ids ELSE <<>>
  IN IsInjective(FlattenSeq([n \in DOMAIN s |-> Ids(s[n])]))

RevisionsClear(s) ==
  Earlier(s, LAMBDA a, b : IsCandle(a) /\ IsCandle(b) /\ a.start = b.start
                             => a.received < b.received \/ a.payload = b.payload)

\* An accepted audit means: every record lies in the partition of its date, in
\* receive order; books advance within their session; no trade is there twice,
\* over all files; no candle has two last revisions; and the number of missing
\* candles is exactly that of the intervals without one (audit_dataset).
AcceptanceMeans(files) ==
  LET s == Records(files)
      starts == {r.start : r \in {c \in Range(s) : IsCandle(c)}}
  IN Accepted(files) =>
       /\ \A i \in DOMAIN files : \A r \in Range(files[i].lines) :
             r.kind = files[i].kind /\ r.date = files[i].date
       /\ InReceiveOrder(s) /\ BooksAdvance(s) /\ TradesUnique(s) /\ RevisionsClear(s)
       /\ starts # {} =>
             Findings(files).missing = Cardinality((Min(starts) .. Max(starts)) \ starts)
=============================================================================
