----------------------------- MODULE Canonical -----------------------------
(* build_canonical_dataset of data/canonical.py: the files of an accepted audit
   become partitions of Parquet parts; of a candle only the revision received
   last stays; the dataset appears by one rename.  Several builds of one audit may
   run, each may be killed, and raw files may change after the audit.  The rows are
   those of one symbol; a row is the record's fields that decide where it goes, and
   `fits`: what the audit does not look at has the types of its columns. *)
EXTENDS Audit

CONSTANTS
  Audits,   \* inputs: the files that audits list
  Builders  \* processes that build

Partition(row) == <<row.kind, row.date>>

IsSequence(s) == s \in Seq(Range(s))

\* Files and trades messages are sequences; what is valid has times and numbers.
ASSUME CanonicalAssumption ==
  \A files \in Audits :
     /\ IsSequence(files)
     /\ \A f \in Range(files) :
          /\ IsSequence(f.lines)
          /\ \A r \in Range(f.lines) :
               /\ r # None /\ Partition(r) # None /\ r.fits \in BOOLEAN
               /\ r.kind # "broken" => r.received \in Int
               /\ r.kind = "trades" => IsSequence(r.ids)
               /\ r.kind = "orderbook" => r.sequence \in Int
               /\ IsCandle(r) => r.start \in Int

VARIABLES
  audited,  \* the audit report the builds were given
  intact,   \* of each listed file: its SHA-256 is still the audit's
  build,    \* of each builder: None or its work in the staging directory
  dataset   \* None or the published files

canonicalVars == <<audited, intact, build, dataset>>

-----------------------------------------------------------------------------
\* _CanonicalKlines: candles by start; observe() keeps the latest or refuses.

ReceivedLater(k, r) == r.received > k.received

ObserveCandle(klines, r) ==
  IF SameStart(klines, r) = {} THEN klines \cup {r}
  ELSE {IF k.start = r.start /\ ReceivedLater(k, r) THEN r ELSE k : k \in klines}

CandleRows(klines) ==
  [n \in 1 .. Cardinality(klines) |->
     CHOOSE k \in klines : Cardinality({j \in klines : j.start < k.start}) = n - 1]

-----------------------------------------------------------------------------
\* _ParquetSink: a part per run of rows of one partition.

EmptySink == [key |-> None, part |-> 0, files |-> {}]

File(sink, key, part) == {f \in sink.files : f.key = key /\ f.part = part}

NextPart(sink, key) == Cardinality({f \in sink.files : f.key = key})

\* Opening a part truncates a file of that name.
OpenPartition(sink, key) ==
  LET n == NextPart(sink, key) IN
  [key |-> key, part |-> n,
   files |-> (sink.files \ File(sink, key, n)) \cup {[key |-> key, part |-> n, rows |-> <<>>]}]

AddRow(sink, row) ==
  LET open == IF sink.key = Partition(row) THEN sink ELSE OpenPartition(sink, Partition(row))
      Written(f) == IF f.key = open.key /\ f.part = open.part
                      THEN [f EXCEPT !.rows = Append(@, row)] ELSE f
  IN [open EXCEPT !.files = {Written(f) : f \in @}]

\* A trades message gives a row per trade, a ticker or book message one.
RowsOf(r) ==
  IF r.kind = "trades" THEN [n \in DOMAIN r.ids |-> r] ELSE <<r>>

-----------------------------------------------------------------------------

EmptyBuild == [next |-> 1, failed |-> FALSE, klines |-> {}, sink |-> EmptySink, ready |-> FALSE]

CanonicalInit ==
  /\ audited \in Audits /\ intact = [i \in DOMAIN audited |-> TRUE]
  /\ build = [b \in Builders |-> None] /\ dataset = None

SetBuild(b, work) == build' = [build EXCEPT ![b] = work]

\* load_audit_input_manifest takes accepted audits only; an existing dataset is
\* validated and reused.
StartBuild(b) ==
  /\ build[b] = None /\ dataset = None /\ Accepted(audited) /\ SetBuild(b, EmptyBuild)
  /\ UNCHANGED <<audited, intact, dataset>>

\* _orderbook_row, _ticker_row, _trade_rows, _kline_row convert a record or refuse it.
Keep(work, r) ==
  LET refused == work.failed \/ ~r.fits \/ (IsCandle(r) /\ Ambiguous(work.klines, r)) IN
  IF IsCandle(r)
    THEN [work EXCEPT !.failed = refused, !.klines = ObserveCandle(@, r)]
    ELSE [work EXCEPT !.failed = refused, !.sink = FoldLeft(AddRow, @, RowsOf(r))]

\* What the file holds now: a change loses its last record.
Content(i) == IF intact[i] THEN audited[i].lines ELSE Front(audited[i].lines)

\* A build that trusts the audit.
Opened(i) == i \in DOMAIN audited

Digested(i) == intact[i]

\* _process_source_file: the rows of a file, then its SHA-256.
ReadFile(b) ==
  /\ build[b] # None /\ ~build[b].ready /\ build[b].next <= Len(audited)
  /\ LET i == build[b].next
         work == FoldLeft(Keep, build[b], Content(i))
     IN SetBuild(b, IF work.failed \/ ~Digested(i) THEN None
                    ELSE [work EXCEPT !.next = @ + 1])
  /\ UNCHANGED <<audited, intact, dataset>>

WriteCandles(b) ==
  /\ build[b] # None /\ ~build[b].ready /\ build[b].next > Len(audited)
  /\ SetBuild(b, [build[b] EXCEPT !.ready = TRUE,
                    !.sink = FoldLeft(AddRow, @, CandleRows(build[b].klines))])
  /\ UNCHANGED <<audited, intact, dataset>>

\* os.replace does not replace a directory that has files.
FreeName == dataset = None

PublishDataset(b) ==
  /\ build[b] # None /\ build[b].ready
  /\ dataset' = IF FreeName THEN build[b].sink.files ELSE dataset
  /\ SetBuild(b, None) /\ UNCHANGED <<audited, intact>>

KillBuild(b) ==
  /\ build[b] # None /\ SetBuild(b, None) /\ UNCHANGED <<audited, intact, dataset>>

\* A listed file is deleted or written to after the audit.
ChangeRaw(i) ==
  /\ intact[i] /\ intact' = [intact EXCEPT ![i] = FALSE]
  /\ UNCHANGED <<audited, build, dataset>>

CanonicalNext ==
  \/ \E b \in Builders :
        \/ StartBuild(b) \/ ReadFile(b) \/ WriteCandles(b) \/ PublishDataset(b) \/ KillBuild(b)
  \/ \E i \in DOMAIN audited : ChangeRaw(i)

CanonicalSpec == CanonicalInit /\ [][CanonicalNext]_canonicalVars

-----------------------------------------------------------------------------

AuditedRecords == Records(audited)

InParts(key) ==
  LET n == Cardinality({f \in dataset : f.key = key})
  IN FlattenSeq([i \in 1 .. n |-> (CHOOSE f \in dataset : f.key = key /\ f.part = i - 1).rows])

RowsIn(r, key) == IF ~IsCandle(r) /\ Partition(r) = key THEN RowsOf(r) ELSE <<>>

InAudit(key) == FlattenSeq([n \in DOMAIN AuditedRecords |-> RowsIn(AuditedRecords[n], key)])

\* An audit that is accepted can be built, but for a field that the audit does not
\* look at and the build does (_orderbook_row, _ticker_row, _trade_rows): what both
\* judge, the revisions of a candle, the build, which meets them in the order of the
\* files again, never refuses (_CanonicalKlines.observe).
AcceptedBuilds(files) ==
  Accepted(files) /\ FoldLeft(Keep, EmptyBuild, Records(files)).failed =>
    \E r \in Range(Records(files)) : ~r.fits

Candles == {r \in Range(AuditedRecords) : IsCandle(r)}

\* A published dataset holds every audited row once, in the audited order, in the
\* parts of its own partition, and of each candle the revision received last,
\* which no other revision contradicts (build_canonical_dataset), also with two
\* builds at a time, kills, and raw files that change under a build.
DatasetFaithful ==
  dataset # None =>
    LET written == {Partition(r) : r \in Range(AuditedRecords)}
        kept == UNION {Range(InParts(f.key)) : f \in {g \in dataset : g.key[1] = "kline"}}
    IN /\ {f.key : f \in dataset} \subseteq written
       /\ \A key \in {k \in written : k[1] # "kline"} : InParts(key) = InAudit(key)
       /\ \A c \in Candles :
             /\ \E k \in kept : k.start = c.start
             /\ \A k \in kept : k.start = c.start =>
                   \/ k.received > c.received
                   \/ k.received = c.received /\ k.payload = c.payload
=============================================================================
