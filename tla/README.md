# Verification of tradingbot (Bybit public data, research, Shadow Mode)

TLA+ models of the program under `src/`, the TLC runs that check them and the
TLAPS proofs about them. No model places orders, and neither does the program:
it collects public market data, archives it, builds research datasets and
simulates one position at a time.

Contents: [the system](#the-system) · [modules](#modules) · [runs](#runs) ·
[bounds](#bounds) · [fairness](#fairness) · [proofs](#proofs) ·
[findings](#findings) · [not modelled](#what-is-not-modelled) · [plan](#plan)

## The system

Paths are below `src/src/tradingbot/`. Two long-running processes (`collect` and
`shadow`, each a compose service with `restart: unless-stopped`) share the
WebSocket collector; the other commands run once, started by an operator beside
them, and meet them only in the file system.

| part | state it keeps | operations | what is hard |
|---|---|---|---|
| collection process (`cli._run_collection`, `health.py`) | bounded queue, stop event, task group, `CollectorStats` | collector sink, storage worker, health worker with disk guard, stop and shutdown wait | a stop while a frame is half queued, backpressure, a task that fails, a wait that times out |
| WebSocket collector (`market/bybit_public.py`) | the connection, the time of the last topic message, status | dial, subscribe, receive, stale watchdog, back off, redial | stale feed that still answers pings; status races |
| normalizer (`market/normalizer.py`) | one order book and one ticker per symbol, time of last emission | apply snapshot or delta, throttle, reset on connection | deltas ahead of a snapshot, restarts of the exchange, repetitions |
| raw storage (`storage/jsonl.py`) | open segment, file handle and buffer per (kind, symbol) | recover partials, write, rotate, flush, finalize, close | kills between write, flush and rename; dates around midnight |
| archive and retention (`data/archive.py`, `cli._run_retention_apply`) | `.archive.lock`, day manifests, catalog, retention plan and receipt | archive a day, rebuild the catalog, plan, apply | late files, approved plans that go stale, kills between deletions, two commands at once |
| Shadow runtime (`shadow/runtime.py`) | pending candidate, last decision, equity, rolling 24 h returns | restore, sink, poll/evaluate/select/settle, stop, finally block | restarts with an open candidate, reconnects between selection and settlement, appends that raise |
| live window (`shadow/live.py`) | rows of the current session, newest receive time | accept, trim, features, label | rows of an old session, gaps |
| journal (`shadow/journal.py`) | lock, `run.json`, day files, sequence, previous hash | lock, manifest, validate, append, close | kills and failing syncs, a clock set back, two writers |
| canonical dataset (`data/canonical.py`) | an SQLite of kline revisions, Parquet sinks, `_manifest` | build from an audit, validate, publish by rename | revisions out of order, a build that fails half way |
| audit (`data/audit.py`, `quality.py`) | per-stream counters, sequences, kline positions | audit a tree or one day, acceptance | gaps, duplicates, late revisions |
| historical import (`data/bybit_history.py`) | per-day download and bars | download, hash, aggregate, publish, resume | interrupted downloads, days that exist already |
| features and labels (`research/*builder.py`) | none (pure), then published datasets | coverage, activation, maker fills, barriers, features | boundaries of intervals, partial fills, look-ahead |
| splits, backtests, evaluation (`research/`) | none (pure), one position while a backtest runs | temporal folds with purge, one-position backtest, reports | leakage between folds, overlapping positions |
| models and contracts, scorer, configuration | none beyond files | fit, score, validate | floating point |
| datasets, evaluations, bundles on disk (`research/*builder.py`, `*evaluator.py`, `shadow/bundle.py`) | immutable directories named by what they were made from | validate the source, stage, publish by rename, reuse | builds that race, sources that grow, rot, artifacts rebuilt under their name |

How they interact: the collector calls its sink for every record of a frame; in
`collect` the sink is `queue.put`, in `shadow` it is `ShadowRuntime.sink`. The
storage worker takes records from the queue and gives them to the writer. The
health worker and the signal handlers set the stop event that every loop polls.
Archive and retention read what the writer has renamed to `*.jsonl`. Shadow Mode
reads its own journal again at each start. Audit and canonical build read completed
raw files; the builders read canonical datasets, the archive's catalog or imported
history; evaluations read datasets, a bundle is frozen from an evaluation and its
dataset, and Shadow Mode loads one bundle.

## Modules

| module | models | remarks |
|---|---|---|
| `MarketWindow` | `shadow/live.py`, coverage and activation of the label builders | variables of the window, extended by `ShadowRuntime` |
| `ShadowRuntime` | `shadow/runtime.py` | composes window, collector's sink, decision worker and journal |
| `ShadowSlot` | what `SHADOW_MODE.md` promises of the position | abstract; implemented by `ShadowRuntime` |
| `ShadowJournal` | `shadow/journal.py` | its `AppendOnly` is what lets `ShadowRuntime` treat the chain as one sequence |
| `Collection` | `cli._run_collection`, `health.py`, `bybit_public.py` | collector, queue, storage and health worker |
| `OrderBook` | `market/normalizer.py` (order book) | with the exchange and the connection as environment |
| `SegmentStore` | `storage/jsonl.py` | writer, kills, recovery |
| `RecordLog` | what readers of the raw directory rely on | abstract; implemented by `SegmentStore` |
| `Archive` | `data/archive.py`, `cli._run_retention_apply` | several commands at a time, beside the collector |
| `HistoryImport` | `data/bybit_history.py`: ranges, lock, staging, retries, publication, catalog | what one archive becomes is `TradeBars` |
| `TradeBars` | `_process_archive` of `data/bybit_history.py` | pure: trades of a day to bars |
| `Audit` | `data/audit.py`, `data/quality.py`: the pass over the records, acceptance | pure; extended by `Canonical` |
| `Canonical` | `data/canonical.py` | builds of one audit beside each other and beside changing files |
| `ExecutionLabels` | order labels of `research/execution_builder.py`, series of `builder.py` | pure |
| `Features` | feature rows and market labels of `builder.py`, daily build of `execution_builder.py` | pure; extends `ExecutionLabels` |
| `PriceResearch` | `research/price_history_builder.py` | pure; extends `TradeBars` and `ExecutionLabels` |
| `ResearchArtifacts` | publication, validation and reuse of datasets, evaluations and bundles | the chain behind Shadow Mode |
| `TemporalSplits` | `research/splits.py`, `execution_splits.py` | pure |
| `Backtest` | `research/execution_backtest.py`, `backtest.py` | pure: a fold over decisions |
| `NoValue` | Python's `None` | one constant for all modules |
| `ShadowRuntimeProofs`, `ShadowJournalProofs`, `CollectionProofs`, `PipelineProofs`, `SegmentStoreProofs`, `ArchiveProofs`, `ResearchProofs` | | proofs about the module of that name (`ResearchProofs`: `HistoryImport`, `ResearchArtifacts`, `TemporalSplits`, `Backtest`, `ExecutionLabels`, `Features`, `TradeBars` and `PriceResearch`; `PipelineProofs`: `OrderBook`, `Canonical`, `Audit` and what follows for `MCPipeline`) |
| `RecursionLemmas` | | lemmas about recursion over sequences, flattening and sums over sets, for the proofs |
| `MC*` | | constants, inputs and symmetry for TLC; `MCFiles` puts `ShadowJournal`, `SegmentStore` and `Archive` beside each other, `MCPipeline` the data and research side |

### ShadowRuntime and MarketWindow

One asyncio loop runs all tasks, so `pc` says where the loop is: `idle` when every
task awaits, `evaluate`, `cycle`, `select` inside `evaluate()`, `restore` inside the
constructor, `finally` inside the last block of `run_shadow_mode`, `down` when
there is no process. Each journal append is an action of its own because the
process may be killed after it and, with `Faults`, because it may raise.
`pending` and `last` are `_pending` and `last_decision_at_ns`; `journal` keeps
only the events the state is restored from or reported in (`selected`, `settled`,
`unresolved`, `stopped`); the other events are appends that may fail and leave no
trace. Returns add up as integers where the code multiplies `1 + return`; the
properties compare sums with sums, so only the grouping matters. Scores, prices and
probabilities are a choice among the outcomes (`CandidateSets`, `Labels`,
`Amounts`) that coverage and activation allow. The window is that of one symbol.
The session id and connection of the collector are `wire` and `dialled`; `Sink`
is the collector's call of the sink with the exception handling that turns a
failing append into a reconnect.

### ShadowJournal

A process is `closed`, checks or creates `manifest`, validates, is `open`, or has
`written` and not yet synced. A line is [sequence, previous, hash, at, bundle]; a
hash is a fresh number, which is what SHA-256 over the line gives. The clock may
be set to any value at any time; `Stamp` is the code's clamping. A line is
written whole or not at all.

### Collection

Each action takes one task from one `await` to the next. Records are numbered as
they arrive; `frame` counts those of the current frame not yet in the queue.
`Drain` empties the queue in one step because neither `get()` on a non-empty queue
nor the synchronous writer yields. `TaskFails` is an exception in the writer, with
the batch cut at any place, or in the health worker, and the cancellation that
the task group answers with. The assumption `FrameMax <= QueueMax` is a
property of the shipped configuration (`queue_maxsize` 100000), not something the
configuration enforces.

### OrderBook

The exchange's books are kept as a history indexed by sequence number, so that a
record can be compared with the book it claims to show. The connection keeps the
order of messages, may repeat one, may start with deltas, and dies at any time.
The service restart (update id 1, whole book, either message type) is what the
code's `update_id == 1` is there for.

### SegmentStore

`files` are the files in the order of their creation with complete `lines`, a
possible torn last line and the state partial/final; `buffer` is what the handle
holds back. `Flush` lets any prefix reach the file, with a torn line after it.
Finalizing is two steps (flush and close, rename), so that a kill may come between
them. A failing write ends the process, hence a `StoreCrash`.

### Archive

A raw file is `none`, `partial`, `final` or `deleted`. A command is a process with
a place: `build` (snapshot audited, canonical under construction), `catalog`,
`called` (the command has read `output_existed_before`), `checked` (the receipt was
seen not to exist), `delete`, `report` (the `except` branch of the command). The
verdict of the audit and the success of the build are choices. A kill leaves
`.archive.lock` behind; `ClearLock` is the operator removing it, which he does
only when its owner is gone. `Damage` is rot of a day's Parquet, at any time
except while a command deletes: the code verifies the archive once, at the
preflight. A scan of the raw tree is one step. The code lists completed files
first and partial ones second, so that a file renamed in between is in neither
list; for the scan it is a file that does not exist yet, and the model has that
behaviour as `CreateFile` and `FinishFile` just after the scan. Only for a file left over
from more than a day ago, which a restart of the collector would have to rename at that very moment,
the model has no such step.
The lock may be impossible to release (`Leave`): its `rmdir` raises behind the deletions,
the error replaces whatever the apply had to tell, and the command reports a rejection
where it keeps its receipt. `stuck` remembers for which output that has happened; the
promises about receipts hold up to it, and `ReceiptsDurable`, which makes no such
exception, is refuted by `archive_stuck`. An archive or catalog command whose `rmdir` fails only leaves
the directory behind.

### HistoryImport and TradeBars

An importer is at a place of `import_history`: between days (`day`), creating its staging
directory (`mkdir`), at a symbol, downloading it, publishing the day, writing the
catalog. A staging directory has the parameters file, an artifact per symbol that
is absent, sound or rotten, and perhaps temporary directories. A download may
fail as often as `Attempts` allows; an importer may be killed anywhere, and its lock
stays until the operator removes it. `TradeBars` is the pass over an archive:
second and minute bars, the longest gap before, between and behind the trades, and the
checks that reject it.

### Audit and Canonical

`Audit` is a fold over the records of the listed files in path order: order of
receipt, sessions, update ids and trade ids, candle positions, revisions and gaps. What
the audit accepts is what a build is started on. A build reads a file and then compares its
SHA-256 with the audit's (`intact` says which are still the audited ones), keeps of a
candle the revision received last, writes a part per run of rows of one partition,
and publishes by rename. The build also converts fields that the audit never looks at
(`update_id`, `matching_engine_ts_ms`, `nextFundingTime`, `tickDirection`, `seq`, `L`, `BT`, `RPI`) and
refuses a record that has one of another type: `fits` says whether a record has none. So an
accepted audit does not promise that it can be built; `AcceptedBuilds` says that such a field is
the only reason for which it cannot. `KillBuild`, `ChangeRaw` and a second builder stand beside it.

### ExecutionLabels, Features, PriceResearch

A market is a few books, tickers, candles and trades with receive times. An order
label is computed as the code does it, with indices into ordered series; the
property says what the label means in terms of the trades alone, by
quantification: what volume was ahead, when it was gone, what was touched first. Only labels of executions
leave out block and RPI trades; a market label counts every public trade. A barrier trade
that ties with the fill on every key is taken by the code for one behind it: `OutcomeHonest`
accepts that and `AMBIGUOUS` alike, and the run `label_ties` shows that the document's
rule (`TiesAreAmbiguous`) is broken. A feature row is
the record of the rows it was computed from, which is all that causality is
about. `Features` compares the day-by-day build, which reads three days by
exchange date, with one build of everything: every decision of the day in the whole recording is
compared. Its row is the same, but for an open interest change without its ticker where
that is too old, or it is lost, and lost only where the three days hold no trade up to the decision or end a
stream before it (`Silent`), although the rest of the recording goes on. `PriceResearch` composes the bars of
`TradeBars` with rows and labels of a range of days. The code finds bars by binary search in arrays
ordered by start; here a set of bars is searched by start or by the time of availability, which
is the same for bars of different starts, as those of an import are (`BarsFaithful`).

### ResearchArtifacts

Any number of research commands at once, each at a place: source loaded, source hashed
(`named`), manifest copied (`staged`), evaluating, done. An artifact has the id it
was named by, the content its manifest names and the content its files have; `Damage`
makes the two differ, `RemoveDataset` lets a build be made again, with the same
or another content, since fitted models and Parquet need not repeat bit for bit.
`learned` and `estimated` are history variables of evaluation and bundle: the rows
that the models and the estimates were computed from. `SameName` is the check of
names alone, a mutant of `SameDataset`.

### TemporalSplits and Backtest

Folds are built from decisions, label ends and classes as in the code, with
purge, embargo, test windows and the calibration window in each training part. The
backtest is a fold over groups of candidates; its property reads the report back from
the rows: slots, losses of the 24 hours before, choice of the best, and a true reason
for each decision passed over.

## Runs

| run | checks | states | shows |
|---|---|---|---|
| `shadow` | `TypeOK`, `OneOpenCandidate`, `RollingGuardHonoured`, `SettledInOneSession`, `SlotSpec` | 1 905 000 | the position with crashes, restarts, reconnects and failing appends |
| `shadow_live` | `EquityReplayable`, `SelectionsResolved` | 290 000 | with appends that succeed: every selection is resolved, equity recomputable |
| `shadow_equity` (violation) | `EquityReplayable` | | with failing appends the reported equity leaves the journal |
| `files` | `ChainIntact`, `HeadIsOnDisk`, `AppendOnly`, `StoreTypeOK`, `FinalIsComplete`, `PartitionHolds`, `FinalIsImmutable`, `LogSpec`, `TypeOK`, `DataNeverLost`, `ReceiptsAccount`, `DeletedWhileVerified`, `RecentKept`, `DeletionsStayListed` | 782 000 | journal: two processes, two bundles, kills everywhere, any clock; store: complete, immutable, correctly dated segments, and nothing on disk is lost; archive: retention deletes only archived, verified, old files and accounts for them |
| `journal_fsync` (violation) | `ChainIntact` | | an fsync that raises breaks the chain |
| `collection` | `TypeOK`, `LossIsReported`, `NothingDropped`, `FatalIsLatched`, `StopEndsTheRun`, `StaleIsNoticed`, `WrittenOrReported` | 3 900 | no silent loss, latched errors, a stop that ends |
| `collection_stop` (violation) | `QueueEmptiesAtStop` | | a graceful stop may leave records in the queue |
| `pipeline` | `BookTypeOK`, `RecordIsExchangeBook`, `RecordsAdvance`, `AcceptanceHonest`, `DatasetFaithful`, `DaysAppearWhole`, `Provenance`, `BarsFaithful`, `LabelsHonest`, `FeaturesCausal`, `NothingLeaks`, `BacktestTrue` | 1 922 000 | the data and research side: order book, audit and canonical build, import, artifact chain, and the pure algorithms over all small inputs |
| `catalog_dataset` (violation) | `PublishedIsEvaluable` | | a market dataset built from the archive catalog can never be evaluated |
| `archive_shared` (violation) | `DeletionsStayListed` | | two applies with one output lose the list of deletions |
| `archive_stuck` (violation) | `ReceiptsDurable` | | a lock that cannot be released turns a complete receipt into a rejection |
| `label_ties` (violation) | `AmbiguousWhereTied` | | a barrier trade that ties with the fill does not make the row ambiguous |

In `pipeline` and `files` a behaviour runs one system, chosen at its start (`system`), since these
systems share nothing but finished files: an interleaving of two of them would
show no state that the two alone do not have. A pure algorithm is one step from an
`input` to its result, and its property compares the result with a definition that
quantifies over the input instead of walking through it.

Each property of a passing run has a mutant in `PROJECT.json`: a definition
replaced by a plausible bug (no lock, no reset, a replay that forgets), under which
TLC finds that property violated. The mutated forms stand in the modules
before the definitions they replace.

### Refinements

`SlotSpec`: under the mapping that reads slot, used decisions and total off the
journal, every step of `ShadowRuntime` takes the slot, frees it or stutters, and
decisions take it in increasing order. `LogSpec`: files of a stream concatenated
are the log, the handle's buffer its tail; rotation, rename and recovery are
stutters or persist, a kill loses the tail only.

## Bounds

- `shadow`: 8 ticks, decisions up to tick 7, two processes, two connections. A
  selection at 1 can settle at 4 and be counted when a later decision is made, before and
  after a restart; a reconnect fits between selection and settlement. `Day`, `LossLimit`,
  `Gap`, `Warmup` and `Horizon` are one tick, so every one of these limits
  is reached and passed; `Ttl` is two, since the contract demands
  `Latency + ActivationDelay < Ttl` (`research/contracts.py:163`). `Retention` of 3 lets
  rows be trimmed.
- `shadow_live`: two decisions and three connections; `Disconnect` and `Crash` are bounded so
  that the last connection and process stay, which liveness needs.
- `files`, journal: 2 writers, 2 bundles, days of 2 ticks and a clock of 1 to 6 that jumps
  freely, 6 lines: four day files, enough for lines on both sides of a day's end.
- `collection`: queue of 3, frames of up to 3, 8 records: a frame meets a full,
  partly full and empty queue, and more than two frames pass.
- `pipeline`, order book: 2 levels, 4 books, 2 connections, 2 messages on the wire, 2
  ticks. With a third book a delta can be missed behind the reconnect; symmetric levels.
- `pipeline`, import: 2 symbols, 2 dates, 2 parameter sets, 2 importers, 2 attempts: a
  kill with one symbol done, a retry, a day under other parameters, two runs at once.
- `pipeline`, audit and canonical: every pair of a file of one line and one of two
  lines, of books, trades and candles around midnight: revisions of one candle in both
  orders, in both files, a gap, a repeated id, a record with a field that only the build
  refuses; 2 builders; each file may change at any time.
- `pipeline`, artifacts: 2 workers, 2 contents, a catalog of 1 or 2 days, one directory of
  each kind at a time: a dataset removed and built again under its name,
  with the other content, between the evaluation and the bundle; two builders of one name.
- `pipeline`, pure algorithms: up to 3 archive rows on the boundaries of seconds,
  minutes and the day; ranges of two days of three trades, with a decision at every second; up to two trades at the edges of an
  entry window of one order, both sides, with and without a session change; three
  days of a market with holes, late candles and reconnects around the day that is
  built, trades that no order meets, and streams that are silent in all three days or from one
  decision on, while the recording has earlier and later rows: decisions are lost both ways;
  every subset of seven decisions with labels of two lengths, and twelve decisions, enough for one
  fold more than `MaximumFolds` keeps, with an embargo of 1 (`config.py:251-252` refuses 0); every sequence
  of seven kinds of groups for five decisions. `PriceAssumption` and `FeaturesAssumption` keep
  horizon, history and ages within a day: the builders read the neighbouring days only. The contracts
  (`research/contracts.py:226`) do not bound them so; their defaults do, and
  the commands have no option that goes beyond it.
- `files`, store: 2 streams, 2 dates, 4 records, 3 processes: a kill in a recovery from a kill.
- `files`, archive: 4 days, retention of 1, two files on the first day and one on the next, two
  commands, two outputs. Two days make the receipt after each day matter; two
  files on a day, a kill between two deletions. Plans for any date are tried.

Deadlock is checked for `files`; its writer of segments, which has a bound on its starts, ends
in a step that changes nothing (`StoreEnds`). The other systems stop at
their bounds (time, connections, records, artifacts) or by design, after a stop; a
pure algorithm stops with its answer.

## Fairness

- `ShadowRuntime`: `_decision_worker` wakes every 0.5 s (`Poll`), its synchronous code
  runs on (`Resettle`, `Cycle`, `Select`, `Restore`, `Finally`), compose restarts the
  service (`Start`), the collector redials with a bounded backoff (`Dial`), time passes
  (`Tick`), and the exchange goes on sending books (`Sink("book")`). No fairness on
  the stop, disconnects, or crashes.
- `Collection`: every `await` has a timeout — the dial 15 s, `recv()` 1 s, `get()`
  `flush_seconds`, the backoff, the shutdown wait — or is a `put()` that resumes when
  the queue has room. `recv()` returning something or timing out is one
  fair disjunction: it is not assumed that data arrives.

## Proofs

TLAPS proves these for every value of the constants that satisfies the
modules' named assumptions (`RuntimeAssumption`, `WindowAssumption`, `JournalAssumption`,
`StoreAssumption`, `BookAssumption`, `ArchiveAssumption`, `CollectionAssumption`,
`ImportAssumption`, `AbsentAssumption`, `ArtifactsAssumption`, `SplitsAssumption`,
`CanonicalAssumption`, `LabelsAssumption`, `FeaturesAssumption`, `RowAssumption`,
`TradeBarsAssumption`, `PriceAssumption`, `BacktestAssumption`). The assumptions are positive
lengths and limits (for the splits those that `config.py:253` demands), `Latency + ActivationDelay <
Ttl`, the bounds on history and horizon that [Bounds](#bounds) explains, and that `None` and other
markers are none of the values beside which they stand (in Python, `None` is no number and no
record). TLC evaluates each of them. The theorems about the journal and the one about equity
have the hypothesis `Faults = FALSE`, those about receipts `SharedOutput = FALSE`: the runs
`journal_fsync`, `shadow_equity` and `archive_shared`, with the opposite, show what becomes of
these properties otherwise.

`RecursionLemmas`
- TLA+'s recursive functions are choices of a function that satisfies the recursion; the
  prover has no induction over an operator, so existence and uniqueness are shown with `UpTo`
  (a set of indices that has 0 and successors has all up to n: else take the least
  exception). `RecursionExists` does it once for recursions over an index,
  and the flattening lemmas give what the concatenation of a sequence of sequences does
  when one part is added, extended or emptied. `FoldExists` and `FoldLeftRuns` do it for the folds
  of the community modules, `BySize` for sets by the number of their elements. `ToldBy`
  is what the elements of a sequence tell, one after the other (the trades of its records).
  `SummedExists`, `SumsFound` and `SumsAdd` say the same of sums over a finite set: the order
  in which they are taken does not matter, and one more element adds its value.

`ShadowRuntimeProofs`
- `ControlTyped`: the control state and the journal keep their types (`ControlOK`, the
  part of `TypeOK` without the sums over sequences). One step per action; `TrySettle`,
  `Exit` and `WindowAccept` have lemmas of their own because several actions use them.
- `OneOpenCandidateHolds`: `Spec => []OneOpenCandidate`, failing appends included. The
  property alone is not inductive: what a `Select` adds depends on what the memory
  knows. `SlotInv` adds `SlotMatches`, which says for each place of the loop how
  `pending` relates to the open selections of the journal: equal while the loop is
  idle, contained in `{pending}` in the finally block (a failed append may have left
  the journal behind), arbitrary single in `down` and `restore`, empty in `select`.
- `ShadowInvariant`: `ShadowInv`, the conjunction of these parts, is inductive.
  - `OrderInv`: every decision selected so far is `Covered`: it is not
    after `last_decision_at_ns`, or every row of the window is at or after it. The second case is
    the restarted process, which knows no last decision: its features need
    rows older than the decision it takes, so that it cannot take an old one again.
  - `SessionInv`: while a candidate is pending, the window is of the session it was selected in
    (`SameSession`), or of one whose connection is gone and that has only rows as
    new as the newest one (`Superseded`). When the candidate is due, such rows are too late
    to activate its order, because `Latency + ActivationDelay < Ttl`, and it is
    given up rather than settled.
  - `MoneyInv`: the rolling return is the sum of the deque; deque and settlements of the
    journal are in the order of time; and there is a `cut` (`Kept`), at least a day
    back, such that deque and journal agree on every sum that starts at or after it,
    and no decision to come asks for an earlier one. Trimming at a restart
    and in `Cycle` moves the cut; the clock and the order of decisions keep it out of reach.
- `ShadowTyped`, `SettledInOneSessionHolds`, `RollingGuardHolds` follow from it.
- `EquityReplayableHolds`: with `EquityInv`, that memory and the last settlement on
  disk both hold the sum of the settlements, if appends do not fail.
- `SlotImplemented`: `Spec => SlotSpec`. A step under `ShadowInv` appends at most one event;
  a selection is `Slot!Take` since it is later than all before (`OrderInv`) and none is open
  (`SlotInv`), a settlement or an unresolved candidate is `Slot!Free`, and any other
  event leaves slot, used decisions and total alone.

`ShadowJournalProofs`
- `JournalInvariant`, `ChainHolds`, `HeadHolds`, `OnlyAppends`, for `Faults = FALSE`: any bundles,
  writers, day lengths and clocks, kills at every point. `JournalInv` adds to chain and head
  that whoever is past the lock holds it, that lines exist only under a manifest whose bundle
  is the writer's, and `InItsDay`: each line is in the file of its
  day and not after the last line, so that the file a line goes to is the
  last that has any and day files in order are one sequence.

`SegmentStoreProofs`
- `StoreInvariant`, `StoreTyped`, `FinalComplete`, `PartitionsHold`, `FinalNeverChanges`: `StoreInv`
  adds that the open segment of a stream is a partial file of it, behind all
  others of the stream (`Attached`), that its buffer is for the date of the segment, and
  what holds between flush and rename (`Renaming`). Each operation of the writer has a lemma
  about arbitrary files and segments, since `Write` is several of them in a row.
- `StoreIsALog`: `Spec => LogSpec`. `DiskParts` reduces what is on disk to the flattening of a
  stream's parts; the rest is which part of it each action changes.

`PipelineProofs`
- `BookInvariant`, `BookTyped`, `RecordsHold`, `RecordsGoOn`: for any prices, sizes and
  numbers of books and connections. `BookInv` says where everything stands in the exchange's
  history: the kept book is the book at its sequence number and update id (`Known`), the messages on
  the wire follow one another up to the exchange's last book (`Chained`), and the
  first of them follows the kept book (`Awaited`). This is what makes it
  sound to apply a delta without comparing it with the book it was made for.
- `DatasetIsFaithful`: for any audits (`CanonicalAssumption` gives the fields of valid records
  their types) and any number of builds. `CanonicalInv` says what a build holds after each
  file (`WorkTells`): of each partition the rows that the files so far tell, in their order, cut into
  parts, and of each candle the revision received last; a finished build has all files
  (`Finished`), and what is published is `Whole`. A file that changed since the audit ends the build,
  so that its rows are those of the audit.
- `AcceptedAuditsHold`: an accepted audit means what it says (`AcceptanceMeans`: order of receipt,
  books and trades without repetition, missing candles counted, no record in the wrong file),
  and a build of it that fails has met a field the audit never looks at (`AcceptedBuilds`): no
  revision of a candle is unplaceable for it. The pass over the
  records is a fold; its invariant `AuditTells` says of each counter what it tells of the
  records so far (`ReceivedTell`, `BooksTell`, `TradesTell`, `RevisionsTell`, `PositionTells`), as long
  as no finding that excludes acceptance was made. `GapCounted` (lemma) is the
  arithmetic of missing candles when a candle extends or fills the range.
- `PipelineBookTyped`, `PipelineDataset`, `PipelineSplits`, `PipelineBacktests`, `PipelineAcceptance`,
  `PipelineLabels`, `PipelineFeatures`, `PipelineBars`: the same of `MCPipeline`, in which one system runs and the others
  idle (`PipelineInv`), after showing that its inputs are what the theorems ask for.

`ArchiveProofs`
- `ArchiveTyped`: `Spec => []TypeOK`.
- `DataNeverLostHolds`, `DeletedWhileVerifiedHolds`, `RecentKeptHolds`: for any number of
  files, days, commands and outputs, shared outputs included. The invariant
  `ArchiveInv` adds `DeletesApproved`: a command that deletes holds a plan whose date is
  not ahead of the clock, whose files are old, archived and of undamaged
  days. `PreflightApproves` establishes it, `KeptStays` (a committed manifest is never
  replaced by another), and the growing clock preserve it; `DeletedFromPlan` says
  that a file a step deletes is in the plan of such a command. The lock is not needed
  for these three: immutable manifests carry the argument.
- `ReceiptsAccountHolds`, `DeletionsStayListedHolds`, for `SharedOutput = FALSE`: `ReceiptInv` adds
  `OneCommand` (one command per output) and `Account`, which says for each place of
  the command what its receipt lists of what it has deleted; `report`, where a receipt that
  was there before is left alone, is the place that needs `OneCommand`. Both theorems speak of an
  output until a command with it could not release its lock (`stuck`); that a receipt lists nothing
  that was not deleted, and that a complete one lists everything, holds behind that too.

`CollectionProofs`
- `CollectionTypeHolds`, `NothingDroppedHolds`, `LossIsReportedHolds`, `FatalIsLatchedHolds`: for
  every capacity, frame size and number of records. `LossIsReported` speaks of the end
  only; `CollectionInv` adds that what is written, queued and held is what came in
  (`NothingDropped`), and `EndsEmpty`: without a fatal error, a collector that has ended
  holds nothing and a health worker that has ended has seen collector and queue
  empty — the storage worker, which may return first, is not needed. `PutHolds` is the put of
  as many records as fit, shared by a new frame and a put that goes on; `NumberedOn`
  and `Following` are the sequence facts under it.

`ResearchProofs`
- `ImportTyped`, `DaysAppearWholeHolds`: for any symbols, dates, parameters, importers and
  attempts. A day is published from what its importer believes of its staging
  directory, so the property is not inductive; `ImportInv` adds `Progress(p)`: an
  importer that is not idle owns the lock, and its directory exists, has its
  parameters, sound artifacts of all symbols it has passed, and
  nothing temporary outside a download. `CatalogTrue` adds that the catalog lists
  published days. `OthersIdle` draws from `Progress` that only the lock's owner
  moves; rot happens between runs only, so that the belief stays true. `AbsentAssumption` says
  that `None` is neither an importer nor a directory.
- `ProvenanceHolds`: for any workers, contents and bounds. `ArtifactsInv` adds types,
  `ReadBeforeHashed` (the version a command read is at most the one it hashes: the catalog
  only grows) and `LearnedFromNamed`: a dataset an evaluation has taken
  is unharmed, and the rows an evaluation learned from are those its own name
  has. Then a bundle, which demands an undamaged dataset of that name and output,
  estimates from the same rows. `WorkStep` is the step of one worker that leaves
  the directories alone; the three `Damaged...` lemmas say that damage changes
  neither names nor origins.
- `SplitsPurged`: `Purged(rows, Splits(rows))` for any finite set of rows with times from the
  epoch on, which is what `NothingLeaks` says of the instance. There is no behaviour
  to induct over; the lemmas are about sets of numbers: they have extremes and an element of
  each rank (so that `SeventyPercent` is a decision), test windows stand on a `Grid`, and
  `WindowBetween` finds by `UpTo` the window of a decision between two of them.
- `ReplayHonest`: `BacktestHonest(rows)` for any predicted rows (`Replayed`: finite, groups of one
  candidate per symbol and side, exits behind their decisions). The replay is a fold over the decisions;
  `SoFar` says what its report tells after those before a decision: attempts do not overlap (`Orderly`),
  are the best of their groups (`ChosenWell`), what is passed over is passed over for its reason (`PassedTruly`),
  and deque and running sum hold the returns of the attempts whose exits are not before the day
  that the last decision looked back (`LedgerAt`). Exits come in the order of attempts, which is why
  popping the deque from its head forgets nothing too early. `BySize` carries it from each decision to the next.
- `LabelsTold`: `LabelHonest` for any decision, side, price and sizes in any market as it is read
  (`MarketRead`: books in the order of receipt and never two at one instant, typed trades; nothing is
  assumed of the order of the trades). The code works with indices into sorted series, the property
  quantifies over trades. `PlacesTaken` and `OrderedSorts` say that the series has every trade once,
  in the order of receipt; `FillTells`, the invariant of the fold over it, that queue and fill are what the
  volume of the trades so far leaves (`VolumeAdds`); `BarrierTells`, that the earliest touch decides and
  that no two touches tie; `SessionHolds`, that no session ends within two windows that
  overlap, which is why a filled order and its outcome are of one session.
- `FeaturesKeepTime`: `FeaturesHonest` for the streams of any symbol and anchor as they are recorded
  (`Recording`: books in the order of receipt, one candle per minute that comes with or after its close and
  within a day of its start, no stream empty; in the horizon and the windows only `FeaturesAssumption`).
  A row depends on bounded searches: the newest book and ticker, the candles and trades
  of a window. `WithinPicks` and `WithinStretch` say that a part of a stream keeps its rows in
  their order, and of an ordered one a stretch; `NewestInPart` that the newest row of a part is that of all
  unless it is too old for both; `DaysAreWide` that three days by the exchange's date hold
  all that a decision of the middle one looks at, the row before its window included, so
  that `SessionInPart` sees the same reconnects. For the labels, `LaterSeries` shows that the series of the trades
  behind a decision is the end of the whole one (both sort the same rows), and
  `BarrierShifts` that a search that begins there finds the same trade. For the build day by day,
  `GridOfPart` says that the three days give a part of the decisions of the whole recording,
  `LostInPart` that a decision they do not give is one with a silent stream (an ordered stream without such
  silence has rows on both sides of the decision, `GridIsReached`), and `DaysAgree` that the others have
  the same row (`SameRow`).
- `ImportIsFaithful`: `ImportFaithful(rows, Import(rows))` for any rows of an archive whose fields have their
  types (`Tabled`; nothing is assumed of their order, their ids or the day they are of). The pass is a
  fold; `PassTells` says after each row: either a row so far had to be rejected (`Arranged` is false), or
  second and minute bars tell the rows so far by their places (`BarsTell`, `BarTells`) and the longest gap
  is the longest run of minutes without a trade (`GapsTell`). That order makes each interval
  a stretch of places is what lets a bar be extended at its end only. `TotalAdds` is the sum over a
  set with one more element, for turnover and flow.
- `PriceIsHonest`: `PriceHonest(days)` for any number of days of such rows. A day's bar is what the tape
  of all days has in the bar's interval (`DayBarTells`, `Reckoned`), so that nothing depends on the file in which a
  bar stands. `PriceOfTape`: the latest bar available at the decision closes with the last trade
  that is known then, or the row is refused for its age. `HorizonNearby` draws from
  `PriceAssumption` that the day and its two neighbours hold what a label may look at.
  `LabelOfTape`: the earliest bar with a touch holds the first trades at a barrier, and has both
  touches only if those trades of one second have.

Only model-checked: liveness (`SelectionsResolved`, `StopEndsTheRun`, `StaleIsNoticed`,
`WrittenOrReported`), which the prover has no rules for. Every invariant and action property of
the passing runs is stated by a theorem.

## Findings

1. `shadow_equity` — `_try_settle` (`shadow/runtime.py:420`) changes equity before the append
   of `candidate_settled`; if it raises, the candidate is journalled with a return of zero
   while `run_stopped` reports an equity that contains its return.
2. `journal_fsync` — an `os.fsync` that raises after the write (`shadow/journal.py:229`)
   leaves the writer's memory one line behind the file; the next append makes the
   chain invalid for every later start of the run.
3. `collection_stop` — the storage worker may return (`cli.py:491`) before the
   collector's last frame is queued; the run then ends with a fatal error (so nothing is
   lost in silence: `LossIsReported` holds), although `SOAK_TEST.md:55` promises an empty
   queue.
4. `archive_shared` — two `apply-retention` commands with one `--output`: the rejected one
   decided before the call that the output did not exist (`cli.py:1237`) and
   overwrites the other's receipt with a report without deletions. With
   outputs of their own, and locks that are released, receipts account for every deletion (`files`).
5. `catalog_dataset` — `build-research --catalog` copies the archive catalog as source
   manifest (`research/builder.py:1688`), which has neither of the two names that
   `validate_research_dataset` compares (`research/evaluation_dataset.py:182`): such
   a dataset is published, and `run-backtest` refuses every one of them, although
   `README.md:245` and `README.md:285` of the repository describe this path.
6. `archive_stuck` — the lock's `rmdir` fails behind a complete apply
   (`data/archive.py:381-385`); its `ArchiveError` has no details, so that the command
   (`cli.py:1251-1267`) replaces the receipt of all deletions by a report "rejected" with
   `deletion_performed` false, although `DAILY_ARCHIVE.md:171-172` promises a receipt with
   the full list.
7. `label_ties` — the search for the barrier starts at the index behind the trade of the fill
   (`research/execution_builder.py:637`), so that a trade with the same keys at a barrier gives
   `TP_FIRST` or `SL_FIRST` by the order of the file, where `EXECUTION_RESEARCH.md:83-85` says
   `AMBIGUOUS`.

Met while modelling and stated, without a run of their own: `StagesResume`
(`HistoryImport`): a kill between `mkdir` and the parameters file leaves a staging
directory that later imports refuse, where `HISTORICAL_BOOTSTRAP.md:54` says an
unfinished day is continued.

## What is not modelled

- Models, scorer, contracts: floating-point arithmetic without state that evolves;
  Shadow Mode sees its results as a choice, evaluations as contents.
- Metrics, diagnostics and reports of evaluations; the formulas of features (what a
  row reads is modelled, not what it computes from that).
- Statistics and the shape checks of single fields in the audit.
- Configuration: one parse at start; its limits appear as assumptions.
- Latency statistics, heartbeat pings, log lines, wording of reports.
- Short writes of the unbuffered journal, loss of a whole machine (data not
  synced), a second collector on one data root: outside what the code defends against.
- Asks, several symbols and prices in `OrderBook`, `MarketWindow`: the code treats
  the parts alike and independently, except for the BTC features and the choice of the best
  candidate, which are choices here.
- The ticker's merge of partial messages; trades and candles, which the normalizer
  passes through.
- By design rather than by hazard: a file finished after its day was committed blocks
  later retention plans until an operator looks at it, and a delta lost inside a
  connection is not noticed, since update ids need not be contiguous.

## Plan

Modelled, in this order: the position (`ShadowRuntime`), the data it and all research
rest on (`ShadowJournal`, `Collection`, `SegmentStore`, `Archive`, `OrderBook`), the
import, audit and canonical build, the artifact chain, and the pure algorithms of
the research side. Left:

1. The ticker in `OrderBook`.
2. A composition of `Collection` with `SegmentStore`: records written or reported lost,
   down to the final file.
3. A second writer on one data root, a short write of the journal: once the code
   says what it means to do about them.
