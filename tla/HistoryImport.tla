--------------------------- MODULE HistoryImport ---------------------------
(* The import of official history (data/bybit_history.py): a range of days, a
   staging directory per day and parameters, a download per symbol with retries,
   the day's publication by rename, and the catalog.  What one archive becomes
   is TradeBars; here a download yields an artifact or fails.  Files may rot
   between two runs. *)
EXTENDS NoValue, Integers, Sequences

CONSTANTS
  Symbols,     \* the tuple of symbols of every import
  LastDate,    \* bound: dates are 1 .. LastDate
  Parameters,  \* fingerprints of import parameters
  Importers,   \* processes that run import-history
  Attempts     \* download_attempts

Dates == 1 .. LastDate

ASSUME ImportAssumption ==
  /\ Symbols \in Seq(STRING) /\ Symbols # <<>>
  /\ LastDate \in Nat /\ Attempts \in Nat \ {0}

VARIABLES
  guard,     \* .history-import.lock: None or its owner
  staging,   \* of date and parameters: None or the staging directory
  published, \* of each date: None or the directory day=<date>
  listed,    \* catalog.json: of each date None or the parameters it names
  at,        \* "idle", "day", "mkdir", "symbol", "download", "publish", "catalog"
  task       \* what the importer works on, or None

importVars == <<guard, staging, published, listed, at, task>>

SymbolSet == {Symbols[i] : i \in DOMAIN Symbols}

\* A directory: build-parameters.json, symbol artifacts, temporary directories.
EmptyStage == [parameters |-> FALSE, artifacts |-> [s \in SymbolSet |-> "none"],
               temporary |-> FALSE]

ImportInit ==
  /\ guard = None /\ staging = [d \in Dates |-> [f \in Parameters |-> None]]
  /\ published = [d \in Dates |-> None] /\ listed = [d \in Dates |-> None]
  /\ at = [p \in Importers |-> "idle"] /\ task = [p \in Importers |-> None]

Stage(p) == staging[task[p].date][task[p].by]
SetStage(p, dir) == staging' = [staging EXCEPT ![task[p].date][task[p].by] = dir]
CurrentSymbol(p) == Symbols[task[p].next]

Move(p, place) == at' = [at EXCEPT ![p] = place]
SetTask(p, t) == task' = [task EXCEPT ![p] = t]

EndImport(p) == Move(p, "idle") /\ SetTask(p, None)
ReleaseGuard == guard' = None

-----------------------------------------------------------------------------

\* import_bybit_history_range, _history_lock.
StartImport(p) ==
  /\ at[p] = "idle" /\ guard = None /\ guard' = p
  /\ \E first, last \in Dates, f \in Parameters :
        /\ first <= last
        /\ SetTask(p, [date |-> first, last |-> last, by |-> f, next |-> 1, attempt |-> 1])
  /\ Move(p, "day") /\ UNCHANGED <<staging, published, listed>>

Kill(p) ==
  /\ at[p] # "idle" /\ EndImport(p)
  /\ UNCHANGED <<guard, staging, published, listed>>

\* The operator removes the lock of an importer that no longer runs.
RemoveGuard ==
  /\ guard # None /\ at[guard] = "idle" /\ ReleaseGuard
  /\ UNCHANGED <<staging, published, listed, at, task>>

\* Any rejected import ends the range; what is in staging stays.
FailImport(p) ==
  /\ EndImport(p) /\ ReleaseGuard /\ UNCHANGED <<published, listed>>

DiskGuard(p) ==
  /\ at[p] = "day" /\ published[task[p].date] = None
  /\ FailImport(p) /\ UNCHANGED staging

-----------------------------------------------------------------------------
\* validate_history_day, _validate_symbol_artifact: every SHA-256 anew.

Sound(dir) == \A s \in SymbolSet : dir.artifacts[s] = "sound"
ValidDay(dir, f) == dir.by = f /\ Sound(dir.content)

ReuseDay(p) ==
  LET day == published[task[p].date] IN
  /\ at[p] = "day" /\ day # None
  /\ IF ValidDay(day, task[p].by)
       THEN Move(p, "catalog") /\ UNCHANGED <<guard, published, listed, task>>
       ELSE FailImport(p)
  /\ UNCHANGED staging

\* _prepare_stage.
MakeStage(p) ==
  /\ at[p] = "day" /\ published[task[p].date] = None /\ Stage(p) = None
  /\ SetStage(p, EmptyStage) /\ Move(p, "mkdir")
  /\ UNCHANGED <<guard, published, listed, task>>

WriteParameters(p) ==
  /\ at[p] = "mkdir" /\ SetStage(p, [Stage(p) EXCEPT !.parameters = TRUE])
  /\ Move(p, "symbol") /\ UNCHANGED <<guard, published, listed, task>>

Cleaned(dir) == [dir EXCEPT !.temporary = FALSE]

ResumeStage(p) ==
  /\ at[p] = "day" /\ published[task[p].date] = None /\ Stage(p) # None
  /\ IF Stage(p).parameters
       THEN /\ SetStage(p, Cleaned(Stage(p))) /\ Move(p, "symbol")
            /\ UNCHANGED <<guard, published, listed, task>>
       ELSE FailImport(p) /\ UNCHANGED staging

\* _build_symbol.
NextSymbol(p) == SetTask(p, [task[p] EXCEPT !.next = @ + 1, !.attempt = 1])

\* A resume that trusts what it finds.
Taken(artifact) == artifact # "none"

Reusable(artifact) == artifact = "sound"

ReuseSymbol(p) ==
  /\ at[p] = "symbol" /\ task[p].next <= Len(Symbols)
  /\ LET artifact == Stage(p).artifacts[CurrentSymbol(p)] IN
     /\ artifact # "none"
     /\ IF Reusable(artifact)
          THEN NextSymbol(p) /\ UNCHANGED <<guard, published, listed, at>>
          ELSE FailImport(p)
  /\ UNCHANGED staging

Download(p) ==
  /\ at[p] = "symbol" /\ task[p].next <= Len(Symbols)
  /\ Stage(p).artifacts[CurrentSymbol(p)] = "none"
  /\ SetStage(p, [Stage(p) EXCEPT !.temporary = TRUE]) /\ Move(p, "download")
  /\ UNCHANGED <<guard, published, listed, task>>

\* os.replace of the temporary directory with bars and manifest.
CommitSymbol(p) ==
  /\ at[p] = "download"
  /\ SetStage(p, [Cleaned(Stage(p)) EXCEPT !.artifacts[CurrentSymbol(p)] = "sound"])
  /\ Move(p, "symbol") /\ NextSymbol(p) /\ UNCHANGED <<guard, published, listed>>

\* OSError or EOFError.
RetryDownload(p) ==
  /\ at[p] = "download" /\ task[p].attempt < Attempts
  /\ SetStage(p, Cleaned(Stage(p))) /\ Move(p, "symbol")
  /\ SetTask(p, [task[p] EXCEPT !.attempt = @ + 1])
  /\ UNCHANGED <<guard, published, listed>>

\* A HistoryImportError, or the last attempt.
GiveUpDownload(p) ==
  /\ at[p] = "download" /\ SetStage(p, Cleaned(Stage(p))) /\ FailImport(p)

AllSymbols(p) == task[p].next > Len(Symbols)

\* _import_day_unlocked: manifest.json, then the rename.
WriteManifestOfDay(p) ==
  /\ at[p] = "symbol" /\ AllSymbols(p) /\ Move(p, "publish")
  /\ UNCHANGED <<guard, staging, published, listed, task>>

PublishDay(p) ==
  /\ at[p] = "publish" /\ published[task[p].date] = None
  /\ published' = [published EXCEPT ![task[p].date] = [by |-> task[p].by, content |-> Stage(p)]]
  /\ SetStage(p, None) /\ Move(p, "catalog") /\ UNCHANGED <<guard, listed, task>>

\* _catalog_payload, _write_catalog.
Catalogue == [d \in Dates |-> IF published[d] = None THEN None ELSE published[d].by]

WriteCatalog(p) ==
  /\ at[p] = "catalog" /\ listed' = Catalogue
  /\ IF task[p].date = task[p].last
       THEN EndImport(p) /\ ReleaseGuard
       ELSE /\ Move(p, "day") /\ UNCHANGED guard
            /\ SetTask(p, [task[p] EXCEPT !.date = @ + 1, !.next = 1])
  /\ UNCHANGED <<staging, published>>

\* Rot between two runs.
Spoiled(dir) ==
  {[dir EXCEPT !.artifacts[s] = "spoiled"] : s \in {t \in SymbolSet : dir.artifacts[t] = "sound"}}

Rot ==
  /\ \A p \in Importers : at[p] = "idle"
  /\ \E d \in Dates :
        \/ /\ published[d] # None
           /\ \E dir \in Spoiled(published[d].content) :
                 published' = [published EXCEPT ![d].content = dir]
           /\ UNCHANGED staging
        \/ \E f \in Parameters :
              /\ staging[d][f] # None
              /\ \E dir \in Spoiled(staging[d][f]) : staging' = [staging EXCEPT ![d][f] = dir]
              /\ UNCHANGED published
  /\ UNCHANGED <<guard, listed, at, task>>

ImportStep(p) ==
  \/ StartImport(p) \/ Kill(p) \/ DiskGuard(p) \/ ReuseDay(p)
  \/ MakeStage(p) \/ WriteParameters(p) \/ ResumeStage(p)
  \/ ReuseSymbol(p) \/ Download(p) \/ CommitSymbol(p)
  \/ RetryDownload(p) \/ GiveUpDownload(p)
  \/ WriteManifestOfDay(p) \/ PublishDay(p) \/ WriteCatalog(p)

ImportNext == (\E p \in Importers : ImportStep(p)) \/ RemoveGuard \/ Rot

ImportSpec == ImportInit /\ [][ImportNext]_importVars

-----------------------------------------------------------------------------

Directories ==
  [parameters : BOOLEAN, artifacts : [SymbolSet -> {"none", "sound", "spoiled"}],
   temporary : BOOLEAN]

DayDirectories == [by : Parameters, content : Directories]

Tasks ==
  [date : Dates, last : Dates, by : Parameters,
   next : 1 .. Len(Symbols) + 1, attempt : 1 .. Attempts]

\* What is absent is neither a process nor a directory.
ASSUME AbsentAssumption == None \notin Importers /\ None \notin Directories /\ None \notin DayDirectories

\* Types of the importers' state.
ImportTypeOK ==
  /\ guard \in Importers \cup {None}
  /\ staging \in [Dates -> [Parameters -> Directories \cup {None}]]
  /\ published \in [Dates -> DayDirectories \cup {None}]
  /\ listed \in [Dates -> Parameters \cup {None}]
  /\ at \in [Importers -> {"idle", "day", "mkdir", "symbol", "download", "publish", "catalog"}]
  /\ task \in [Importers -> Tasks \cup {None}]

\* A day appears only whole: with its parameters, a verified artifact of every
\* symbol and nothing temporary, however often its import was killed, retried and
\* resumed; a day that has appeared is never replaced (PublishDay); and a catalog
\* lists only published days, under the parameters of their import (WriteCatalog).
DaysAppearWhole ==
  [][\A d \in Dates :
        /\ published[d] = None /\ published'[d] # None =>
              LET dir == published'[d].content IN
              dir.parameters /\ Sound(dir) /\ ~dir.temporary
        /\ published[d] # None => published'[d] # None /\ published'[d].by = published[d].by
        /\ listed'[d] # None => published'[d] # None /\ published'[d].by = listed'[d]
    ]_importVars

\* HISTORICAL_BOOTSTRAP.md: an unfinished day stays in staging and is continued by
\* the next run.
StagesResume ==
  guard = None =>
    \A d \in Dates, f \in Parameters : staging[d][f] # None => staging[d][f].parameters
=============================================================================
